-------------------------- MODULE EngineDurability --------------------------
(***************************************************************************)
(* The write path of a standalone durable engine: write-ahead log,         *)
(* memtable, base segments, and the manifest whose rename is the commit.   *)
(* Every disk operation is a step of its own, so a crash, a power loss or  *)
(* an I/O error can fall between any two of them, and recovery reads       *)
(* whatever they left.                                                     *)
(*                                                                         *)
(* Rows are identified by the write that made them.  Where a row sits in   *)
(* its segment, which file holds it and the source sidecar are left out: a *)
(* segment list is the set of its rows.                                    *)
(***************************************************************************)
EXTENDS Naturals, FiniteSets

CONSTANTS Ids,                \* logical ids
          MaxWrites,          \* bound on the writes callers attempt
          FlushThreshold,     \* config.memtable_flush_threshold
          SyncOnWrite,        \* config.wal_sync_on_write
          AppendSyncMayFail   \* whether the sync of an appended record can fail

ASSUME IdsAssumption == Ids # {}
ASSUME BoundsAssumption == MaxWrites \in Nat /\ FlushThreshold \in Nat \ {0}
ASSUME SyncAssumption == SyncOnWrite \in BOOLEAN /\ AppendSyncMayFail \in BOOLEAN

VARIABLES
  \* in the process
  mem,         \* rows of the memtable, tombstoned ones included
  unc,         \* rows of base segments the last commit does not list
  seg,         \* rows of the base segments it lists
  dead,        \* rows tombstoned since their segment was written
  sealed,      \* sealed_through: the log up to here is out of the memtable
  nextSeq,     \* Wal::next_seq
  appendable,  \* the log handle takes appends
  awaits,      \* ManifestOnDisk::RenamedNotSynced
  healthy,     \* persistence_healthy: no write to disk has failed
  pc, job,     \* the step the writer is at, and the commit it is making
  wrote,       \* the log record being applied
  batch,       \* the bulk load being made, or whose manifest is in doubt
  taken,       \* the memtable taken by a seal that can be undone
  \* on disk
  log,         \* the write-ahead log
  oldLogs,     \* logs a power loss may bring back in its place
  man,         \* the manifest a restart reads
  oldMans,     \* manifests a power loss may bring back in its place
  \* for the properties only: the number of writes attempted, and the
  \* records whose append failed with the whole frame in the file
  writes, doubted

ram == <<mem, unc, seg, dead, sealed, nextSeq, appendable, awaits, healthy>>
ctl == <<pc, job, wrote, batch, taken>>
disk == <<log, oldLogs, man, oldMans>>
aux == <<writes, doubted>>
vars == <<ram, ctl, disk, aux>>

(***************************************************************************)
(* Values.                                                                 *)
(***************************************************************************)
Row == [id : Ids, w : Nat]
Ops == {"insert", "upsert", "delete", "tombstone"}

(* A record of the log.  A delete carries only the id of its row.           *)
Record == [seq : Nat, op : Ops, row : Row]

(* The log file: its mutations, the last flush checkpoint, its last record. *)
Log == [recs : SUBSET Record, ckpt : Nat, last : Nat]
EmptyLog == [recs |-> {}, ckpt |-> 0, last |-> 0]

(* The manifest: the live rows of the segments it names (file contents less *)
(* the tombstone bitmaps), wal_seq_watermark and wal_sealed_through.        *)
Manifest == [rows : SUBSET Row, wm : Nat, sealed : Nat]
NoManifest == [rows |-> {}, wm |-> 0, sealed |-> 0]

NoRecord == [seq |-> 0, op |-> "delete", row |-> [id |-> CHOOSE i \in Ids : TRUE, w |-> 0]]
NothingTaken == [rows |-> {}, sealed |-> 0]

Max2(a, b) == IF a > b THEN a ELSE b

(***************************************************************************)
(* Recovery, as a function of what is on disk.                             *)
(***************************************************************************)
(* Mutant: the position the manifest sealed through is not consulted.       *)
LogTailFromCheckpoint(l, s) == {f \in l.recs : f.seq > l.ckpt}

(* What Wal::recover returns and replay does not skip: records after the    *)
(* last checkpoint and above the position the manifest sealed through.      *)
LogTail(l, s) == {f \in l.recs : f.seq > l.ckpt /\ f.seq > s}

(* Mutant: an upsert's delete half is forgotten at replay and when applied. *)
KillsByDeleteOnly(f, r) == \/ f.op = "delete" /\ f.row.id = r.id
                           \/ f.op = "tombstone" /\ f.row = r

(* Whether the record takes the row away.                                   *)
Kills(f, r) == \/ f.op \in {"upsert", "delete"} /\ f.row.id = r.id /\ f.row # r
               \/ f.op = "tombstone" /\ f.row = r

Adds(f) == f.op \in {"insert", "upsert"}

(* The memtable that replaying the records R builds: every row they add,    *)
(* and of those the ones that no later record takes away.                   *)
ReplayedRows(R) == {f.row : f \in {g \in R : Adds(g)}}
ReplayedLive(R) ==
  {f.row : f \in {g \in R : Adds(g) /\ \A h \in R : h.seq > g.seq => ~Kills(h, g.row)}}

(* Segment rows, less what records above the watermark took away: those at  *)
(* or below it are in the manifest's bitmaps already.                       *)
CommittedLive(m, R) == {r \in m.rows : \A f \in R : f.seq > m.wm => ~Kills(f, r)}

RecoveredFrom(m, R) == CommittedLive(m, R) \cup ReplayedLive(R)
Recovered(m, l) == RecoveredFrom(m, LogTail(l, m.sealed))

(* What a restart may find: a power loss may undo a rename that no sync of  *)
(* the directory followed.                                                  *)
Mans == {man} \cup oldMans
Logs == {log} \cup oldLogs
Outcomes == {Recovered(m, l) : m \in Mans, l \in Logs}

(***************************************************************************)
(* Mutations.  Each is one record, appended before anything is applied.    *)
(***************************************************************************)
NewRow(i) == [id |-> i, w |-> writes + 1]
LastSeq == nextSeq - 1

(* The record a mutation logs.  A memtable position is an address only      *)
(* while every base segment is committed, a segment address only for a live *)
(* row of a committed segment.                                              *)
Mutation(f) ==
  /\ f.seq = nextSeq
  /\ \/ f.op \in {"insert", "upsert"} /\ \E i \in Ids : f.row = NewRow(i)
     \/ f.op = "delete" /\ \E i \in Ids : f.row = [id |-> i, w |-> 0]
     \/ f.op = "tombstone" /\ f.row \in mem /\ unc = {}
     \/ f.op = "tombstone" /\ f.row \in seg \ dead

(* A frame written whole, and synced when the log is synced on write.       *)
Appended(f) == [recs |-> log.recs \cup {f}, ckpt |-> log.ckpt, last |-> f.seq]

(* LogAppender::append_at: refused on a handle that failed before, written  *)
(* whole, or failed.  A failed write leaves at most a torn frame, which the *)
(* next open cuts off; a failed sync leaves the frame in the file.  Either  *)
(* disables the handle.  The sequence number is taken in every case.        *)
AppendOutcome(f, ok) ==
  \/ ok /\ appendable /\ log' = Appended(f) /\ UNCHANGED <<appendable, doubted>>
  \/ ~ok /\ UNCHANGED <<log, doubted>> /\ appendable' = FALSE
  \/ ~ok /\ appendable /\ SyncOnWrite /\ AppendSyncMayFail
     /\ log' = Appended(f) /\ appendable' = FALSE /\ doubted' = doubted \cup {f}

AppendRecord(f) ==
  /\ pc = "idle" /\ writes < MaxWrites
  /\ Mutation(f)
  /\ writes' = writes + 1 /\ nextSeq' = nextSeq + 1
  /\ \E ok \in BOOLEAN :
       /\ AppendOutcome(f, ok)
       /\ IF ok THEN pc' = "apply" /\ wrote' = f ELSE UNCHANGED <<pc, wrote>>
  /\ UNCHANGED <<mem, unc, seg, dead, sealed, awaits, healthy, job, batch, taken,
                 oldLogs, man, oldMans>>

Stored == mem \cup unc \cup seg
Full(m) == Cardinality(m) >= FlushThreshold

(* The memtable takes the new row and every live copy the record takes away *)
(* is tombstoned, wherever it is; maybe_flush follows an added row.         *)
Apply ==
  /\ pc = "apply"
  /\ mem' = IF Adds(wrote) THEN mem \cup {wrote.row} ELSE mem
  /\ dead' = dead \cup {r \in Stored : Kills(wrote, r)}
  /\ pc' = IF Adds(wrote) /\ Full(mem') THEN "seal" ELSE "idle"
  /\ wrote' = NoRecord
  /\ UNCHANGED <<unc, seg, sealed, nextSeq, appendable, awaits, healthy, job,
                 batch, taken, disk, aux>>

(* take_memtable and seal_and_push: the memtable becomes a base segment, in *)
(* a file or, when that cannot be written, in memory with its rows still in *)
(* the log.  Only a segment in a file is committed now.                     *)
SealMemtable(persisted) ==
  /\ pc \in {"idle", "seal"} /\ mem # {}
  /\ persisted => ~awaits
  /\ unc' = unc \cup mem /\ mem' = {} /\ sealed' = LastSeq
  /\ pc' = (IF persisted THEN "rename" ELSE "policy")
  /\ job' = (IF persisted THEN "flush" ELSE "none")
  /\ healthy' = (healthy /\ persisted)
  /\ UNCHANGED <<seg, dead, nextSeq, appendable, awaits, wrote, batch, taken,
                 disk, aux>>

(* Nothing to seal, and an earlier flush that was not committed: commit it. *)
FlushLeftover ==
  /\ pc = "idle" /\ mem = {} /\ unc # {} /\ ~awaits
  /\ pc' = "rename" /\ job' = "flush"
  /\ UNCHANGED <<ram, wrote, batch, taken, disk, aux>>

(***************************************************************************)
(* Commits.                                                                *)
(***************************************************************************)
(* A merge, a reseal or a recompile replaces base segments by a rewritten   *)
(* copy of their live rows; what it commits is the same set of rows.        *)
Merge ==
  /\ pc \in {"idle", "policy"} /\ unc \cup seg # {} /\ ~awaits
  /\ pc' = "rename" /\ job' = "merge"
  /\ UNCHANGED <<ram, wrote, batch, taken, disk, aux>>

(* maybe_compact after a flush or a bulk load finds nothing to merge.       *)
NoMerge ==
  /\ pc = "policy"
  /\ pc' = "idle" /\ job' = "none"
  /\ UNCHANGED <<ram, wrote, batch, taken, disk, aux>>

(* commit_feature_model: the registry as it is under a new vocabulary.      *)
CommitFeatureModel ==
  /\ pc = "idle" /\ healthy /\ unc = {} /\ ~awaits
  /\ pc' = "rename" /\ job' = "vocab"
  /\ UNCHANGED <<ram, wrote, batch, taken, disk, aux>>

(* A bulk load, its segment written.  It does not go through the log.       *)
Bulk(ids) ==
  /\ pc = "idle" /\ ~awaits /\ writes < MaxWrites
  /\ batch' = {NewRow(i) : i \in ids} /\ writes' = writes + 1
  /\ pc' = "rename" /\ job' = "bulk"
  /\ UNCHANGED <<ram, wrote, taken, disk, doubted>>

(* A bulk load before the top-64 mask exists first seals the memtable, from *)
(* a copy, so that it can be put back.  With an empty memtable it commits   *)
(* what an earlier flush left.                                              *)
BulkBeforeFirstMask(ids) ==
  /\ pc = "idle" /\ ~awaits /\ writes < MaxWrites
  /\ mem \cup unc # {}
  /\ batch' = {NewRow(i) : i \in ids} /\ writes' = writes + 1
  /\ taken' = [rows |-> mem, sealed |-> sealed]
  /\ unc' = unc \cup mem /\ mem' = {}
  /\ sealed' = IF mem # {} THEN LastSeq ELSE sealed
  /\ pc' = "rename" /\ job' = "first_mask"
  /\ UNCHANGED <<seg, dead, nextSeq, appendable, awaits, healthy, wrote, disk,
                 doubted>>

(* Mutant: a commit that does not seal records the log as sealed.           *)
NewManifestSealsAll ==
  [rows |-> (seg \cup unc \cup (IF job = "bulk" THEN batch ELSE {})) \ dead,
   wm |-> LastSeq, sealed |-> LastSeq]

(* write_manifest_capturing: every base segment is on disk by now, so the   *)
(* manifest names them all.  A vocabulary commit keeps the last watermark.  *)
NewManifest ==
  [rows |-> (seg \cup unc \cup (IF job = "bulk" THEN batch ELSE {})) \ dead,
   wm |-> IF job = "vocab" THEN man.wm ELSE LastSeq,
   sealed |-> sealed]

(* The commit failed before its rename, or was not synced after it.  A      *)
(* flush leaves its segment uncommitted; the rest put their state back.     *)
CommitFailed(inDoubt) ==
  /\ pc' = IF job = "flush" THEN "policy" ELSE "idle"
  /\ job' = "none"
  /\ healthy' = FALSE
  /\ batch' = IF inDoubt THEN batch ELSE {}
  /\ taken' = NothingTaken
  /\ IF job = "first_mask"
       THEN mem' = taken.rows /\ unc' = unc \ taken.rows /\ sealed' = taken.sealed
       ELSE UNCHANGED <<mem, unc, sealed>>

CommitFails ==
  /\ pc = "rename"
  /\ CommitFailed(FALSE)
  /\ UNCHANGED <<seg, dead, nextSeq, appendable, awaits, wrote, disk, aux>>

Rename ==
  /\ pc = "rename" /\ ~awaits
  /\ man' = NewManifest /\ oldMans' = {man}
  /\ pc' = "sync"
  /\ UNCHANGED <<ram, job, wrote, batch, taken, log, oldLogs, aux>>

(* The directory is synced: the manifest, and a log renamed before it, are  *)
(* what a power loss leaves.                                                *)
CommitSynced ==
  /\ pc = "sync"
  /\ oldMans' = {} /\ oldLogs' = {}
  /\ seg' = seg \cup unc \cup (IF job = "bulk" THEN batch ELSE {})
  /\ unc' = {}
  /\ pc' = CASE job \in {"flush", "first_mask"} -> "checkpoint"
             [] job = "bulk" -> "policy"
             [] OTHER -> "idle"
  /\ job' = IF job \in {"flush", "first_mask"} THEN job ELSE "none"
  /\ batch' = IF job = "first_mask" THEN batch ELSE {}
  /\ taken' = NothingTaken
  /\ UNCHANGED <<mem, dead, sealed, nextSeq, appendable, awaits, healthy, wrote,
                 log, man, aux>>

(* It could not be synced: which manifest a power loss leaves is not known. *)
(* The log is closed and nothing is written until a restart.                *)
CommitNotSynced ==
  /\ pc = "sync"
  /\ awaits' = TRUE /\ appendable' = FALSE
  /\ CommitFailed(job = "bulk")
  /\ UNCHANGED <<seg, dead, nextSeq, wrote, disk, aux>>

(***************************************************************************)
(* After a committed seal: the checkpoint record, then an empty log.       *)
(***************************************************************************)
Checkpoint ==
  /\ pc = "checkpoint"
  /\ nextSeq' = nextSeq + 1
  /\ \/ /\ appendable
        /\ log' = [recs |-> log.recs, ckpt |-> nextSeq, last |-> nextSeq]
        /\ appendable' \in BOOLEAN   \* FALSE: written, and its sync failed
     \/ UNCHANGED log /\ appendable' = FALSE
  /\ pc' = "reset"
  /\ UNCHANGED <<mem, unc, seg, dead, sealed, awaits, healthy, job, wrote,
                 batch, taken, oldLogs, man, oldMans, aux>>

(* The seal is done.  A flush goes on to the compaction policy; a bulk load *)
(* that sealed first goes on to write its segment and commit it, or fails.  *)
AfterSeal ==
  \/ job = "flush" /\ pc' = "policy" /\ job' = "none" /\ UNCHANGED <<batch, healthy>>
  \/ job = "first_mask" /\ pc' = "rename" /\ job' = "bulk" /\ UNCHANGED <<batch, healthy>>
  \/ job = "first_mask" /\ pc' = "idle" /\ job' = "none" /\ batch' = {} /\ healthy' = FALSE

(* Wal::reset before its rename takes effect: the empty log could not be    *)
(* written beside the old one, or the rename failed on a disabled handle.   *)
ResetFails ==
  /\ pc = "reset"
  /\ appendable' \in {appendable, FALSE}
  /\ AfterSeal
  /\ UNCHANGED <<mem, unc, seg, dead, sealed, nextSeq, awaits, wrote, taken,
                 disk, aux>>

ResetRename ==
  /\ pc = "reset"
  /\ log' = EmptyLog /\ oldLogs' = oldLogs \cup {log}
  /\ appendable' = FALSE
  /\ pc' = "reset_sync"
  /\ UNCHANGED <<mem, unc, seg, dead, sealed, nextSeq, awaits, healthy, job,
                 wrote, batch, taken, man, oldMans, aux>>

(* The directory sync after the rename fails, or it succeeds and the new    *)
(* log is opened, or that open fails.  Only an opened log takes appends.    *)
ResetSync ==
  /\ pc = "reset_sync"
  /\ \/ UNCHANGED <<oldLogs, appendable>>
     \/ oldLogs' = {} /\ appendable' \in BOOLEAN
  /\ AfterSeal
  /\ UNCHANGED <<mem, unc, seg, dead, sealed, nextSeq, awaits, wrote, taken,
                 log, man, oldMans, aux>>

(***************************************************************************)
(* Crash, power loss and recovery.                                         *)
(***************************************************************************)
Gone ==
  /\ mem' = {} /\ unc' = {} /\ seg' = {} /\ dead' = {}
  /\ sealed' = 0 /\ nextSeq' = 1 /\ appendable' = FALSE /\ awaits' = FALSE
  /\ healthy' = TRUE
  /\ pc' = "down" /\ job' = "none" /\ wrote' = NoRecord /\ batch' = {}
  /\ taken' = NothingTaken /\ doubted' = {} /\ UNCHANGED writes

Crash == pc # "down" /\ Gone /\ UNCHANGED disk

(* Records are on disk when they were acknowledged only if the log is       *)
(* synced on write, so the promise covers a power loss only then.           *)
PowerLoss ==
  /\ SyncOnWrite
  /\ Gone
  /\ man' \in Mans /\ oldMans' = {}
  /\ log' \in Logs /\ oldLogs' = {}

(* Mutant: publishing the manifest again also resets the log, unreplayed.   *)
RepublishResetsLog ==
  /\ pc = "down"
  /\ oldMans' = {} /\ oldLogs' = {} /\ log' = EmptyLog
  /\ pc' = "open"
  /\ UNCHANGED <<ram, job, wrote, batch, taken, man, aux>>

(* The manifest a restart finds is published again, directory sync and all, *)
(* before anything is built on it.                                          *)
Republish ==
  /\ pc = "down"
  /\ oldMans' = {} /\ oldLogs' = {}
  /\ pc' = "open"
  /\ UNCHANGED <<ram, job, wrote, batch, taken, log, man, aux>>

Open ==
  /\ pc = "open"
  /\ seg' = man.rows /\ unc' = {}
  /\ mem' = ReplayedRows(LogTail(log, man.sealed))
  /\ dead' = (seg' \cup mem') \ Recovered(man, log)
  /\ sealed' = man.sealed
  /\ nextSeq' = Max2(log.last, Max2(man.wm, man.sealed)) + 1
  /\ appendable' = TRUE /\ UNCHANGED <<awaits, healthy>>
  /\ pc' = "idle"
  /\ UNCHANGED <<job, wrote, batch, taken, disk, aux>>

Init ==
  /\ mem = {} /\ unc = {} /\ seg = {} /\ dead = {}
  /\ sealed = 0 /\ nextSeq = 1 /\ appendable = TRUE /\ awaits = FALSE
  /\ healthy = TRUE
  /\ pc = "idle" /\ job = "none" /\ wrote = NoRecord /\ batch = {}
  /\ taken = NothingTaken
  /\ log = EmptyLog /\ oldLogs = {} /\ man = NoManifest /\ oldMans = {}
  /\ writes = 0 /\ doubted = {}

(* The records a mutation could log now.                                    *)
Candidates ==
  [seq : {nextSeq}, op : Ops,
   row : {NewRow(i) : i \in Ids} \cup [id : Ids, w : {0}] \cup mem \cup seg]

Next ==
  \/ \E f \in Candidates : AppendRecord(f)
  \/ Apply
  \/ \E persisted \in BOOLEAN : SealMemtable(persisted)
  \/ FlushLeftover
  \/ Merge \/ NoMerge \/ CommitFeatureModel
  \/ \E ids \in (SUBSET Ids) \ {{}} : Bulk(ids) \/ BulkBeforeFirstMask(ids)
  \/ CommitFails \/ Rename \/ CommitSynced \/ CommitNotSynced
  \/ Checkpoint \/ ResetFails \/ ResetRename \/ ResetSync
  \/ Crash \/ PowerLoss \/ Republish \/ Open

Spec == Init /\ [][Next]_vars

(***************************************************************************)
(* Properties.                                                             *)
(***************************************************************************)
Up == pc \notin {"down", "open"}

(* The rows the running engine serves.                                      *)
Live == IF Up THEN Stored \ dead ELSE {}

(* Every variable stays within its type.                                    *)
TypeOK ==
  /\ mem \subseteq Row /\ unc \subseteq Row /\ seg \subseteq Row
  /\ dead \subseteq Row /\ batch \subseteq Row
  /\ sealed \in Nat /\ nextSeq \in Nat \ {0} /\ writes \in Nat
  /\ doubted \subseteq Record
  /\ appendable \in BOOLEAN /\ awaits \in BOOLEAN /\ healthy \in BOOLEAN
  /\ pc \in {"idle", "apply", "seal", "rename", "sync", "policy", "checkpoint",
             "reset", "reset_sync", "down", "open"}
  /\ job \in {"none", "flush", "merge", "vocab", "bulk", "first_mask"}
  /\ wrote \in Record
  /\ taken \in [rows : SUBSET Row, sealed : Nat]
  /\ log \in Log /\ oldLogs \subseteq Log
  /\ man \in Manifest /\ oldMans \subseteq Manifest

(* What a write asks of the set of stored rows.                             *)
EffectOf(f) ==
  [ids |-> IF f.op \in {"upsert", "delete"} THEN {f.row.id} ELSE {},
   gone |-> IF f.op = "tombstone" THEN {f.row} ELSE {},
   add |-> IF Adds(f) THEN {f.row} ELSE {}]
BulkWrite(b) == [ids |-> {}, gone |-> {}, add |-> b]
AllRows == [id : Ids, w : 1..MaxWrites]
Batches == {{[id |-> i, w |-> n] : i \in S} : S \in (SUBSET Ids) \ {{}}, n \in 1..MaxWrites}
Writes ==
  {EffectOf([seq |-> 0, op |-> o, row |-> r]) : o \in Ops, r \in AllRows}
  \cup {BulkWrite(b) : b \in Batches}

(* The engine keeps the promise of DurableStore, reading "what a restart    *)
(* may serve" as what recovery computes from each outcome the disk may have: *)
(* every acknowledged write survives any crash, a write that was not        *)
(* acknowledged is there whole or not at all, and flush, merge, vocabulary  *)
(* commit, checkpoint and log reset change nothing a restart would serve.   *)
Promise == INSTANCE DurableStore WITH up <- Up, live <- Live, may <- Outcomes
KeepsPromise == Promise!Spec

(* However the log's syncs fail, only the writes that failed are in doubt:  *)
(* a served row is missing after a restart only if a failed write was to    *)
(* take it away, and a row that is not served is there only if a failed     *)
(* write was to add it (or it is the write in flight, or the bulk load      *)
(* whose manifest was renamed and not synced).                              *)
InFlight == IF pc = "apply" THEN {wrote} ELSE {}
OnlyDoubtedWritesDiffer ==
  Up => \A o \in Outcomes :
          /\ \A r \in Live \ o : \E f \in doubted \cup InFlight : Kills(f, r)
          /\ \A r \in o \ Live : r \in batch \/ \E f \in doubted \cup InFlight : f.row = r

(* live.rs on try_upsert_live: "a crash either recovers both halves or      *)
(* neither".  Wherever a restart serves the row of an upsert record, it     *)
(* serves no older row of that id.                                          *)
UpsertAllOrNothing ==
  \A m \in Mans, l \in Logs : \A f \in l.recs :
    f.op = "upsert" /\ f.row \in Recovered(m, l) =>
      \A r \in Recovered(m, l) : r.id = f.row.id => r.w >= f.row.w

(* No row is stored twice, in the process or in what a restart builds: a    *)
(* row that a commit holds is never replayed beside it.                     *)
NoRowTwice ==
  /\ mem \cap (unc \cup seg) = {} /\ unc \cap seg = {}
  /\ \A m \in Mans, l \in Logs :
       m.rows \cap ReplayedRows(LogTail(l, m.sealed)) = {}

(* commit_feature_model keeps the last watermark, which is sound only for    *)
(* the segment list that watermark was committed with.  The code says it    *)
(* holds "whenever persistence is healthy": an idle engine that has seen no *)
(* failed write has no uncommitted segment, and the last commit recorded    *)
(* the position the memtable starts at.                                     *)
HealthyMeansCommitted ==
  pc \in {"idle", "apply"} /\ healthy => unc = {} /\ sealed = man.sealed

(* Once a manifest was renamed and not synced, nothing in the data          *)
(* directory changes until the process is gone.                             *)
NothingWrittenInDoubt == [][awaits /\ pc' # "down" => UNCHANGED disk]_vars

(***************************************************************************)
(* The inductive invariant.                                                *)
(***************************************************************************)
(* The records that have been applied: not the ones in doubt, not the one   *)
(* being applied.                                                           *)
Applied(R) == R \ (doubted \cup InFlight)

(* Every row is named by a write that was attempted, and every sequence     *)
(* number on disk has been taken.                                           *)
LogsInOrder ==
  \A l \in Logs :
    /\ l.ckpt <= l.last
    /\ \A f \in l.recs : f.seq <= l.last /\ f.row.w <= writes

RowsNamed ==
  /\ \A r \in Stored \cup dead \cup batch \cup taken.rows : r.w <= writes
  /\ \A m \in Mans : \A r \in m.rows : r.w <= writes
  /\ \A f \in doubted : f.row.w <= writes

SeqsTaken ==
  Up => /\ \A l \in Logs : l.last < nextSeq
        /\ \A m \in Mans : m.wm < nextSeq /\ m.sealed < nextSeq
        /\ sealed < nextSeq /\ taken.sealed < nextSeq

(* Where the writer is, and what that says of its variables.                *)
Control ==
  /\ pc \in {"idle", "apply", "seal", "policy", "down", "open"} => job = "none"
  /\ pc \in {"rename", "sync"} => job # "none" /\ ~awaits
  /\ pc \in {"checkpoint", "reset", "reset_sync"} =>
       /\ job \in {"flush", "first_mask"} /\ ~awaits
       /\ unc = {} /\ man.rows = seg \ dead
  /\ pc = "reset_sync" => ~appendable
  /\ pc \in {"down", "open"} =>
       /\ batch = {} /\ doubted = {} /\ Stored = {} /\ dead = {} /\ ~awaits
       /\ taken = NothingTaken
  /\ pc = "open" => oldLogs = {} /\ oldMans = {}
  /\ job = "vocab" => unc = {}
  /\ job \in {"flush", "first_mask"} => mem = {}
  /\ awaits => ~healthy
  /\ pc \in {"idle", "apply", "seal", "policy"} /\ healthy => unc = {}
  /\ pc = "sync" => man = NewManifest
  /\ Up /\ appendable => oldLogs = {} /\ ~awaits
  /\ Up /\ oldMans # {} => awaits \/ pc = "sync"
  /\ batch # {} => awaits \/ job \in {"bulk", "first_mask"}
  /\ Up /\ unc = {} /\ ~awaits => sealed = man.sealed

(* The record being applied is the last of the log and its row is new.      *)
Applying ==
  pc = "apply" =>
    /\ appendable
    /\ wrote \in log.recs \ doubted
    /\ wrote.seq = LastSeq /\ wrote.seq > log.ckpt /\ wrote.seq > sealed
    /\ \A m \in Mans : wrote.seq > m.wm /\ wrote.seq > m.sealed
    /\ \A f \in log.recs : f = wrote \/ f.seq < wrote.seq
    /\ Adds(wrote) => wrote.row \notin Stored \cup dead \cup {f.row : f \in doubted}

(* A row in doubt is stored nowhere in the process.                         *)
DoubtedApart ==
  /\ \A f \in doubted : Adds(f) => f.row \notin Stored \cup batch
  /\ \A f \in doubted : f.seq < nextSeq
  /\ batch \cap (Stored \cup dead) = {}
  /\ pc = "rename" \/ job = "first_mask" => \A m \in Mans : batch \cap m.rows = {}

(* The memtable m, sealed through s, is what replaying the log would build. *)
MemtableOf(m, s) ==
  \A l \in Logs : /\ m = ReplayedRows(Applied(LogTail(l, s)))
                  /\ m \ dead = ReplayedLive(Applied(LogTail(l, s)))
MemtableIsTail == Up => MemtableOf(mem, sealed)
TakenIsTail ==
  job = "first_mask" /\ pc \in {"rename", "sync"} =>
    /\ MemtableOf(taken.rows, taken.sealed)
    /\ taken.rows \subseteq unc
    /\ pc = "rename" /\ unc = taken.rows => taken.sealed = man.sealed

(* Each outcome of the disk recovers to what is served, apart from the      *)
(* records in doubt and a bulk load in doubt.                               *)
RecoversLive ==
  Up => \A m \in Mans, l \in Logs :
          RecoveredFrom(m, Applied(LogTail(l, m.sealed))) = Live \cup (batch \cap m.rows)

(* For the refinement: writes have names from 1 on, and a batch is the rows *)
(* of one write.                                                            *)
RowsOfWrites ==
  /\ writes <= MaxWrites
  /\ \A r \in Stored \cup batch : r.w >= 1
  /\ \A m \in Mans : \A r \in m.rows : r.w >= 1
  /\ \A l \in Logs : \A f \in l.recs : Adds(f) => f.row.w >= 1
  /\ batch # {} => batch \in Batches
  /\ pc = "apply" =>
       /\ EffectOf(wrote) \in Writes
       /\ wrote.op = "delete" => wrote.row \notin Stored
  /\ ~AppendSyncMayFail => doubted = {}

(* For UpsertAllOrNothing: where the row of an upsert in the log is served, *)
(* no older row of its id is.  Upserts are older than a bulk load whose     *)
(* manifest is not synced, and than the record being applied.               *)
Upserts == {f \in UNION {l.recs : l \in Logs} : f.op = "upsert"}
Replaced(U, S) == \A f \in U : f.row \in S => \A r \in S : r.id = f.row.id => r.w >= f.row.w
UpsertsReplace ==
  /\ Up => Replaced(Upserts \ InFlight, Live)
  /\ ~Up => \A o \in Outcomes : Replaced(Upserts, o)
  /\ \A b \in batch, f \in Upserts : f.row.w < b.w
  /\ pc = "apply" /\ Adds(wrote) => \A f \in Upserts : f = wrote \/ f.row.w < wrote.row.w

IInv ==
  /\ TypeOK /\ LogsInOrder /\ RowsNamed /\ SeqsTaken /\ Control /\ Applying
  /\ DoubtedApart /\ NoRowTwice /\ MemtableIsTail /\ TakenIsTail /\ RecoversLive
=============================================================================
