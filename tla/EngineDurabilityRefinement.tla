--------------------- MODULE EngineDurabilityRefinement ---------------------
(***************************************************************************)
(* EngineDurability implements DurableStore, for every set of ids, every   *)
(* bound and every flush threshold, when the sync of an appended log       *)
(* record does not fail.                                                   *)
(***************************************************************************)
EXTENDS EngineDurabilityProofs

(* The effect of a record that is appended is one of the writes a caller    *)
(* can ask for.                                                             *)
LEMMA WriteOfRecord ==
  ASSUME IInv, RowsOfWrites, NEW f \in Candidates, AppendRecord(f)
  PROVE  EffectOf(f) \in Writes
<1>1. writes < MaxWrites /\ writes \in Nat /\ MaxWrites \in Nat
  BY Zenon, BoundsAssumption DEF AppendRecord, IInv, TypeOK
<1>2. f.op \in Ops
  BY Zenon DEF Candidates
<1>3. \A o \in Ops, r \in AllRows : EffectOf([seq |-> 0, op |-> o, row |-> r]) \in Writes
  BY DEF Writes
<1>4. ASSUME NEW r \in AllRows, f.row = r
      PROVE  EffectOf(f) \in Writes
  <2>1. EffectOf(f) = EffectOf([seq |-> 0, op |-> f.op, row |-> r])
    BY Zenon, <1>4 DEF EffectOf, Adds
  <2> QED
    BY Zenon, <1>2, <1>3, <2>1
<1>5. CASE f.op \in {"insert", "upsert"} /\ \E i \in Ids : f.row = NewRow(i)
  <2>1. \A i \in Ids : NewRow(i) \in AllRows
    BY <1>1 DEF NewRow, AllRows
  <2> QED
    BY Zenon, <1>4, <1>5, <2>1
<1>6. CASE f.op = "delete" /\ \E i \in Ids : f.row = [id |-> i, w |-> 0]
  <2>1. PICK i \in Ids : f.row = [id |-> i, w |-> 0]
    BY Zenon, <1>6
  <2>2. [id |-> i, w |-> 1] \in AllRows
    BY <1>1 DEF AllRows
  <2>3. EffectOf(f) = EffectOf([seq |-> 0, op |-> "delete", row |-> [id |-> i, w |-> 1]])
    BY <1>6, <2>1 DEF EffectOf, Adds
  <2> QED
    BY Zenon, <1>2, <1>3, <1>6, <2>2, <2>3
<1>7. CASE f.op = "tombstone" /\ f.row \in mem \cup seg
  <2>1. f.row \in Row /\ f.row \in Stored
    BY Zenon, <1>7 DEF IInv, TypeOK, Stored
  <2>2. f.row.w >= 1 /\ f.row.w <= writes /\ f.row.w \in Nat
    BY Zenon, <2>1, Types DEF IInv, RowsNamed, RowsOfWrites
  <2>3. f.row \in AllRows
    BY <1>1, <2>1, <2>2 DEF AllRows, Row
  <2> QED
    BY Zenon, <1>4, <2>3
<1> QED
  BY Zenon, <1>5, <1>6, <1>7 DEF AppendRecord, Mutation

(* Rows keep the names of the writes that made them, and nothing is in      *)
(* doubt while no sync of an append fails.                                  *)
LEMMA RowsOfWritesInductive ==
  IInv /\ IInv' /\ RowsOfWrites /\ [Next]_vars => RowsOfWrites'
<1> SUFFICES ASSUME IInv, IInv', RowsOfWrites, [Next]_vars PROVE RowsOfWrites'
  BY Zenon
<1>0. writes \in Nat /\ MaxWrites \in Nat
  BY Zenon, BoundsAssumption DEF IInv, TypeOK
<1>1. ASSUME NEW f \in Candidates, AppendRecord(f) PROVE RowsOfWrites'
  <2>1. writes' <= MaxWrites
    BY <1>0, <1>1 DEF AppendRecord
  <2>2. Adds(f) => f.row.w >= 1
    <3>1. Adds(f) => \E i \in Ids : f.row = NewRow(i)
      BY Zenon, <1>1 DEF AppendRecord, Mutation, Adds
    <3>2. \A i \in Ids : NewRow(i).w = writes + 1 /\ writes + 1 >= 1
      BY <1>0 DEF NewRow
    <3> QED
      BY Zenon, <3>1, <3>2
  <2>3. \A l \in Logs' : \A g \in l.recs : Adds(g) => g.row.w >= 1
    BY <1>1, <2>2 DEF AppendRecord, AppendOutcome, Appended, Logs, RowsOfWrites
  <2>4. pc' = "apply" => wrote' = f
    BY Zenon, <1>1 DEF AppendRecord
  <2>5. EffectOf(f) \in Writes
    BY Zenon, <1>1, WriteOfRecord
  <2>8. f.op = "delete" => f.row \notin Stored
    <3>1. f.op = "delete" => \E i \in Ids : f.row = [id |-> i, w |-> 0]
      BY Zenon, <1>1 DEF AppendRecord, Mutation
    <3>2. \A i \in Ids : [id |-> i, w |-> 0].w = 0
      BY Zenon
    <3>3. \A r \in Stored : ~(r.w = 0)
      BY DEF RowsOfWrites
    <3> QED
      BY Zenon, <3>1, <3>2, <3>3
  <2>6. ~AppendSyncMayFail => doubted' = {}
    BY Zenon, <1>1 DEF AppendRecord, AppendOutcome, RowsOfWrites
  <2>7. UNCHANGED <<mem, unc, seg, batch, man, oldMans>>
    BY Zenon, <1>1 DEF AppendRecord
  <2> QED
    BY Zenon, <2>1, <2>3, <2>4, <2>5, <2>6, <2>7, <2>8 DEF RowsOfWrites, Stored, Mans, EffectOf
<1>2. CASE Apply
  <2>1. Adds(wrote) => wrote.row.w >= 1
    BY Zenon, <1>2 DEF Apply, IInv, Applying, RowsOfWrites, Logs
  <2>2. pc' # "apply" /\ UNCHANGED <<unc, seg, batch, disk, aux>> /\ mem' \subseteq mem \cup (IF Adds(wrote) THEN {wrote.row} ELSE {})
    BY Zenon, <1>2 DEF Apply
  <2> QED
    BY Zenon, <2>1, <2>2 DEF RowsOfWrites, Stored, Mans, Logs, disk, aux
<1>3. ASSUME NEW ids \in (SUBSET Ids) \ {{}}, Bulk(ids) \/ BulkBeforeFirstMask(ids) PROVE RowsOfWrites'
  <2>1. writes' <= MaxWrites /\ writes + 1 \in 1..MaxWrites
    BY <1>0, <1>3 DEF Bulk, BulkBeforeFirstMask
  <2>2. batch' = {[id |-> i, w |-> writes + 1] : i \in ids} /\ \A r \in batch' : r.w >= 1
    BY <1>0, <1>3 DEF Bulk, BulkBeforeFirstMask, NewRow
  <2>3. Stored' = Stored /\ Mans' = Mans /\ Logs' = Logs /\ pc' = "rename" /\ doubted' = doubted
    BY Zenon, <1>3 DEF Bulk, BulkBeforeFirstMask, Stored, Mans, Logs, ram, disk
  <2>4. batch' \in Batches
    BY <2>1, <2>2 DEF Batches
  <2> QED
    BY <2>1, <2>2, <2>3, <2>4 DEF RowsOfWrites, Batches
<1>4. ASSUME Stored' \subseteq Stored \cup batch, batch' \in {batch, {}},
             Mans' \subseteq Mans \cup {man'}, \A r \in man'.rows : r.w >= 1,
             \A l \in Logs' : l.recs = {} \/ \E k \in Logs : l.recs = k.recs,
             writes' = writes, doubted' \in {doubted, {}}, pc' # "apply"
      PROVE  RowsOfWrites'
  BY Zenon, <1>4 DEF RowsOfWrites
<1>5. CASE \E persisted \in BOOLEAN : SealMemtable(persisted)
  BY Zenon, <1>4, <1>5 DEF SealMemtable, Stored, Mans, Logs, disk, aux, RowsOfWrites
<1>6. CASE FlushLeftover \/ Merge \/ NoMerge \/ CommitFeatureModel
  BY Zenon, <1>4, <1>6 DEF FlushLeftover, Merge, NoMerge, CommitFeatureModel, Stored, Mans, Logs, ram, disk, aux, RowsOfWrites
<1>7. CASE CommitFails \/ CommitNotSynced
  <2>1. Stored' \subseteq Stored /\ batch' \in {batch, {}} /\ pc' # "apply" /\ UNCHANGED <<disk, aux>>
    BY Zenon, <1>7 DEF CommitFails, CommitNotSynced, CommitFailed, IInv, TakenIsTail, Stored
  <2> QED
    BY Zenon, <1>4, <2>1 DEF Mans, Logs, disk, aux, RowsOfWrites
<1>8. CASE Rename
  BY Zenon, <1>4, <1>8 DEF Rename, NewManifest, Stored, Mans, Logs, ram, aux, RowsOfWrites
<1>9. CASE CommitSynced
  BY Zenon, <1>4, <1>9 DEF CommitSynced, Stored, Mans, Logs, aux, RowsOfWrites
<1>10. CASE Checkpoint \/ ResetFails \/ ResetRename \/ ResetSync
  <2>1. \A l \in Logs' : l.recs = {} \/ \E k \in Logs : l.recs = k.recs
    <3>1. CASE Checkpoint
      BY <3>1 DEF Checkpoint, Logs
    <3>2. CASE ResetFails \/ ResetSync
      BY Zenon, <3>2 DEF ResetFails, ResetSync, Logs, disk
    <3>3. CASE ResetRename
      BY <3>3 DEF ResetRename, Logs, EmptyLog
    <3> QED
      BY Zenon, <1>10, <3>1, <3>2, <3>3
  <2>2. batch' \in {batch, {}} /\ pc' # "apply" /\ UNCHANGED <<mem, unc, seg, man, oldMans, aux>>
    BY Zenon, <1>10 DEF Checkpoint, ResetFails, ResetRename, ResetSync, AfterSeal, disk
  <2> QED
    BY Zenon, <1>4, <2>1, <2>2 DEF Stored, Mans, aux, RowsOfWrites
<1>11. CASE Crash \/ PowerLoss \/ Republish
  <2>1. Stored' \subseteq Stored /\ batch' \in {batch, {}} /\ Mans' \subseteq Mans /\ Logs' \subseteq Logs
        /\ writes' = writes /\ doubted' \in {doubted, {}} /\ pc' # "apply" /\ man' \in Mans
    BY Zenon, <1>11 DEF Crash, PowerLoss, Republish, Gone, Stored, Mans, Logs, ram, disk, aux
  <2> QED
    BY Zenon, <1>4, <2>1 DEF RowsOfWrites
<1>12. CASE Open
  <2>1. \A r \in Stored' : r.w >= 1
    BY Zenon, <1>12 DEF Open, Stored, ReplayedRows, LogTail, RowsOfWrites, Mans, Logs
  <2> QED
    BY Zenon, <1>12, <2>1 DEF Open, RowsOfWrites, Mans, Logs, disk, aux
<1>13. CASE UNCHANGED vars
  <2>1. UNCHANGED <<mem, unc, seg, pc, wrote, batch, log, oldLogs, man, oldMans, writes, doubted>>
    BY Zenon, <1>13 DEF vars, ram, ctl, disk, aux
  <2> QED
    BY Zenon, <2>1 DEF RowsOfWrites, Stored, Mans, Logs, EffectOf
<1> QED
  BY Zenon, <1>1, <1>2, <1>3, <1>5, <1>6, <1>7, <1>8, <1>9, <1>10, <1>11, <1>12, <1>13 DEF Next

(* The engine is running and no logged record is waiting to be applied.     *)
AtRest == IInv /\ RowsOfWrites /\ ~AppendSyncMayFail /\ Up /\ pc # "apply"

(* What each manifest that may be on disk holds of a bulk load in doubt.    *)
Loads == {batch \cap m.rows : m \in Mans}

(* With no record in flight, a restart serves what is served now, and of a  *)
(* bulk load in doubt what the manifest it reads holds.                     *)
LEMMA OutcomesAtRest == AtRest => Outcomes = {Live \cup b : b \in Loads}
<1> SUFFICES ASSUME AtRest PROVE Outcomes = {Live \cup b : b \in Loads}
  BY Zenon
<1> USE DEF AtRest
<1>1. \A R : Applied(R) = R
  BY Zenon DEF Applied, InFlight, RowsOfWrites
<1>2. \A m \in Mans, l \in Logs : Recovered(m, l) = Live \cup (batch \cap m.rows)
  BY Zenon, <1>1 DEF IInv, RecoversLive, Recovered
<1>3. log \in Logs
  BY Zenon DEF Logs
<1>4. ASSUME NEW o \in Outcomes PROVE o \in {Live \cup b : b \in Loads}
  <2>1. PICK m \in Mans, l \in Logs : o = Recovered(m, l)
    BY DEF Outcomes
  <2>2. o = Live \cup (batch \cap m.rows) /\ batch \cap m.rows \in Loads
    BY Zenon, <1>2, <2>1 DEF Loads
  <2> QED
    BY Zenon, <2>2
<1>5. ASSUME NEW b \in Loads PROVE Live \cup b \in Outcomes
  <2>1. PICK m \in Mans : b = batch \cap m.rows
    BY Zenon DEF Loads
  <2>2. Live \cup b = Recovered(m, log)
    BY Zenon, <1>2, <1>3, <2>1
  <2> QED
    BY <1>3, <2>2 DEF Outcomes
<1> QED
  BY Zenon, <1>4, <1>5

(* Outside the sync of a bulk commit, and unless a manifest is in doubt, no *)
(* manifest holds rows of a bulk load in doubt.                             *)
LEMMA NoLoads ==
  AtRest /\ ~awaits /\ ~(pc = "sync" /\ job = "bulk") => Loads = {{}}
<1> SUFFICES ASSUME AtRest, ~awaits, ~(pc = "sync" /\ job = "bulk") PROVE Loads = {{}}
  BY Zenon
<1>1. \A m \in Mans : batch \cap m.rows = {}
  <2>1. pc = "rename" \/ job = "first_mask" \/ batch = {}
    BY Zenon DEF AtRest, IInv, Control, TypeOK, Up
  <2> QED
    BY Zenon, <2>1 DEF AtRest, IInv, DoubtedApart
<1>2. man \in Mans
  BY Zenon DEF Mans
<1> QED
  BY Zenon, <1>1, <1>2 DEF Loads

(* A record is logged and not yet applied.                                  *)
InApply == IInv /\ RowsOfWrites /\ ~AppendSyncMayFail /\ pc = "apply"

(* Between logging and applying a record, a restart serves the rows as the  *)
(* record would leave them.                                                 *)
LEMMA OutcomesApplying ==
  InApply => Outcomes = {Promise!Effect(EffectOf(wrote), Live)}
<1> SUFFICES ASSUME InApply PROVE Outcomes = {Promise!Effect(EffectOf(wrote), Live)}
  BY Zenon
<1> USE DEF InApply
<1> DEFINE R == Applied(LogTail(log, man.sealed))
           added == IF Adds(wrote) THEN {wrote.row} ELSE {}
<1>1. /\ Up /\ job = "none" /\ appendable /\ oldLogs = {} /\ ~awaits /\ oldMans = {} /\ batch = {}
      /\ Logs = {log} /\ Mans = {man}
  BY Zenon DEF IInv, Applying, Control, Logs, Mans, Up
<1>2. /\ wrote \in log.recs /\ wrote \in Record
      /\ wrote.seq > log.ckpt /\ wrote.seq > man.wm /\ wrote.seq > man.sealed
      /\ \A f \in log.recs : f = wrote \/ f.seq < wrote.seq
      /\ Adds(wrote) => wrote.row \notin Stored
      /\ man.sealed \in Nat
  BY Zenon, <1>1, Types DEF IInv, Applying
<1>3. /\ LogTail(log, man.sealed) = R \cup {wrote}
      /\ R \subseteq Record /\ \A g \in R : g.seq < wrote.seq
  <2>1. wrote \in LogTail(log, man.sealed)
    BY Zenon, <1>2 DEF LogTail
  <2>2. LogTail(log, man.sealed) \subseteq log.recs /\ log.recs \subseteq Record
    BY Zenon, <1>1, Types DEF LogTail, IInv
  <2> QED
    BY Zenon, <1>2, <2>1, <2>2 DEF Applied, InFlight, RowsOfWrites
<1>4. CommittedLive(man, R) \cup ReplayedLive(R) = Live
  BY Zenon, <1>1 DEF IInv, RecoversLive, RecoveredFrom
<1> HIDE DEF R
<1>5. /\ CommittedLive(man, R \cup {wrote}) = {r \in CommittedLive(man, R) : ~Kills(wrote, r)}
      /\ ReplayedLive(R \cup {wrote}) = {r \in ReplayedLive(R) : ~Kills(wrote, r)} \cup added
  <2>1. CommittedLive(man, R \cup {wrote}) = {r \in CommittedLive(man, R) : ~Kills(wrote, r)}
    BY <1>2, CommittedOneMore
  <2>2. ReplayedLive(R \cup {wrote}) = {r \in ReplayedLive(R) : ~Kills(wrote, r)} \cup added
    BY Zenon, <1>2, <1>3, ReplayOneMore
  <2> QED
    BY Zenon, <2>1, <2>2
<1>6. Recovered(man, log) = {r \in Live : ~Kills(wrote, r)} \cup added
  BY Zenon, <1>3, <1>4, <1>5 DEF Recovered, RecoveredFrom
<1>7. \A r \in Live : Kills(wrote, r) <=>
        r.id \in EffectOf(wrote).ids \/ r \in EffectOf(wrote).gone
  <2>1. wrote.op \in Ops
    BY Zenon, <1>2 DEF Record
  <2>2. \A r \in Live : r \in Stored
    BY Zenon, <1>1 DEF Live
  <2>3. wrote.op \in {"upsert", "delete"} => \A r \in Live : r # wrote.row
    BY Zenon, <1>2, <2>2 DEF RowsOfWrites, Adds
  <2>4. CASE wrote.op = "insert"
    BY Zenon, <2>4 DEF Kills, EffectOf
  <2>5. CASE wrote.op \in {"upsert", "delete"}
    BY Zenon, <2>3, <2>5 DEF Kills, EffectOf
  <2>6. CASE wrote.op = "tombstone"
    BY Zenon, <2>6 DEF Kills, EffectOf
  <2> QED
    BY Zenon, <2>1, <2>4, <2>5, <2>6 DEF Ops
<1>8. EffectOf(wrote).add = added
  BY Zenon DEF EffectOf
<1>9. Promise!Effect(EffectOf(wrote), Live) = {r \in Live : ~Kills(wrote, r)} \cup added
  BY Zenon, <1>7, <1>8 DEF Promise!Effect
<1> QED
  BY <1>1, <1>6, <1>9 DEF Outcomes

(* A fresh engine is a fresh store.                                         *)
LEMMA InitImplements == Init => Promise!Init
<1> SUFFICES ASSUME Init PROVE Up = TRUE /\ Live = {} /\ Outcomes = {{}}
  BY Zenon DEF Promise!Init
<1>1. Up /\ Live = {} /\ Mans = {man} /\ Logs = {log} /\ man.rows = {} /\ log.recs = {}
  BY Zenon DEF Init, Up, Live, Stored, Mans, Logs, NoManifest, EmptyLog
<1>2. Recovered(man, log) = {}
  BY Zenon, <1>1, NothingToReplay DEF Recovered, RecoveredFrom, LogTail, CommittedLive
<1> QED
  BY <1>1, <1>2 DEF Outcomes, Up

(* A step that changes neither what is served nor what a restart may serve  *)
(* is a stutter of the store.                                               *)
LEMMA QuietStep ==
  ASSUME Up, Up', Live' = Live, Outcomes' = Outcomes
  PROVE  [Promise!Next]_Promise!vars
BY Zenon DEF Promise!vars, Up

(* A bulk load is one of the writes a caller can ask for.                   *)
LEMMA WriteOfBatch ==
  ASSUME RowsOfWrites, batch # {}
  PROVE  BulkWrite(batch) \in Writes
<1>1. batch \in Batches
  BY Zenon DEF RowsOfWrites
<1> QED
  BY <1>1 DEF Writes

(* Applying the logged record leaves the rows as the record asks.           *)
LEMMA ApplyServes ==
  ASSUME IInv, RowsOfWrites, Apply
  PROVE  Live' = Promise!Effect(EffectOf(wrote), Live)
<1> DEFINE o == EffectOf(wrote)
<1>0. pc = "apply" /\ Up /\ Up'
  BY Zenon DEF Apply, Up
<1>1. /\ Adds(wrote) => wrote.row \notin Stored \cup dead
      /\ wrote.op = "delete" => wrote.row \notin Stored
      /\ wrote.op \in Ops
  <2>1. wrote.op \in Ops
    BY Zenon DEF IInv, TypeOK, Record
  <2>2. Adds(wrote) => wrote.row \notin Stored \cup dead
    BY Zenon, <1>0 DEF IInv, Applying
  <2> QED
    BY Zenon, <1>0, <2>1, <2>2 DEF RowsOfWrites
<1>2. Stored' = Stored \cup o.add
  BY Zenon DEF Apply, Stored, EffectOf
<1>3. dead' = dead \cup {r \in Stored : Kills(wrote, r)}
  BY Zenon DEF Apply
<1>4. \A r \in Stored : Kills(wrote, r) <=> r.id \in o.ids \/ r \in o.gone
  BY Zenon, <1>1 DEF Kills, EffectOf, Adds, Ops
<1>5. o.add \cap (Stored \cup dead) = {}
  BY Zenon, <1>1 DEF EffectOf
<1>6. Live = Stored \ dead /\ Live' = Stored' \ dead'
  BY Zenon, <1>0 DEF Live
<1> QED
  BY Zenon, <1>2, <1>3, <1>4, <1>5, <1>6 DEF Promise!Effect

(* An engine that opens serves what recovery computes.                      *)
LEMMA OpenServes ==
  ASSUME Open PROVE Live' = Recovered(man, log)
<1>0. Up'
  BY Zenon DEF Open, Up
<1>1. Live' = (man.rows \cup ReplayedRows(LogTail(log, man.sealed))) \ dead'
  BY Zenon, <1>0 DEF Open, Live, Stored
<1>2. dead' = (man.rows \cup ReplayedRows(LogTail(log, man.sealed))) \ Recovered(man, log)
  BY Zenon DEF Open
<1>3. Recovered(man, log) \subseteq man.rows \cup ReplayedRows(LogTail(log, man.sealed))
  BY Zenon DEF Recovered, RecoveredFrom, CommittedLive, ReplayedLive, ReplayedRows
<1> QED
  BY Zenon, <1>1, <1>2, <1>3

(* Every step of the write path is a step of the store or a stutter: an     *)
(* append is an attempt, its application or the sync of a bulk commit the   *)
(* acknowledgement, a crash or power loss a stop, and recovery the          *)
(* reopening.                                                               *)
LEMMA NextImplements ==
  ASSUME IInv, IInv', RowsOfWrites, RowsOfWrites', ~AppendSyncMayFail, [Next]_vars
  PROVE  [Promise!Next]_Promise!vars
<1>a. (AtRest => Outcomes = {Live \cup b : b \in Loads})'
  BY OutcomesAtRest, PTL
<1>b. (AtRest /\ ~awaits /\ ~(pc = "sync" /\ job = "bulk") => Loads = {{}})'
  BY NoLoads, PTL
<1>c. (InApply => Outcomes = {Promise!Effect(EffectOf(wrote), Live)})'
  BY OutcomesApplying, PTL
<1>d. ASSUME AtRest, AtRest', Live' = Live, Loads' = Loads
      PROVE  [Promise!Next]_Promise!vars
  <2>1. Outcomes' = Outcomes
    BY Zenon, <1>a, <1>d, OutcomesAtRest
  <2> QED
    BY Zenon, <1>d, <2>1, QuietStep DEF AtRest
<1>1. ASSUME NEW f \in Candidates, AppendRecord(f) PROVE [Promise!Next]_Promise!vars
  <2>1. /\ pc = "idle" /\ Up /\ Up' /\ Live' = Live /\ Loads' = Loads
        /\ pc' \in {"idle", "apply"} /\ (pc' = "apply" => wrote' = f /\ appendable)
    BY Zenon, <1>1 DEF AppendRecord, AppendOutcome, Up, Live, Stored, Loads, Mans
  <2>2. CASE pc' = "idle"
    BY Zenon, <1>d, <2>1, <2>2 DEF AtRest
  <2>3. CASE pc' = "apply"
    <3>1. EffectOf(f) \in Writes
      BY Zenon, <1>1, WriteOfRecord
    <3>2. Outcomes' = {Promise!Effect(EffectOf(f), Live)}
      <4>1. EffectOf(wrote)' = EffectOf(f)
        BY Zenon, <2>1, <2>3 DEF EffectOf
      <4>2. Promise!Effect(EffectOf(wrote), Live)' = Promise!Effect(EffectOf(f), Live)
        BY Zenon, <2>1, <4>1 DEF Promise!Effect
      <4> QED
        BY Zenon, <1>c, <2>3, <4>2 DEF InApply
    <3>3. Promise!Attempt(EffectOf(f))
      BY Zenon, <2>1, <3>2 DEF Promise!Attempt, Promise!Possible
    <3> QED
      BY Zenon, <3>1, <3>3 DEF Promise!Next
  <2> QED
    BY Zenon, <2>1, <2>2, <2>3
<1>2. CASE Apply
  <2> DEFINE o == EffectOf(wrote)
  <2>1. pc = "apply" /\ pc' \in {"idle", "seal"} /\ Up /\ Up' /\ UNCHANGED <<awaits, man, oldMans, batch, job>>
    BY Zenon, <1>2 DEF Apply, Up, disk
  <2>2. o \in Writes
    BY Zenon, <2>1 DEF RowsOfWrites
  <2>4. Live' = Promise!Effect(o, Live)
    BY Zenon, <1>2, ApplyServes
  <2>5. Outcomes' = {Live'}
    <3>1. ~awaits /\ AtRest' /\ ~(pc' = "sync" /\ job' = "bulk")
      BY Zenon, <2>1 DEF IInv, Applying, Control, AtRest
    <3>2. Loads' = {{}}
      BY Zenon, <1>b, <2>1, <3>1
    <3> QED
      BY SMTT(30), <1>a, <3>1, <3>2
  <2>6. Promise!Acknowledge(o)
    BY Zenon, <2>1, <2>4, <2>5 DEF Promise!Acknowledge, Promise!Possible
  <2> QED
    BY Zenon, <2>2, <2>6 DEF Promise!Next
<1>3. ASSUME NEW persisted \in BOOLEAN, SealMemtable(persisted)
      PROVE  [Promise!Next]_Promise!vars
  <2>1. AtRest /\ AtRest' /\ Live' = Live /\ Loads' = Loads
    BY Zenon, <1>3 DEF SealMemtable, AtRest, Up, Live, Stored, Loads, Mans, disk
  <2> QED
    BY Zenon, <1>d, <2>1
<1>4. CASE FlushLeftover \/ Merge \/ NoMerge \/ CommitFeatureModel
  <2>1. AtRest /\ AtRest' /\ Live' = Live /\ Loads' = Loads
    BY Zenon, <1>4 DEF FlushLeftover, Merge, NoMerge, CommitFeatureModel, AtRest, Up, Live, Stored,
                Loads, Mans, disk, ram
  <2> QED
    BY SMTT(30), <1>d, <2>1
<1>5. ASSUME NEW ids \in (SUBSET Ids) \ {{}}, Bulk(ids) \/ BulkBeforeFirstMask(ids)
      PROVE  [Promise!Next]_Promise!vars
  <2>1. AtRest /\ AtRest' /\ Live' = Live /\ pc = "idle" /\ pc' = "rename" /\ ~awaits /\ ~awaits'
    <3>1. pc = "idle" /\ pc' = "rename" /\ ~awaits /\ ~awaits' /\ dead' = dead
      BY <1>5 DEF Bulk, BulkBeforeFirstMask, ram
    <3>2. CASE Bulk(ids)
      BY Zenon, <3>1, <3>2 DEF Bulk, AtRest, Up, Live, Stored, ram
    <3>3. CASE BulkBeforeFirstMask(ids)
      <4>1. Stored' = Stored
        BY Zenon, <3>3 DEF BulkBeforeFirstMask, Stored
      <4> QED
        BY Zenon, <3>1, <4>1 DEF AtRest, Up, Live
    <3> QED
      BY Zenon, <1>5, <3>2, <3>3
  <2>2. Loads = {{}} /\ Loads' = {{}}
    BY Zenon, <1>b, <2>1, NoLoads
  <2> QED
    BY Zenon, <1>d, <2>1, <2>2
<1>6. CASE CommitFails
  <2>1. pc = "rename" /\ pc' \in {"policy", "idle"} /\ awaits' = awaits /\ dead' = dead
    BY Zenon, <1>6 DEF CommitFails, CommitFailed
  <2>2. Stored' = Stored
    BY Zenon, <1>6, <2>1 DEF CommitFails, CommitFailed, Stored, IInv, Control, TakenIsTail
  <2>3. AtRest /\ AtRest' /\ Live' = Live /\ ~awaits
    BY Zenon, <2>1, <2>2 DEF AtRest, Up, Live, IInv, Control
  <2>4. Loads = {{}} /\ Loads' = {{}}
    BY Zenon, <1>b, <2>1, <2>3, NoLoads
  <2> QED
    BY Zenon, <1>d, <2>3, <2>4
<1>7. CASE Rename
  <2>1. /\ pc = "rename" /\ pc' = "sync" /\ ~awaits /\ ~awaits' /\ UNCHANGED <<job, batch>>
        /\ AtRest /\ AtRest' /\ Live' = Live /\ Loads = {{}}
    BY Zenon, <1>7, NoLoads DEF Rename, AtRest, Up, Live, Stored, ram
  <2>2. CASE job # "bulk"
    BY Zenon, <1>b, <1>d, <2>1, <2>2
  <2>3. CASE job = "bulk"
    <3> DEFINE o == BulkWrite(batch)
    <3>1. batch \cap dead = {}
      BY Zenon DEF IInv, DoubtedApart
    <3>2. Loads' = {{}, batch}
      <4>1. batch \cap NewManifest.rows = batch
        BY Zenon, <2>3, <3>1 DEF NewManifest
      <4>2. batch \cap man.rows = {}
        BY Zenon, <2>1 DEF IInv, DoubtedApart, Mans
      <4>3. Mans' = {NewManifest, man} /\ batch' = batch
        BY Zenon, <1>7 DEF Rename, Mans
      <4> QED
        BY Zenon, <4>1, <4>2, <4>3 DEF Loads
    <3>3. Outcomes = {Live}
      BY Zenon, <2>1, OutcomesAtRest
    <3>4. Outcomes' = {Live, Live \cup batch}
      BY Zenon, <1>a, <2>1, <3>2
    <3>5. CASE batch = {}
      <4>1. Outcomes' = Outcomes
        BY Zenon, <3>3, <3>4, <3>5
      <4> QED
        BY Zenon, <2>1, <4>1, QuietStep DEF AtRest
    <3>6. CASE batch # {}
      <4>1. o \in Writes
        BY Zenon, <3>6, WriteOfBatch
      <4>2. Promise!Effect(o, Live) = Live \cup batch
        BY Zenon DEF Promise!Effect, BulkWrite
      <4>3. Promise!Attempt(o)
        BY Zenon, <2>1, <3>3, <3>4, <4>2 DEF Promise!Attempt, Promise!Possible, AtRest
      <4> QED
        BY Zenon, <4>1, <4>3 DEF Promise!Next
    <3> QED
      BY Zenon, <3>5, <3>6
  <2> QED
    BY Zenon, <2>2, <2>3
<1>8. CASE CommitSynced
  <2>1. /\ pc = "sync" /\ pc' \in {"checkpoint", "policy", "idle"} /\ UNCHANGED <<awaits, dead>>
        /\ ~awaits
    BY Zenon, <1>8 DEF CommitSynced, IInv, Control
  <2>2. Stored' = Stored \cup (IF job = "bulk" THEN batch ELSE {})
    BY Zenon, <1>8 DEF CommitSynced, Stored
  <2>3. AtRest /\ AtRest' /\ Up /\ Up'
    BY Zenon, <2>1 DEF AtRest, Up
  <2>4. Loads' = {{}}
    BY Zenon, <1>b, <2>1, <2>3
  <2>5. CASE job # "bulk"
    <3>1. Loads = {{}} /\ Live' = Live
      BY Zenon, <2>1, <2>2, <2>3, <2>5, NoLoads DEF Live
    <3> QED
      BY Zenon, <1>d, <2>3, <2>4, <3>1
  <2>6. CASE job = "bulk"
    <3> DEFINE o == BulkWrite(batch)
    <3>1. Live' = Live \cup batch
      BY Zenon, <2>1, <2>2, <2>3, <2>6 DEF Live, IInv, DoubtedApart
    <3>2. Promise!Effect(o, Live) = Live \cup batch
      BY Zenon DEF Promise!Effect, BulkWrite
    <3>3. Outcomes' = {Live'}
      BY Zenon, <1>a, <2>3, <2>4
    <3>4. CASE batch # {}
      <4>1. o \in Writes
        BY Zenon, <3>4, WriteOfBatch
      <4>2. Promise!Acknowledge(o)
        BY Zenon, <2>3, <3>1, <3>2, <3>3 DEF Promise!Acknowledge, Promise!Possible
      <4> QED
        BY Zenon, <4>1, <4>2 DEF Promise!Next
    <3>5. CASE batch = {}
      <4>1. Loads = {{}} /\ Live' = Live
        BY Zenon, <3>1, <3>5 DEF Loads, Mans
      <4> QED
        BY Zenon, <1>d, <2>3, <2>4, <4>1
    <3> QED
      BY Zenon, <3>4, <3>5
  <2> QED
    BY Zenon, <2>5, <2>6
<1>9. CASE CommitNotSynced
  <2>1. pc = "sync" /\ pc' \in {"policy", "idle"} /\ awaits' /\ UNCHANGED <<dead, man, oldMans>>
        /\ batch' = IF job = "bulk" THEN batch ELSE {}
    BY Zenon, <1>9 DEF CommitNotSynced, CommitFailed, disk
  <2>2. Stored' = Stored
    BY Zenon, <1>9, <2>1 DEF CommitNotSynced, CommitFailed, Stored, IInv, Control, TakenIsTail
  <2>3. AtRest /\ AtRest' /\ Live' = Live /\ ~awaits
    BY Zenon, <2>1, <2>2 DEF AtRest, Up, Live, IInv, Control
  <2>4. CASE job = "bulk"
    <3>1. Loads' = Loads
      BY Zenon, <2>1, <2>4 DEF Loads, Mans
    <3> QED
      BY Zenon, <1>d, <2>3, <3>1
  <2>5. CASE job # "bulk"
    <3>1. Loads' = {{}}
      BY Zenon, <2>1, <2>5 DEF Loads, Mans
    <3>2. Loads = {{}}
      BY Zenon, <2>3, <2>5, NoLoads
    <3> QED
      BY Zenon, <1>d, <2>3, <3>1, <3>2
  <2> QED
    BY Zenon, <2>4, <2>5
<1>10. CASE Checkpoint \/ ResetFails \/ ResetRename \/ ResetSync
  <2>1. /\ pc \in {"checkpoint", "reset", "reset_sync"}
        /\ pc' \in {"reset", "reset_sync", "policy", "rename", "idle"}
        /\ UNCHANGED <<mem, unc, seg, dead, awaits>>
    BY Zenon, <1>10 DEF Checkpoint, ResetFails, ResetRename, ResetSync, AfterSeal
  <2>2. AtRest /\ AtRest' /\ Live' = Live /\ ~awaits /\ ~awaits'
    BY Zenon, <2>1 DEF AtRest, Up, Live, Stored, IInv, Control
  <2>3. Loads = {{}} /\ Loads' = {{}}
    BY Zenon, <1>b, <2>1, <2>2, NoLoads
  <2> QED
    BY Zenon, <1>d, <2>2, <2>3
<1>11. CASE Crash \/ PowerLoss \/ Republish
  <2>1. ~Up' /\ Mans' \subseteq Mans /\ Logs' \subseteq Logs /\ man' \in Mans' /\ log' \in Logs'
    BY Zenon, <1>11 DEF Crash, PowerLoss, Republish, Gone, Up, Mans, Logs, disk
  <2>2. Outcomes' = {Recovered(m, l) : m \in Mans', l \in Logs'}
    BY DEF Outcomes, Recovered, RecoveredFrom, CommittedLive, ReplayedLive, LogTail
  <2>3. Outcomes' \subseteq Outcomes
    <3> SUFFICES ASSUME NEW o \in Outcomes' PROVE o \in Outcomes
      BY Zenon
    <3>1. PICK m \in Mans', l \in Logs' : o = Recovered(m, l)
      BY <2>2
    <3>2. m \in Mans /\ l \in Logs
      BY Zenon, <2>1
    <3> QED
      BY <3>1, <3>2 DEF Outcomes
  <2>4. Outcomes' # {}
    BY <2>1, <2>2
  <2>5. Live' = {}
    BY Zenon, <2>1 DEF Live
  <2> QED
    BY Zenon, <2>1, <2>3, <2>4, <2>5 DEF Promise!Next, Promise!Stop
<1>12. CASE Open
  <2>1. ~Up /\ Up' /\ Mans' = {man} /\ Logs' = {log} /\ Mans = {man} /\ Logs = {log}
    BY Zenon, <1>12 DEF Open, Up, Mans, Logs, disk, IInv, Control
  <2>2. Live' = Recovered(man, log)
    BY Zenon, <1>12, OpenServes
  <2>3. Outcomes = {Recovered(man, log)}
    BY <2>1 DEF Outcomes
  <2>4. Outcomes' = {Recovered(man, log)}
    <3>1. Outcomes' = {Recovered(m, l) : m \in Mans', l \in Logs'}
      BY DEF Outcomes, Recovered, RecoveredFrom, CommittedLive, ReplayedLive, LogTail
    <3> QED
      BY <2>1, <3>1
  <2> QED
    BY Zenon, <2>1, <2>2, <2>3, <2>4 DEF Promise!Next, Promise!Reopen
<1>13. CASE UNCHANGED vars
  <2>1. UNCHANGED <<mem, unc, seg, dead, pc, log, oldLogs, man, oldMans>>
    BY Zenon, <1>13 DEF vars, ram, ctl, disk
  <2>2. Up' = Up /\ Live' = Live /\ Mans' = Mans /\ Logs' = Logs
    BY Zenon, <2>1 DEF Up, Live, Stored, Mans, Logs
  <2>3. Outcomes' = Outcomes
    BY <2>2 DEF Outcomes, Recovered, RecoveredFrom, CommittedLive, ReplayedLive, LogTail
  <2> QED
    BY Zenon, <2>2, <2>3 DEF Promise!vars
<1> QED
  BY Zenon, <1>1, <1>2, <1>3, <1>4, <1>5, <1>6, <1>7, <1>8, <1>9, <1>10, <1>11, <1>12, <1>13 DEF Next

(* A fresh engine has no rows.                                              *)
LEMMA InitRowsOfWrites == Init => RowsOfWrites
BY BoundsAssumption DEF Init, RowsOfWrites, Stored, Mans, Logs, EmptyLog, NoManifest

(* The engine keeps the promise of DurableStore: every acknowledged write   *)
(* survives any crash or power loss (the latter when the log is synced on   *)
(* write), an unacknowledged one is there whole or not at all, and flush,   *)
(* merge, vocabulary commit, checkpoint and log reset change nothing a      *)
(* restart would serve.                                                     *)
THEOREM EngineKeepsPromise == ~AppendSyncMayFail => (Spec => KeepsPromise)
<1> SUFFICES ASSUME ~AppendSyncMayFail PROVE Spec => KeepsPromise
  BY Zenon
<1>1. Spec => []IInv
  BY Zenon, InvariantHolds
<1>2. IInv /\ IInv' /\ RowsOfWrites /\ [Next]_vars => RowsOfWrites'
  BY Zenon, RowsOfWritesInductive
<1>3. IInv /\ IInv' /\ RowsOfWrites /\ RowsOfWrites' /\ [Next]_vars => [Promise!Next]_Promise!vars
  BY Zenon, NextImplements
<1> QED
  BY <1>1, <1>2, <1>3, InitRowsOfWrites, InitImplements, PTL DEF Spec, KeepsPromise, Promise!Spec

-----------------------------------------------------------------------------
(* What a restart may serve holds, with the row of an upsert, no older row  *)
(* of its id: recovery replays the delete and the add of one record.        *)
LEMMA OutcomesReplaced ==
  ASSUME IInv, RowsOfWrites, ~AppendSyncMayFail, UpsertsReplace
  PROVE  \A o \in Outcomes : Replaced(Upserts, o)
<1>0. \A f \in Upserts : f.row \in Row /\ f.row.w \in Nat /\ Adds(f)
  <2>1. \A f \in Upserts : \E l \in Logs : f \in l.recs /\ f.op = "upsert"
    BY Zenon DEF Upserts
  <2>2. \A l \in Logs : \A f \in l.recs : f.row \in Row
    BY Zenon, Types DEF IInv
  <2>3. \A r \in Row : r.w \in Nat
    BY Zenon DEF Row
  <2> QED
    BY Zenon, <2>1, <2>2, <2>3 DEF Adds
<1>1. CASE ~Up
  BY Zenon, <1>1 DEF UpsertsReplace
<1>2. CASE Up /\ pc # "apply"
  <2>1. InFlight = {}
    BY Zenon, <1>2 DEF InFlight
  <2>2. Replaced(Upserts, Live)
    BY Zenon, <1>2, <2>1 DEF UpsertsReplace
  <2>3. \A b \in batch, f \in Upserts : f.row.w < b.w
    BY Zenon DEF UpsertsReplace
  <2>4. Outcomes = {Live \cup b : b \in Loads} /\ \A b \in Loads : b \subseteq batch
    BY Zenon, <1>2, OutcomesAtRest DEF AtRest, Loads
  <2>5. batch \subseteq Row /\ \A r \in Row : r.w \in Nat
    BY Zenon DEF IInv, TypeOK, Row
  <2> SUFFICES ASSUME NEW b \in Loads PROVE Replaced(Upserts, Live \cup b)
    BY Zenon, <2>4
  <2>6. \A f \in Upserts : f.row \notin b
    BY <1>0, <2>3, <2>4, <2>5
  <2>7. \A f \in Upserts, r \in b : r.w >= f.row.w
    BY <1>0, <2>3, <2>4, <2>5
  <2> QED
    BY Zenon, <2>2, <2>6, <2>7 DEF Replaced
<1>3. CASE pc = "apply"
  <2> DEFINE o == EffectOf(wrote)
  <2>1. Outcomes = {Promise!Effect(o, Live)} /\ Up /\ InFlight = {wrote}
    BY Zenon, <1>3, OutcomesApplying DEF InApply, InFlight, Up
  <2>2. Replaced(Upserts \ {wrote}, Live)
    BY Zenon, <2>1 DEF UpsertsReplace
  <2>3. Adds(wrote) => \A f \in Upserts : f = wrote \/ f.row.w < wrote.row.w
    BY Zenon, <1>3 DEF UpsertsReplace
  <2>4. wrote.row \in Row /\ wrote.row.w \in Nat
    BY Zenon DEF IInv, TypeOK, Record, Row
  <2>5. /\ o.add = IF Adds(wrote) THEN {wrote.row} ELSE {}
        /\ wrote.op = "upsert" => o.ids = {wrote.row.id}
    BY Zenon DEF EffectOf
  <2>6. Promise!Effect(o, Live) = {r \in Live : r.id \notin o.ids /\ r \notin o.gone} \cup o.add
    BY Zenon DEF Promise!Effect
  <2> HIDE DEF o
  <2> SUFFICES ASSUME NEW f \in Upserts, f.row \in Promise!Effect(o, Live),
                      NEW r \in Promise!Effect(o, Live), r.id = f.row.id
               PROVE  r.w >= f.row.w
    BY Zenon, <2>1 DEF Replaced
  <2>7. CASE f = wrote
    <3>1. f.op = "upsert"
      BY Zenon DEF Upserts
    <3>2. r = wrote.row
      BY Zenon, <2>5, <2>6, <2>7, <3>1 DEF Adds
    <3> QED
      BY <2>4, <2>7, <3>2
  <2>8. CASE f # wrote
    <3>1. f.row \in Live
      <4>1. f.row \notin o.add
        BY <1>0, <2>3, <2>4, <2>5, <2>8
      <4> QED
        BY Zenon, <2>6, <4>1
    <3>2. CASE r \in o.add
      BY <1>0, <2>3, <2>4, <2>5, <2>8, <3>2
    <3>3. CASE r \in Live
      BY Zenon, <2>2, <2>8, <3>1, <3>3 DEF Replaced
    <3> QED
      BY Zenon, <2>6, <3>2, <3>3
  <2> QED
    BY Zenon, <2>7, <2>8
<1> QED
  BY Zenon, <1>1, <1>2, <1>3 DEF Up

(* A step that serves the same rows and brings no upsert into a log keeps   *)
(* the replaced rows replaced.                                              *)
LEMMA QuietReplaced ==
  ASSUME UpsertsReplace, Up, Up', pc # "apply", pc' # "apply", Live' = Live,
         Upserts' \subseteq Upserts, batch' \subseteq batch
  PROVE  UpsertsReplace'
<1>1. InFlight = {} /\ InFlight' = {}
  BY Zenon DEF InFlight
<1>2. Replaced(Upserts, Live)
  BY Zenon, <1>1 DEF UpsertsReplace
<1>4. Replaced(Upserts \ InFlight, Live)'
  BY Zenon, <1>1, <1>2 DEF Replaced
<1> QED
  BY Zenon, <1>4 DEF UpsertsReplace

(* The records of the logs are the earlier ones, or none.                   *)
LEMMA UpsertsOfEarlier ==
  ASSUME \A l \in Logs' : l.recs = {} \/ \E k \in Logs : l.recs = k.recs
  PROVE  Upserts' \subseteq Upserts
BY Zenon DEF Upserts

(* Every step of the write path keeps the rows that upserts replaced away.  *)
LEMMA UpsertsReplaceInductive ==
  ASSUME IInv, IInv', RowsOfWrites, RowsOfWrites', ~AppendSyncMayFail, UpsertsReplace, [Next]_vars
  PROVE  UpsertsReplace'
<1>0. /\ \A f \in Upserts : f.row \in Row /\ f.row.w \in Nat /\ f.row.w <= writes
      /\ writes \in Nat
  <2>1. \A f \in Upserts : \E l \in Logs : f \in l.recs
    BY Zenon DEF Upserts
  <2>2. \A l \in Logs : \A f \in l.recs : f.row \in Row /\ f.row.w <= writes
    BY Zenon, Types DEF IInv, LogsInOrder
  <2>3. \A r \in Row : r.w \in Nat
    BY Zenon DEF Row
  <2>4. writes \in Nat
    BY Zenon DEF IInv, TypeOK
  <2> QED
    BY Zenon, <2>1, <2>2, <2>3, <2>4
<1>1. ASSUME NEW f \in Candidates, AppendRecord(f) PROVE UpsertsReplace'
  <2>1. /\ pc = "idle" /\ Up /\ Up' /\ Live' = Live /\ batch' = batch /\ InFlight = {}
        /\ pc' \in {"idle", "apply"} /\ (pc' = "apply" => wrote' = f /\ appendable /\ InFlight' = {f})
    BY Zenon, <1>1 DEF AppendRecord, AppendOutcome, Up, Live, Stored, InFlight
  <2>2. /\ pc' = "apply" => Upserts' \subseteq Upserts \cup {f}
        /\ pc' = "idle" => Upserts' = Upserts
    <3>1. oldLogs' = oldLogs
      BY Zenon, <1>1 DEF AppendRecord
    <3>2. pc' = "apply" => log'.recs = log.recs \cup {f}
      <4>1. pc' = "apply" => log' = Appended(f)
        BY Zenon, <1>1, <2>1 DEF AppendRecord, AppendOutcome
      <4> QED
        BY <4>1 DEF Appended
    <3>3. pc' = "idle" => log' = log
      BY Zenon, <1>1, <2>1 DEF AppendRecord, AppendOutcome
    <3> QED
      BY Zenon, <3>1, <3>2, <3>3 DEF Upserts, Logs
  <2>3. Replaced(Upserts, Live)
    BY Zenon, <2>1 DEF UpsertsReplace
  <2>4. CASE pc' = "idle"
    BY Zenon, <2>1, <2>2, <2>4, QuietReplaced
  <2>5. CASE pc' = "apply"
    <3>1. Replaced(Upserts \ InFlight, Live)'
      BY Zenon, <2>1, <2>2, <2>3, <2>5 DEF Replaced
    <3>2. batch = {}
      BY Zenon, <2>1, <2>5 DEF IInv, Control
    <3>3. Adds(f) => f.row.w = writes + 1
      <4>1. Adds(f) => \E i \in Ids : f.row = NewRow(i)
        BY Zenon, <1>1 DEF AppendRecord, Mutation, Adds
      <4>2. \A i \in Ids : NewRow(i).w = writes + 1
        BY Zenon DEF NewRow
      <4> QED
        BY Zenon, <4>1, <4>2
    <3>4. Adds(f) => \A g \in Upserts' : g = f \/ g.row.w < f.row.w
      BY <1>0, <2>2, <2>5, <3>3
    <3>5. Adds(wrote)' = Adds(f)
      BY Zenon, <2>1, <2>5 DEF Adds
    <3> QED
      BY Zenon, <2>1, <2>5, <3>1, <3>2, <3>4, <3>5 DEF UpsertsReplace
  <2> QED
    BY Zenon, <2>1, <2>4, <2>5
<1>2. CASE Apply
  <2>1. /\ pc = "apply" /\ pc' \in {"idle", "seal"} /\ Up /\ Up' /\ batch' = batch /\ batch = {}
        /\ InFlight = {wrote} /\ InFlight' = {} /\ Upserts' = Upserts
    <3>1. pc = "apply" /\ pc' \in {"idle", "seal"} /\ UNCHANGED <<batch, log, oldLogs>>
      BY Zenon, <1>2 DEF Apply, disk
    <3>2. batch = {}
      BY Zenon, <3>1 DEF IInv, Applying, Control, Up
    <3> QED
      BY Zenon, <3>1, <3>2 DEF Up, InFlight, Upserts, Logs
  <2>2. Outcomes = {Live'}
    <3>1. Outcomes = {Promise!Effect(EffectOf(wrote), Live)}
      BY Zenon, <2>1, OutcomesApplying DEF InApply
    <3>2. Live' = Promise!Effect(EffectOf(wrote), Live)
      BY Zenon, <1>2, ApplyServes
    <3> QED
      BY Zenon, <3>1, <3>2
  <2>3. Replaced(Upserts, Live')
    BY Zenon, <2>2, OutcomesReplaced
  <2>4. Replaced(Upserts \ InFlight, Live)'
    BY Zenon, <2>1, <2>3 DEF Replaced
  <2> QED
    BY Zenon, <2>1, <2>4 DEF UpsertsReplace
<1>3. CASE (\E persisted \in BOOLEAN : SealMemtable(persisted))
           \/ FlushLeftover \/ Merge \/ NoMerge \/ CommitFeatureModel
  <2>1. /\ pc \in {"idle", "seal", "policy"} /\ pc' \in {"rename", "policy", "idle"}
        /\ Stored' = Stored /\ UNCHANGED <<dead, batch, log, oldLogs>>
    BY Zenon, <1>3 DEF SealMemtable, FlushLeftover, Merge, NoMerge, CommitFeatureModel, Stored, disk, ram
  <2>2. Live' = Live /\ Upserts' = Upserts /\ Up /\ Up'
    BY Zenon, <2>1 DEF Live, Up, Upserts, Logs
  <2> QED
    BY Zenon, <2>1, <2>2, QuietReplaced
<1>4. ASSUME NEW ids \in (SUBSET Ids) \ {{}}, Bulk(ids) \/ BulkBeforeFirstMask(ids)
      PROVE  UpsertsReplace'
  <2>1. /\ pc = "idle" /\ pc' = "rename" /\ UNCHANGED <<dead, log, oldLogs>>
        /\ batch' = {NewRow(i) : i \in ids} /\ Stored' = Stored
    BY Zenon, <1>4 DEF Bulk, BulkBeforeFirstMask, ram, disk, Stored
  <2>2. Live' = Live /\ Upserts' = Upserts /\ Up /\ Up' /\ InFlight = {} /\ InFlight' = {}
    BY Zenon, <2>1 DEF Live, Up, Upserts, Logs, InFlight
  <2>3. Replaced(Upserts \ InFlight, Live)'
    BY Zenon, <2>2 DEF UpsertsReplace, Replaced
  <2>4. \A b \in batch' : b.w = writes + 1
    BY <2>1 DEF NewRow
  <2>5. \A b \in batch', f \in Upserts' : f.row.w < b.w
    BY <1>0, <2>2, <2>4
  <2> QED
    BY Zenon, <2>1, <2>2, <2>3, <2>5 DEF UpsertsReplace
<1>5. CASE CommitFails \/ CommitNotSynced
  <2>1. /\ pc \in {"rename", "sync"} /\ pc' \in {"policy", "idle"}
        /\ UNCHANGED <<dead, log, oldLogs>> /\ batch' \subseteq batch
    BY Zenon, <1>5 DEF CommitFails, CommitNotSynced, CommitFailed, disk
  <2>2. Stored' = Stored
    BY Zenon, <1>5, <2>1 DEF CommitFails, CommitNotSynced, CommitFailed, Stored, IInv, Control, TakenIsTail
  <2>3. Live' = Live /\ Upserts' = Upserts /\ Up /\ Up'
    BY Zenon, <2>1, <2>2 DEF Live, Up, Upserts, Logs
  <2> QED
    BY Zenon, <2>1, <2>3, QuietReplaced
<1>6. CASE Rename
  <2>1. pc = "rename" /\ pc' = "sync" /\ Stored' = Stored /\ UNCHANGED <<dead, batch, log, oldLogs>>
    BY Zenon, <1>6 DEF Rename, Stored, ram
  <2>2. Live' = Live /\ Upserts' = Upserts /\ Up /\ Up'
    BY Zenon, <2>1 DEF Live, Up, Upserts, Logs
  <2> QED
    BY Zenon, <2>1, <2>2, QuietReplaced
<1>7. CASE CommitSynced
  <2>1. /\ pc = "sync" /\ pc' \in {"checkpoint", "policy", "idle"} /\ dead' = dead
        /\ batch' \subseteq batch /\ (job = "bulk" => batch' = {})
        /\ log' = log /\ oldLogs' = {}
    BY Zenon, <1>7 DEF CommitSynced
  <2>2. Stored' = Stored \cup (IF job = "bulk" THEN batch ELSE {})
    BY Zenon, <1>7 DEF CommitSynced, Stored
  <2>3. Up /\ Up' /\ Upserts' \subseteq Upserts /\ InFlight = {} /\ InFlight' = {}
    BY Zenon, <2>1 DEF Up, Upserts, Logs, InFlight
  <2>4. CASE job # "bulk"
    <3>1. Live' = Live
      BY Zenon, <2>1, <2>2, <2>3, <2>4 DEF Live
    <3> QED
      BY Zenon, <2>1, <2>3, <3>1, QuietReplaced
  <2>5. CASE job = "bulk"
    <3>1. Live' = Live \cup batch
      BY Zenon, <2>1, <2>2, <2>3, <2>5 DEF Live, IInv, DoubtedApart
    <3>2. Replaced(Upserts, Live) /\ \A b \in batch, f \in Upserts : f.row.w < b.w
      BY Zenon, <2>3 DEF UpsertsReplace
    <3>3. batch \subseteq Row /\ \A r \in Row : r.w \in Nat
      BY Zenon DEF IInv, TypeOK, Row
    <3>4. \A f \in Upserts : f.row \notin batch /\ \A b \in batch : b.w >= f.row.w
      BY <1>0, <3>2, <3>3
    <3>5. Replaced(Upserts', Live')
      BY Zenon, <2>3, <3>1, <3>2, <3>4 DEF Replaced
    <3>6. Replaced(Upserts \ InFlight, Live)'
      BY Zenon, <2>3, <3>5 DEF Replaced
    <3> QED
      BY Zenon, <2>1, <2>3, <2>5, <3>6 DEF UpsertsReplace
  <2> QED
    BY Zenon, <2>4, <2>5
<1>8. CASE Checkpoint \/ ResetFails \/ ResetRename \/ ResetSync
  <2>1. /\ pc \in {"checkpoint", "reset", "reset_sync"}
        /\ pc' \in {"reset", "reset_sync", "policy", "rename", "idle"}
        /\ UNCHANGED <<mem, unc, seg, dead>> /\ batch' \subseteq batch
    BY Zenon, <1>8 DEF Checkpoint, ResetFails, ResetRename, ResetSync, AfterSeal
  <2>2. \A l \in Logs' : l.recs = {} \/ \E k \in Logs : l.recs = k.recs
    <3>1. CASE Checkpoint
      BY <3>1 DEF Checkpoint, Logs
    <3>2. CASE ResetFails \/ ResetSync
      BY Zenon, <3>2 DEF ResetFails, ResetSync, Logs, disk
    <3>3. CASE ResetRename
      BY <3>3 DEF ResetRename, Logs, EmptyLog
    <3> QED
      BY Zenon, <1>8, <3>1, <3>2, <3>3
  <2>3. Live' = Live /\ Up /\ Up'
    BY Zenon, <2>1 DEF Live, Up, Stored
  <2> QED
    BY Zenon, <2>1, <2>2, <2>3, UpsertsOfEarlier, QuietReplaced
<1>9. CASE Crash \/ PowerLoss \/ Republish
  <2>1. ~Up' /\ Mans' \subseteq Mans /\ Logs' \subseteq Logs /\ batch' = {} /\ pc' # "apply"
    BY Zenon, <1>9 DEF Crash, PowerLoss, Republish, Gone, Up, Mans, Logs, disk, IInv, Control
  <2>2. Outcomes' = {Recovered(m, l) : m \in Mans', l \in Logs'}
    BY DEF Outcomes, Recovered, RecoveredFrom, CommittedLive, ReplayedLive, LogTail
  <2>3. Outcomes' \subseteq Outcomes
    BY <2>1, <2>2 DEF Outcomes
  <2>4. Upserts' \subseteq Upserts
    BY Zenon, <2>1 DEF Upserts
  <2>5. \A o \in Outcomes : Replaced(Upserts, o)
    BY Zenon, OutcomesReplaced
  <2>6. \A o \in Outcomes' : Replaced(Upserts', o)
    BY Zenon, <2>3, <2>4, <2>5 DEF Replaced
  <2>7. (\A o \in Outcomes : Replaced(Upserts, o))'
    BY Zenon, <2>6 DEF Replaced
  <2> QED
    BY Zenon, <2>1, <2>7 DEF UpsertsReplace
<1>10. CASE Open
  <2>1. /\ ~Up /\ Up' /\ Mans = {man} /\ Logs = {log} /\ UNCHANGED <<log, oldLogs, batch>>
        /\ batch = {} /\ pc' = "idle"
    BY Zenon, <1>10 DEF Open, Up, Mans, Logs, disk, IInv, Control
  <2>2. Live' = Recovered(man, log)
    BY Zenon, <1>10, OpenServes
  <2>3. Recovered(man, log) \in Outcomes /\ Upserts' = Upserts /\ InFlight' = {}
    BY <2>1 DEF Outcomes, Upserts, Logs, InFlight
  <2>4. Replaced(Upserts, Live')
    BY Zenon, <2>2, <2>3, OutcomesReplaced
  <2>5. Replaced(Upserts \ InFlight, Live)'
    BY Zenon, <2>3, <2>4 DEF Replaced
  <2> QED
    BY Zenon, <2>1, <2>5 DEF UpsertsReplace
<1>11. CASE UNCHANGED vars
  <2>1. UNCHANGED <<mem, unc, seg, dead, pc, wrote, batch, log, oldLogs, man, oldMans>>
    BY Zenon, <1>11 DEF vars, ram, ctl, disk
  <2>2. Up' = Up /\ Live' = Live /\ Mans' = Mans /\ Logs' = Logs /\ InFlight' = InFlight
        /\ Upserts' = Upserts /\ Adds(wrote)' = Adds(wrote)
    BY Zenon, <2>1 DEF Up, Live, Stored, Mans, Logs, InFlight, Upserts, Adds
  <2>3. Outcomes' = Outcomes
    BY <2>2 DEF Outcomes, Recovered, RecoveredFrom, CommittedLive, ReplayedLive, LogTail
  <2> QED
    BY Zenon, <2>1, <2>2, <2>3 DEF UpsertsReplace, Replaced
<1> QED
  BY Zenon, <1>1, <1>2, <1>3, <1>4, <1>5, <1>6, <1>7, <1>8, <1>9, <1>10, <1>11 DEF Next

(* An upsert is all or nothing: whatever a crash or a power loss leaves, a  *)
(* restart that serves the row of an upsert in the log serves no older row  *)
(* of its id, when the sync of an appended record does not fail.            *)
THEOREM UpsertsAreWhole == ASSUME ~AppendSyncMayFail PROVE Spec => []UpsertAllOrNothing
<1>1. Init => UpsertsReplace
  <2>1. ASSUME Init PROVE Upserts = {} /\ batch = {} /\ Up
    BY <2>1 DEF Init, Upserts, Logs, EmptyLog, Up
  <2> QED
    BY Zenon, <2>1 DEF UpsertsReplace, Replaced
<1>2. IInv /\ IInv' /\ RowsOfWrites /\ [Next]_vars => RowsOfWrites'
  BY Zenon, RowsOfWritesInductive
<1>3. IInv /\ IInv' /\ RowsOfWrites /\ RowsOfWrites' /\ UpsertsReplace /\ [Next]_vars
        => UpsertsReplace'
  BY Zenon, UpsertsReplaceInductive
<1>4. ASSUME IInv, RowsOfWrites, UpsertsReplace PROVE UpsertAllOrNothing
  <2> SUFFICES ASSUME NEW m \in Mans, NEW l \in Logs, NEW f \in l.recs, f.op = "upsert",
                      f.row \in Recovered(m, l), NEW r \in Recovered(m, l), r.id = f.row.id
               PROVE  r.w >= f.row.w
    BY Zenon DEF UpsertAllOrNothing
  <2>1. Replaced(Upserts, Recovered(m, l))
    BY <1>4, OutcomesReplaced DEF Outcomes
  <2>2. f \in Upserts
    BY Zenon DEF Upserts
  <2> QED
    BY Zenon, <2>1, <2>2 DEF Replaced
<1> QED
  BY <1>1, <1>2, <1>3, <1>4, InvariantHolds, InitRowsOfWrites, PTL DEF Spec
=============================================================================
