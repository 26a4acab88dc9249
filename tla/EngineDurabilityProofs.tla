----------------------- MODULE EngineDurabilityProofs -----------------------
(***************************************************************************)
(* Proofs about EngineDurability, for every set of ids, every bound and    *)
(* every flush threshold.  The inductive invariant is preserved by a       *)
(* logged write, by a commit, and by the log reset, a crash, a power loss  *)
(* and recovery; so it holds always, and the safety properties follow from *)
(* it.                                                                     *)
(***************************************************************************)
EXTENDS EngineDurability, TLAPS

-----------------------------------------------------------------------------
(* A logged write: appending its record to the log, and applying it to the  *)
(* rows served.                                                             *)

(* Every step of the write path keeps every variable in its type.           *)
LEMMA TypeOKInductive == TypeOK /\ [Next]_vars => TypeOK'
<1> SUFFICES ASSUME TypeOK, [Next]_vars PROVE TypeOK'
  BY Zenon
<1> USE DEF TypeOK
<1>0. NoRecord \in Record
  BY Zenon, IdsAssumption DEF NoRecord, Record, Row, Ops
<1>1. ASSUME NEW f \in Candidates, AppendRecord(f) PROVE TypeOK'
  <2>1. f \in Record
    BY <1>1 DEF Candidates, NewRow, Record, Row, Ops
  <2>2. Appended(f) \in Log
    BY Zenon, <2>1 DEF Appended, Log, Record
  <2>3. log' \in Log /\ appendable' \in BOOLEAN /\ doubted' \subseteq Record
        /\ wrote' \in Record /\ pc' \in {pc, "apply"}
    BY Zenon, <1>1, <2>1, <2>2 DEF AppendRecord, AppendOutcome
  <2> QED
    BY <1>1, <2>3 DEF AppendRecord
<1>2. CASE Apply
  BY Zenon, <1>2, <1>0 DEF Apply, Stored, Adds, disk, aux, Record
<1>3. ASSUME NEW persisted \in BOOLEAN, SealMemtable(persisted) PROVE TypeOK'
  BY <1>3 DEF SealMemtable, LastSeq, disk, aux
<1>4. CASE FlushLeftover \/ Merge \/ NoMerge \/ CommitFeatureModel
  BY Zenon, <1>4 DEF FlushLeftover, Merge, NoMerge, CommitFeatureModel, ram, disk, aux
<1>5. ASSUME NEW ids \in SUBSET Ids, Bulk(ids) PROVE TypeOK'
  BY <1>5 DEF Bulk, NewRow, Row, ram, disk
<1>6. ASSUME NEW ids \in SUBSET Ids, BulkBeforeFirstMask(ids) PROVE TypeOK'
  BY <1>6 DEF BulkBeforeFirstMask, NewRow, Row, LastSeq, disk
<1>7. ASSUME NEW inDoubt \in BOOLEAN, CommitFailed(inDoubt)
      PROVE  /\ mem' \subseteq Row /\ unc' \subseteq Row /\ sealed' \in Nat
             /\ pc' \in {"policy", "idle"} /\ job' = "none" /\ healthy' = FALSE
             /\ batch' \subseteq Row /\ taken' \in [rows : SUBSET Row, sealed : Nat]
  BY Zenon, <1>7 DEF CommitFailed, NothingTaken
<1>8. CASE CommitFails
  BY Zenon, <1>7, <1>8 DEF CommitFails, disk, aux
<1>9. CASE CommitNotSynced
  <2>1. (job = "bulk") \in BOOLEAN
    BY Zenon
  <2> QED
    BY Zenon, <1>7, <1>9, <2>1 DEF CommitNotSynced, disk, aux
<1>10. CASE Rename
  BY <1>10 DEF Rename, NewManifest, LastSeq, Manifest, ram, aux
<1>11. CASE CommitSynced
  BY Zenon, <1>11 DEF CommitSynced, NothingTaken, aux
<1>12. CASE Checkpoint
  <2>1. [recs |-> log.recs, ckpt |-> nextSeq, last |-> nextSeq] \in Log
    BY Zenon DEF Log
  <2>2. log' \in Log /\ appendable' \in BOOLEAN
    BY Zenon, <1>12, <2>1 DEF Checkpoint
  <2> QED
    BY <1>12, <2>2 DEF Checkpoint, aux
<1>13. ASSUME AfterSeal PROVE pc' \in {"policy", "rename", "idle"} /\ job' \in {"none", "bulk"}
                              /\ batch' \subseteq Row /\ healthy' \in BOOLEAN
  BY Zenon, <1>13 DEF AfterSeal
<1>14. CASE ResetFails
  BY Zenon, <1>13, <1>14 DEF ResetFails, disk, aux
<1>15. CASE ResetRename
  BY Zenon, <1>15 DEF ResetRename, EmptyLog, Log, aux
<1>16. CASE ResetSync
  BY Zenon, <1>13, <1>16 DEF ResetSync, aux
<1>17. ASSUME Gone
       PROVE  /\ mem' \subseteq Row /\ unc' \subseteq Row /\ seg' \subseteq Row
              /\ dead' \subseteq Row /\ batch' \subseteq Row /\ doubted' \subseteq Record
              /\ sealed' \in Nat /\ nextSeq' \in Nat \ {0} /\ writes' \in Nat
              /\ appendable' \in BOOLEAN /\ awaits' \in BOOLEAN /\ healthy' \in BOOLEAN
              /\ wrote' \in Record /\ taken' \in [rows : SUBSET Row, sealed : Nat]
              /\ pc' = "down" /\ job' = "none"
  <2>1. wrote' \in Record /\ taken' \in [rows : SUBSET Row, sealed : Nat]
    BY Zenon, <1>0, <1>17 DEF Gone, NothingTaken
  <2>2. sealed' \in Nat /\ nextSeq' \in Nat \ {0} /\ writes' \in Nat
    BY <1>17 DEF Gone
  <2> QED
    BY Zenon, <1>17, <2>1, <2>2 DEF Gone
<1>18. CASE Crash \/ PowerLoss
  <2>1. Gone
    BY Zenon, <1>18 DEF Crash, PowerLoss
  <2>2. /\ man' \in Manifest /\ oldMans' \subseteq Manifest
        /\ log' \in Log /\ oldLogs' \subseteq Log
    BY Zenon, <1>18 DEF Crash, PowerLoss, Mans, Logs, disk
  <2> QED
    BY Zenon, <1>17, <2>1, <2>2
<1>19. CASE Republish
  BY Zenon, <1>19 DEF Republish, ram, aux
<1>20. CASE Open
  BY <1>20 DEF Open, ReplayedRows, LogTail, Max2, Log, Manifest, Record, disk, aux
<1>21. CASE UNCHANGED vars
  BY Zenon, <1>21 DEF vars, ram, ctl, disk, aux
<1> QED
  BY Zenon, <1>1, <1>2, <1>3, <1>4, <1>5, <1>6, <1>8, <1>9, <1>10, <1>11, <1>12,
     <1>14, <1>15, <1>16, <1>18, <1>19, <1>20, <1>21 DEF Next

(* Replaying one more record, later than all the others, takes away the     *)
(* memtable rows it kills and adds its own row (replay_wal_tail).           *)
LEMMA ReplayOneMore ==
  ASSUME NEW R \in SUBSET Record, NEW f \in Record, \A g \in R : g.seq < f.seq
  PROVE  /\ ReplayedRows(R \cup {f}) = ReplayedRows(R) \cup (IF Adds(f) THEN {f.row} ELSE {})
         /\ ReplayedLive(R \cup {f}) =
              {r \in ReplayedLive(R) : ~Kills(f, r)} \cup (IF Adds(f) THEN {f.row} ELSE {})
<1>1. \A g \in R \cup {f} : ~(g.seq > f.seq)
  BY DEF Record
<1>2. \A g \in R : f.seq > g.seq
  BY Zenon DEF Record
<1>3. ReplayedRows(R \cup {f}) = ReplayedRows(R) \cup (IF Adds(f) THEN {f.row} ELSE {})
  BY Zenon DEF ReplayedRows
<1>4. ASSUME NEW r \in ReplayedLive(R \cup {f})
      PROVE  r \in {q \in ReplayedLive(R) : ~Kills(f, q)} \cup (IF Adds(f) THEN {f.row} ELSE {})
  BY Zenon, <1>1, <1>2 DEF ReplayedLive
<1>5. ASSUME NEW r \in ReplayedLive(R), ~Kills(f, r)
      PROVE  r \in ReplayedLive(R \cup {f})
  BY Zenon, <1>1, <1>2, <1>5 DEF ReplayedLive
<1>6. Adds(f) => f.row \in ReplayedLive(R \cup {f})
  BY Zenon, <1>1 DEF ReplayedLive
<1> QED
  BY Zenon, <1>3, <1>4, <1>5, <1>6

(* The type facts the later proofs use, one field at a time.                *)
LEMMA Types ==
  ASSUME TypeOK
  PROVE /\ writes \in Nat /\ nextSeq \in Nat /\ sealed \in Nat /\ taken.sealed \in Nat
        /\ taken.rows \subseteq Row
        /\ \A l \in Logs : /\ l.ckpt \in Nat /\ l.last \in Nat /\ l.recs \subseteq Record
                           /\ \A g \in l.recs : g.seq \in Nat /\ g.row \in Row
        /\ \A m \in Mans : m.wm \in Nat /\ m.sealed \in Nat /\ m.rows \subseteq Row
        /\ \A g \in doubted : g.seq \in Nat /\ g.row \in Row
        /\ \A r \in Row : r.w \in Nat
BY DEF TypeOK, Log, Record, Manifest, Logs, Mans, Row

(* A record appended to the log, or one whose append failed, keeps the      *)
(* invariant: the record is not applied yet, or is in doubt.                *)
LEMMA AppendPreserves ==
  ASSUME IInv, TypeOK', NEW f \in Candidates, AppendRecord(f)
  PROVE  IInv'
<1>1. /\ pc = "idle" /\ Up /\ Up' /\ job = "none"
      /\ f.seq = nextSeq
      /\ writes' = writes + 1 /\ nextSeq' = nextSeq + 1
      /\ UNCHANGED <<mem, unc, seg, dead, sealed, awaits, healthy, job, batch, taken,
                     oldLogs, man, oldMans>>
  BY Zenon DEF AppendRecord, Mutation, IInv, Control, Up
<1>2. /\ f.row.w <= writes + 1
      /\ Adds(f) => f.row.w = writes + 1
  <2>1. \A r \in mem \cup seg : r.w <= writes /\ r.w \in Nat
    BY Zenon DEF IInv, RowsNamed, TypeOK, Row, Stored
  <2>2. writes \in Nat
    BY Zenon DEF IInv, TypeOK
  <2>3. CASE f.op \in {"insert", "upsert"} /\ \E i \in Ids : f.row = NewRow(i)
    BY <2>2, <2>3 DEF NewRow
  <2>4. CASE f.op = "delete" /\ \E i \in Ids : f.row = [id |-> i, w |-> 0]
    BY <2>2, <2>4 DEF Adds
  <2>5. CASE f.op = "tombstone" /\ f.row \in mem \cup seg
    BY <2>1, <2>2, <2>5 DEF Adds
  <2> QED
    BY Zenon, <2>3, <2>4, <2>5 DEF AppendRecord, Mutation
<1>3. /\ writes \in Nat /\ nextSeq \in Nat /\ sealed \in Nat /\ taken.sealed \in Nat
      /\ \A l \in Logs : /\ l.ckpt \in Nat /\ l.last \in Nat /\ l.recs \subseteq Record
                         /\ \A g \in l.recs : g.seq \in Nat /\ g.row \in Row
      /\ \A m \in Mans : m.wm \in Nat /\ m.sealed \in Nat /\ m.rows \subseteq Row
      /\ \A g \in doubted : g.seq \in Nat /\ g.row \in Row
      /\ \A r \in Row : r.w \in Nat
  BY Zenon, Types DEF IInv
<1>4. \A l \in Logs : f \notin l.recs
  BY <1>1, <1>3 DEF IInv, SeqsTaken, LogsInOrder
<1>5. f \notin doubted
  BY <1>1 DEF IInv, DoubtedApart, TypeOK
<1>6. /\ Adds(f) => f.row \notin Stored \cup dead \cup batch \cup {g.row : g \in doubted}
      /\ \A m \in Mans : Adds(f) => f.row \notin m.rows
  BY <1>2, <1>3 DEF IInv, RowsNamed, TypeOK, Stored
<1>7. Mans' = Mans /\ Live' = Live /\ Stored' = Stored
  BY Zenon, <1>1 DEF Mans, Live, Stored
<1>13. ASSUME doubted' \subseteq doubted \cup {f}
       PROVE  RowsNamed'
  <2>1. \A r \in Row : r.w <= writes => r.w <= writes'
    BY <1>1, <1>3
  <2>2. Stored \cup dead \cup batch \cup taken.rows \subseteq Row
    BY Zenon DEF IInv, TypeOK, Stored
  <2>3. \A g \in doubted' : g.row.w <= writes'
    BY Zenon, <1>1, <1>2, <1>3, <1>13, <2>1 DEF IInv, RowsNamed
  <2> QED
    BY Zenon, <1>1, <1>3, <1>7, <2>1, <2>2, <2>3 DEF IInv, RowsNamed
<1>8. \/ /\ log' = log /\ doubted' = doubted /\ wrote' = wrote /\ pc' = "idle"
         /\ appendable' = FALSE
      \/ /\ appendable /\ oldLogs = {} /\ ~awaits
         /\ log' = [recs |-> log.recs \cup {f}, ckpt |-> log.ckpt, last |-> nextSeq]
         /\ \/ /\ doubted' = doubted /\ wrote' = f /\ pc' = "apply" /\ appendable' = appendable
            \/ doubted' = doubted \cup {f} /\ wrote' = wrote /\ pc' = "idle" /\ appendable' = FALSE
  <2>1. Appended(f) = [recs |-> log.recs \cup {f}, ckpt |-> log.ckpt, last |-> nextSeq]
    BY Zenon, <1>1 DEF Appended
  <2>2. appendable => oldLogs = {} /\ ~awaits
    BY Zenon, <1>1 DEF IInv, Control
  <2> QED
    BY Zenon, <1>1, <2>1, <2>2 DEF AppendRecord, AppendOutcome
<1>9. CASE log' = log /\ doubted' = doubted /\ wrote' = wrote /\ pc' = "idle" /\ appendable' = FALSE
  <2>1. \A R : Applied(R)' = Applied(R)
    BY Zenon, <1>1, <1>9 DEF Applied, InFlight
  <2>2. Logs' = Logs
    BY Zenon, <1>1, <1>9 DEF Logs
  <2>3. LogsInOrder' /\ SeqsTaken'
    BY <1>1, <1>3, <1>7, <2>2 DEF IInv, LogsInOrder, SeqsTaken
  <2>6. RowsNamed'
    BY Zenon, <1>9, <1>13
  <2>4. Control' /\ Applying' /\ DoubtedApart'
    BY <1>1, <1>7, <1>9 DEF IInv, Control, Applying, DoubtedApart, TypeOK, Record
  <2>5. NoRowTwice' /\ MemtableIsTail' /\ TakenIsTail' /\ RecoversLive'
    BY Zenon, <1>1, <1>7, <2>1, <2>2 DEF IInv, NoRowTwice, MemtableIsTail, MemtableOf, TakenIsTail, RecoversLive
  <2> QED
    BY Zenon, <2>3, <2>4, <2>5, <2>6 DEF IInv
<1>10. CASE 
         /\ appendable /\ oldLogs = {} /\ ~awaits
         /\ log' = [recs |-> log.recs \cup {f}, ckpt |-> log.ckpt, last |-> nextSeq]
         /\ \/ /\ doubted' = doubted /\ wrote' = f /\ pc' = "apply" /\ appendable' = appendable
            \/ doubted' = doubted \cup {f} /\ wrote' = wrote /\ pc' = "idle" /\ appendable' = FALSE
  <2>1. \A s : Applied(LogTail(log, s))' = Applied(LogTail(log, s))
    <3>1. (doubted \cup InFlight)' = doubted \cup {f} /\ InFlight = {}
      BY Zenon, <1>1, <1>10 DEF InFlight
    <3>2. f \notin log.recs
      BY Zenon, <1>4 DEF Logs
    <3>3. log'.recs = log.recs \cup {f} /\ log'.ckpt = log.ckpt
      BY Zenon, <1>10
    <3> QED
      BY Zenon, <3>1, <3>2, <3>3 DEF Applied, LogTail
  <2>2. Logs' = {log'} /\ Logs = {log}
    BY Zenon, <1>1, <1>10 DEF Logs
  <2>3. LogsInOrder' /\ SeqsTaken'
    BY <1>1, <1>2, <1>3, <1>7, <1>10, <2>2 DEF IInv, LogsInOrder, SeqsTaken
  <2>9. RowsNamed'
    BY Zenon, <1>10, <1>13
  <2>4. Control'
    BY Zenon, <1>1, <1>7, <1>10, <1>3 DEF IInv, Control, Up
  <2>5. Applying'
    <3> SUFFICES ASSUME pc' = "apply" PROVE Applying'
      BY Zenon DEF Applying
    <3>1. wrote' = f /\ doubted' = doubted /\ log'.recs = log.recs \cup {f} /\ log'.ckpt = log.ckpt
          /\ appendable'
      BY Zenon, <1>10
    <3>2. log \in Logs /\ log.ckpt < nextSeq /\ \A g \in log.recs : g.seq < nextSeq
      BY <1>1, <1>3, <2>2 DEF IInv, SeqsTaken, LogsInOrder
    <3>3. \A m \in Mans' : nextSeq > m.wm /\ nextSeq > m.sealed
      BY Zenon, <1>1, <1>3, <1>7 DEF IInv, SeqsTaken
    <3>4. LastSeq' = nextSeq /\ nextSeq > sealed
      BY <1>1, <1>3 DEF IInv, SeqsTaken, LastSeq
    <3> QED
      BY Zenon, <1>1, <1>5, <1>6, <1>7, <3>1, <3>2, <3>3, <3>4 DEF Applying
  <2>6. DoubtedApart'
    <3>1. doubted' \subseteq doubted \cup {f} /\ pc' # "rename"
      BY Zenon, <1>10
    <3>2. \A g \in doubted : g.seq < nextSeq /\ g.seq \in Nat
      BY Zenon DEF IInv, DoubtedApart, TypeOK, Record
    <3>3. \A g \in doubted' : g.seq < nextSeq'
      BY <1>1, <1>3, <3>1, <3>2
    <3> QED
      BY Zenon, <1>1, <1>6, <1>7, <3>1, <3>3 DEF IInv, DoubtedApart
  <2>7. NoRowTwice'
    <3>1. \A s : ReplayedRows(LogTail(log, s))' \subseteq ReplayedRows(LogTail(log, s)) \cup (IF Adds(f) THEN {f.row} ELSE {})
      BY Zenon, <1>10 DEF ReplayedRows, LogTail
    <3>2. \A m \in Mans : m.rows \cap ReplayedRows(LogTail(log, m.sealed))' = {}
      BY SMTT(30), <3>1, <1>6, <2>2 DEF IInv, NoRowTwice
    <3> QED
      BY Zenon, <3>2, <1>1, <1>7, <2>2 DEF IInv, NoRowTwice
  <2>8. MemtableIsTail' /\ TakenIsTail' /\ RecoversLive'
    BY Zenon, <1>1, <1>7, <2>1, <2>2 DEF IInv, MemtableIsTail, MemtableOf, TakenIsTail, RecoversLive
  <2> QED
    BY Zenon, <2>3, <2>4, <2>5, <2>6, <2>7, <2>8, <2>9 DEF IInv
<1> QED
  BY Zenon, <1>8, <1>9, <1>10

(* A record above the watermark takes its rows out of the committed         *)
(* segments when it is replayed.                                            *)
LEMMA CommittedOneMore ==
  ASSUME NEW m, NEW R, NEW f, f.seq > m.wm
  PROVE  CommittedLive(m, R \cup {f}) = {r \in CommittedLive(m, R) : ~Kills(f, r)}
BY Zenon DEF CommittedLive

(* Applying the record that was logged changes the rows served exactly as   *)
(* replaying it after a restart would.                                      *)
LEMMA ApplyPreserves ==
  ASSUME IInv, TypeOK', Apply
  PROVE  IInv'
<1> DEFINE added == IF Adds(wrote) THEN {wrote.row} ELSE {}
           R(s) == Applied(LogTail(log, s))
<1>1. /\ pc = "apply" /\ pc' \in {"idle", "seal"} /\ Up /\ Up' /\ job = "none" /\ InFlight' = {}
      /\ InFlight = {wrote}
      /\ mem' = mem \cup added
      /\ dead' = dead \cup {r \in Stored : Kills(wrote, r)}
      /\ UNCHANGED <<unc, seg, sealed, nextSeq, appendable, awaits, healthy, job, batch, taken,
                     log, oldLogs, man, oldMans, writes, doubted>>
  BY Zenon DEF Apply, IInv, Control, Up, disk, aux, InFlight
<1>2. /\ appendable /\ oldLogs = {} /\ ~awaits /\ oldMans = {} /\ batch = {}
      /\ Logs = {log} /\ Mans = {man} /\ Logs' = Logs /\ Mans' = Mans
  BY Zenon, <1>1 DEF IInv, Applying, Control, Logs, Mans
<1>3. /\ wrote \in log.recs \ doubted /\ wrote \in Record
      /\ wrote.seq > log.ckpt /\ wrote.seq > sealed
      /\ wrote.seq > man.wm /\ wrote.seq > man.sealed
      /\ \A f \in log.recs : f = wrote \/ f.seq < wrote.seq
      /\ Adds(wrote) => wrote.row \notin Stored \cup dead \cup {f.row : f \in doubted}
  BY Zenon, <1>1, <1>2, Types DEF IInv, Applying
<1>4. Stored' = Stored \cup added
  BY Zenon, <1>1 DEF Stored
<1>5. Live' = {r \in Live : ~Kills(wrote, r)} \cup added
  BY Zenon, <1>1, <1>3, <1>4 DEF Live
<1>6. ASSUME NEW s \in Nat, wrote.seq > s
      PROVE  /\ Applied(LogTail(log, s))' = R(s) \cup {wrote}
             /\ R(s) \subseteq Record
             /\ \A g \in R(s) : g.seq < wrote.seq
  <2>1. LogTail(log, s)' = LogTail(log, s) /\ wrote \in LogTail(log, s)
    BY Zenon, <1>1, <1>3, <1>6 DEF LogTail
  <2>2. LogTail(log, s) \subseteq log.recs /\ log.recs \subseteq Record
    BY Zenon, <1>2, Types DEF LogTail, IInv
  <2> QED
    BY Zenon, <1>1, <1>3, <2>1, <2>2 DEF Applied
<1>7. LogsInOrder' /\ SeqsTaken'
  BY Zenon, <1>1, <1>2 DEF IInv, LogsInOrder, SeqsTaken
<1>8. RowsNamed'
  <2>1. \A r \in added : r.w <= writes
    BY Zenon, <1>2, <1>3 DEF IInv, LogsInOrder
  <2> QED
    BY Zenon, <1>1, <1>2, <1>4, <2>1 DEF IInv, RowsNamed
<1>9. Control' /\ Applying' /\ DoubtedApart'
  <2>1. Control'
    BY Zenon, <1>1 DEF IInv, Control
  <2> QED
    BY Zenon, <1>1, <1>2, <1>4, <2>1 DEF IInv, Applying, DoubtedApart
<1>10. NoRowTwice'
  BY Zenon, <1>1, <1>2, <1>3 DEF IInv, NoRowTwice, Stored
<1>11. MemtableIsTail'
  <2>1. /\ mem = ReplayedRows(R(sealed)) /\ mem \ dead = ReplayedLive(R(sealed))
    BY Zenon, <1>1, <1>2 DEF IInv, MemtableIsTail, MemtableOf
  <2>2. sealed \in Nat
    BY Zenon, Types DEF IInv
  <2>3. /\ ReplayedRows(R(sealed) \cup {wrote}) = mem'
        /\ ReplayedLive(R(sealed) \cup {wrote}) = {r \in mem \ dead : ~Kills(wrote, r)} \cup added
    BY <1>1, <1>3, <1>6, <2>1, <2>2, ReplayOneMore
  <2>4. mem' \ dead' = {r \in mem \ dead : ~Kills(wrote, r)} \cup added
    BY Zenon, <1>1, <1>3 DEF Stored
  <2> QED
    BY Zenon, <1>1, <1>2, <1>3, <1>6, <2>2, <2>3, <2>4 DEF MemtableIsTail, MemtableOf
<1>12. TakenIsTail'
  BY Zenon, <1>1 DEF TakenIsTail
<1>13. RecoversLive'
  <2>1. man.sealed \in Nat
    BY Zenon, <1>2, Types DEF IInv
  <2>2. CommittedLive(man, R(man.sealed)) \cup ReplayedLive(R(man.sealed)) = Live
    BY Zenon, <1>1, <1>2 DEF IInv, RecoversLive, RecoveredFrom
  <2>3. /\ CommittedLive(man, R(man.sealed) \cup {wrote}) = {r \in CommittedLive(man, R(man.sealed)) : ~Kills(wrote, r)}
        /\ ReplayedLive(R(man.sealed) \cup {wrote}) = {r \in ReplayedLive(R(man.sealed)) : ~Kills(wrote, r)} \cup added
    <3> DEFINE RR == R(man.sealed)
    <3>1. RR \subseteq Record /\ \A g \in RR : g.seq < wrote.seq
      BY Zenon, <1>3, <1>6, <2>1
    <3> HIDE DEF RR
    <3>2. CommittedLive(man, RR \cup {wrote}) = {r \in CommittedLive(man, RR) : ~Kills(wrote, r)}
      BY <1>3, CommittedOneMore
    <3>3. ReplayedLive(RR \cup {wrote}) = {r \in ReplayedLive(RR) : ~Kills(wrote, r)} \cup added
      BY Zenon, <1>3, <3>1, ReplayOneMore
    <3> QED
      BY Zenon, <3>2, <3>3 DEF RR
  <2>4. CommittedLive(man, R(man.sealed) \cup {wrote}) \cup ReplayedLive(R(man.sealed) \cup {wrote}) = Live'
    BY Zenon, <1>5, <2>2, <2>3
  <2>5. Applied(LogTail(log, man.sealed))' = R(man.sealed) \cup {wrote}
    BY Zenon, <1>1, <1>3, <1>6, <2>1
  <2> QED
    BY Zenon, <1>1, <1>2, <2>4, <2>5 DEF RecoversLive, RecoveredFrom
<1> QED
  BY Zenon, <1>7, <1>8, <1>9, <1>10, <1>11, <1>12, <1>13 DEF IInv



-----------------------------------------------------------------------------
(* A commit: sealing the memtable, a bulk load, the rename of the manifest, *)
(* its sync, and its failure before or after the rename.                    *)

(* Deciding to commit (leftover flush, merge, vocabulary) changes only      *)
(* where the writer is.                                                     *)
LEMMA StartCommitPreserves ==
  ASSUME IInv, TypeOK', FlushLeftover \/ Merge \/ NoMerge \/ CommitFeatureModel
  PROVE  IInv'
<1> USE DEF ram, disk, aux
<1>1. /\ UNCHANGED <<mem, unc, seg, dead, sealed, nextSeq, appendable, awaits, healthy,
                     wrote, batch, taken, log, oldLogs, man, oldMans, writes, doubted>>
      /\ pc \in {"idle", "policy"} /\ job = "none"
      /\ \/ /\ pc' = "rename" /\ ~awaits /\ job' \in {"flush", "merge", "vocab"}
            /\ job' = "vocab" => unc = {}
            /\ job' = "flush" => mem = {}
         \/ pc' = "idle" /\ job' = "none"
  BY Zenon DEF IInv, Control, FlushLeftover, Merge, NoMerge, CommitFeatureModel
<1>2. \A R : Applied(R)' = Applied(R)
  BY Zenon, <1>1 DEF Applied, InFlight
<1>3. Up /\ Up' /\ Logs' = Logs /\ Mans' = Mans /\ Live' = Live /\ Stored' = Stored
  BY Zenon, <1>1 DEF Up, Logs, Mans, Live, Stored
<1>4. LogsInOrder' /\ RowsNamed' /\ SeqsTaken'
  BY Zenon, <1>1, <1>3 DEF IInv, LogsInOrder, RowsNamed, SeqsTaken
<1>5. Control'
  BY Zenon, <1>1 DEF IInv, Control, Up
<1>6. Applying' /\ DoubtedApart'
  BY Zenon, <1>1, <1>3 DEF IInv, Applying, DoubtedApart, Control
<1>7. NoRowTwice' /\ MemtableIsTail' /\ TakenIsTail' /\ RecoversLive'
  BY Zenon, <1>1, <1>2, <1>3 DEF IInv, NoRowTwice, MemtableIsTail, MemtableOf, TakenIsTail, RecoversLive
<1> QED
  BY Zenon, <1>4, <1>5, <1>6, <1>7 DEF IInv

(* An empty log tail builds an empty memtable.                              *)
LEMMA NothingToReplay ==
  /\ ReplayedRows({}) = {} /\ ReplayedLive({}) = {}
  /\ \A m : CommittedLive(m, {}) = {r \in m.rows : TRUE}
BY Zenon DEF ReplayedRows, ReplayedLive, CommittedLive

(* Sealing the memtable moves its rows and the position the replay starts   *)
(* from together (take_memtable).                                           *)
LEMMA SealPreserves ==
  ASSUME IInv, TypeOK', NEW persisted \in BOOLEAN, SealMemtable(persisted)
  PROVE  IInv'
<1>1. /\ pc \in {"idle", "seal"} /\ mem # {} /\ job = "none" /\ Up /\ Up'
      /\ mem' = {} /\ unc' = unc \cup mem /\ sealed' = LastSeq
      /\ UNCHANGED <<seg, dead, nextSeq, appendable, awaits, wrote, batch, taken,
                     log, oldLogs, man, oldMans, writes, doubted>>
      /\ \/ pc' = "rename" /\ job' = "flush" /\ ~awaits /\ healthy' = healthy
         \/ pc' = "policy" /\ job' = "none" /\ healthy' = FALSE
  BY Zenon DEF SealMemtable, IInv, Control, Up, disk, aux, TypeOK
<1>2. \A R : Applied(R)' = Applied(R)
  BY Zenon, <1>1 DEF Applied, InFlight
<1>3. Logs' = Logs /\ Mans' = Mans /\ Live' = Live /\ Stored' = Stored
  BY Zenon, <1>1 DEF Logs, Mans, Live, Stored
<1>4. LogsInOrder' /\ RowsNamed'
  BY Zenon, <1>1, <1>3 DEF IInv, LogsInOrder, RowsNamed
<1>5. SeqsTaken'
  BY <1>1, <1>3, Types DEF IInv, SeqsTaken, LastSeq
<1>6. Control'
  BY Zenon, <1>1 DEF IInv, Control
<1>7. Applying' /\ DoubtedApart'
  BY Zenon, <1>1, <1>3 DEF IInv, Applying, DoubtedApart, Control
<1>8. NoRowTwice'
  BY Zenon, <1>1, <1>3 DEF IInv, NoRowTwice
<1>9. MemtableIsTail'
  <2>1. \A l \in Logs : LogTail(l, LastSeq) = {}
    BY SMTT(30), <1>1, Types DEF IInv, LogTail, LastSeq, SeqsTaken, LogsInOrder
  <2>2. \A l \in Logs : Applied(LogTail(l, LastSeq)) = {}
    BY Zenon, <2>1 DEF Applied
  <2> QED
    BY Zenon, <1>1, <1>2, <1>3, <2>2, NothingToReplay DEF MemtableIsTail, MemtableOf
<1>10. TakenIsTail' /\ RecoversLive'
  BY Zenon, <1>1, <1>2, <1>3 DEF IInv, TakenIsTail, RecoversLive
<1> QED
  BY Zenon, <1>4, <1>5, <1>6, <1>7, <1>8, <1>9, <1>10 DEF IInv

(* A bulk load names its rows and, before the first mask, seals the         *)
(* memtable from a copy.                                                    *)
LEMMA BulkPreserves ==
  ASSUME IInv, TypeOK', NEW ids \in SUBSET Ids, Bulk(ids) \/ BulkBeforeFirstMask(ids)
  PROVE  IInv'
<1>1. /\ pc = "idle" /\ job = "none" /\ Up /\ Up' /\ ~awaits /\ batch = {}
      /\ writes' = writes + 1 /\ batch' = {NewRow(i) : i \in ids} /\ pc' = "rename"
      /\ UNCHANGED <<seg, dead, nextSeq, appendable, awaits, healthy, wrote,
                     log, oldLogs, man, oldMans, doubted>>
      /\ unc' \cup mem' = unc \cup mem
      /\ \/ /\ job' = "bulk" /\ UNCHANGED <<mem, unc, sealed, taken>>
         \/ /\ job' = "first_mask" /\ mem \cup unc # {}
            /\ mem' = {} /\ unc' = unc \cup mem
            /\ taken' = [rows |-> mem, sealed |-> sealed]
            /\ sealed' = IF mem # {} THEN LastSeq ELSE sealed
  BY Zenon DEF Bulk, BulkBeforeFirstMask, IInv, Control, Up, ram, disk
<1>2. \A R : Applied(R)' = Applied(R)
  BY Zenon, <1>1 DEF Applied, InFlight
<1>3. Logs' = Logs /\ Mans' = Mans /\ Live' = Live /\ Stored' = Stored
  BY Zenon, <1>1 DEF Logs, Mans, Live, Stored
<1>4. \A r \in Row : r.w <= writes => r.w <= writes' /\ r \notin batch'
  BY <1>1, Types DEF IInv, NewRow
<1>5. /\ \A r \in batch' : r.w <= writes'
      /\ Stored \cup dead \cup batch \cup taken.rows \subseteq Row
      /\ \A m \in Mans : m.rows \subseteq Row
      /\ \A l \in Logs : \A f \in l.recs : f.row \in Row
      /\ \A f \in doubted : f.row \in Row
  BY <1>1, Types DEF IInv, NewRow, TypeOK, Stored
<1>6. LogsInOrder'
  BY Zenon, <1>3, <1>4, <1>5 DEF IInv, LogsInOrder
<1>7. RowsNamed'
  BY <1>1, <1>3, <1>4, <1>5 DEF IInv, RowsNamed, Stored
<1>8. SeqsTaken'
  <2>1. nextSeq \in Nat /\ LastSeq < nextSeq
    BY Types DEF IInv, LastSeq
  <2>2. taken'.sealed < nextSeq /\ sealed' < nextSeq
    BY <1>1, <2>1 DEF IInv, SeqsTaken
  <2> QED
    BY Zenon, <1>1, <1>3, <2>2 DEF IInv, SeqsTaken
<1>9. Control'
  BY Zenon, <1>1 DEF IInv, Control
<1>10. Applying' /\ DoubtedApart'
  BY Zenon, <1>1, <1>3, <1>4, <1>5 DEF IInv, Applying, DoubtedApart, RowsNamed
<1>11. NoRowTwice'
  BY Zenon, <1>1, <1>3 DEF IInv, NoRowTwice
<1>12. MemtableIsTail'
  <2>1. \A l \in Logs : LogTail(l, LastSeq) = {}
    BY <1>1, Types DEF IInv, LogTail, LastSeq, SeqsTaken, LogsInOrder
  <2>2. \A l \in Logs : Applied(LogTail(l, LastSeq)) = {}
    BY Zenon, <2>1 DEF Applied
  <2>3. CASE mem' = mem /\ sealed' = sealed
    BY Zenon, <1>1, <1>2, <1>3, <2>3 DEF IInv, MemtableIsTail, MemtableOf
  <2>4. CASE mem' = {} /\ sealed' = LastSeq
    BY Zenon, <1>1, <1>2, <1>3, <2>2, <2>4, NothingToReplay DEF MemtableIsTail, MemtableOf
  <2> QED
    BY Zenon, <1>1, <2>3, <2>4
<1>13. TakenIsTail'
  <2>1. MemtableOf(mem, sealed)
    BY Zenon, <1>1 DEF IInv, MemtableIsTail
  <2>2. job' = "first_mask" => MemtableOf(taken.rows, taken.sealed)'
    BY <1>1, <1>2, <1>3, <2>1 DEF MemtableOf
  <2>3. job' = "first_mask" /\ unc' = taken'.rows => taken'.sealed = man'.sealed
    BY <1>1 DEF IInv, NoRowTwice, Control
  <2> QED
    BY <1>1, <2>2, <2>3 DEF TakenIsTail
<1>14. RecoversLive'
  BY <1>1, <1>2, <1>3, <1>4, <1>5 DEF IInv, RecoversLive, RowsNamed
<1> QED
  BY Zenon, <1>6, <1>7, <1>8, <1>9, <1>10, <1>11, <1>12, <1>13, <1>14 DEF IInv

(* A commit that failed, before its rename or after it, leaves the process  *)
(* with rows that every manifest that may be on disk recovers to.           *)
LEMMA CommitFailurePreserves ==
  ASSUME IInv, TypeOK', CommitFails \/ CommitNotSynced
  PROVE  IInv'
<1>1. /\ pc \in {"rename", "sync"} /\ job # "none" /\ Up /\ Up' /\ ~awaits
      /\ pc' \in {"policy", "idle"} /\ job' = "none" /\ healthy' = FALSE
      /\ UNCHANGED <<seg, dead, nextSeq, wrote, log, oldLogs, man, oldMans, writes, doubted>>
      /\ taken' = NothingTaken
      /\ batch' \in {batch, {}} /\ (batch' = {} \/ awaits')
      /\ \/ pc = "rename" /\ batch' = {} /\ awaits' = awaits /\ appendable' = appendable
         \/ pc = "sync" /\ awaits' = TRUE /\ appendable' = FALSE /\ (batch' = batch \/ job # "bulk")
      /\ \/ job # "first_mask" /\ UNCHANGED <<mem, unc, sealed>>
         \/ /\ job = "first_mask" /\ mem' = taken.rows /\ unc' = unc \ taken.rows
            /\ sealed' = taken.sealed
  BY Zenon DEF CommitFails, CommitNotSynced, CommitFailed, IInv, Control, Up, disk, aux
<1>2. \A R : Applied(R)' = Applied(R)
  BY Zenon, <1>1 DEF Applied, InFlight
<1>3. Stored' = Stored
  <2>1. job = "first_mask" => taken.rows \subseteq unc /\ mem = {}
    BY Zenon, <1>1 DEF IInv, TakenIsTail, Control
  <2> QED
    BY Zenon, <1>1, <2>1 DEF Stored
<1>4. Logs' = Logs /\ Mans' = Mans /\ Live' = Live
  BY Zenon, <1>1, <1>3 DEF Logs, Mans, Live
<1>5. LogsInOrder' /\ SeqsTaken'
  <2>1. nextSeq > 0
    BY DEF IInv, TypeOK
  <2> QED
    BY Zenon, <1>1, <1>4, <2>1 DEF IInv, LogsInOrder, SeqsTaken, NothingTaken
<1>6. RowsNamed'
  BY Zenon, <1>1, <1>3, <1>4 DEF IInv, RowsNamed, NothingTaken
<1>7. Control'
  <2>1. unc' = {} /\ ~awaits' => sealed' = man'.sealed
    BY Zenon, <1>1 DEF IInv, Control, TakenIsTail
  <2> QED
    BY <1>1, <2>1 DEF IInv, Control
<1>8. Applying' /\ DoubtedApart'
  BY Zenon, <1>1, <1>3 DEF IInv, Applying, DoubtedApart
<1>9. NoRowTwice'
  BY Zenon, <1>1, <1>4 DEF IInv, NoRowTwice, TakenIsTail
<1>10. MemtableIsTail'
  <2>1. job = "first_mask" => MemtableOf(taken.rows, taken.sealed)
    BY Zenon, <1>1 DEF IInv, TakenIsTail
  <2> QED
    BY Zenon, <1>1, <1>2, <1>4, <2>1 DEF IInv, MemtableIsTail, MemtableOf
<1>11. TakenIsTail'
  BY Zenon, <1>1 DEF TakenIsTail
<1>12. RecoversLive'
  <2>1. \A m \in Mans : batch' \cap m.rows = batch \cap m.rows
    BY Zenon, <1>1 DEF IInv, DoubtedApart, Control
  <2> QED
    BY Zenon, <1>1, <1>2, <1>4, <2>1 DEF IInv, RecoversLive
<1> QED
  BY Zenon, <1>5, <1>6, <1>7, <1>8, <1>9, <1>10, <1>11, <1>12 DEF IInv

(* The new manifest recovers to the same rows as the one it replaces,       *)
(* whatever log it is read with.                                            *)
LEMMA RenamePreserves ==
  ASSUME IInv, TypeOK', Rename
  PROVE  IInv'
<1> DEFINE loaded == IF job = "bulk" THEN batch ELSE {}
<1>1. /\ pc = "rename" /\ pc' = "sync" /\ job # "none" /\ ~awaits /\ Up /\ Up'
      /\ oldMans = {} /\ man' = NewManifest /\ oldMans' = {man}
      /\ UNCHANGED <<mem, unc, seg, dead, sealed, nextSeq, appendable, awaits, healthy,
                     job, wrote, batch, taken, log, oldLogs, writes, doubted>>
  BY Zenon DEF Rename, IInv, Control, Up, ram, aux
<1>2. \A R : Applied(R)' = Applied(R)
  BY Zenon, <1>1 DEF Applied, InFlight
<1>3. Logs' = Logs /\ Mans = {man} /\ Mans' = {man', man} /\ Live' = Live /\ Stored' = Stored
  BY Zenon, <1>1 DEF Logs, Mans, Live, Stored
<1>4. /\ man'.rows = (seg \cup unc \cup loaded) \ dead
      /\ man'.wm = IF job = "vocab" THEN man.wm ELSE LastSeq
      /\ man'.sealed = sealed
  BY Zenon, <1>1 DEF NewManifest
<1>5. LogsInOrder' /\ RowsNamed'
  BY Zenon, <1>1, <1>3, <1>4 DEF IInv, LogsInOrder, RowsNamed, Stored
<1>6. SeqsTaken'
  BY <1>1, <1>3, <1>4, Types DEF IInv, SeqsTaken, LastSeq
<1>7. Control'
  <2>1. man' = NewManifest'
    BY Zenon, <1>1, <1>4 DEF NewManifest, LastSeq
  <2> QED
    BY Zenon, <1>1, <1>4, <2>1 DEF IInv, Control
<1>8. Applying' /\ DoubtedApart'
  BY Zenon, <1>1, <1>3, <1>4 DEF IInv, Applying, DoubtedApart, Stored
<1>9. NoRowTwice'
  <2>1. ASSUME NEW l \in Logs, NEW f \in LogTail(l, sealed), Adds(f)
        PROVE  f.row \notin man'.rows
    <3>1. CASE f \in doubted
      BY Zenon, <1>4, <2>1, <3>1 DEF IInv, DoubtedApart, Stored
    <3>2. CASE f \notin doubted
      <4>1. f \in Applied(LogTail(l, sealed))
        BY Zenon, <1>1, <2>1, <3>2 DEF Applied, InFlight
      <4>2. f.row \in mem
        BY Zenon, <1>1, <2>1, <4>1 DEF IInv, MemtableIsTail, MemtableOf, ReplayedRows
      <4> QED
        BY Zenon, <1>4, <4>2 DEF IInv, NoRowTwice, DoubtedApart, Stored
    <3> QED
      BY Zenon, <3>1, <3>2
  <2>2. \A l \in Logs : man'.rows \cap ReplayedRows(LogTail(l, sealed)) = {}
    BY Zenon, <2>1 DEF ReplayedRows
  <2> QED
    BY Zenon, <1>1, <1>3, <1>4, <2>2 DEF IInv, NoRowTwice
<1>10. MemtableIsTail' /\ TakenIsTail'
  BY Zenon, <1>1, <1>2, <1>3 DEF IInv, MemtableIsTail, MemtableOf, TakenIsTail
<1>11. RecoversLive'
  <2>1. ASSUME NEW l \in Logs
        PROVE  RecoveredFrom(man', Applied(LogTail(l, sealed))) = Live \cup (batch \cap man'.rows)
    <3> DEFINE R == Applied(LogTail(l, sealed))
    <3>1. ReplayedLive(R) = mem \ dead
      BY Zenon, <1>1 DEF IInv, MemtableIsTail, MemtableOf
    <3>2. CommittedLive(man', R) = man'.rows
      <4>1. CASE job = "vocab"
        <5>1. sealed = man.sealed /\ unc = {} /\ man'.rows = seg \ dead /\ man'.wm = man.wm
          BY Zenon, <1>1, <1>4, <4>1 DEF IInv, Control
        <5>2. seg \ dead \subseteq CommittedLive(man, R) \cup ReplayedLive(R)
          BY Zenon, <1>1, <1>3, <5>1 DEF IInv, RecoversLive, RecoveredFrom, Live, Stored
        <5>3. seg \ dead \subseteq CommittedLive(man, R)
          BY Zenon, <3>1, <5>2 DEF IInv, NoRowTwice
        <5> QED
          BY Zenon, <5>1, <5>3 DEF CommittedLive
      <4>2. CASE job # "vocab"
        <5>1. \A f \in R : ~(f.seq > LastSeq)
          BY <1>1, Types DEF IInv, Applied, LogTail, LastSeq, SeqsTaken, LogsInOrder
        <5> QED
          BY Zenon, <1>4, <4>2, <5>1 DEF CommittedLive
      <4> QED
        BY Zenon, <4>1, <4>2
    <3>3. man'.rows \cup (mem \ dead) = Live \cup (batch \cap man'.rows)
      BY Zenon, <1>1, <1>4 DEF IInv, DoubtedApart, Live, Stored
    <3> QED
      BY Zenon, <3>1, <3>2, <3>3 DEF RecoveredFrom
  <2> QED
    BY Zenon, <1>1, <1>2, <1>3, <1>4, <2>1 DEF IInv, RecoversLive
<1> QED
  BY Zenon, <1>5, <1>6, <1>7, <1>8, <1>9, <1>10, <1>11 DEF IInv

(* Once the directory is synced, only the new manifest is left and its      *)
(* segments are the committed ones.                                         *)
LEMMA CommitSyncedPreserves ==
  ASSUME IInv, TypeOK', CommitSynced
  PROVE  IInv'
<1> DEFINE loaded == IF job = "bulk" THEN batch ELSE {}
<1>1. /\ pc = "sync" /\ job # "none" /\ ~awaits /\ Up /\ Up'
      /\ oldMans' = {} /\ oldLogs' = {} /\ unc' = {} /\ seg' = seg \cup unc \cup loaded
      /\ taken' = NothingTaken
      /\ UNCHANGED <<mem, dead, sealed, nextSeq, appendable, awaits, healthy, wrote, log, man,
                     writes, doubted>>
      /\ \/ job \in {"flush", "first_mask"} /\ pc' = "checkpoint" /\ job' = job
         \/ job \notin {"flush", "first_mask"} /\ pc' \in {"policy", "idle"} /\ job' = "none"
      /\ batch' = IF job = "first_mask" THEN batch ELSE {}
      /\ job \notin {"bulk", "first_mask"} => batch = {}
  BY Zenon DEF CommitSynced, IInv, Control, Up, aux
<1>2. \A R : Applied(R)' = Applied(R)
  BY Zenon, <1>1 DEF Applied, InFlight
<1>3. Logs' = {log} /\ Mans' = {man} /\ log \in Logs /\ man \in Mans
  BY Zenon, <1>1 DEF Logs, Mans
<1>4. man.rows = (seg \cup unc \cup loaded) \ dead /\ man.sealed = sealed
  BY <1>1 DEF IInv, Control, NewManifest
<1>5. Stored' = Stored \cup loaded /\ Live' = Live \cup loaded
  BY Zenon, <1>1 DEF Stored, Live, IInv, DoubtedApart
<1>6. LogsInOrder' /\ RowsNamed' /\ SeqsTaken'
  <2>1. nextSeq > 0
    BY DEF IInv, TypeOK
  <2>2. LogsInOrder' /\ SeqsTaken'
    BY Zenon, <1>1, <1>3, <2>1 DEF IInv, LogsInOrder, SeqsTaken, NothingTaken
  <2> QED
    BY Zenon, <1>1, <1>3, <1>5, <2>2 DEF IInv, RowsNamed, NothingTaken
<1>7. Control'
  BY Zenon, <1>1, <1>4 DEF IInv, Control
<1>8. Applying' /\ DoubtedApart'
  BY Zenon, <1>1, <1>3, <1>5 DEF IInv, Applying, DoubtedApart
<1>9. NoRowTwice'
  BY Zenon, <1>1, <1>3 DEF IInv, NoRowTwice, DoubtedApart, Stored
<1>10. MemtableIsTail' /\ TakenIsTail'
  BY SMTT(30), <1>1, <1>2, <1>3 DEF IInv, MemtableIsTail, MemtableOf, TakenIsTail
<1>11. RecoversLive'
  <2>1. Live \cup (batch \cap man.rows) = Live' \cup (batch' \cap man.rows)
    BY Zenon, <1>1, <1>3, <1>4, <1>5 DEF IInv, DoubtedApart
  <2> QED
    BY Zenon, <1>1, <1>2, <1>3, <2>1 DEF IInv, RecoversLive
<1> QED
  BY Zenon, <1>6, <1>7, <1>8, <1>9, <1>10, <1>11 DEF IInv

-----------------------------------------------------------------------------
(* The log reset, a crash, a power loss and recovery; then the theorems.    *)

(* The checkpoint record, and the empty log renamed over the old one, drop  *)
(* only records the manifest sealed through.                                *)
LEMMA CheckpointPreserves ==
  ASSUME IInv, TypeOK', Checkpoint \/ ResetRename
  PROVE  IInv'
<1>1. /\ pc \in {"checkpoint", "reset"} /\ pc' \in {"reset", "reset_sync"} /\ Up /\ Up' /\ ~awaits
      /\ job \in {"flush", "first_mask"} /\ mem = {} /\ unc = {} /\ man.rows = seg \ dead
      /\ oldMans = {} /\ sealed = man.sealed
      /\ UNCHANGED <<mem, unc, seg, dead, sealed, awaits, healthy, job, wrote, batch, taken,
                     man, oldMans, writes, doubted>>
      /\ nextSeq' \in {nextSeq, nextSeq + 1}
      /\ pc' = "reset_sync" => ~appendable'
      /\ \/ oldLogs' = oldLogs /\ log' = log /\ appendable' = FALSE
         \/ /\ oldLogs = {} /\ oldLogs' = oldLogs /\ nextSeq' = nextSeq + 1
            /\ log' = [recs |-> log.recs, ckpt |-> nextSeq, last |-> nextSeq]
         \/ oldLogs' = oldLogs \cup {log} /\ log' = EmptyLog /\ appendable' = FALSE
  BY Zenon DEF Checkpoint, ResetRename, IInv, Control, Up, aux
<1>2. \A R : Applied(R)' = Applied(R)
  BY Zenon, <1>1 DEF Applied, InFlight
<1>3. Mans = {man} /\ Mans' = Mans /\ Live' = Live /\ Stored' = Stored /\ Live = man.rows
  BY Zenon, <1>1 DEF Mans, Live, Stored
<1>4. ASSUME NEW l \in Logs'
      PROVE  \/ l \in Logs
             \/ /\ \A s : LogTail(l, s) = {}
                /\ l.ckpt <= l.last /\ l.last < nextSeq' /\ \A f \in l.recs : f.seq <= l.last /\ f.row.w <= writes
  <2>1. log \in Logs /\ nextSeq \in Nat /\ nextSeq > 0 /\ \A f \in log.recs : f.seq \in Nat /\ f.seq < nextSeq /\ f.row.w <= writes
    BY <1>1, Types DEF IInv, SeqsTaken, LogsInOrder, Logs
  <2>2. CASE l \in Logs
    BY Zenon, <2>2
  <2>3. CASE nextSeq' = nextSeq + 1 /\ l = [recs |-> log.recs, ckpt |-> nextSeq, last |-> nextSeq]
    BY <2>1, <2>3 DEF LogTail
  <2>4. CASE l = EmptyLog
    BY <1>1, <2>1, <2>4 DEF LogTail, EmptyLog
  <2> QED
    BY Zenon, <1>1, <2>2, <2>3, <2>4 DEF Logs
<1>5. LogsInOrder' /\ SeqsTaken'
  BY <1>1, <1>3, <1>4, Types DEF IInv, LogsInOrder, SeqsTaken
<1>6. RowsNamed'
  BY Zenon, <1>1, <1>3 DEF IInv, RowsNamed
<1>7. Control'
  BY Zenon, <1>1 DEF IInv, Control
<1>8. Applying' /\ DoubtedApart'
  <2>1. \A f \in doubted : f.seq < nextSeq'
    BY <1>1, Types DEF IInv, DoubtedApart
  <2> QED
    BY Zenon, <1>1, <1>3, <2>1 DEF IInv, Applying, DoubtedApart
<1>9. NoRowTwice'
  BY Zenon, <1>1, <1>3, <1>4, NothingToReplay DEF IInv, NoRowTwice
<1>10. MemtableIsTail' /\ TakenIsTail'
  <2>1. \A l \in Logs' : /\ ReplayedRows(Applied(LogTail(l, sealed))) = {}
                         /\ ReplayedLive(Applied(LogTail(l, sealed))) = {}
    BY Zenon, <1>1, <1>4, NothingToReplay DEF IInv, MemtableIsTail, MemtableOf, Applied
  <2> QED
    BY Zenon, <1>1, <1>2, <2>1 DEF MemtableIsTail, MemtableOf, TakenIsTail
<1>11. RecoversLive'
  <2>1. batch \cap man.rows = {}
    BY Zenon, <1>1, <1>3 DEF IInv, DoubtedApart, Control
  <2>2. ASSUME NEW l \in Logs'
        PROVE  RecoveredFrom(man, Applied(LogTail(l, man.sealed))) = Live
    <3>1. CASE l \in Logs
      BY Zenon, <1>1, <1>3, <3>1 DEF IInv, RecoversLive
    <3>2. CASE LogTail(l, man.sealed) = {}
      BY Zenon, <1>3, <3>2, NothingToReplay DEF Applied, RecoveredFrom
    <3> QED
      BY Zenon, <1>4, <3>1, <3>2
  <2> QED
    BY Zenon, <1>1, <1>2, <1>3, <2>1, <2>2 DEF RecoversLive
<1> QED
  BY Zenon, <1>5, <1>6, <1>7, <1>8, <1>9, <1>10, <1>11 DEF IInv

(* However the log reset ends, the logs that may be on disk replay to the   *)
(* same memtable.                                                           *)
LEMMA ResetEndsPreserves ==
  ASSUME IInv, TypeOK', ResetFails \/ ResetSync
  PROVE  IInv'
<1>1. /\ pc \in {"reset", "reset_sync"} /\ Up /\ Up' /\ ~awaits
      /\ job \in {"flush", "first_mask"} /\ mem = {} /\ unc = {}
      /\ oldMans = {}
      /\ UNCHANGED <<mem, unc, seg, dead, sealed, nextSeq, awaits, wrote, taken,
                     log, man, oldMans, writes, doubted>>
      /\ \/ oldLogs' = oldLogs /\ (appendable' => appendable)
         \/ oldLogs' = {}
      /\ \/ pc' \in {"policy", "idle"} /\ job' = "none" /\ batch' = {}
         \/ pc' = "rename" /\ job = "first_mask" /\ job' = "bulk" /\ batch' = batch
  BY Zenon DEF ResetFails, ResetSync, AfterSeal, IInv, Control, Up, disk, aux, TypeOK
<1>2. \A R : Applied(R)' = Applied(R)
  BY Zenon, <1>1 DEF Applied, InFlight
<1>3. Mans = {man} /\ Mans' = Mans /\ Live' = Live /\ Stored' = Stored /\ Logs' \subseteq Logs
  BY Zenon, <1>1 DEF Mans, Live, Stored, Logs
<1>4. LogsInOrder' /\ RowsNamed' /\ SeqsTaken'
  BY Zenon, <1>1, <1>3 DEF IInv, LogsInOrder, RowsNamed, SeqsTaken
<1>5. Control'
  BY Zenon, <1>1 DEF IInv, Control
<1>6. batch \cap man.rows = {}
  BY Zenon, <1>1, <1>3 DEF IInv, DoubtedApart, Control
<1>7. Applying' /\ DoubtedApart'
  BY Zenon, <1>1, <1>3 DEF IInv, Applying, DoubtedApart
<1>8. NoRowTwice' /\ MemtableIsTail' /\ TakenIsTail'
  BY Zenon, <1>1, <1>2, <1>3 DEF IInv, NoRowTwice, MemtableIsTail, MemtableOf, TakenIsTail
<1>9. RecoversLive'
  BY Zenon, <1>1, <1>2, <1>3, <1>6 DEF IInv, RecoversLive
<1> QED
  BY Zenon, <1>4, <1>5, <1>7, <1>8, <1>9 DEF IInv

(* A crash or a power loss leaves one of the manifests and one of the logs  *)
(* that were possible.                                                      *)
LEMMA StopPreserves ==
  ASSUME IInv, TypeOK', Crash \/ PowerLoss \/ Republish
  PROVE  IInv'
<1>1. /\ pc' \in {"down", "open"} /\ ~Up' /\ job' = "none" /\ mem' = {} /\ unc' = {} /\ seg' = {}
      /\ dead' = {} /\ batch' = {} /\ doubted' = {} /\ ~awaits' /\ writes' = writes
      /\ taken' = NothingTaken
      /\ log' \in Logs /\ oldLogs' \subseteq oldLogs /\ man' \in Mans /\ oldMans' \subseteq oldMans
      /\ pc' = "open" => oldLogs' = {} /\ oldMans' = {}
  BY DEF Crash, PowerLoss, Republish, Gone, IInv, Control, Up, ram, disk, aux, Logs, Mans, Stored
<1>2. Logs' \subseteq Logs /\ Mans' \subseteq Mans
  BY Zenon, <1>1 DEF Logs, Mans
<1>3. LogsInOrder' /\ RowsNamed' /\ SeqsTaken'
  BY Zenon, <1>1, <1>2 DEF IInv, LogsInOrder, RowsNamed, SeqsTaken, Stored, NothingTaken
<1>4. Control' /\ Applying' /\ DoubtedApart'
  BY Zenon, <1>1 DEF Control, Applying, DoubtedApart, Stored
<1>5. NoRowTwice' /\ MemtableIsTail' /\ TakenIsTail' /\ RecoversLive'
  BY Zenon, <1>1, <1>2 DEF IInv, NoRowTwice, MemtableIsTail, TakenIsTail, RecoversLive
<1> QED
  BY Zenon, <1>3, <1>4, <1>5 DEF IInv

(* Recovery builds a memtable and tombstones that agree with the manifest   *)
(* and log it read (open_inner).                                            *)
LEMMA OpenPreserves ==
  ASSUME IInv, TypeOK', Open
  PROVE  IInv'
<1> DEFINE tail == LogTail(log, man.sealed)
<1>1. /\ pc = "open" /\ pc' = "idle" /\ Up' /\ job = "none" /\ batch = {} /\ doubted = {} /\ ~awaits
      /\ oldLogs = {} /\ oldMans = {}
      /\ seg' = man.rows /\ unc' = {} /\ mem' = ReplayedRows(tail)
      /\ dead' = (seg' \cup mem') \ Recovered(man, log) /\ sealed' = man.sealed
      /\ nextSeq' = Max2(log.last, Max2(man.wm, man.sealed)) + 1
      /\ UNCHANGED <<awaits, healthy, job, wrote, batch, taken, log, oldLogs, man, oldMans, writes, doubted>>
  BY Zenon DEF Open, IInv, Control, Up, disk, aux
<1>2. /\ Logs = {log} /\ Logs' = {log} /\ Mans = {man} /\ Mans' = {man}
      /\ \A R : Applied(R)' = R
  BY Zenon, <1>1 DEF Logs, Mans, Applied, InFlight
<1>3. /\ log.last < nextSeq' /\ man.wm < nextSeq' /\ man.sealed < nextSeq' /\ 0 < nextSeq'
  <2>1. log.last \in Nat /\ man.wm \in Nat /\ man.sealed \in Nat
    BY Zenon, <1>2, Types DEF IInv
  <2> QED
    BY <1>1, <2>1 DEF Max2
<1>4. /\ ReplayedLive(tail) \subseteq ReplayedRows(tail)
      /\ CommittedLive(man, tail) \subseteq man.rows
      /\ man.rows \cap ReplayedRows(tail) = {}
      /\ Recovered(man, log) = CommittedLive(man, tail) \cup ReplayedLive(tail)
  BY Zenon, <1>2 DEF IInv, NoRowTwice, ReplayedLive, ReplayedRows, CommittedLive, Recovered, RecoveredFrom
<1>5. Stored' = man.rows \cup ReplayedRows(tail) /\ Live' = Recovered(man, log)
      /\ mem' \ dead' = ReplayedLive(tail)
  BY Zenon, <1>1, <1>4 DEF Stored, Live
<1>6. \A r \in Stored' \cup dead' : r.w <= writes
  BY Zenon, <1>1, <1>2, <1>5 DEF IInv, RowsNamed, LogsInOrder, ReplayedRows, LogTail
<1>7. LogsInOrder' /\ RowsNamed'
  BY Zenon, <1>1, <1>2, <1>6 DEF IInv, RowsNamed, LogsInOrder
<1>8. SeqsTaken'
  <2>1. taken.sealed < nextSeq'
    BY <1>1, <1>3 DEF IInv, Control, NothingTaken
  <2> QED
    BY Zenon, <1>1, <1>2, <1>3, <2>1 DEF SeqsTaken
<1>9. Control'
  BY Zenon, <1>1 DEF Control
<1>10. Applying' /\ DoubtedApart'
  BY Zenon, <1>1 DEF IInv, Applying, DoubtedApart
<1>11. NoRowTwice'
  BY Zenon, <1>1, <1>2, <1>4 DEF NoRowTwice
<1>12. MemtableIsTail' /\ TakenIsTail'
  BY Zenon, <1>1, <1>2, <1>5 DEF MemtableIsTail, MemtableOf, TakenIsTail
<1>13. RecoversLive'
  BY Zenon, <1>1, <1>2, <1>5 DEF RecoversLive, Recovered
<1> QED
  BY Zenon, <1>7, <1>8, <1>9, <1>10, <1>11, <1>12, <1>13 DEF IInv

(* A fresh engine satisfies the invariant.                                  *)
LEMMA InitIInv == Init => IInv
<1> SUFFICES ASSUME Init PROVE IInv
  BY Zenon
<1>1. NoRecord \in Record
  BY Zenon, IdsAssumption DEF NoRecord, Record, Row, Ops
<1>2. /\ mem = {} /\ unc = {} /\ seg = {} /\ dead = {} /\ batch = {} /\ doubted = {}
      /\ sealed = 0 /\ nextSeq = 1 /\ writes = 0 /\ appendable = TRUE /\ awaits = FALSE
      /\ pc = "idle" /\ job = "none" /\ taken = [rows |-> {}, sealed |-> 0]
      /\ log = [recs |-> {}, ckpt |-> 0, last |-> 0] /\ oldLogs = {}
      /\ man = [rows |-> {}, wm |-> 0, sealed |-> 0] /\ oldMans = {}
      /\ Logs = {log} /\ Mans = {man} /\ Live = {} /\ Stored = {}
  BY Zenon DEF Init, NothingTaken, EmptyLog, NoManifest, Logs, Mans, Live, Stored
<1>3. TypeOK
  <2>1. wrote \in Record /\ taken \in [rows : SUBSET Row, sealed : Nat] /\ log \in Log /\ man \in Manifest
    BY <1>1, <1>2 DEF Init, Log, Manifest
  <2>2. healthy \in BOOLEAN /\ appendable \in BOOLEAN /\ awaits \in BOOLEAN
    BY Zenon DEF Init
  <2>3. sealed \in Nat /\ nextSeq \in Nat \ {0} /\ writes \in Nat
    BY <1>2
  <2> QED
    BY Zenon, <1>2, <2>1, <2>2, <2>3 DEF TypeOK
<1>4. \A s : LogTail(log, s) = {} /\ Applied(LogTail(log, s)) = {}
  BY Zenon, <1>2 DEF LogTail, Applied
<1>5. LogsInOrder /\ RowsNamed /\ SeqsTaken
  BY <1>2 DEF LogsInOrder, RowsNamed, SeqsTaken
<1>6. Control /\ Applying /\ DoubtedApart
  BY Zenon, <1>2 DEF Control, Applying, DoubtedApart
<1>7. NoRowTwice /\ MemtableIsTail /\ TakenIsTail
  BY Zenon, <1>2, <1>4, NothingToReplay DEF NoRowTwice, MemtableIsTail, MemtableOf, TakenIsTail
<1>8. RecoversLive
  <2>1. CommittedLive(man, {}) = {} /\ ReplayedLive({}) = {} /\ batch \cap man.rows = {}
    BY <1>2, NothingToReplay
  <2> QED
    BY Zenon, <1>2, <1>4, <2>1 DEF RecoversLive, RecoveredFrom
<1> QED
  BY Zenon, <1>3, <1>5, <1>6, <1>7, <1>8 DEF IInv

(* Every step keeps the invariant.                                          *)
LEMMA IInvInductive == IInv /\ [Next]_vars => IInv'
<1> SUFFICES ASSUME IInv, [Next]_vars PROVE IInv'
  BY Zenon
<1>1. TypeOK'
  BY Zenon, TypeOKInductive DEF IInv
<1>2. CASE UNCHANGED vars
  <2>1. UNCHANGED <<mem, unc, seg, dead, sealed, nextSeq, appendable, awaits, healthy, pc, job,
                    wrote, batch, taken, log, oldLogs, man, oldMans, writes, doubted>>
    BY Zenon, <1>2 DEF vars, ram, ctl, disk, aux
  <2>2. \A R : Applied(R)' = Applied(R)
    BY Zenon, <2>1 DEF Applied, InFlight
  <2>3. Up' = Up /\ Logs' = Logs /\ Mans' = Mans /\ Live' = Live /\ Stored' = Stored
        /\ NewManifest' = NewManifest /\ LastSeq' = LastSeq
    BY Zenon, <2>1 DEF Up, Logs, Mans, Live, Stored, NewManifest, LastSeq
  <2>4. LogsInOrder' /\ RowsNamed' /\ SeqsTaken' /\ Control' /\ Applying' /\ DoubtedApart'
    BY SMTT(30), <2>1, <2>3 DEF IInv, LogsInOrder, RowsNamed, SeqsTaken, Control, Applying, DoubtedApart
  <2>5. NoRowTwice' /\ MemtableIsTail' /\ TakenIsTail' /\ RecoversLive'
    BY Zenon, <2>1, <2>2, <2>3 DEF IInv, NoRowTwice, MemtableIsTail, MemtableOf, TakenIsTail, RecoversLive
  <2> QED
    BY Zenon, <1>1, <2>4, <2>5 DEF IInv
<1>3. CASE \E f \in Candidates : AppendRecord(f)
  BY Zenon, <1>1, <1>3, AppendPreserves
<1>4. CASE Apply
  BY Zenon, <1>1, <1>4, ApplyPreserves
<1>5. CASE \E persisted \in BOOLEAN : SealMemtable(persisted)
  BY Zenon, <1>1, <1>5, SealPreserves
<1>6. CASE FlushLeftover \/ Merge \/ NoMerge \/ CommitFeatureModel
  BY Zenon, <1>1, <1>6, StartCommitPreserves
<1>7. CASE \E ids \in (SUBSET Ids) \ {{}} : Bulk(ids) \/ BulkBeforeFirstMask(ids)
  BY Zenon, <1>1, <1>7, BulkPreserves
<1>8. CASE CommitFails \/ CommitNotSynced
  BY Zenon, <1>1, <1>8, CommitFailurePreserves
<1>9. CASE Rename
  BY Zenon, <1>1, <1>9, RenamePreserves
<1>10. CASE CommitSynced
  BY Zenon, <1>1, <1>10, CommitSyncedPreserves
<1>11. CASE Checkpoint \/ ResetRename
  BY Zenon, <1>1, <1>11, CheckpointPreserves
<1>12. CASE ResetFails \/ ResetSync
  BY Zenon, <1>1, <1>12, ResetEndsPreserves
<1>13. CASE Crash \/ PowerLoss \/ Republish
  BY Zenon, <1>1, <1>13, StopPreserves
<1>14. CASE Open
  BY Zenon, <1>1, <1>14, OpenPreserves
<1> QED
  BY Zenon, <1>2, <1>3, <1>4, <1>5, <1>6, <1>7, <1>8, <1>9, <1>10, <1>11, <1>12, <1>13, <1>14 DEF Next

(* The inductive invariant holds in every reachable state, for every set of *)
(* ids, bound and threshold, whichever syncs fail.                          *)
THEOREM InvariantHolds == Spec => []IInv
BY InitIInv, IInvInductive, PTL DEF Spec

(* Type correctness of the write path.                                      *)
THEOREM TypeCorrect == Spec => []TypeOK
<1>1. IInv => TypeOK
  BY Zenon DEF IInv
<1> QED
  BY <1>1, InvariantHolds, PTL

(* A row is never stored twice: not in the process, and not by a restart    *)
(* that replays a record whose row a commit already holds.                  *)
THEOREM NoRowStoredTwice == Spec => []NoRowTwice
<1>1. IInv => NoRowTwice
  BY Zenon DEF IInv
<1> QED
  BY <1>1, InvariantHolds, PTL

(* An idle engine that saw no failed write has no uncommitted segment,      *)
(* which is what commit_feature_model takes for granted when it keeps the   *)
(* old watermark.                                                           *)
THEOREM HealthyIsCommitted == Spec => []HealthyMeansCommitted
<1>1. IInv => HealthyMeansCommitted
  BY Zenon DEF IInv, HealthyMeansCommitted, Control, Up
<1> QED
  BY <1>1, InvariantHolds, PTL

(* After a manifest was renamed and could not be synced, no step of the     *)
(* running engine writes to the data directory.                             *)
THEOREM DirectoryFrozenInDoubt == Spec => NothingWrittenInDoubt
<1>1. IInv /\ [Next]_vars => [awaits /\ pc' # "down" => UNCHANGED disk]_vars
  <2> SUFFICES ASSUME IInv, Next, awaits, pc' # "down" PROVE UNCHANGED disk
    BY Zenon
  <2>1. /\ ~appendable /\ Up
        /\ pc \notin {"rename", "sync", "checkpoint", "reset", "reset_sync", "down", "open"}
    BY Zenon DEF IInv, Control, Up
  <2>2. ASSUME NEW f \in Candidates, AppendRecord(f) PROVE UNCHANGED disk
    BY Zenon, <2>1, <2>2 DEF AppendRecord, AppendOutcome, disk
  <2>3. CASE CommitFails \/ Rename \/ CommitSynced \/ CommitNotSynced \/ Checkpoint
             \/ ResetFails \/ ResetRename \/ ResetSync \/ Crash \/ PowerLoss \/ Republish \/ Open
    BY Zenon, <2>1, <2>3 DEF CommitFails, Rename, CommitSynced, CommitNotSynced, Checkpoint,
       ResetFails, ResetRename, ResetSync, Crash, PowerLoss, Gone, Republish, Open
  <2> QED
    BY Zenon, <2>2, <2>3 DEF Next, Apply, SealMemtable, FlushLeftover, Merge, NoMerge,
       CommitFeatureModel, Bulk, BulkBeforeFirstMask
<1> QED
  BY <1>1, InvariantHolds, PTL DEF Spec, NothingWrittenInDoubt

(* Whatever fails, a restart differs from what is served only by the writes *)
(* that were reported failed (or are in flight).                            *)
THEOREM OnlyDoubtedWrites == Spec => []OnlyDoubtedWritesDiffer
<1>1. IInv => OnlyDoubtedWritesDiffer
  <2> SUFFICES ASSUME IInv, Up, NEW m \in Mans, NEW l \in Logs
               PROVE  LET o == Recovered(m, l) IN
                      /\ \A r \in Live \ o : \E f \in doubted \cup InFlight : Kills(f, r)
                      /\ \A r \in o \ Live : r \in batch \/ \E f \in doubted \cup InFlight : f.row = r
    BY DEF OnlyDoubtedWritesDiffer, Outcomes
  <2> DEFINE R == LogTail(l, m.sealed)
             A == Applied(R)
  <2>1. CommittedLive(m, A) \cup ReplayedLive(A) = Live \cup (batch \cap m.rows)
    BY Zenon DEF IInv, RecoversLive, RecoveredFrom
  <2>2. Recovered(m, l) = CommittedLive(m, R) \cup ReplayedLive(R)
    BY Zenon DEF Recovered, RecoveredFrom
  <2>3. A \subseteq R /\ R \ A \subseteq doubted \cup InFlight
    BY Zenon DEF Applied
  <2> HIDE DEF A, R
  <2>4. ASSUME NEW r \in Live, r \notin Recovered(m, l)
        PROVE  \E f \in doubted \cup InFlight : Kills(f, r)
    <3>1. CASE r \in CommittedLive(m, A)
      BY Zenon, <2>2, <2>3, <2>4, <3>1 DEF CommittedLive
    <3>2. CASE r \in ReplayedLive(A)
      BY Zenon, <2>2, <2>3, <2>4, <3>2 DEF ReplayedLive
    <3> QED
      BY Zenon, <2>1, <3>1, <3>2
  <2>5. ASSUME NEW r \in Recovered(m, l), r \notin Live, r \notin batch
        PROVE  \E f \in doubted \cup InFlight : f.row = r
    <3>1. r \notin CommittedLive(m, A) /\ r \notin ReplayedLive(A)
      BY Zenon, <2>1, <2>5
    <3>2. r \notin CommittedLive(m, R)
      BY Zenon, <2>3, <3>1 DEF CommittedLive
    <3>3. r \in ReplayedLive(R)
      BY Zenon, <2>2, <3>2
    <3> QED
      BY Zenon, <2>3, <3>1, <3>3 DEF ReplayedLive
  <2> QED
    BY Zenon, <2>4, <2>5
<1> QED
  BY <1>1, InvariantHolds, PTL
=============================================================================
