----------------------------- MODULE ShardNode -----------------------------
(***************************************************************************)
(* One durable shard server node and the calls coordinators make to it.    *)
(* The node adopts the feature space (dict and placement generation) of    *)
(* its coordinator, hosts a slot per shard in its own directory, and       *)
(* remembers the shards it gave up, so that a slot created again for one   *)
(* of them serves nothing until a peer recovery fills it.  The handlers    *)
(* run concurrently; the ones that install or remove a slot hold the       *)
(* install mutex.  The process may crash between any two of their steps.   *)
(*                                                                         *)
(* Ownership is the lease of CoordinatorLease: a claim waits for the       *)
(* admitted calls, and a handshake (which is not one of them) is taken to  *)
(* end within the lease's time to live of its own claim.                   *)
(***************************************************************************)
EXTENDS Integers, FiniteSets

CONSTANTS Handlers,   \* calls under way at the same time
          Owners,     \* coordinator ids
          Shards,
          Settings,   \* of: owner -> the space [dict, gen] it ships; doubts: whether
                      \* a directory sync may fail; hosts, drops: the shards the
                      \* node is asked to host, and to fence, drop and recover
          MaxFence,   \* fence generations are 1..MaxFence
          Nobody, Nothing

Slots == 1..(Cardinality(Shards) + Cardinality(Handlers))
NoSlot == 0
Tombstone == MaxFence + 1     \* DROPPED_TOMBSTONE, above every generation

VARIABLES
  setting,    \* the choice from Settings, constant
  owner,      \* the lease: who owns the process
  joined,     \* the shards whose handshake the owner has completed
  nodeSpace,  \* node_dict
  record,     \* DroppedRecord: [shards, doubt]
  slotOf,     \* the shard map: shard -> slot object
  slot,       \* slot object -> its cells
  call,       \* handler -> the call it serves
  install,    \* the holder of the install mutex
  fsSpace,    \* feature_space.bin
  fsRecord,   \* dropped.bin, as the process reads it
  fsRecords,  \* what a restart may find there
  fsDirs,     \* the shard_<id> directories
  gaveUp,     \* ghost: shards dropped in this layout, not recovered since
  down        \* the node refuses to start

nodeVars == <<setting, owner, joined, nodeSpace, record, slotOf, slot, call, install,
              fsSpace, fsRecord, fsRecords, fsDirs, gaveUp, down>>
memory == <<owner, joined, nodeSpace, record, slotOf, slot>>
files == <<fsSpace, fsRecord, fsRecords, fsDirs>>

NoCall == [op |-> "none", pc |-> "idle", by |-> Nobody, shard |-> Nothing, obj |-> NoSlot,
           gen |-> 0, seen |-> FALSE, newly |-> FALSE, saved |-> Nothing]
EmptySlot == [dict |-> Nothing, full |-> FALSE, fence |-> 0, waits |-> FALSE, standin |-> FALSE]

NodeGoto(h, p) == call' = [call EXCEPT ![h].pc = p]
CloseCall(h) == call' = [call EXCEPT ![h] = NoCall]
Unlock(h) == install' = IF install = h THEN Nobody ELSE install

Hosted(s) == slotOf[s] # NoSlot
Populated == \E s \in Shards : Hosted(s) /\ slot[slotOf[s]].full
Running == {h \in Handlers : call[h].op \in {"read", "write", "recover", "drop"}}
Claimed == {h \in Handlers : call[h].op \in {"adopt", "add"} /\ call[h].pc # "claim"}

(* A slot object nothing refers to.                                         *)
FreshSlot ==
  CHOOSE o \in Slots : (\A s \in Shards : slotOf[s] # o) /\ (\A h \in Handlers : call[h].obj # o)

(* Memory frees when the last reference drops.                              *)
Swept(cells) ==
  [o \in Slots |->
    IF (\E s \in Shards : slotOf'[s] = o) \/ (\E h \in Handlers : call'[h].obj = o)
    THEN cells[o] ELSE EmptySlot]

ValidPlacement(c) == nodeSpace # Nothing /\ nodeSpace.gen = setting.of[c].gen

(***************************************************************************)
(* store_dropped: every change of the record goes to the file first.  The  *)
(* write may fail before its rename, at it, or when the directory is       *)
(* synchronised.  In the last two cases the process cannot tell what a     *)
(* restart will find, and honours both versions until a write succeeds.    *)
(***************************************************************************)
StoreDropped(next, outcome) ==
  LET written == [space |-> nodeSpace, shards |-> next] IN
  IF ~ record.doubt /\ record.shards = next
  THEN outcome = "stored" /\ UNCHANGED <<record, fsRecord, fsRecords>>
  ELSE \/ /\ outcome = "stored"
          /\ record' = [shards |-> next, doubt |-> FALSE]
          /\ fsRecord' = written /\ fsRecords' = {written}
       \/ /\ outcome = "failed"
          /\ UNCHANGED <<record, fsRecord, fsRecords>>
       \/ /\ outcome = "failed" /\ setting.doubts
          /\ record' = [shards |-> record.shards \cup next, doubt |-> TRUE]
          /\ \/ UNCHANGED <<fsRecord, fsRecords>>
             \/ fsRecord' = written /\ fsRecords' = fsRecords \cup {written}

(* restore: a record written under another layout is empty.                 *)
RecordFor(r, sp) == IF r.space = sp THEN r.shards ELSE {}

(***************************************************************************)
(* AdoptDict and AddShard                                                  *)
(***************************************************************************)
Acceptable(op, sp) ==
  CASE op = "adopt" -> nodeSpace \in {Nothing, sp} \/ ~ Populated
    [] op = "add" -> nodeSpace = sp

BeginHandshake(h, op, c, s) ==
  /\ call[h] = NoCall /\ Acceptable(op, setting.of[c])
  /\ call' = [call EXCEPT ![h] = [NoCall EXCEPT !.op = op, !.pc = "claim", !.by = c, !.shard = s]]
  /\ UNCHANGED <<setting, memory, install, files, gaveUp, down>>

(* claim_coordinator: at once for the owner, otherwise after the drain.     *)
Claim(h) ==
  /\ call[h].pc = "claim"
  /\ owner # call[h].by =>
       Running = {} /\ \A k \in Claimed : call[k].by = call[h].by
  /\ owner' = call[h].by
  /\ joined' = IF owner = call[h].by THEN joined ELSE {}
  /\ NodeGoto(h, "lock")
  /\ UNCHANGED <<setting, nodeSpace, record, slotOf, slot, install, files, gaveUp, down>>

LockInstall(h) ==
  /\ call[h].pc = "lock" /\ install = Nobody
  /\ install' = h
  /\ NodeGoto(h, "locked")
  /\ UNCHANGED <<setting, memory, files, gaveUp, down>>

(* The client goes away while the handler waits, or a check refuses.        *)
GiveUpCall(h) ==
  /\ call[h].pc \in {"claim", "lock", "locked"}
  /\ CloseCall(h) /\ Unlock(h)
  /\ UNCHANGED <<setting, memory, files, gaveUp, down>>

AlreadyServes(s, sp) == nodeSpace = sp /\ Hosted(s) /\ slot[slotOf[s]].dict = sp.dict

(* Under the mutex, validated again: the slot already serves this space.    *)
HandshakeNoOp(h) ==
  LET c == call[h].by  s == call[h].shard IN
  /\ call[h].pc = "locked" /\ call[h].op \in {"adopt", "add"}
  /\ AlreadyServes(s, setting.of[c])
  /\ joined' = IF owner = c THEN joined \cup {s} ELSE joined
  /\ CloseCall(h) /\ Unlock(h)
  /\ UNCHANGED <<setting, owner, nodeSpace, record, slotOf, slot, files, gaveUp, down>>

(* Mutant: the populated slots are not looked at again under the mutex.     *)
BuildSlotUnchecked(h) ==
  LET c == call[h].by  s == call[h].shard  sp == setting.of[c] IN
  /\ call[h].pc = "locked" /\ call[h].op \in {"adopt", "add"}
  /\ ~ AlreadyServes(s, sp)
  /\ fsDirs[s] # Nothing => fsDirs[s].dict = sp.dict
  /\ fsDirs' = IF fsDirs[s] = Nothing
               THEN [fsDirs EXCEPT ![s] = [dict |-> sp.dict, full |-> FALSE]]
               ELSE fsDirs
  /\ call' = [call EXCEPT
       ![h].saved = IF nodeSpace = sp THEN Nothing ELSE RecordFor(fsRecord, sp),
       ![h].pc = IF nodeSpace = sp THEN "insert" ELSE "persist"]
  /\ UNCHANGED <<setting, memory, install, fsSpace, fsRecord, fsRecords, gaveUp, down>>

(* build_slot_shard: the directory is created, or attached when its         *)
(* checkpoint was written under the same dict.  The record of the layout is *)
(* read before.                                                             *)
BuildSlot(h) ==
  LET c == call[h].by  s == call[h].shard  sp == setting.of[c] IN
  /\ call[h].pc = "locked" /\ call[h].op \in {"adopt", "add"}
  /\ Acceptable(call[h].op, sp) /\ ~ AlreadyServes(s, sp)
  /\ fsDirs[s] # Nothing => fsDirs[s].dict = sp.dict
  /\ fsDirs' = IF fsDirs[s] = Nothing
               THEN [fsDirs EXCEPT ![s] = [dict |-> sp.dict, full |-> FALSE]]
               ELSE fsDirs
  /\ call' = [call EXCEPT
       ![h].saved = IF nodeSpace = sp THEN Nothing ELSE RecordFor(fsRecord, sp),
       ![h].pc = IF nodeSpace = sp THEN "insert" ELSE "persist"]
  /\ UNCHANGED <<setting, memory, install, fsSpace, fsRecord, fsRecords, gaveUp, down>>

PersistSpace(h) ==
  /\ call[h].pc = "persist"
  /\ \/ /\ fsSpace' = setting.of[call[h].by]
        /\ NodeGoto(h, "publish") /\ UNCHANGED install
     \/ CloseCall(h) /\ Unlock(h) /\ UNCHANGED fsSpace
  /\ UNCHANGED <<setting, memory, fsRecord, fsRecords, fsDirs, gaveUp, down>>

(* node_dict.store, then install_layout_record: the record of the layout is *)
(* taken up and every hosted slot brought in line.                          *)
PublishSpace(h) ==
  LET on == call[h].saved IN
  /\ call[h].pc = "publish"
  /\ nodeSpace' = setting.of[call[h].by]
  /\ record' = [shards |-> on, doubt |-> FALSE]
  /\ slot' = [o \in Slots |->
               IF \E s \in Shards : slotOf[s] = o
               THEN [slot[o] EXCEPT !.waits = \E s \in on : slotOf[s] = o, !.standin = FALSE]
               ELSE slot[o]]
  /\ gaveUp' = {}
  /\ NodeGoto(h, "insert")
  /\ UNCHANGED <<setting, owner, joined, slotOf, install, files, down>>

(* insert_slot flags a shard that is on record; the handshake is answered.  *)
InsertSlot(h) ==
  LET c == call[h].by  s == call[h].shard  o == FreshSlot IN
  /\ call[h].pc = "insert"
  /\ slotOf' = [slotOf EXCEPT ![s] = o]
  /\ joined' = IF owner = c THEN joined \cup {s} ELSE joined
  /\ CloseCall(h) /\ Unlock(h)
  /\ slot' = Swept([slot EXCEPT ![o] = [EmptySlot EXCEPT !.dict = setting.of[c].dict,
                !.full = fsDirs[s].full, !.waits = s \in record.shards,
                !.standin = s \in gaveUp]])
  /\ UNCHANGED <<setting, owner, nodeSpace, record, files, gaveUp, down>>

(***************************************************************************)
(* Reads and writes: loaded_slot checks readiness, then loads the state    *)
(***************************************************************************)
BeginRead(h, c, s) ==
  /\ call[h] = NoCall /\ owner = c /\ s \in joined /\ ValidPlacement(c) /\ Hosted(s)
  /\ call' = [call EXCEPT ![h] = [NoCall EXCEPT !.op = "read", !.pc = "ready", !.by = c,
                                    !.shard = s, !.obj = slotOf[s]]]
  /\ UNCHANGED <<setting, memory, install, files, gaveUp, down>>

EnsureRecovered(h) ==
  /\ call[h].pc = "ready"
  /\ IF slot[call[h].obj].waits THEN CloseCall(h) ELSE NodeGoto(h, "load")
  /\ UNCHANGED <<setting, memory, install, files, gaveUp, down>>

LoadState(h) ==
  /\ call[h].pc = "load"
  /\ call' = [call EXCEPT ![h].pc = "answer", ![h].seen = slot[call[h].obj].standin]
  /\ UNCHANGED <<setting, memory, install, files, gaveUp, down>>

AnswerRead(h) ==
  /\ call[h].pc = "answer"
  /\ CloseCall(h)
  /\ UNCHANGED <<setting, memory, install, files, gaveUp, down>>

BeginWrite(h, c, s) ==
  /\ call[h] = NoCall /\ owner = c /\ s \in joined /\ ValidPlacement(c) /\ Hosted(s)
  /\ ~ slot[slotOf[s]].waits /\ slot[slotOf[s]].fence = 0
  /\ call' = [call EXCEPT ![h] = [NoCall EXCEPT !.op = "write", !.pc = "apply", !.by = c,
                                    !.shard = s, !.obj = slotOf[s]]]
  /\ UNCHANGED <<setting, memory, install, files, gaveUp, down>>

(* A slot that was dropped meanwhile keeps the write to itself.             *)
ApplySlotWrite(h) ==
  LET o == call[h].obj  s == call[h].shard IN
  /\ call[h].pc = "apply"
  /\ slot' = [slot EXCEPT ![o].full = TRUE]
  /\ fsDirs' = IF slotOf[s] = o THEN [fsDirs EXCEPT ![s].full = TRUE] ELSE fsDirs
  /\ CloseCall(h)
  /\ UNCHANGED <<setting, owner, joined, nodeSpace, record, slotOf, install, fsSpace,
                 fsRecord, fsRecords, gaveUp, down>>

(***************************************************************************)
(* Fence and Unfence reach a slot that awaits recovery, too                *)
(***************************************************************************)
FenceTarget(c, s) ==
  owner = c /\ ValidPlacement(c) /\ Hosted(s) /\ slot[slotOf[s]].dict = setting.of[c].dict

Fence(c, s, g) ==
  /\ FenceTarget(c, s) /\ slot[slotOf[s]].fence < g
  /\ slot' = [slot EXCEPT ![slotOf[s]].fence = g]
  /\ UNCHANGED <<setting, owner, joined, nodeSpace, record, slotOf, call, install, files,
                 gaveUp, down>>

(* The generation the request names is the current one.                     *)
Unfence(c, s) ==
  /\ FenceTarget(c, s) /\ slot[slotOf[s]].fence \in 1..MaxFence
  /\ slot' = [slot EXCEPT ![slotOf[s]].fence = 0]
  /\ UNCHANGED <<setting, owner, joined, nodeSpace, record, slotOf, call, install, files,
                 gaveUp, down>>

(***************************************************************************)
(* DropShard: tombstone, remember, remove                                  *)
(***************************************************************************)
BeginLocked(h, op, c, s, g) ==
  /\ call[h] = NoCall /\ owner = c
  /\ call' = [call EXCEPT ![h] = [NoCall EXCEPT !.op = op, !.pc = "lock", !.by = c,
                                    !.shard = s, !.gen = g]]
  /\ UNCHANGED <<setting, memory, install, files, gaveUp, down>>

TombstoneSlot(h) ==
  LET c == call[h].by  s == call[h].shard IN
  /\ call[h].pc = "locked" /\ call[h].op = "drop"
  /\ nodeSpace = setting.of[c] /\ Hosted(s) /\ slot[slotOf[s]].fence = call[h].gen
  /\ slot' = [slot EXCEPT ![slotOf[s]].fence = Tombstone]
  /\ call' = [call EXCEPT ![h].pc = "record", ![h].obj = slotOf[s]]
  /\ UNCHANGED <<setting, owner, joined, nodeSpace, record, slotOf, install, files, gaveUp, down>>

RestoreFence(h) == slot' = [slot EXCEPT ![call[h].obj].fence = call[h].gen]

RecordDrop(h) ==
  LET s == call[h].shard IN
  /\ call[h].pc = "record"
  /\ \E outcome \in {"stored", "failed"} :
       /\ StoreDropped(record.shards \cup {s}, outcome)
       /\ IF outcome = "stored"
          THEN /\ call' = [call EXCEPT ![h].pc = "remove", ![h].newly = s \notin record.shards]
               /\ UNCHANGED <<slot, install>>
          ELSE RestoreFence(h) /\ CloseCall(h) /\ Unlock(h)
  /\ UNCHANGED <<setting, owner, joined, nodeSpace, slotOf, fsSpace, fsDirs, gaveUp, down>>

(* Under the map lock: rename the directory and take the slot out of the    *)
(* map, or put the fence back.                                              *)
RemoveSlot(h) ==
  LET s == call[h].shard IN
  /\ call[h].pc = "remove"
  /\ \/ /\ slotOf[s] = call[h].obj
        /\ fsDirs' = [fsDirs EXCEPT ![s] = Nothing]
        /\ slotOf' = [slotOf EXCEPT ![s] = NoSlot]
        /\ gaveUp' = gaveUp \cup {s}
        /\ call' = [call EXCEPT ![h].pc = "sync", ![h].saved = fsDirs[s], ![h].obj = NoSlot]
        /\ slot' = Swept(slot) /\ UNCHANGED install
     \/ /\ RestoreFence(h)
        /\ IF call[h].newly THEN NodeGoto(h, "unrecord") /\ UNCHANGED install
           ELSE CloseCall(h) /\ Unlock(h)
        /\ UNCHANGED <<fsDirs, slotOf, gaveUp>>
  /\ UNCHANGED <<setting, owner, joined, nodeSpace, record, fsSpace, fsRecord, fsRecords, down>>

UnrecordDrop(h) ==
  /\ call[h].pc = "unrecord"
  /\ \E outcome \in {"stored", "failed"} : StoreDropped(record.shards \ {call[h].shard}, outcome)
  /\ CloseCall(h) /\ Unlock(h)
  /\ UNCHANGED <<setting, owner, joined, nodeSpace, slotOf, slot, fsSpace, fsDirs, gaveUp, down>>

(* The parent directory is synchronised, and with it dropped.bin: the       *)
(* renames cannot be undone.                                                *)
SyncDrop(h) ==
  /\ call[h].pc = "sync"
  /\ fsRecords' = {fsRecord}
  /\ CloseCall(h) /\ Unlock(h)
  /\ UNCHANGED <<setting, memory, fsSpace, fsRecord, fsDirs, gaveUp, down>>

(***************************************************************************)
(* RecoverFrom: attach and commit, publish, release                        *)
(***************************************************************************)
RecoverTarget(h) ==
  LET c == call[h].by  s == call[h].shard IN
  /\ call[h].pc = "locked" /\ call[h].op = "recover"
  /\ ValidPlacement(c) /\ Hosted(s) /\ slot[slotOf[s]].dict = setting.of[c].dict

(* The segments of the peer are attached and their checkpoint committed.    *)
AttachRecovered(h) ==
  LET s == call[h].shard IN
  /\ RecoverTarget(h)
  /\ fsDirs' = [fsDirs EXCEPT ![s] = [dict |-> slot[slotOf[s]].dict, full |-> TRUE]]
  /\ gaveUp' = gaveUp \ {s}
  /\ call' = [call EXCEPT ![h].pc = "swap", ![h].obj = slotOf[s]]
  /\ UNCHANGED <<setting, memory, install, fsSpace, fsRecord, fsRecords, down>>

PublishRecovered(h) ==
  /\ call[h].pc = "swap"
  /\ slot' = [slot EXCEPT ![call[h].obj].full = TRUE, ![call[h].obj].standin = FALSE]
  /\ NodeGoto(h, "release")
  /\ UNCHANGED <<setting, owner, joined, nodeSpace, record, slotOf, install, files, gaveUp, down>>

MarkRecovered(h) ==
  /\ call[h].pc = "release"
  /\ \E outcome \in {"stored", "failed"} :
       /\ StoreDropped(record.shards \ {call[h].shard}, outcome)
       /\ slot' = IF outcome = "stored" THEN [slot EXCEPT ![call[h].obj].waits = FALSE] ELSE slot
  /\ CloseCall(h) /\ Unlock(h)
  /\ UNCHANGED <<setting, owner, joined, nodeSpace, slotOf, fsSpace, fsDirs, gaveUp, down>>

(***************************************************************************)
(* A crash, and open_durable                                               *)
(***************************************************************************)
Restorable(sp, dirs) == \A s \in Shards : dirs[s] # Nothing => dirs[s].dict = sp.dict

(* The rename of a drop that was not synchronised may be undone.            *)
DirsAfterCrash ==
  {fsDirs} \cup {[fsDirs EXCEPT ![call[h].shard] = call[h].saved] :
                   h \in {k \in Handlers : call[k].pc = "sync"}}

NodeCrash ==
  \E dirs \in DirsAfterCrash, r \in fsRecords :
    LET dropped == IF fsSpace = Nothing THEN {} ELSE RecordFor(r, fsSpace)
        given == IF fsSpace = nodeSpace THEN gaveUp ELSE {}
        Here(s) == fsSpace # Nothing /\ dirs[s] # Nothing
        NumberOf == CHOOSE f \in [Shards -> 1..Cardinality(Shards)] :
                      \A s, u \in Shards : f[s] = f[u] => s = u
    IN
    /\ ~ down
    /\ fsDirs' = dirs /\ fsRecord' = r /\ fsRecords' = {r} /\ UNCHANGED <<setting, fsSpace>>
    /\ call' = [h \in Handlers |-> NoCall] /\ install' = Nobody
    /\ owner' = Nobody /\ joined' = {}
    /\ nodeSpace' = fsSpace /\ gaveUp' = given
    /\ down' = (fsSpace # Nothing /\ ~ Restorable(fsSpace, dirs))
    /\ record' = [shards |-> dropped, doubt |-> FALSE]
    /\ slotOf' = [s \in Shards |-> IF Here(s) THEN NumberOf[s] ELSE NoSlot]
    /\ slot' = [o \in Slots |->
                 IF \E s \in Shards : Here(s) /\ NumberOf[s] = o
                 THEN LET s == CHOOSE s \in Shards : NumberOf[s] = o
                      IN [EmptySlot EXCEPT !.dict = fsSpace.dict, !.full = dirs[s].full,
                            !.waits = s \in dropped, !.standin = s \in given]
                 ELSE EmptySlot]

(***************************************************************************)
(* The specification: a node with an empty data directory                  *)
(***************************************************************************)
NodeInit ==
  /\ setting \in Settings
  /\ owner = Nobody /\ joined = {} /\ install = Nobody
  /\ nodeSpace = Nothing /\ fsSpace = Nothing
  /\ record = [shards |-> {}, doubt |-> FALSE]
  /\ fsRecord = [space |-> Nothing, shards |-> {}]        \* no dropped.bin
  /\ fsRecords = {fsRecord}
  /\ slotOf = [s \in Shards |-> NoSlot] /\ slot = [o \in Slots |-> EmptySlot]
  /\ fsDirs = [s \in Shards |-> Nothing]
  /\ call = [h \in Handlers |-> NoCall]
  /\ gaveUp = {} /\ down = FALSE

HandlerStep(h) ==
  \/ Claim(h) \/ LockInstall(h) \/ GiveUpCall(h)
  \/ HandshakeNoOp(h) \/ BuildSlot(h) \/ PersistSpace(h) \/ PublishSpace(h) \/ InsertSlot(h)
  \/ EnsureRecovered(h) \/ LoadState(h) \/ AnswerRead(h) \/ ApplySlotWrite(h)
  \/ TombstoneSlot(h) \/ RecordDrop(h) \/ RemoveSlot(h) \/ UnrecordDrop(h) \/ SyncDrop(h)
  \/ AttachRecovered(h) \/ PublishRecovered(h) \/ MarkRecovered(h)

Request(h, c, s) ==
  \/ BeginHandshake(h, "adopt", c, s) \/ BeginHandshake(h, "add", c, s)
  \/ BeginRead(h, c, s) \/ BeginWrite(h, c, s)
  \/ s \in setting.drops /\
       \/ s \in joined /\ BeginLocked(h, "recover", c, s, 0)
       \/ \E g \in 1..MaxFence : BeginLocked(h, "drop", c, s, g)

NodeNext ==
  \/ ~ down /\ \E h \in Handlers : HandlerStep(h)
  \/ ~ down /\ \E h \in Handlers, c \in Owners, s \in setting.hosts : Request(h, c, s)
  \/ ~ down /\ \E c \in Owners, s \in setting.drops :
       Unfence(c, s) \/ \E g \in 1..MaxFence : Fence(c, s, g)
  \/ NodeCrash

NodeSpec == NodeInit /\ [][NodeNext]_nodeVars

(***************************************************************************)
(* Properties                                                              *)
(***************************************************************************)
(* A shard the node gave up is not answered for: no read loads the stand-in *)
(* slot created for it (or the directory a crash brought back) before a     *)
(* peer recovery has filled it, through crashes, failed record writes and   *)
(* recoveries under way (insert_slot, loaded_slot, mark_recovered,          *)
(* restore_for_slots).                                                      *)
GivenUpServesNothing ==
  \A h \in Handlers : call[h].op = "read" /\ call[h].pc = "answer" => ~ call[h].seen

(* Data is only ever held under the feature space the node has adopted: a   *)
(* takeover by a coordinator with another dict does not re-base a slot that *)
(* holds queries (any_slot_populated, checked again under the mutex).       *)
SlotsShareTheSpace ==
  \A s \in Shards :
    Hosted(s) /\ slot[slotOf[s]].full => slot[slotOf[s]].dict = nodeSpace.dict

(* A drop works on the slot it armed: from the tombstone to the removal the *)
(* slot stays hosted and no fence traffic makes it writable again           *)
(* (remove_slot_if_fenced_at_with, Unfence).                                *)
DropHoldsItsSlot ==
  \A h \in Handlers :
    call[h].pc \in {"record", "remove"} =>
      /\ slotOf[call[h].shard] = call[h].obj
      /\ slot[call[h].obj].fence = Tombstone

(* The data directory can be restored: while no handler installs, the shard *)
(* directories were built under the dict that feature_space.bin holds, so   *)
(* open_durable does not refuse to start (build_slot_shard refuses a        *)
(* divergent directory).                                                    *)
SelfRestorable == fsSpace # Nothing /\ install = Nobody => Restorable(fsSpace, fsDirs)

(* The slots of a server are of the space it has, one that was dropped is   *)
(* held until it is gone, and one that was given up serves nothing.         *)
SlotsAreSafe == SlotsShareTheSpace /\ DropHoldsItsSlot /\ GivenUpServesNothing
=============================================================================
