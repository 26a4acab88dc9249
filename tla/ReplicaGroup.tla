---------------------------- MODULE ReplicaGroup ----------------------------
(***************************************************************************)
(* One shard position with a primary and replicas                          *)
(* (engine/src/cluster/replica.rs), over copies that are shards with a     *)
(* translog and a checkpoint of their own (cluster/shard/local,            *)
(* cluster/translog.rs).  A write goes to the primary and from there to    *)
(* the replicas in sync; a read that the primary does not answer falls     *)
(* over to one of them.  The copies of a "remote" position are on shard    *)
(* nodes and are proven equal when a coordinator connects; a replica of a  *)
(* "local" one is recovered from the primary while writes go on.           *)
(*                                                                         *)
(* What a copy holds is the sequence of what was stored: an entry names a  *)
(* query and the write that gave it its text, 0 for a removal.             *)
(***************************************************************************)
EXTENDS Integers, Sequences, FiniteSetsExt

CONSTANTS Copies, PrimaryCopy,   \* the copies, and the one that is the primary
          QueryIds,
          MaxPasses,             \* the catch-up passes of a recovery
          Groups                 \* the positions to look at, with bounds on what happens:
                                 \* [place, replicas, writes, reads, seals, stops,
                                 \* recoveries]

ASSUME PrimaryAssumption == PrimaryCopy \in Copies
ASSUME PassesAssumption == MaxPasses \in Nat
ASSUME GroupsAssumption ==
  \A g \in Groups :
    /\ g.place \in {"local", "remote"} /\ g.replicas \in Seq(Copies \ {PrimaryCopy})
    /\ \A j, k \in DOMAIN g.replicas : g.replicas[j] = g.replicas[k] => j = k
    /\ {g.writes, g.reads, g.seals, g.stops, g.recoveries} \subseteq Nat

VARIABLES
  place,      \* "local" or "remote"
  left,       \* how many writes, reads, seals, stops and recoveries may begin
  copy,       \* the copies
  replicas,   \* ReplicatedShard.replicas, in order
  inSync,     \* those whose in_sync is set
  writing,    \* the write that holds write_lock
  pending,    \* pending_repair: for each query the write to drive again
  may,        \* what each query may hold: the last acknowledged, and later ones in doubt
  reading,    \* a read under way
  recovery,   \* a peer recovery under way
  connecting  \* the coordinator that connects

groupVars == <<place, left, copy, replicas, inSync, writing, pending, may, reading, recovery,
               connecting>>

Nothing == [id \in QueryIds |-> {}]

-----------------------------------------------------------------------------
(* A copy.                                                                  *)

NewCopy(base) == [base |-> base, log |-> <<>>, ckpt |-> 0, trimmed |-> 0, leases |-> {}]

Hole == [id |-> {}, val |-> 0]

Stored(id, val) == [id |-> {id}, val |-> val]

\* The last that was stored for a query.
Last(held, id) ==
  LET at == {k \in DOMAIN held : held[k].id = {id}}
  IN  IF at = {} THEN 0 ELSE held[Max(at)].val

Value(c, id) == Last(copy[c].base \o copy[c].log, id)

\* What content_fingerprint128 tells apart.
Fingerprint(c) == [id \in QueryIds |-> Value(c, id)]

\* The translog append and the change of the engine, under its lock.
Put(c, id, val) == [copy EXCEPT ![c].log = Append(@, Stored(id, val))]

\* Whatever the translog retains after a position.
RetainedFrom(c, from) ==
  SubSeq(copy[c].log, Max({from, copy[c].trimmed}) + 1, Len(copy[c].log))

\* seal_for_checkpoint_at: the segments hold all, the checkpoint record says so ...
SealRecords(c) ==
  /\ left.seals > 0 /\ copy[c].ckpt < Len(copy[c].log)
  /\ copy' = [copy EXCEPT ![c].ckpt = Len(copy[c].log)]
  /\ left' = [left EXCEPT !.seals = @ - 1]
  /\ UNCHANGED <<place, replicas, inSync, writing, pending, may, reading, recovery,
                 connecting>>

\* Mutant: a lease does not hold the trim back.
TrimmedUnleased(c) == copy[c].ckpt

\* The trim stops at the lowest position a lease pins.
Trimmed(c) == Min({copy[c].ckpt} \cup copy[c].leases)

\* ... and the translog is trimmed.
SealTrims(c) ==
  /\ Trimmed(c) > copy[c].trimmed
  /\ copy' = [copy EXCEPT ![c].trimmed = Trimmed(c)]
  /\ UNCHANGED <<place, left, replicas, inSync, writing, pending, may, reading, recovery,
                 connecting>>

\* open_durable_self: the segments of the checkpoint record, and the translog above it.
Reopened(c) ==
  [copy[c] EXCEPT !.leases = {},
     !.log = [k \in DOMAIN @ |->
                IF k > copy[c].ckpt /\ k <= copy[c].trimmed THEN Hole ELSE @[k]]]

CopyRestarts(c) ==
  /\ place = "remote" /\ left.stops > 0
  /\ copy' = [copy EXCEPT ![c] = Reopened(c)]
  /\ left' = [left EXCEPT !.stops = @ - 1]
  /\ UNCHANGED <<place, replicas, inSync, writing, pending, may, reading, recovery,
                 connecting>>

-----------------------------------------------------------------------------
(* A write.                                                                 *)

Serving == connecting = {}

Hows == {"insert", "replace", "conditional", "remove"}

\* Every answer a read under way may still give.
NowAllowed(id, val) ==
  {[r EXCEPT !.allowed[id] = @ \cup {val}] : r \in reading}

\* The lock is taken and the write goes to the primary.  A query is inserted only if the
\* coordinator does not know it.
Begin_(id, how, val) ==
  /\ Serving /\ writing = {} /\ left.writes > 0
  /\ left' = [left EXCEPT !.writes = @ - 1]
  /\ writing' = {[id |-> id, how |-> how, val |-> val, next |-> 0]}
  /\ may' = [may EXCEPT ![id] = @ \cup {val}]
  /\ reading' = NowAllowed(id, val)
  /\ UNCHANGED <<place, copy, replicas, inSync, pending, recovery, connecting>>

WriteBegins(id, how) ==
  /\ how = "insert" => may[id] = {0} /\ pending[id] = {}
  /\ Begin_(id, how, IF how = "remove" THEN 0 ELSE left.writes)

\* redrive_pending: the write is repeated without its condition.
RedriveBegins(id) ==
  \E val \in pending[id] : Begin_(id, IF val = 0 THEN "remove" ELSE "replace", val)

Declines(w) == w.how = "conditional" /\ Value(PrimaryCopy, w.id) = 0

PrimaryApplies ==
  /\ \E w \in writing :
       /\ w.next = 0 /\ ~ Declines(w)
       /\ copy' = Put(PrimaryCopy, w.id, w.val)
       /\ writing' = {[w EXCEPT !.next = 1]}
  /\ UNCHANGED <<place, left, replicas, inSync, pending, may, reading, recovery, connecting>>

\* The condition did not hold: nothing is changed, and nothing is sent to a replica.
PrimaryDeclines ==
  /\ \E w \in writing :
       /\ w.next = 0 /\ Declines(w)
       /\ may' = [may EXCEPT ![w.id] = @ \ {w.val}]
       /\ writing' = {}
  /\ UNCHANGED <<place, left, copy, replicas, inSync, pending, reading, recovery, connecting>>

\* The primary did not answer, whether it applied the write or not.  The replicas are not
\* sent it and stay in sync; the write is queued for repair.
PrimaryFails(applied) ==
  /\ place = "remote"
  /\ \E w \in writing :
       /\ w.next = 0
       /\ applied => ~ Declines(w)
       /\ copy' = IF applied THEN Put(PrimaryCopy, w.id, w.val) ELSE copy
       /\ pending' = [pending EXCEPT ![w.id] = {w.val}]
       /\ writing' = {}
  /\ UNCHANGED <<place, left, replicas, inSync, may, reading, recovery, connecting>>

\* fan_to_replicas, for one replica in sync: one that fails is dropped from the set.
Fanned(w, r, applied, answered) ==
  /\ copy' = IF applied THEN Put(r, w.id, w.val) ELSE copy
  /\ inSync' = IF answered THEN inSync ELSE inSync \ {r}

MirrorNext(applied, answered) ==
  /\ answered => applied
  /\ \E w \in writing :
       /\ w.next \in DOMAIN replicas
       /\ IF replicas[w.next] \in inSync
          THEN Fanned(w, replicas[w.next], applied, answered)
          ELSE UNCHANGED <<copy, inSync>>
       /\ writing' = {[w EXCEPT !.next = @ + 1]}
  /\ UNCHANGED <<place, left, replicas, pending, may, reading, recovery, connecting>>

WriteReturns ==
  /\ \E w \in writing :
       /\ w.next = Len(replicas) + 1
       /\ may' = [may EXCEPT ![w.id] = {w.val}]
       /\ pending' = [pending EXCEPT ![w.id] = {}]
  /\ writing' = {}
  /\ UNCHANGED <<place, left, copy, replicas, inSync, reading, recovery, connecting>>

-----------------------------------------------------------------------------
(* A read: of one answer, or of a stream of chunks.                         *)

ReadBegins(streams) ==
  /\ Serving /\ reading = {} /\ left.reads > 0
  /\ left' = [left EXCEPT !.reads = @ - 1]
  /\ reading' = {[at |-> PrimaryCopy, others |-> replicas, streams |-> streams, state |-> "asked",
                  view |-> Fingerprint(PrimaryCopy), chunks |-> {}, allowed |-> may]}
  /\ UNCHANGED <<place, copy, replicas, inSync, writing, pending, may, recovery, connecting>>

\* The copy answers from the snapshot it loads.
CopyLoads ==
  /\ \E r \in reading :
       /\ r.state = "asked"
       /\ reading' = {[r EXCEPT !.state = "open", !.view = Fingerprint(r.at)]}
  /\ UNCHANGED <<place, left, copy, replicas, inSync, writing, pending, may, recovery,
                 connecting>>

Chunk(r, id) == [id |-> id, from |-> r.at, val |-> r.view[id]]

ChunkIsSent(id) ==
  /\ \E r \in reading :
       /\ r.state = "open" /\ r.streams /\ Chunk(r, id) \notin r.chunks
       /\ reading' = {[r EXCEPT !.chunks = @ \cup {Chunk(r, id)}]}
  /\ UNCHANGED <<place, left, copy, replicas, inSync, writing, pending, may, recovery,
                 connecting>>

\* The answer, or the end of the stream.
CopyAnswers ==
  /\ \E r \in reading :
       LET all == {Chunk(r, id) : id \in QueryIds}
       IN  /\ r.state = "open"
           /\ r.streams => all \subseteq r.chunks
           /\ reading' = {[r EXCEPT !.state = "done", !.chunks = @ \cup all]}
  /\ UNCHANGED <<place, left, copy, replicas, inSync, writing, pending, may, recovery,
                 connecting>>

\* read_stream: only before the first chunk.
MayFailOver(r) == r.chunks = {}

\* The next replica in sync, of the replicas there were.
FailedOver(r) ==
  LET next == {k \in DOMAIN r.others : r.others[k] \in inSync}
  IN  IF next = {} \/ ~ MayFailOver(r)
      THEN [r EXCEPT !.state = "failed"]
      ELSE [r EXCEPT !.at = r.others[Min(next)], !.state = "asked",
                     !.others = SubSeq(@, Min(next) + 1, Len(@))]

\* The call fails in transport.
CopyIsLost ==
  /\ place = "remote"
  /\ \E r \in reading : r.state \in {"asked", "open"} /\ reading' = {FailedOver(r)}
  /\ UNCHANGED <<place, left, copy, replicas, inSync, writing, pending, may, recovery,
                 connecting>>

ReadEnds ==
  /\ \E r \in reading : r.state \in {"done", "failed"}
  /\ reading' = {}
  /\ UNCHANGED <<place, left, copy, replicas, inSync, writing, pending, may, recovery,
                 connecting>>

-----------------------------------------------------------------------------
(* add_recovered_replica: a replica of a local position.                    *)

RecoveryBegins(r) ==
  /\ place = "local" /\ recovery = {} /\ left.recoveries > 0
  /\ r \notin {PrimaryCopy} \cup {replicas[k] : k \in DOMAIN replicas}
  /\ left' = [left EXCEPT !.recoveries = @ - 1]
  /\ recovery' = {[pc |-> "lease", to |-> r, from |-> Len(copy[PrimaryCopy].log), passes |-> 0]}
  /\ UNCHANGED <<place, copy, replicas, inSync, writing, pending, may, reading, connecting>>

\* The position was read before the lease was registered at it.
RecoveryLeases ==
  /\ \E v \in recovery :
       /\ v.pc = "lease"
       /\ copy' = [copy EXCEPT ![PrimaryCopy].leases = {v.from}]
       /\ recovery' = {[v EXCEPT !.pc = "seal"]}
  /\ UNCHANGED <<place, left, replicas, inSync, writing, pending, may, reading, connecting>>

RecoverySeals ==
  /\ \E v \in recovery :
       /\ v.pc = "seal"
       /\ copy' = [copy EXCEPT ![PrimaryCopy].ckpt = Len(copy[PrimaryCopy].log)]
       /\ recovery' = {[v EXCEPT !.pc = "copy", !.from = Len(copy[PrimaryCopy].log)]}
  /\ UNCHANGED <<place, left, replicas, inSync, writing, pending, may, reading, connecting>>

\* The rows of a part of the translog, which a removal has none of.
Rows(log, from, to) ==
  [k \in 1 .. (to - from) |-> IF log[from + k].val = 0 THEN Hole ELSE log[from + k]]

\* The files are listed after the seal: the rows of a few later writes may be in them.
RecoveryCopies(flushed) ==
  LET source == copy[PrimaryCopy]
  IN  /\ \E v \in recovery :
           /\ v.pc = "copy" /\ flushed \in v.from .. Len(source.log)
           /\ copy' = [copy EXCEPT ![v.to] =
                         NewCopy(source.base \o SubSeq(source.log, 1, v.from)
                                   \o Rows(source.log, v.from, flushed))]
           /\ recovery' = {[v EXCEPT !.pc = "drain"]}
      /\ UNCHANGED <<place, left, replicas, inSync, writing, pending, may, reading,
                     connecting>>

\* catch_up_replica and renew_retention_lease.
Drained(v) ==
  [copy EXCEPT ![v.to].log = @ \o RetainedFrom(PrimaryCopy, v.from),
               ![PrimaryCopy].leases = {Len(copy[PrimaryCopy].log)}]

RecoveryDrains ==
  /\ \E v \in recovery :
       LET end == Len(copy[PrimaryCopy].log)
       IN  /\ v.pc = "drain"
           /\ copy' = Drained(v)
           /\ recovery' = {[v EXCEPT !.from = end, !.passes = @ + 1,
                              !.pc = IF end = v.from \/ v.passes = MaxPasses THEN "promote" ELSE "drain"]}
  /\ UNCHANGED <<place, left, replicas, inSync, writing, pending, may, reading, connecting>>

\* promote_recovered_replica.
Promoted(v) ==
  /\ copy' = [Drained(v) EXCEPT ![PrimaryCopy].leases = {}]
  /\ replicas' = Append(replicas, v.to) /\ inSync' = inSync \cup {v.to}

\* Under the write lock.
RecoveryPromotes ==
  /\ writing = {}
  /\ \E v \in recovery : v.pc = "promote" /\ Promoted(v)
  /\ recovery' = {}
  /\ UNCHANGED <<place, left, writing, pending, may, reading, connecting>>

RecoveryFails ==
  /\ \E v \in recovery : v.pc # "lease"
  /\ copy' = [copy EXCEPT ![PrimaryCopy].leases = {}]
  /\ recovery' = {}
  /\ UNCHANGED <<place, left, replicas, inSync, writing, pending, may, reading, connecting>>

-----------------------------------------------------------------------------
(* The coordinator of a remote position stops, and one connects.            *)

CoordinatorStops ==
  /\ place = "remote" /\ Serving /\ left.stops > 0
  /\ connecting' = {[next |-> 1, proven |-> {}, primary |-> {}]}
  /\ writing' = {} /\ reading' = {} /\ pending' = Nothing /\ inSync' = {}
  /\ left' = [left EXCEPT !.stops = @ - 1]
  /\ UNCHANGED <<place, copy, replicas, may, recovery>>

\* PrimaryContent.fingerprint is asked for once, and its failure kept.
Attested(c) == IF c.primary # {} THEN c.primary ELSE {Fingerprint(PrimaryCopy)}

Proven(c, r) ==
  connecting' = {[next |-> c.next + 1, primary |-> Attested(c),
                  proven |-> IF Attested(c) = {Fingerprint(r)} THEN c.proven \cup {r} ELSE c.proven]}

ProveNext ==
  /\ \E c \in connecting : c.next \in DOMAIN replicas /\ Proven(c, replicas[c.next])
  /\ UNCHANGED <<place, left, copy, replicas, inSync, writing, pending, may, reading,
                 recovery>>

\* The replica, or the primary, could not attest what it holds.
ProveFails ==
  /\ \E c \in connecting :
       /\ c.next \in DOMAIN replicas
       /\ connecting' = {[c EXCEPT !.next = @ + 1]}
  /\ UNCHANGED <<place, left, copy, replicas, inSync, writing, pending, may, reading,
                 recovery>>

\* recover_then_prove: the replica's slot is replaced by what the primary holds.
RecoverNext(proved) ==
  /\ \E c \in connecting :
       /\ c.next \in DOMAIN replicas
       /\ Attested(c) # {Fingerprint(replicas[c.next])}
       /\ copy' = [copy EXCEPT ![replicas[c.next]] =
                     NewCopy(copy[PrimaryCopy].base \o copy[PrimaryCopy].log)]
       /\ connecting' = {[next |-> c.next + 1, primary |-> Attested(c),
                          proven |-> IF proved /\ Attested(c) = {Fingerprint(PrimaryCopy)}
                                     THEN c.proven \cup {replicas[c.next]} ELSE c.proven]}
  /\ UNCHANGED <<place, left, replicas, inSync, writing, pending, may, reading, recovery>>

\* with_proofs.
Connected ==
  /\ \E c \in connecting : c.next > Len(replicas) /\ inSync' = c.proven
  /\ connecting' = {}
  /\ UNCHANGED <<place, left, copy, replicas, writing, pending, may, reading, recovery>>

-----------------------------------------------------------------------------
GroupInit ==
  /\ \E g \in Groups :
       /\ place = g.place /\ replicas = g.replicas
       /\ inSync = {g.replicas[k] : k \in DOMAIN g.replicas}
       /\ left = [writes |-> g.writes, reads |-> g.reads, seals |-> g.seals,
                  stops |-> g.stops, recoveries |-> g.recoveries]
  /\ copy = [c \in Copies |-> NewCopy(<<>>)]
  /\ writing = {} /\ pending = Nothing /\ may = [id \in QueryIds |-> {0}]
  /\ reading = {} /\ recovery = {} /\ connecting = {}

GroupNext ==
  \/ \E c \in Copies : SealRecords(c) \/ SealTrims(c) \/ CopyRestarts(c)
  \/ \E id \in QueryIds, how \in Hows : WriteBegins(id, how)
  \/ \E id \in QueryIds : RedriveBegins(id) \/ ChunkIsSent(id)
  \/ PrimaryApplies \/ PrimaryDeclines \/ WriteReturns
  \/ \E applied \in BOOLEAN : PrimaryFails(applied)
  \/ \E applied, answered \in BOOLEAN : MirrorNext(applied, answered)
  \/ \E streams \in BOOLEAN : ReadBegins(streams)
  \/ CopyLoads \/ CopyAnswers \/ CopyIsLost \/ ReadEnds
  \/ \E r \in Copies : RecoveryBegins(r)
  \/ RecoveryLeases \/ RecoverySeals \/ RecoveryDrains \/ RecoveryPromotes \/ RecoveryFails
  \/ \E flushed \in 0 .. Len(copy[PrimaryCopy].log) : RecoveryCopies(flushed)
  \/ CoordinatorStops \/ ProveNext \/ ProveFails \/ Connected
  \/ \E proved \in BOOLEAN : RecoverNext(proved)

GroupSpec == GroupInit /\ [][GroupNext]_groupVars

(* The primary and every replica in sync hold, for each query, what the    *)
(* last acknowledged write left or a later one in doubt put in its place,  *)
(* so a read may fall over to any of them.  A read that returns gives each *)
(* query once, all of them from one copy, and misses no write that was     *)
(* acknowledged before it began.                                            *)
ReadsAreCurrent ==
  /\ Serving => \A c \in {PrimaryCopy} \cup inSync, id \in QueryIds : Value(c, id) \in may[id]
  /\ \A r \in reading :
       r.state = "done" =>
         /\ \A id \in QueryIds : \E k \in r.chunks : k.id = id
         /\ \A j, k \in r.chunks : j.id = k.id => j = k
         /\ \A k \in r.chunks : k.from = r.at /\ k.val \in r.allowed[k.id]
=============================================================================
