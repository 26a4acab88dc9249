------------------------------ MODULE BulkLoad ------------------------------
(***************************************************************************)
(* A corpus is loaded into an empty cluster of shard nodes in one call     *)
(* (engine/src/cluster/coordinator/ingest/bulk.rs).  The load bypasses the *)
(* translogs and is spread over the positions, and over the copies of each *)
(* position, so it can stop half-way: a record on every copy says that a   *)
(* load is not complete, and a coordinator does not connect while it finds *)
(* one (cluster/server/bulk_load.rs).                                      *)
(*                                                                         *)
(* Every position has one bucket.  A copy counts how often it holds its    *)
(* bucket: in memory, and in the files its checkpoint record names.        *)
(***************************************************************************)
EXTENDS Integers, Sequences

CONSTANTS Shards,        \* position -> its copies in order, the primary first
          MaxLoads,      \* bound on the calls
          MaxNodeStops,  \* bound on the restarts of nodes
          \* What the environment may do.
          CountsElsewhere \* a primary that holds a load whose answer was lost fails to
                          \* count its queries, and a replica without them answers

ASSUME ShardsAssumption ==
  /\ Len(Shards) \in Nat \ {0} /\ DOMAIN Shards = 1 .. Len(Shards)
  /\ \A pos \in DOMAIN Shards :
       Len(Shards[pos]) \in Nat \ {0} /\ DOMAIN Shards[pos] = 1 .. Len(Shards[pos])
ASSUME LoadBoundsAssumption == {MaxLoads, MaxNodeStops} \subseteq Nat
ASSUME LoadEnvironmentAssumption == CountsElsewhere \in BOOLEAN

VARIABLES
  holds,     \* [position, copy] -> [rows, saved, mark]
  synced,    \* position -> the replicas in sync
  loader,    \* the load under way: where it is
  client,    \* what the last load was answered with: "none", "ok" or "error"
  link,      \* the coordinator: "up", "connecting" or "refused"
  loads, nodeStops

loadVars == <<holds, synced, loader, client, link, loads, nodeStops>>

Spots == UNION {{pos} \X DOMAIN Shards[pos] : pos \in DOMAIN Shards}

Replicas(pos) == 2 .. Len(Shards[pos])

NoLoader == [pc |-> "idle", at |-> <<1, 1>>]

\* The copies in the order a pass over the positions visits them.
NextSpot(s) == IF s[2] < Len(Shards[s[1]]) THEN <<s[1], s[2] + 1>> ELSE <<s[1] + 1, 1>>

NextShard(s) == <<s[1] + 1, 1>>

Past(s) == s[1] \notin DOMAIN Shards

Goto_(pc, s) == loader' = [pc |-> pc, at |-> s]

OutOfSync(pos) == Replicas(pos) \ synced[pos] # {}

-----------------------------------------------------------------------------
(* ingest_with_tags_in: the cluster must be empty.                          *)

LoadBegins ==
  /\ link = "up" /\ loader.pc = "idle" /\ loads < MaxLoads
  /\ Goto_("count", <<1, 1>>)
  /\ loads' = loads + 1
  /\ UNCHANGED <<holds, synced, client, link, nodeStops>>

\* num_queries of a position, which its primary answers or a replica in sync.
Counts(s) ==
  /\ loader.pc = "count" /\ s[1] = loader.at[1]
  /\ s[2] > 1 => /\ s[2] \in synced[s[1]]
                 /\ CountsElsewhere \/ holds[<<s[1], 1>>].rows = 0
  /\ IF holds[s].rows > 0
     THEN loader' = NoLoader /\ client' = "error"
     ELSE /\ IF Past(NextShard(s)) THEN Goto_("mark", <<1, 1>>) ELSE Goto_("count", NextShard(s))
          /\ UNCHANGED client
  /\ UNCHANGED <<holds, synced, link, loads, nodeStops>>

CountFails ==
  /\ loader.pc = "count"
  /\ loader' = NoLoader /\ client' = "error"
  /\ UNCHANGED <<holds, synced, link, loads, nodeStops>>

-----------------------------------------------------------------------------
(* mark_bulk_load_begun, on every copy before a row is sent to any.         *)

Mark(applied, answered) ==
  LET s == loader.at
  IN  /\ loader.pc = "mark" /\ (answered => applied)
      /\ holds' = IF applied THEN [holds EXCEPT ![s].mark = TRUE] ELSE holds
      /\ CASE answered /\ ~ Past(NextSpot(s)) -> Goto_("mark", NextSpot(s))
           [] answered /\ Past(NextSpot(s)) -> Goto_("ids", <<1, 1>>)
           [] ~ answered -> loader' = [pc |-> "undo", at |-> <<1, 1>>, to |-> s[1]]
      /\ UNCHANGED <<synced, client, link, loads, nodeStops>>

\* replace_logical_ids: the directory names the queries, or refuses them.
Ids_(accepted) ==
  /\ loader.pc = "ids"
  /\ IF accepted THEN Goto_("load", <<1, 1>>)
     ELSE loader' = [pc |-> "undo", at |-> <<1, 1>>, to |-> Len(Shards)]
  /\ UNCHANGED <<holds, synced, client, link, loads, nodeStops>>

\* take_back_bulk_load_marks: a position that fails is passed over.
Undo(applied, answered) ==
  LET s == loader.at
      sends == s[2] > 1 \/ ~ OutOfSync(s[1])
      next == IF sends /\ answered THEN NextSpot(s) ELSE NextShard(s)
  IN  /\ loader.pc = "undo" /\ (answered => applied)
      /\ holds' = IF sends /\ applied THEN [holds EXCEPT ![s].mark = FALSE] ELSE holds
      /\ IF next[1] > loader.to
         THEN loader' = NoLoader /\ client' = "error"
         ELSE loader' = [loader EXCEPT !.at = next] /\ UNCHANGED client
      /\ UNCHANGED <<synced, link, loads, nodeStops>>

-----------------------------------------------------------------------------
(* bucket_and_ingest: the bucket of each position, as a staged load of its  *)
(* primary and then of its replicas.                                        *)

\* The primary, and the replicas in sync.
Takes(s) == s[2] = 1 \/ s[2] \in synced[s[1]]

\* A staged segment: in memory, until the load is finished.
Stage ==
  /\ loader.pc = "load" /\ Takes(loader.at)
  /\ holds' = [holds EXCEPT ![loader.at].rows = @ + 1]
  /\ Goto_("finish", loader.at)
  /\ UNCHANGED <<synced, client, link, loads, nodeStops>>

AfterLoad(s) == IF Past(NextSpot(s)) THEN Goto_("complete", <<1, 1>>) ELSE Goto_("load", NextSpot(s))

\* finish_staged_load: the segments and the checkpoint record that names them.
Finish_ ==
  /\ loader.pc = "finish"
  /\ holds' = [holds EXCEPT ![loader.at].saved = holds[loader.at].rows]
  /\ AfterLoad(loader.at)
  /\ UNCHANGED <<synced, client, link, loads, nodeStops>>

\* The stream fails, or its answer is lost: a primary ends the load with an error, a replica
\* is dropped from the replicas in sync.
StreamFails(finished) ==
  LET s == loader.at
  IN  /\ loader.pc \in {"load", "finish"} /\ Takes(s) /\ (finished => loader.pc = "finish")
      /\ holds' = IF finished THEN [holds EXCEPT ![s].saved = holds[s].rows] ELSE holds
      /\ IF s[2] = 1
         THEN loader' = NoLoader /\ client' = "error" /\ UNCHANGED synced
         ELSE AfterLoad(s) /\ synced' = [synced EXCEPT ![s[1]] = @ \ {s[2]}] /\ UNCHANGED client
      /\ UNCHANGED <<link, loads, nodeStops>>

\* A replica that is out of sync is not sent the bucket.
SkipReplica ==
  /\ loader.pc = "load" /\ ~ Takes(loader.at)
  /\ AfterLoad(loader.at)
  /\ UNCHANGED <<holds, synced, client, link, loads, nodeStops>>

\* Mutant: the record is cleared although a replica did not take the load.
MayCompleteAlways(pos) == TRUE

MayComplete(pos) == ~ OutOfSync(pos)

\* mark_bulk_load_complete.
Complete(applied, answered) ==
  LET s == loader.at
      sends == s[2] > 1 \/ MayComplete(s[1])
      done == sends /\ answered
  IN  /\ loader.pc = "complete" /\ (answered => applied)
      /\ holds' = IF sends /\ applied THEN [holds EXCEPT ![s].mark = FALSE] ELSE holds
      /\ IF done /\ ~ Past(NextSpot(s))
         THEN Goto_("complete", NextSpot(s)) /\ UNCHANGED client
         ELSE loader' = NoLoader /\ client' = IF done THEN "ok" ELSE "error"
      /\ UNCHANGED <<synced, link, loads, nodeStops>>

-----------------------------------------------------------------------------
(* Stops.                                                                   *)

\* A node comes back with what its checkpoint record names; a stream to it has failed.
NodeStops(s) ==
  /\ nodeStops < MaxNodeStops
  /\ holds' = [holds EXCEPT ![s].rows = holds[s].saved]
  /\ nodeStops' = nodeStops + 1
  /\ IF loader.pc = "finish" /\ loader.at = s
     THEN IF s[2] = 1
          THEN loader' = NoLoader /\ client' = "error" /\ UNCHANGED synced
          ELSE AfterLoad(s) /\ synced' = [synced EXCEPT ![s[1]] = @ \ {s[2]}] /\ UNCHANGED client
     ELSE UNCHANGED <<loader, client, synced>>
  /\ UNCHANGED <<link, loads>>

LoaderStops ==
  /\ link = "up"
  /\ link' = "connecting" /\ loader' = NoLoader
  /\ client' = IF loader.pc = "idle" THEN client ELSE "error"
  /\ UNCHANGED <<holds, synced, loads, nodeStops>>

\* A replica is in sync if it was proven equal to its primary, perhaps after it was
\* recovered from it.
Reconnects(proven, recovered) ==
  LET now == [s \in Spots |->
                IF s[2] \in recovered[s[1]]
                THEN [holds[s] EXCEPT !.rows = holds[<<s[1], 1>>].rows, !.saved = holds[<<s[1], 1>>].rows]
                ELSE holds[s]]
  IN  /\ link = "connecting"
      /\ \A pos \in DOMAIN Shards : \A c \in proven[pos] : now[<<pos, c>>].rows = now[<<pos, 1>>].rows
      /\ holds' = now
      /\ link' = IF \E s \in Spots : now[s].mark THEN "refused" ELSE "up"
      /\ synced' = proven
      /\ client' = IF client = "ok" THEN "ok" ELSE "none"
      /\ UNCHANGED <<loader, loads, nodeStops>>

\* The nodes' data is reset, as the refusal asks.
Reset ==
  /\ link = "refused"
  /\ holds' = [s \in Spots |-> [rows |-> 0, saved |-> 0, mark |-> FALSE]]
  /\ link' = "connecting" /\ client' = "none"
  /\ UNCHANGED <<synced, loader, loads, nodeStops>>

-----------------------------------------------------------------------------
LoadInit ==
  /\ holds = [s \in Spots |-> [rows |-> 0, saved |-> 0, mark |-> FALSE]]
  /\ synced = [pos \in DOMAIN Shards |-> Replicas(pos)]
  /\ loader = NoLoader /\ client = "none" /\ link = "up" /\ loads = 0 /\ nodeStops = 0

SomeReplicas ==
  {f \in [DOMAIN Shards -> SUBSET UNION {Replicas(pos) : pos \in DOMAIN Shards}] :
     \A pos \in DOMAIN Shards : f[pos] \subseteq Replicas(pos)}

LoadNext ==
  \/ LoadBegins \/ CountFails \/ Stage \/ Finish_ \/ SkipReplica \/ LoaderStops \/ Reset
  \/ \E s \in Spots : Counts(s) \/ NodeStops(s)
  \/ \E applied, answered \in BOOLEAN :
       Mark(applied, answered) \/ Undo(applied, answered) \/ Complete(applied, answered)
  \/ \E ok \in BOOLEAN : Ids_(ok) \/ StreamFails(ok)
  \/ \E proven, recovered \in SomeReplicas : Reconnects(proven, recovered)

LoadSpec == LoadInit /\ [][LoadNext]_loadVars

Reachable == {s \in Spots : Takes(s)}

(* A load that is answered "ok" is on every copy a read may reach, once.    *)
(* A coordinator that is up, unless the load it was itself asked for       *)
(* failed, never serves part of a corpus: of what the copies hold, a read   *)
(* finds the whole of a load or nothing of it.                              *)
LoadsAreWhole ==
  /\ client = "ok" => \A s \in Reachable : holds[s].rows = 1
  /\ link = "up" /\ loader.pc = "idle" /\ client # "error" =>
       \E n \in {0, 1} : \A s \in Reachable : holds[s].rows = n
=============================================================================
