------------------------------ MODULE Handoff ------------------------------
(***************************************************************************)
(* A shard position moves from the node that serves it to another one      *)
(* while writes continue: the target copies the source's segments at a     *)
(* position, replays the tail of its translog, the source is fenced, the   *)
(* tail is drained until it stops growing, and the route is flipped.  A    *)
(* retention lease on the source keeps the tail from being trimmed.        *)
(***************************************************************************)
EXTENDS Naturals, Sequences, FiniteSets, FiniteSetsExt

CONSTANTS
  Nodes, First,        \* the nodes, and the one that serves at first
  Writers, Ids, None,
  Kinds,               \* of mutations: "add", "upsert", "remove"
  MaxOps, MaxMoves,    \* bounds on the mutations and on the moves
  \* What the environment may do; each is FALSE where it may not.
  Straggle,            \* an admitted write outlasts the drain of its node, or
                       \* an undelivered one the whole of two moves
  LiveLeaseExpires,    \* the lease of a running move outlives its heartbeat
  RestartsMidMove      \* the serving node restarts while a move runs

ASSUME NodesAssumption == First \in Nodes
ASSUME KindsAssumption == Kinds \subseteq {"add", "upsert", "remove"}
ASSUME BoundsAssumption == MaxOps \in Nat /\ MaxMoves \in Nat
ASSUME EnvironmentAssumption ==
  {Straggle, LiveLeaseExpires, RestartsMidMove} \subseteq BOOLEAN

VARIABLES
  ops,         \* every mutation a node accepted, in the order of acceptance
  node,        \* what each node holds for the position
  serving,     \* HandoffShard.current
  generation,  \* HandoffShard.generation
  writer,      \* where each writer's request is, or None
  move,        \* the move under way
  moves,       \* how many were begun
  stranded     \* the last unfence failed: the source needs an operator

vars == <<ops, node, serving, generation, writer, move, moves, stranded>>

-----------------------------------------------------------------------------
(* What a copy holds.  An entry is a mutation that reached the copy; a bare *)
(* one arrived as a row of a segment only, without its effect on others.    *)

Entry == [op : Nat \ {0}, bare : BOOLEAN]

Whole(s) == [i \in DOMAIN s |-> [op |-> s[i], bare |-> FALSE]]

Bare(s) == [i \in DOMAIN s |-> [op |-> s[i], bare |-> TRUE]]

ContentOf(r) == r.base \o Whole(r.log)

Content(n) == ContentOf(node[n])

Replaces(e) == ~ e.bare /\ ops[e.op].kind # "add"

(* The entries of c whose rows are live.                                    *)
LiveRows(c) ==
  {k \in DOMAIN c :
     /\ ops[c[k].op].kind # "remove"
     /\ \A j \in k + 1 .. Len(c) :
          ops[c[j].op].id = ops[c[k].op].id => ~ Replaces(c[j])}

Live(c) == {c[k].op : k \in LiveRows(c)}

(* segment_filenames: rows flushed after the last seal are in a file, what  *)
(* they replaced is not yet marked dead in the older ones.                  *)
Segments(r) ==
  (r.base \o Whole(SubSeq(r.log, 1, r.sealed)))
          \o Bare(SubSeq(r.log, r.sealed + 1, r.flushed))

NoLeases == [l \in {} |-> 0]

Fresh(base, fence) ==
  [base |-> base, log |-> <<>>, flushed |-> 0, sealed |-> 0, trimmed |-> 0,
   fence |-> fence, leases |-> NoLeases, stale |-> {}, nextLease |-> 0]

(* The node r with other leases.                                            *)
WithLeases(r, leases, stale, next) ==
  [base |-> r.base, log |-> r.log, flushed |-> r.flushed, sealed |-> r.sealed,
   trimmed |-> r.trimmed, fence |-> r.fence, leases |-> leases, stale |-> stale,
   nextLease |-> next]

WithFence(r, fence) == [r EXCEPT !.fence = fence]

(* The node r after these mutations, in its translog and in its engine.     *)
Logged(r, mutations) == [r EXCEPT !.log = @ \o mutations]

NoMove == [pc |-> "idle", from |-> None, to |-> None, gen |-> 0, lease |-> 0,
           at |-> 0, hwm |-> 0, fetched |-> <<>>, advanced |-> FALSE]

Init ==
  /\ ops = <<>>
  /\ node = [n \in Nodes |-> Fresh(<<>>, 0)]
  /\ serving = First /\ generation = 0
  /\ writer = [w \in Writers |-> None]
  /\ move = NoMove /\ moves = 0 /\ stranded = FALSE

-----------------------------------------------------------------------------
(* A write.                                                                 *)

InFlight == {w \in Writers : writer[w] # None}

(* The backing is loaded and the request sent to its node.                  *)
Send(w) ==
  /\ writer[w] = None /\ Len(ops) + Cardinality(InFlight) < MaxOps
  /\ writer' = [writer EXCEPT ![w] = [node |-> serving, admitted |-> FALSE]]
  /\ UNCHANGED <<ops, node, serving, generation, move, moves, stranded>>

(* Mutant: the fence is not looked at.                                      *)
AdmitFenced(w) ==
  /\ writer[w] # None /\ ~ writer[w].admitted
  /\ writer' = [writer EXCEPT ![w].admitted = TRUE]
  /\ UNCHANGED <<ops, node, serving, generation, move, moves, stranded>>

(* check_not_fenced.  A fenced node answers with an error.                  *)
Admit(w) ==
  /\ writer[w] # None /\ ~ writer[w].admitted
  /\ writer' = [writer EXCEPT ![w] =
                  IF node[writer[w].node].fence = 0
                  THEN [node |-> writer[w].node, admitted |-> TRUE] ELSE None]
  /\ UNCHANGED <<ops, node, serving, generation, move, moves, stranded>>

(* The translog append and the change of the engine under its lock, and the *)
(* acknowledgement.                                                         *)
Apply(w, id, kind) ==
  /\ writer[w] # None /\ writer[w].admitted
  /\ ops' = Append(ops, [id |-> id, kind |-> kind])
  /\ node' = [node EXCEPT ![writer[w].node] = Logged(@, <<Len(ops) + 1>>)]
  /\ writer' = [writer EXCEPT ![w] = None]
  /\ UNCHANGED <<serving, generation, move, moves, stranded>>

-----------------------------------------------------------------------------
(* What the serving node does beside writes.                                *)

Flushed(r) == [r EXCEPT !.flushed = Len(r.log)]

Flush ==
  /\ node' = [node EXCEPT ![serving] = Flushed(@)]
  /\ UNCHANGED <<ops, serving, generation, writer, move, moves, stranded>>

(* seal_for_checkpoint_at: flush, reseal, reap, trim to the lowest lease.   *)
Floor(r) == Min({Len(r.log)} \cup {r.leases[l] : l \in DOMAIN r.leases \ r.stale})

Sealed(r) ==
  [base |-> r.base, log |-> r.log, flushed |-> Len(r.log), sealed |-> Len(r.log),
   trimmed |-> IF Floor(r) > r.trimmed THEN Floor(r) ELSE r.trimmed, fence |-> r.fence,
   leases |-> [l \in DOMAIN r.leases \ r.stale |-> r.leases[l]], stale |-> {},
   nextLease |-> r.nextLease]

(* A checkpoint sweep, or the copy of another recovery.                     *)
Seal ==
  /\ node' = [node EXCEPT ![serving] = Sealed(@)]
  /\ UNCHANGED <<ops, serving, generation, writer, move, moves, stranded>>

(* The time to live of a lease elapses without a renewal.                   *)
LeaseExpires(l) ==
  /\ l \in DOMAIN node[serving].leases
  /\ ~ LiveLeaseExpires => (move.pc = "idle" \/ l # move.lease)
  /\ node' = [node EXCEPT ![serving] =
                 WithLeases(@, @.leases, @.stale \cup {l}, @.nextLease)]
  /\ UNCHANGED <<ops, serving, generation, writer, move, moves, stranded>>

(* The node comes back from its checkpoint and the translog above it; files *)
(* flushed since are not named by the checkpoint.  Its leases and its fence *)
(* were in memory.  A caller claims it again and goes on.                   *)
Restarted(r) ==
  [WithFence(WithLeases(r, NoLeases, {}, 0), 0) EXCEPT !.flushed = r.sealed]

Restart ==
  /\ ~ RestartsMidMove => move.pc = "idle"
  /\ node' = [node EXCEPT ![serving] = Restarted(@)]
  /\ writer' = [w \in Writers |->
                  IF writer[w] # None /\ writer[w].node = serving THEN None ELSE writer[w]]
  /\ stranded' = FALSE
  /\ UNCHANGED <<ops, serving, generation, move, moves>>

-----------------------------------------------------------------------------
(* The move.                                                                *)

At(pc) == [move EXCEPT !.pc = pc]

Goto(pc) == move' = At(pc)

(* execute_handoff: the route is validated and the first half of the lease  *)
(* request reads the end of the translog.                                   *)
Begin(to) ==
  /\ move.pc = "idle" /\ to # serving /\ moves < MaxMoves
  /\ move' = [pc |-> "lease", from |-> serving, to |-> to, gen |-> generation + 1,
               lease |-> 0, at |-> Len(node[serving].log), hwm |-> 0,
               fetched |-> <<>>, advanced |-> FALSE]
  /\ moves' = moves + 1
  /\ UNCHANGED <<ops, node, serving, generation, writer, stranded>>

Leased(r) ==
  WithLeases(r, [l \in DOMAIN r.leases \cup {r.nextLease} |->
                   IF l = r.nextLease THEN move.at ELSE r.leases[l]],
             r.stale, r.nextLease + 1)

AcquireLease ==
  /\ move.pc = "lease"
  /\ node' = [node EXCEPT ![move.from] = Leased(@)]
  /\ move' = [At("seal") EXCEPT !.lease = node[move.from].nextLease]
  /\ UNCHANGED <<ops, serving, generation, writer, moves, stranded>>

(* The request for the lease failed, perhaps after it was registered: the   *)
(* move ends at once and the lease is left to the reaper.                   *)
AcquireFails(registered) ==
  /\ move.pc = "lease"
  /\ node' = [node EXCEPT ![move.from] = IF registered THEN Leased(@) ELSE @]
  /\ move' = NoMove
  /\ UNCHANGED <<ops, serving, generation, writer, moves, stranded>>

(* fetch_segments: the seal whose position the copy is said to be at ...    *)
SealForCopy ==
  /\ move.pc = "seal"
  /\ node' = [node EXCEPT ![move.from] = Sealed(@)]
  /\ move' = [At("list") EXCEPT !.hwm = Len(node[move.from].log)]
  /\ UNCHANGED <<ops, serving, generation, writer, moves, stranded>>

(* ... and the list of files, taken after the engine lock was released.     *)
ListSegments ==
  /\ move.pc = "list"
  /\ move' = [At("install") EXCEPT !.fetched = Segments(node[move.from])]
  /\ UNCHANGED <<ops, node, serving, generation, writer, moves, stranded>>

(* recover_from: the target's slot is replaced; its fence stays.            *)
Install ==
  /\ move.pc = "install"
  /\ node' = [node EXCEPT ![move.to] = Fresh(move.fetched, @.fence)]
  /\ move' = [At("clear") EXCEPT !.fetched = <<>>]
  /\ UNCHANGED <<ops, serving, generation, writer, moves, stranded>>

(* clear_stale_fence: the fence the target got when it was demoted, if it   *)
(* was, is lifted.                                                          *)
ClearStaleFence ==
  /\ move.pc = "clear"
  /\ ~ Straggle => \A w \in InFlight : writer[w].node # move.to
  /\ node' = [node EXCEPT ![move.to] = WithFence(@, 0)]
  /\ Goto("drain")
  /\ UNCHANGED <<ops, serving, generation, writer, moves, stranded>>

(* translog_tail: whatever is retained above from.                          *)
Tail_(r, from) ==
  SubSeq(r.log, (IF from > r.trimmed THEN from ELSE r.trimmed) + 1, Len(r.log))

(* catch_up_replica: the tail is read, and written to the target through    *)
(* its write path.                                                          *)
CatchUp(pc, next) ==
  LET tail == Tail_(node[move.from], move.hwm)
  IN  /\ move.pc = pc
      /\ node' = [node EXCEPT ![move.to] = Logged(@, tail)]
      /\ move' = [[At(next) EXCEPT !.advanced = (tail # <<>>)]
                    EXCEPT !.hwm = IF tail = <<>> THEN @ ELSE Len(node[move.from].log)]
      /\ UNCHANGED <<ops, serving, generation, writer, moves, stranded>>

Drain == CatchUp("drain", "renew")

(* renew: monotonic, and silent about a lease that is gone.                 *)
Renewed(r) ==
  IF move.lease \in DOMAIN r.leases
  THEN WithLeases(r, [r.leases EXCEPT ![move.lease] = IF move.hwm > @ THEN move.hwm ELSE @],
                  r.stale \ {move.lease}, r.nextLease)
  ELSE r

(* The drain before the fence ends when the tail was empty or its passes    *)
(* are used up.                                                             *)
Renew ==
  /\ move.pc = "renew"
  /\ node' = [node EXCEPT ![move.from] = Renewed(@)]
  /\ Goto("fence") \/ (move.advanced /\ Goto("drain"))
  /\ UNCHANGED <<ops, serving, generation, writer, moves, stranded>>

Fenced(r) == IF move.gen > r.fence THEN WithFence(r, move.gen) ELSE r

Unfenced(r) == IF r.fence = move.gen THEN WithFence(r, 0) ELSE r

Fence ==
  /\ move.pc = "fence"
  /\ node' = [node EXCEPT ![move.from] = Fenced(@)]
  /\ Goto("final")
  /\ UNCHANGED <<ops, serving, generation, writer, moves, stranded>>

(* The fence request failed, applied or not: the fence is lifted.           *)
FenceFails(applied, lifted) ==
  LET src == IF applied THEN Fenced(node[move.from]) ELSE node[move.from]
  IN  /\ move.pc = "fence"
      /\ node' = [node EXCEPT ![move.from] = IF lifted THEN Unfenced(src) ELSE src]
      /\ stranded' = ~ lifted
      /\ Goto("release")
      /\ UNCHANGED <<ops, serving, generation, writer, moves>>

FinalDrain ==
  /\ ~ Straggle => \A w \in InFlight : ~ (writer[w].node = move.from /\ writer[w].admitted)
  /\ CatchUp("final", "converge")

(* Mutant: the high-water mark is compared the wrong way round.             *)
ConvergeReversed ==
  /\ move.pc = "converge"
  /\ node' = [node EXCEPT ![move.from] = Renewed(@)]
  /\ IF move.advanced THEN Goto("flip") ELSE Goto("final")
  /\ UNCHANGED <<ops, serving, generation, writer, moves, stranded>>

(* The drain after the fence ends when a pass found nothing.                *)
Converge ==
  /\ move.pc = "converge"
  /\ node' = [node EXCEPT ![move.from] = Renewed(@)]
  /\ IF move.advanced THEN Goto("final") ELSE Goto("flip")
  /\ UNCHANGED <<ops, serving, generation, writer, moves, stranded>>

(* A request of the final drain failed, or its passes ran out.              *)
Abort(lifted) ==
  /\ move.pc \in {"final", "converge"}
  /\ node' = [node EXCEPT ![move.from] = IF lifted THEN Unfenced(@) ELSE @]
  /\ stranded' = ~ lifted
  /\ Goto("release")
  /\ UNCHANGED <<ops, serving, generation, writer, moves>>

(* A request before the fence failed: the copy, the install, a pass.        *)
AbortEarly ==
  /\ move.pc \in {"seal", "list", "install", "clear", "drain", "renew"}
  /\ Goto("release")
  /\ UNCHANGED <<ops, node, serving, generation, writer, moves, stranded>>

(* swap_backing.                                                            *)
Flip ==
  /\ move.pc = "flip"
  /\ serving' = move.to /\ generation' = move.gen /\ stranded' = FALSE
  /\ Goto("release")
  /\ UNCHANGED <<ops, node, writer, moves>>

(* The lease is released; a release that fails leaves it to the reaper.     *)
Release(done) ==
  /\ move.pc = "release"
  /\ node' = [node EXCEPT ![move.from] =
                IF done
                THEN WithLeases(@, [l \in DOMAIN @.leases \ {move.lease} |-> @.leases[l]],
                                @.stale \ {move.lease}, @.nextLease)
                ELSE @]
  /\ move' = NoMove
  /\ UNCHANGED <<ops, serving, generation, writer, moves, stranded>>

MoveStep ==
  \/ AcquireLease \/ SealForCopy \/ ListSegments \/ Install \/ ClearStaleFence
  \/ Drain \/ Renew \/ Fence \/ FinalDrain \/ Converge \/ Flip
  \/ \E done \in BOOLEAN : Release(done)

Next ==
  \/ \E w \in Writers : Send(w) \/ Admit(w)
  \/ \E w \in Writers, id \in Ids, kind \in Kinds : Apply(w, id, kind)
  \/ Flush \/ Seal \/ Restart
  \/ \E l \in DOMAIN node[serving].leases : LeaseExpires(l)
  \/ \E to \in Nodes : Begin(to)
  \/ MoveStep
  \/ \E applied, lifted \in BOOLEAN : FenceFails(applied, lifted)
  \/ \E lifted \in BOOLEAN : Abort(lifted)
  \/ \E registered \in BOOLEAN : AcquireFails(registered)
  \/ AbortEarly

(* The mover's thread is scheduled, and so are the handlers of requests.    *)
Fairness ==
  /\ WF_vars(MoveStep)
  /\ \A w \in Writers : WF_vars(Admit(w) \/ \E id \in Ids, kind \in Kinds : Apply(w, id, kind))

Spec == Init /\ [][Next]_vars /\ Fairness

-----------------------------------------------------------------------------
Copying == {"install", "clear", "drain", "renew", "fence", "final", "converge", "flip"}

(* A node has trimmed no more than it sealed, sealed no more than it        *)
(* flushed and flushed no more than it logged, and its leases name          *)
(* positions of its translog.                                               *)
IsCopy(r) ==
  /\ r \in [base : Seq(Entry), log : Seq(Nat \ {0}), flushed : Nat, sealed : Nat,
            trimmed : Nat, fence : Nat, leases : {r.leases}, stale : {r.stale},
            nextLease : Nat]
  /\ r.trimmed <= r.sealed /\ r.sealed <= r.flushed /\ r.flushed <= Len(r.log)
  /\ r.leases = [l \in DOMAIN r.leases |-> r.leases[l]] /\ r.stale \subseteq DOMAIN r.leases
  /\ \A l \in DOMAIN r.leases :
       l \in Nat /\ l < r.nextLease /\ r.leases[l] \in 0 .. Len(r.log)

(* How far a move is.                                                       *)
Progress ==
  [pc : Copying \cup {"idle", "lease", "seal", "list", "release"},
   from : Nodes \cup {None}, to : Nodes \cup {None}, gen : Nat, lease : Nat, at : Nat,
   hwm : Nat, fetched : Seq(Entry), advanced : BOOLEAN]

(* The types of the variables.                                              *)
TypeOK ==
  /\ ops \in Seq([id : Ids, kind : Kinds])
  /\ node = [n \in Nodes |-> node[n]] /\ \A n \in Nodes : IsCopy(node[n])
  /\ serving \in Nodes /\ generation \in Nat
  /\ writer \in [Writers -> {None} \cup [node : Nodes, admitted : BOOLEAN]]
  /\ move \in Progress /\ moves \in Nat /\ stranded \in BOOLEAN

(* The node the route leads to holds what the accepted mutations, in the    *)
(* order they were accepted in, leave live: the move of execute_handoff     *)
(* drops none, brings none back and changes no order.                       *)
ServesEveryWrite == Live(Content(serving)) = Live(Whole([i \in DOMAIN ops |-> i]))

(* Nothing the move has still to replay is trimmed from the source's        *)
(* translog: the retention lease covers it from the seal on, although the   *)
(* lease was registered in a second step after its position was read.       *)
TailIsRetained ==
  move.pc \in Copying \cup {"list"} => node[move.from].trimmed <= move.hwm

(* Between moves the serving node accepts writes, unless a request to lift  *)
(* its fence failed: an aborted move lifts the fence it set, and a target   *)
(* that was demoted before is cleared of its old fence.                     *)
WritableBetweenMoves == move.pc = "idle" /\ ~ stranded => node[serving].fence = 0

(* Every move ends, so a fence is lifted, flipped away from or reported.    *)
MovesEnd == move.pc # "idle" ~> move.pc = "idle"

(* What a move promises: the serving node has every accepted write, a tail  *)
(* the move still needs is kept, and a position that is not moving takes    *)
(* writes.                                                                  *)
MoveIsSafe == ServesEveryWrite /\ TailIsRetained /\ WritableBetweenMoves

-----------------------------------------------------------------------------
(* The inductive strengthening of MoveIsSafe.                               *)

(* The content c has every accepted mutation whole, and nothing older after *)
(* the last time it has it.                                                 *)
InOrder(c) ==
  /\ \A k \in DOMAIN c : c[k].op \in DOMAIN ops
  /\ \A i \in DOMAIN ops : \E p \in DOMAIN c :
       /\ c[p] = [op |-> i, bare |-> FALSE]
       /\ \A q \in p + 1 .. Len(c) : c[q].op > i

(* The copy t has the first m entries of s that are whole, each one         *)
(* followed only by entries that follow it in s too.                        *)
Follows(t, s, m) ==
  /\ \A q \in DOMAIN t : \E j \in DOMAIN s : s[j].op = t[q].op
  /\ \A k \in 1 .. m : ~ s[k].bare =>
       \E p \in DOMAIN t :
         /\ t[p] = s[k]
         /\ \A q \in p + 1 .. Len(t) : \E j \in k + 1 .. Len(s) : s[j].op = t[q].op

ServesInOrder == InOrder(Content(serving))

CopyFollows ==
  LET upTo == Len(node[move.from].base) + move.hwm IN
  /\ move.pc = "install" => Follows(move.fetched, Content(move.from), upTo)
  /\ move.pc \in Copying \ {"install"} => Follows(Content(move.to), Content(move.from), upTo)

(* Until the route is flipped the source serves.                            *)
SourceServes ==
  /\ move.pc \in Copying \cup {"lease", "seal", "list"} =>
       /\ move.from = serving /\ move.to \in Nodes \ {serving}
       /\ move.gen = generation + 1
  /\ move.pc = "release" => move.from \in Nodes
  /\ move.pc = "lease" => move.at <= Len(node[move.from].log)

(* The lease of the move holds back the trim.                               *)
LeaseHolds ==
  LET source == node[move.from] IN
  /\ move.pc \in Copying \cup {"seal", "list"} =>
       move.lease \in DOMAIN source.leases \ source.stale
  /\ move.pc \in Copying \cup {"list"} =>
       /\ source.leases[move.lease] <= move.hwm
       /\ source.trimmed <= move.hwm /\ move.hwm <= Len(source.log)
  /\ move.pc = "list" => move.hwm <= source.sealed
  /\ move.pc \in {"converge", "flip"} => move.hwm = Len(source.log)

(* The fences: the serving node's is the one of the move under way or one   *)
(* that could not be lifted, and the target's is lifted before the drain.   *)
FencesAreOfMoves ==
  /\ node[serving].fence \in {0, generation + 1}
  /\ move.pc \in {"final", "converge", "flip"} => node[serving].fence # 0
  /\ move.pc \notin {"final", "converge", "flip"} /\ ~ stranded => node[serving].fence = 0
  /\ move.pc \in Copying \ {"install", "clear"} => node[move.to].fence = 0

(* A request that reaches a node behind the route will be refused by its    *)
(* fence, and the last pass over the translog finds no admitted request.    *)
StragglersAreFenced ==
  \A w \in Writers : writer[w] # None =>
    /\ writer[w].node # serving =>
         ~ writer[w].admitted /\ node[writer[w].node].fence # 0
    /\ move.pc \in {"converge", "flip"} /\ writer[w].node = serving => ~ writer[w].admitted

HandoffInv ==
  /\ TypeOK /\ SourceServes /\ LeaseHolds /\ FencesAreOfMoves /\ StragglersAreFenced
  /\ CopyFollows /\ ServesInOrder
=============================================================================
