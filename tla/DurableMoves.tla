---------------------------- MODULE DurableMoves ----------------------------
(***************************************************************************)
(* A shard position changes its owner under a durable intent: single and   *)
(* group moves, the attestation of a target that is already live, raw      *)
(* handoffs and the sweep of orphan slots run in a coordinator that may    *)
(* crash anywhere; a new one resolves the intent it finds before it serves.*)
(* Copying under writes is Handoff's subject: here a copy is one step, and *)
(* what it missed is drained after the fence.                              *)
(***************************************************************************)
EXTENDS Naturals, FiniteSets

(***************************************************************************)
(* The durable intent of a physical move, as the replicated control state  *)
(* machine applies its five commands: Begin, MarkReady, Commit, Abort and  *)
(* Finish.  One shard position; an assignment is a primary and a set of    *)
(* replicas, and the state also holds the nodes' registered endpoints and  *)
(* the generation of the assignment.  The placement generation does not    *)
(* change while moves run (they hold the layout stable) and is left out;   *)
(* an operation id is a hash of an intent's fields, so it is the intent    *)
(* without its phase.                                                      *)
(***************************************************************************)

CONSTANT None

Members(a) == {a.primary} \cup a.replicas

IntentNodes(i) == Members(i.expected) \cup Members(i.desired)

OperationId(i) == [i EXCEPT !.phase = "preparing", !.evidence = None]

(* Two members of an assignment never share an endpoint.                    *)
EndpointsUnique(i, a) ==
  /\ a.primary \notin a.replicas
  /\ \A m, n \in Members(a) : m # n => i.eps[m] # i.eps[n]

SourceEndpoint(i) == i.eps[i.expected.primary]

(* The old primary's slot belongs to a desired member under another id.     *)
SourceAliasesDesired(i) ==
  \E n \in Members(i.desired) \ {i.expected.primary} : i.eps[n] = SourceEndpoint(i)

IdentitiesMatch(s, i) ==
  /\ DOMAIN i.eps = IntentNodes(i)
  /\ \A n \in IntentNodes(i) : i.eps[n] # None /\ s.addr[n] = i.eps[n]
  /\ EndpointsUnique(i, i.expected) /\ EndpointsUnique(i, i.desired)

ValidBegin(s, i) ==
  /\ i.expected # i.desired
  /\ i.live # 0 \/ i.authority = "desired"
  /\ IF SourceAliasesDesired(i)
     THEN i.authority = "desired" /\ i.sourceFence = 0
     ELSE i.sourceFence # 0
  /\ i.authority = "expected" => i.sourceFence = i.live
  /\ i.authority = "desired" => i.expected.replicas = {} /\ i.desired.replicas = {}
  /\ IdentitiesMatch(s, i)

AssignmentMatchesExpected(s, i) ==
  /\ s.assign = i.expected /\ s.agen = i.agen
  /\ IdentitiesMatch(s, i)

EvidenceMatches(i, evidence) == DOMAIN evidence = Members(i.desired)

(* What a command leaves and answers.                                       *)
Answer(s, outcome) == [state |-> s, outcome |-> outcome]

Accepted(r) == r.outcome \in {"applied", "already"}

Pending(s, i) == s.intent # None /\ OperationId(s.intent) = OperationId(i)

ApplyBegin(s, i) ==
  IF ~ ValidBegin(s, i) THEN Answer(s, "invalid")
  ELSE IF Pending(s, i) THEN Answer(s, "already")
  ELSE IF s.intent # None \/ ~ AssignmentMatchesExpected(s, i) THEN Answer(s, "conflict")
  ELSE Answer([s EXCEPT !.intent = i], "applied")

ApplyMarkReady(s, i, evidence) ==
  IF ~ Pending(s, i) THEN Answer(s, "conflict")
  ELSE IF ~ EvidenceMatches(s.intent, evidence) THEN Answer(s, "invalid")
  ELSE IF s.intent.phase # "preparing"
  THEN Answer(s, IF s.intent.evidence = evidence THEN "already" ELSE "conflict")
  ELSE IF AssignmentMatchesExpected(s, s.intent)
  THEN Answer([s EXCEPT !.intent.phase = "ready", !.intent.evidence = evidence], "applied")
  ELSE Answer(s, "conflict")

(* Mutant: the assignment is replaced blindly.                              *)
ApplyCommitBlind(s, i) ==
  IF Pending(s, i)
  THEN Answer([s EXCEPT !.assign = s.intent.desired, !.agen = @ + 1,
                        !.intent.phase = "committed"], "applied")
  ELSE Answer(s, "conflict")

(* The assignment and the phase change in one step.                         *)
ApplyCommit(s, i) ==
  IF ~ Pending(s, i) \/ s.intent.phase = "preparing" THEN Answer(s, "conflict")
  ELSE IF s.intent.phase = "committed"
  THEN Answer(s, IF s.assign = s.intent.desired THEN "already" ELSE "conflict")
  ELSE IF AssignmentMatchesExpected(s, s.intent)
  THEN Answer([s EXCEPT !.assign = s.intent.desired, !.agen = @ + 1,
                        !.intent.phase = "committed"], "applied")
  ELSE Answer(s, "conflict")

ApplyAbort(s, i) ==
  IF ~ Pending(s, i) THEN Answer(s, "already")
  ELSE IF /\ s.intent.authority = "expected" /\ s.intent.phase = "preparing"
          /\ AssignmentMatchesExpected(s, s.intent)
  THEN Answer([s EXCEPT !.intent = None], "applied")
  ELSE Answer(s, "conflict")

ApplyFinish(s, i) ==
  IF ~ Pending(s, i) THEN Answer(s, "already")
  ELSE IF /\ s.intent.phase = "committed" /\ s.assign = s.intent.desired
          /\ s.agen = s.intent.agen + 1 /\ IdentitiesMatch(s, s.intent)
  THEN Answer([s EXCEPT !.intent = None], "applied")
  ELSE Answer(s, "conflict")

-----------------------------------------------------------------------------
(* build_intent, from the state read after the endpoints were reserved.     *)
BuildIntent(s, expected, desired, live, sourceFence, authority) ==
  [expected |-> expected, desired |-> desired, agen |-> s.agen,
   eps |-> [n \in Members(expected) \cup Members(desired) |-> s.addr[n]],
   live |-> live, sourceFence |-> sourceFence, authority |-> authority,
   phase |-> "preparing", evidence |-> None]

(* plan_live_authority_fence                                                *)
LiveAuthorityFence(s, expected, desiredEndpoint, live) ==
  IF s.addr[expected.primary] = desiredEndpoint THEN 0 ELSE live + 1

(* desired_authority_fence_generation                                       *)
DesiredAuthorityFence(i) ==
  (IF i.live > i.sourceFence THEN i.live ELSE i.sourceFence) + 1

(* validate_identity, with which startup looks at what it finds.            *)
ValidIdentity(s, i) ==
  /\ IdentitiesMatch(s, i)
  /\ IF i.phase = "committed"
     THEN s.assign = i.desired /\ s.agen = i.agen + 1
     ELSE s.assign = i.expected /\ s.agen = i.agen

-----------------------------------------------------------------------------
CONSTANTS
  NodeIds, Endpoints, FirstAddr,  \* membership: the endpoint of each node at first
  FirstAssign, Wants,             \* the first assignment and the ones asked for
  Movers,                         \* the coordinator's threads that move
  MaxWrites, MaxMoves, MaxCrashes, MaxFaults, MaxJoins,
  Raw,                            \* raw handoffs are made
  MixesRaw,                       \* also beside a pending intent, and before group moves
  RetriesReady,                   \* a single move is asked for again while it is ready
  ForgetsFence,                   \* a slot server restarts while an intent is pending
  SweepsAliases                   \* slots are collected while two nodes share an endpoint

ASSUME MovesAssumption ==
  /\ FirstAddr \in [NodeIds -> Endpoints]
  /\ {MaxWrites, MaxMoves, MaxCrashes, MaxFaults, MaxJoins} \subseteq Nat
  /\ {Raw, MixesRaw, RetriesReady, ForgetsFence, SweepsAliases} \subseteq BOOLEAN

VARIABLES
  ctl,     \* the committed control state: addr, assign, agen, intent
  slot,    \* per endpoint: the fence and the acknowledged writes it holds
  route,   \* the coordinator's HandoffShard: up, primary, replicas, inSync,
           \* gen, and whether a raw handoff installed it
  mover,   \* each thread's place in its operation
  boot,    \* the startup's place
  acked,   \* the writes acknowledged
  stranded,\* a raw handoff did not lift its fence, or was cut off before it did
  spent    \* how much of each bound is used

vars == <<ctl, slot, route, mover, boot, acked, stranded, spent>>

-----------------------------------------------------------------------------
NoMove == [pc |-> "idle", kind |-> None, want |-> None, from |-> None, eps |-> None,
           live |-> None, gen |-> 0, held |-> {}, intent |-> None, resumes |-> FALSE]

RouteOf(s, gen) ==
  LET replicas == {s.addr[n] : n \in s.assign.replicas}
  IN  [up |-> TRUE, primary |-> s.addr[s.assign.primary], replicas |-> replicas,
       inSync |-> replicas, gen |-> gen, raw |-> FALSE]

Init ==
  /\ ctl = [addr |-> FirstAddr, assign |-> FirstAssign, agen |-> 0, intent |-> None]
  /\ slot = [e \in Endpoints |-> [fence |-> 0, rows |-> {}]]
  /\ route = RouteOf(ctl, 0)
  /\ mover = [t \in Movers |-> NoMove]
  /\ boot = "serving" /\ acked = {} /\ stranded = FALSE
  /\ spent = [moves |-> 0, crashes |-> 0, faults |-> 0, joins |-> 0]

Spend(what, max) ==
  /\ spent[what] < max
  /\ spent' = [spent EXCEPT ![what] = @ + 1]

Max2(a, b) == IF a > b THEN a ELSE b

(* fence keeps the higher generation and answers it; with 0 it is a probe.  *)
Fenced(e, gen) == [slot EXCEPT ![e].fence = Max2(@, gen)]

(* unfence lifts the fence only at the generation it names.                 *)
Unfenced(s, e, gen) == [s EXCEPT ![e].fence = IF @ = gen THEN 0 ELSE @]

Idle(t) == mover' = [mover EXCEPT ![t] = NoMove]

Goto(t, pc) == mover' = [mover EXCEPT ![t].pc = pc]

-----------------------------------------------------------------------------
(* Writes, through the live route.  Attestation holds the mutation barrier. *)

Attesting == {t \in Movers : mover[t].pc \in {"quiet", "lift"} \/
                (mover[t].pc \in {"ready", "commit"} /\ mover[t].intent.authority = "desired")}

(* The primary answers before any replica is sent the write; a replica that *)
(* refuses or does not answer leaves the in-sync set.                       *)
Write(reached) ==
  /\ route.up /\ Attesting = {} /\ Cardinality(acked) < MaxWrites
  /\ slot[route.primary].fence = 0
  /\ reached \subseteq route.inSync
  /\ LET w == Cardinality(acked) + 1
         taken == {e \in reached : slot[e].fence = 0}
     IN  /\ acked' = acked \cup {w}
         /\ slot' = [e \in Endpoints |->
                       IF e \in taken \cup {route.primary}
                       THEN [slot[e] EXCEPT !.rows = @ \cup {w}] ELSE slot[e]]
         /\ route' = [route EXCEPT !.inSync = taken]
  /\ UNCHANGED <<ctl, mover, boot, stranded, spent>>

(* A node is registered again, at another endpoint; operators do that to    *)
(* nodes that own nothing.                                                  *)
Join(n, e) ==
  /\ n \notin Members(ctl.assign) /\ e # ctl.addr[n]
  /\ Spend("joins", MaxJoins)
  /\ ctl' = [ctl EXCEPT !.addr[n] = e]
  /\ UNCHANGED <<slot, route, mover, boot, acked, stranded>>

-----------------------------------------------------------------------------
(* Planning.                                                                *)

Plan(t, kind, want) ==
  /\ mover[t].pc = "idle" /\ route.up
  /\ Spend("moves", MaxMoves)
  /\ mover' = [mover EXCEPT ![t] = [NoMove EXCEPT !.pc = "reserve", !.kind = kind, !.want = want,
                 !.from = ctl.assign, !.eps = ctl.addr, !.live = route.primary]]
  /\ UNCHANGED <<ctl, slot, route, boot, acked, stranded>>

TargetOf(i) == i.eps[i.desired.primary]

(* A raw handoff made another node live than the committed one.             *)
Uncommitted ==
  /\ route.raw /\ route.primary # ctl.addr[ctl.assign.primary]
  /\ ctl.intent # None =>
       ctl.intent.authority = "expected" \/ TargetOf(ctl.intent) # route.primary

(* dispatch_move: replicas on either side make it a group move, which has   *)
(* nothing to do when the groups are equal and refuses shared endpoints.    *)
PlanSingle(t, want) ==
  /\ want.replicas = {} /\ ctl.assign.replicas = {}
  /\ Plan(t, "single", want)

PlanGroup(t, want) ==
  /\ want.replicas \cup ctl.assign.replicas # {} /\ want # ctl.assign
  /\ \A m, n \in Members(want) : m # n => ctl.addr[m] # ctl.addr[n]
  /\ MixesRaw \/ (~ Uncommitted /\ \A u \in Movers : mover[u].kind # "raw")
  /\ Plan(t, "group", want)

(* execute_handoff names endpoints; its target serves nothing of the        *)
(* position yet.                                                            *)
PlanRaw(t, target) ==
  /\ Raw /\ target \notin {route.primary} \cup route.replicas
  /\ MixesRaw \/ \A u \in Movers : mover[u].kind # "group"
  /\ Plan(t, "raw", target)

Footprint(m) ==
  CASE m.kind = "single" -> {m.eps[m.from.primary], m.live, m.eps[m.want.primary]}
    [] m.kind = "group" -> {m.eps[n] : n \in Members(m.from) \cup Members(m.want)}
    [] m.kind = "raw" -> {m.live, m.want}

Busy(t) == UNION {mover[u].held : u \in Movers \ {t}}

(* Mutant: the plan is not compared with the state read again.              *)
PlanHoldsAlways(m) == TRUE

(* What was read before the reservation must still be so after it.          *)
PlanHolds(m) ==
  CASE m.kind = "single" ->
         /\ ctl.assign = m.from
         /\ \A n \in {m.from.primary, m.want.primary} : ctl.addr[n] = m.eps[n]
         /\ route.primary = m.live
         /\ m.eps[m.want.primary] \notin route.replicas
    [] m.kind = "group" ->
         /\ ctl.assign = m.from
         /\ \A n \in Members(m.from) \cup Members(m.want) : ctl.addr[n] = m.eps[n]
    [] m.kind = "raw" -> route.primary = m.live /\ m.want \notin route.replicas

(* A third endpoint is live: it is attested first, if one node is there.    *)
LiveNodes(m) == {n \in NodeIds : ctl.addr[n] = m.live}

Solo(n) == [primary |-> n, replicas |-> {}]

(* The intents a planned move may begin with: none when nothing is to be    *)
(* done or nothing can be.                                                  *)
IntentsFor(m) ==
  LET to == m.eps[m.want.primary]
      attest(a) == BuildIntent(ctl, m.from, a, route.gen,
                     LiveAuthorityFence(ctl, m.from, m.live, route.gen), "desired")
  IN  IF m.kind = "single" /\ m.live \notin {m.eps[m.from.primary], to}
      THEN IF Cardinality(LiveNodes(m)) = 1
           THEN {attest(Solo(n)) : n \in LiveNodes(m)} ELSE {}
      ELSE IF m.kind = "single" /\ m.from = m.want THEN {}
      ELSE IF m.kind = "single" /\ to = route.primary THEN {attest(m.want)}
      ELSE {BuildIntent(ctl, m.from, m.want, route.gen + 1, route.gen + 1, "expected")}

(* MoveLedger::reserve waits until no endpoint of the footprint is busy.    *)
(* A plan that went stale is made again, by another call here.              *)
Reserve(t) ==
  LET m == mover[t]
      planned == [m EXCEPT !.held = Footprint(m), !.gen = route.gen + 1,
                    !.resumes = ctl.intent # None /\ ctl.intent.phase = "ready"]
  IN  /\ m.pc = "reserve" /\ Footprint(m) \cap Busy(t) = {}
      /\ m.kind = "raw" => MixesRaw \/ ctl.intent = None
      /\ m.kind = "single" => RetriesReady \/ ~ planned.resumes
      /\ IF ~ PlanHolds(m) THEN Idle(t)
         ELSE IF m.kind = "raw"
         THEN mover' = [mover EXCEPT ![t] = [planned EXCEPT !.pc = "copy"]]
         ELSE IF IntentsFor(m) = {} THEN Idle(t)
         ELSE \E i \in IntentsFor(m) :
                mover' = [mover EXCEPT ![t] = [planned EXCEPT !.pc = "begin", !.intent = i]]
      /\ UNCHANGED <<ctl, slot, route, boot, acked, stranded, spent>>

-----------------------------------------------------------------------------
(* Proposals.  One that gets no answer in three attempts was applied or     *)
(* not; every error of one ends the operation and leaves the intent.        *)

Propose(t, answer, next) ==
  /\ \/ /\ Accepted(answer) /\ ctl' = answer.state /\ Goto(t, next)
        /\ UNCHANGED spent
     \/ ~ Accepted(answer) /\ Idle(t) /\ UNCHANGED <<ctl, spent>>
     \/ ctl' \in {ctl, answer.state} /\ Idle(t) /\ Spend("faults", MaxFaults)
  /\ UNCHANGED <<slot, route, boot, acked, stranded>>

Begin(t) ==
  LET i == mover[t].intent
  IN  /\ mover[t].pc = "begin"
      /\ Propose(t, ApplyBegin(ctl, i),
                 IF i.authority = "desired" THEN "attest"
                 ELSE IF mover[t].kind = "group" THEN "source" ELSE "copy")

Evidence(i) == [n \in Members(i.desired) |-> slot[i.eps[n]].rows]

(* From here on an error keeps the fence: the cutover has begun.            *)
Ready(t) ==
  /\ mover[t].pc = "ready"
  /\ Propose(t, ApplyMarkReady(ctl, mover[t].intent, Evidence(mover[t].intent)), "commit")

Commit(t) ==
  /\ mover[t].pc = "commit"
  /\ Propose(t, ApplyCommit(ctl, mover[t].intent),
             IF mover[t].intent.authority = "desired" THEN "lift" ELSE "swap")

Abort(t) ==
  /\ mover[t].pc = "abort"
  /\ Propose(t, ApplyAbort(ctl, mover[t].intent), "done")

Finish(t) ==
  /\ mover[t].pc = "finish"
  /\ Propose(t, ApplyFinish(ctl, mover[t].intent), "done")

Done(t) ==
  /\ mover[t].pc = "done" /\ Idle(t)
  /\ UNCHANGED <<ctl, slot, route, boot, acked, stranded, spent>>

-----------------------------------------------------------------------------
(* The physical steps of a move.                                            *)

(* Where a move copies from: the live primary, for a group the committed.   *)
Source(m) == IF m.kind = "group" THEN SourceEndpoint(m.intent) ELSE m.live

(* The members that hold nothing yet, and the retained replicas.            *)
FreshMembers(m) ==
  CASE m.kind = "raw" -> {m.want}
    [] m.kind = "single" -> {m.intent.eps[m.intent.desired.primary]}
    [] m.kind = "group" ->
         {m.intent.eps[n] : n \in Members(m.intent.desired) \ Members(m.intent.expected)}

Retained(m) ==
  IF m.kind # "group" THEN {}
  ELSE {m.intent.eps[n] : n \in (Members(m.intent.desired) \cap Members(m.intent.expected))
                                  \ {m.intent.expected.primary}}

(* A group's source: a ready intent demands its fence, any other state has  *)
(* a stale one lifted.  An error here leaves the intent.                    *)
ClearSource(t) ==
  LET m == mover[t] src == Source(m)
  IN  /\ m.pc = "source"
      /\ \/ /\ m.resumes /\ slot[src].fence = m.gen /\ Goto(t, "copy")
            /\ UNCHANGED <<slot, spent>>
         \/ m.resumes /\ slot[src].fence # m.gen /\ Idle(t) /\ UNCHANGED <<slot, spent>>
         \/ /\ ~ m.resumes /\ Goto(t, "copy") /\ UNCHANGED spent
            /\ slot' = [slot EXCEPT ![src].fence = 0]
         \/ Idle(t) /\ Spend("faults", MaxFaults) /\ UNCHANGED slot
      /\ UNCHANGED <<ctl, route, boot, acked, stranded>>

(* recover_from replaces what a fresh member holds; its stale fence goes.   *)
Copy(t) ==
  LET m == mover[t]
  IN  /\ m.pc = "copy"
      /\ slot' = [e \in Endpoints |->
                    IF e \in FreshMembers(m) THEN [fence |-> 0, rows |-> slot[Source(m)].rows]
                    ELSE slot[e]]
      /\ Goto(t, "fence")
      /\ UNCHANGED <<ctl, route, boot, acked, stranded, spent>>

FenceSource(t) ==
  /\ mover[t].pc = "fence"
  /\ slot' = Fenced(Source(mover[t]), mover[t].gen)
  /\ Goto(t, "drain")
  /\ UNCHANGED <<ctl, route, boot, acked, stranded, spent>>

(* The tail of the fenced source is replayed on fresh members; a retained   *)
(* replica whose fingerprint differs is replaced.                           *)
Drain(t) ==
  LET m == mover[t] have == slot[Source(m)].rows
  IN  /\ m.pc = "drain"
      /\ slot' = [e \in Endpoints |->
                    IF e \in FreshMembers(m) THEN [slot[e] EXCEPT !.rows = @ \cup have]
                    ELSE IF e \in Retained(m) THEN [fence |-> 0, rows |-> have]
                    ELSE slot[e]]
      /\ Goto(t, IF m.kind = "raw" THEN "swap" ELSE "ready")
      /\ UNCHANGED <<ctl, route, boot, acked, stranded, spent>>

(* A request before the cutover fails.  A fence that was asked for is       *)
(* lifted, if that request gets through, and the intent is aborted only     *)
(* when the source is known to be free of a fence.                          *)
Fail(t, applied, lifted, probed) ==
  LET m == mover[t] src == Source(m)
      asked == IF m.pc = "fence" /\ applied THEN Fenced(src, m.gen) ELSE slot
      after == IF m.pc # "copy" /\ lifted THEN Unfenced(asked, src, m.gen) ELSE asked
      free == after[src].fence = 0
      clean == IF m.kind = "group" THEN m.pc = "copy" \/ (lifted /\ free) ELSE probed /\ free
  IN  /\ m.pc \in {"copy", "fence", "drain"}
      /\ Spend("faults", MaxFaults)
      /\ slot' = after
      /\ IF m.kind # "raw" /\ clean THEN Goto(t, "abort") ELSE Idle(t)
      /\ stranded' = (stranded \/ (m.kind = "raw" /\ ~ free))
      /\ UNCHANGED <<ctl, route, boot, acked>>

(* The backing a move installs.                                             *)
DesiredRoute(m) ==
  IF m.kind = "raw"
  THEN [up |-> TRUE, primary |-> m.want, replicas |-> {}, inSync |-> {}, gen |-> m.gen, raw |-> TRUE]
  ELSE LET replicas == {m.intent.eps[n] : n \in m.intent.desired.replicas}
       IN  [up |-> TRUE, primary |-> m.intent.eps[m.intent.desired.primary],
            replicas |-> replicas, inSync |-> replicas, gen |-> m.gen, raw |-> FALSE]

Swap(t) ==
  LET m == mover[t]
  IN  /\ m.pc = "swap"
      /\ route' = DesiredRoute(m) /\ stranded' = FALSE
      /\ Goto(t, IF m.kind = "raw" THEN "done"
                 ELSE IF m.kind = "group" /\ m.intent.expected.primary \in Members(m.intent.desired)
                 THEN "unfence" ELSE "finish")
      /\ UNCHANGED <<ctl, slot, boot, acked, spent>>

(* A retained source is lifted after the swap; otherwise the intent stays.  *)
UnfenceRetained(t) ==
  LET m == mover[t] after == Unfenced(slot, Source(m), m.gen)
  IN  /\ m.pc = "unfence"
      /\ \/ /\ slot' = after /\ UNCHANGED spent
            /\ IF after[Source(m)].fence = 0 THEN Goto(t, "finish") ELSE Idle(t)
         \/ slot' \in {slot, after} /\ Idle(t) /\ Spend("faults", MaxFaults)
      /\ UNCHANGED <<ctl, route, boot, acked, stranded>>

-----------------------------------------------------------------------------
(* commit_live_authority: a target that is live already is quiesced and     *)
(* named, without a copy.                                                   *)

SourceFenceHolds(i, fence) ==
  \/ fence = i.sourceFence
  \/ SourceEndpoint(i) = TargetOf(i) /\ fence = DesiredAuthorityFence(i)

AttestSource(t) ==
  LET i == mover[t].intent src == SourceEndpoint(i) after == Fenced(src, i.sourceFence)
  IN  /\ mover[t].pc = "attest"
      /\ \/ /\ slot' = after /\ UNCHANGED spent
            /\ IF SourceFenceHolds(i, after[src].fence) THEN Goto(t, "quiet") ELSE Idle(t)
         \/ slot' \in {slot, after} /\ Idle(t) /\ Spend("faults", MaxFaults)
      /\ UNCHANGED <<ctl, route, boot, acked, stranded>>

QuiesceTarget(t) ==
  LET i == mover[t].intent fence == DesiredAuthorityFence(i) after == Fenced(TargetOf(i), fence)
  IN  /\ mover[t].pc = "quiet"
      /\ \/ /\ slot' = after /\ UNCHANGED spent
            /\ IF after[TargetOf(i)].fence = fence THEN Goto(t, "ready") ELSE Idle(t)
         \/ slot' \in {slot, after} /\ Idle(t) /\ Spend("faults", MaxFaults)
      /\ UNCHANGED <<ctl, route, boot, acked, stranded>>

LiftTarget(t) ==
  LET i == mover[t].intent
      after == Unfenced(slot, TargetOf(i), DesiredAuthorityFence(i))
  IN  /\ mover[t].pc = "lift"
      /\ \/ /\ slot' = after /\ UNCHANGED spent
            /\ IF after[TargetOf(i)].fence = 0 THEN Goto(t, "finish") ELSE Idle(t)
         \/ slot' \in {slot, after} /\ Idle(t) /\ Spend("faults", MaxFaults)
      /\ UNCHANGED <<ctl, route, boot, acked, stranded>>

-----------------------------------------------------------------------------
(* gc_orphan_slots, with every endpoint reserved: a slot of no committed    *)
(* member and of no live backing is dropped, and so is its fence.           *)

Orphan(n) ==
  /\ n \notin Members(ctl.assign)
  /\ ctl.addr[n] \notin {route.primary} \cup route.replicas

CollectOrphan(n) ==
  /\ route.up /\ \A t \in Movers : mover[t].held = {}
  /\ SweepsAliases \/ \A m \in NodeIds \ {n} : ctl.addr[m] # ctl.addr[n]
  /\ Orphan(n) /\ slot[ctl.addr[n]] # [fence |-> 0, rows |-> {}]
  /\ slot' = [slot EXCEPT ![ctl.addr[n]] = [fence |-> 0, rows |-> {}]]
  /\ UNCHANGED <<ctl, route, mover, boot, acked, stranded, spent>>

-----------------------------------------------------------------------------
(* Crashes and the startup that follows.                                    *)

(* Routing is rebuilt from the committed map, so a raw handoff that was not *)
(* reassigned since is undone: no operator restarts before that.            *)
Crash ==
  /\ boot # "down" /\ (route.up => ~ Uncommitted)
  /\ Spend("crashes", MaxCrashes)
  /\ route' = [route EXCEPT !.up = FALSE]
  /\ mover' = [t \in Movers |-> NoMove]
  /\ boot' = "down"
  /\ stranded' = (stranded \/ \E t \in Movers : mover[t].kind = "raw" /\ mover[t].pc \in {"drain", "swap"})
  /\ UNCHANGED <<ctl, slot, acked>>

(* A shard server restarts, which forgets its fence; in the middle of the   *)
(* move that set it, that is Handoff's subject.  A coordinator that serves  *)
(* beside a pending intent relies on the fence the intent names.            *)
NodeRestarts(e) ==
  /\ slot[e].fence # 0 /\ \A t \in Movers : e \notin mover[t].held
  /\ ForgetsFence \/ ~ route.up \/ ctl.intent = None
  /\ Spend("crashes", MaxCrashes)
  /\ slot' = [slot EXCEPT ![e].fence = 0]
  /\ UNCHANGED <<ctl, route, mover, boot, acked, stranded>>

(* A step of the startup: done, or refused, which ends the process.         *)
BootStep(pc, ok, s, next) ==
  /\ boot = pc
  /\ slot' = s
  /\ boot' = IF ok THEN next ELSE "down"
  /\ UNCHANGED <<ctl, route, mover, acked, stranded, spent>>

BootPropose(pc, answer, next) ==
  /\ boot = pc
  /\ \/ Accepted(answer) /\ ctl' = answer.state /\ boot' = next /\ UNCHANGED spent
     \/ ~ Accepted(answer) /\ boot' = "down" /\ UNCHANGED <<ctl, spent>>
     \/ ctl' \in {ctl, answer.state} /\ boot' = "down" /\ Spend("faults", MaxFaults)
  /\ UNCHANGED <<slot, route, mover, acked, stranded>>

(* recover_one, by the phase of the intent found.                           *)
BootStart ==
  /\ boot = "down" /\ ~ route.up
  /\ boot' = IF ctl.intent = None THEN "connect"
             ELSE IF ~ ValidIdentity(ctl, ctl.intent) THEN "down"
             ELSE ctl.intent.phase
  /\ boot' # boot
  /\ UNCHANGED <<ctl, slot, route, mover, acked, stranded, spent>>

(* Mutant: the intent is aborted and the fence forgotten.                   *)
BootAbortsFenced ==
  LET i == ctl.intent
  IN  i # None /\ i.authority = "expected" /\ BootStep("preparing", TRUE, slot, "abort")

BootPreparingExpected ==
  LET i == ctl.intent after == Unfenced(slot, SourceEndpoint(i), i.sourceFence)
  IN  /\ i # None /\ i.authority = "expected"
      /\ BootStep("preparing", after[SourceEndpoint(i)].fence = 0, after, "abort")

BootAbort == ctl.intent # None /\ BootPropose("abort", ApplyAbort(ctl, ctl.intent), "connect")

(* ensure_desired_authority_fences                                          *)
AuthorityFences(i) ==
  LET src == SourceEndpoint(i)
      one == IF src = TargetOf(i) THEN slot ELSE Fenced(src, i.sourceFence)
  IN  [ok |-> SourceFenceHolds(i, one[src].fence),
       slot |-> [one EXCEPT ![TargetOf(i)].fence = Max2(@, DesiredAuthorityFence(i))]]

Quiesced(i, s) == s[TargetOf(i)].fence = DesiredAuthorityFence(i)

BootPreparingDesired ==
  LET i == ctl.intent f == AuthorityFences(i)
  IN  /\ i # None /\ i.authority = "desired"
      /\ BootStep("preparing", f.ok /\ Quiesced(i, f.slot),
                  IF f.ok THEN f.slot ELSE slot, "evidence")

BootEvidence ==
  /\ ctl.intent # None
  /\ BootPropose("evidence", ApplyMarkReady(ctl, ctl.intent, Evidence(ctl.intent)), "commit")

(* desired_evidence without a target fence: only the old primary may still  *)
(* be fenced.                                                               *)
DesiredUnfenced(i) ==
  \A n \in Members(i.desired) \ {i.expected.primary} : slot[i.eps[n]].fence = 0

(* require_source_fence and the comparison with the recorded evidence.      *)
ReadyAuthority(i) ==
  /\ SourceFenceHolds(i, slot[SourceEndpoint(i)].fence)
  /\ Evidence(i) = i.evidence

BootReady ==
  LET i == ctl.intent f == AuthorityFences(i)
  IN  /\ i # None
      /\ IF i.authority = "desired"
         THEN BootStep("ready", ReadyAuthority(i) /\ f.ok /\ Quiesced(i, f.slot),
                       IF ReadyAuthority(i) /\ f.ok THEN f.slot ELSE slot, "commit")
         ELSE BootStep("ready", ReadyAuthority(i) /\ DesiredUnfenced(i), slot, "commit")

BootCommit == ctl.intent # None /\ BootPropose("commit", ApplyCommit(ctl, ctl.intent), "clear")

SourceIsDesired(i) == \E n \in Members(i.desired) : i.eps[n] = SourceEndpoint(i)

BootCommitted ==
  LET i == ctl.intent fence == slot[SourceEndpoint(i)].fence
  IN  /\ i # None
      /\ BootStep("committed", SourceFenceHolds(i, fence) \/ (SourceIsDesired(i) /\ fence = 0),
                  slot, "clear")

(* clear_desired_authority_fence and clear_retained_source                  *)
BootClear ==
  LET i == ctl.intent
      one == IF i.authority = "desired"
             THEN Unfenced(slot, TargetOf(i), DesiredAuthorityFence(i)) ELSE slot
      two == IF SourceIsDesired(i) THEN Unfenced(one, SourceEndpoint(i), i.sourceFence) ELSE one
  IN  /\ i # None
      /\ BootStep("clear",
           /\ i.authority = "desired" => one[TargetOf(i)].fence = 0
           /\ \A n \in Members(i.desired) \ {i.expected.primary} : one[i.eps[n]].fence = 0
           /\ SourceIsDesired(i) => two[SourceEndpoint(i)].fence = 0, two, "finish")

BootFinish == ctl.intent # None /\ BootPropose("finish", ApplyFinish(ctl, ctl.intent), "connect")

(* connect_replicated: a replica is in sync when its fingerprint equals the *)
(* primary's, or when it was asked to be recovered.                         *)
BootConnect(recovered) ==
  LET r == RouteOf(ctl, 0)
  IN  /\ boot = "connect" /\ recovered \subseteq r.replicas
      /\ slot' = [e \in Endpoints |->
                    IF e \in recovered THEN [slot[e] EXCEPT !.rows = slot[r.primary].rows]
                    ELSE slot[e]]
      /\ route' = [r EXCEPT !.inSync = {e \in @ : slot'[e].rows = slot[r.primary].rows}]
      /\ boot' = "serving"
      /\ UNCHANGED <<ctl, mover, acked, stranded, spent>>

-----------------------------------------------------------------------------
MoverStep(t) ==
  \/ Reserve(t) \/ Begin(t) \/ ClearSource(t) \/ Copy(t) \/ FenceSource(t) \/ Drain(t)
  \/ Ready(t) \/ Commit(t) \/ Swap(t) \/ UnfenceRetained(t) \/ Abort(t) \/ Finish(t) \/ Done(t)
  \/ AttestSource(t) \/ QuiesceTarget(t) \/ LiftTarget(t)

Startup ==
  \/ BootStart \/ BootPreparingExpected \/ BootAbort \/ BootPreparingDesired \/ BootEvidence
  \/ BootReady \/ BootCommit \/ BootCommitted \/ BootClear \/ BootFinish
  \/ \E recovered \in SUBSET Endpoints : BootConnect(recovered)

Next ==
  \/ \E reached \in SUBSET Endpoints : Write(reached)
  \/ \E n \in NodeIds, e \in Endpoints : Join(n, e)
  \/ \E t \in Movers : MoverStep(t)
  \/ \E t \in Movers, want \in Wants : PlanSingle(t, want) \/ PlanGroup(t, want)
  \/ \E t \in Movers, e \in Endpoints : PlanRaw(t, e)
  \/ \E t \in Movers, applied, lifted, probed \in BOOLEAN : Fail(t, applied, lifted, probed)
  \/ \E n \in NodeIds : CollectOrphan(n)
  \/ Crash \/ (\E e \in Endpoints : NodeRestarts(e))
  \/ Startup

Spec == Init /\ [][Next]_vars

-----------------------------------------------------------------------------
(* The routed primary and every replica a read may fail over to hold all    *)
(* the writes that were acknowledged, whatever moved, failed or crashed     *)
(* before: reassign.rs and group.rs promise no false negative.              *)
ServesAcked ==
  route.up => \A e \in {route.primary} \cup route.inSync : acked \subseteq slot[e].rows

(* An assignment is replaced only by one whose every member holds all the   *)
(* acknowledged writes: evidence taken under the fence is still true when   *)
(* the Commit is applied, by the mover or by a startup.                     *)
CommitIsComplete ==
  [][ctl'.assign # ctl.assign =>
       \A n \in Members(ctl'.assign) : acked \subseteq slot[ctl.addr[n]].rows]_vars

(* While no intent is pending and no thread is moving, the position takes   *)
(* writes: a move that ended in any way left no fence behind on the slot    *)
(* the route leads to, unless a raw handoff did not lift its own.           *)
WritableWithoutIntent ==
  /\ route.up /\ ctl.intent = None /\ ~ stranded
  /\ \A t \in Movers : mover[t].held = {}
  => slot[route.primary].fence = 0
=============================================================================
