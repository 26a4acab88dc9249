---------------------------- MODULE RemoteResize ----------------------------
(***************************************************************************)
(* Remote blue/green resize (cluster/coordinator/distributed/remote_resize *)
(* and its startup resolution), the resize intent of the replicated        *)
(* control state (cluster/control/resize_intent.rs) and the durable        *)
(* retirement of the nodes that lose their layout                          *)
(* (cluster/server/retirement.rs).                                         *)
(*                                                                         *)
(* Several coordinator processes share the control plane and the data      *)
(* nodes.  Each may stall for longer than a lease at any point, crash, or  *)
(* lose any reply; a data node may restart, which makes it forget its      *)
(* lease but not its data or its retirement.                               *)
(*                                                                         *)
(* A layout is a generation and the nodes that hold it; Place says which   *)
(* of them holds a query.  A query's stored state is the number of its     *)
(* last write, so "answers from a superseded layout" is a smaller number   *)
(* than the last acknowledged one.                                         *)
(***************************************************************************)
EXTENDS Integers, FiniteSets

CONSTANTS
    Coordinators,   \* coordinator processes: one boot-unique id each
    Nodes,          \* data nodes
    ResizeIds,            \* logical query ids
    First,          \* the coordinator serving at the start
    Origin,         \* the nodes of the layout at generation 0
    Targets,        \* the node sets a resize request may name
    ReuseOperation, \* whether a request may repeat an id an earlier attempt used
    Budgets,        \* bounds: how many writes, resize requests and node restarts a behaviour has
    Place(_, _),    \* Place(nodes, id): the node of a layout that holds id
    None

VARIABLES
    ctl,            \* the replicated control state
    node,           \* the data nodes
    co,             \* the coordinators
    acked,          \* number of the last acknowledged write of each id
    writes,         \* writes attempted so far
    used,           \* operation ids of the resize requests made so far
    resizes,        \* how many requests were made
    restarts,
    budget

remoteVars == <<ctl, node, co, acked, writes, used, resizes, restarts, budget>>

LayoutAt(gen, at) == [gen |-> gen, at |-> at]
ServedBy(state) == LayoutAt(state.gen, state.at)

Idle == [pc |-> "down", lay |-> LayoutAt(0, {}), fence |-> FALSE, op |-> 0,
         to |-> {}, todo |-> {}, before |-> <<>>, asked |-> {},
         proposed |-> FALSE, seen |-> None, evidence |-> <<>>]

\* A coordinator that serves a layout, with nothing else under way.
Serving(lay) == [Idle EXCEPT !.pc = "serving", !.lay = lay]

Empty == [i \in ResizeIds |-> 0]

-----------------------------------------------------------------------------
(* The resize commands of the replicated control state.  Each answers the  *)
(* new state and its outcome.                                              *)

Answer(state, outcome) == [state |-> state, outcome |-> outcome]

Accepted(answer) == answer.outcome \in {"applied", "already"}

\* ResizeIntent::same_identity
SameIdentity(a, b) == a.op = b.op /\ a.from = b.from /\ a.to = b.to

\* members_match: the new layout is on registered nodes, none of the old one
MembersMatch(state, intent) ==
    /\ intent.to.at \subseteq state.nodes
    /\ intent.from.at \subseteq state.nodes
    /\ intent.to.at \cap intent.from.at = {}

ApplyBegin(state, intent) ==
    IF \/ intent.to.gen # intent.from.gen + 1
       \/ ~ MembersMatch(state, intent)
    THEN Answer(state, "invalid")
    ELSE IF state.intent # None
    THEN Answer(state, IF SameIdentity(state.intent, intent) THEN "already" ELSE "conflict")
    ELSE IF intent.from # ServedBy(state)
    THEN Answer(state, "conflict")
    ELSE Answer([state EXCEPT !.intent = intent], "applied")

\* The evidence of the new positions; a repetition must bring the same.
ApplyMarkReady(state, op, evidence) ==
    IF state.intent = None \/ state.intent.op # op
    THEN Answer(state, "conflict")
    ELSE IF state.intent.phase # "preparing"
    THEN Answer(state, IF state.intent.evidence = evidence THEN "already" ELSE "conflict")
    ELSE IF state.intent.from # ServedBy(state) \/ ~ MembersMatch(state, state.intent)
    THEN Answer(state, "conflict")
    ELSE Answer([state EXCEPT !.intent.phase = "ready", !.intent.evidence = evidence], "applied")

ApplyCommit(state, op) ==
    IF state.intent = None \/ state.intent.op # op \/ state.intent.phase = "preparing"
    THEN Answer(state, "conflict")
    ELSE IF state.intent.phase = "committed"
    THEN Answer(state, IF state.intent.to = ServedBy(state) THEN "already" ELSE "conflict")
    ELSE IF state.intent.from # ServedBy(state) \/ ~ MembersMatch(state, state.intent)
    THEN Answer(state, "conflict")
    ELSE Answer([gen |-> state.intent.to.gen, at |-> state.intent.to.at,
                 nodes |-> state.nodes \ state.intent.from.at,
                 intent |-> [state.intent EXCEPT !.phase = "committed"]], "applied")

ApplyAbort(state, op) ==
    IF state.intent = None THEN Answer(state, "already")
    ELSE IF state.intent.op # op \/ state.intent.phase = "committed"
    THEN Answer(state, "conflict")
    ELSE Answer([state EXCEPT !.intent = None], "applied")

ApplyFinish(state, op) ==
    IF state.intent = None THEN Answer(state, "already")
    ELSE IF \/ state.intent.op # op
            \/ state.intent.phase # "committed"
            \/ state.intent.to # ServedBy(state)
    THEN Answer(state, "conflict")
    ELSE Answer([state EXCEPT !.intent = None], "applied")

-----------------------------------------------------------------------------
(* A data node.  owner is the coordinator lease, busy a write handler that *)
(* was admitted and has not applied yet.                                   *)

\* A claim drains the calls admitted under the prior owner.  A lease is
\* renewed only by calls, so between two calls of its owner it may have expired.
MayClaim(n, c) ==
    \/ node[n].owner \in {None, c}
    \/ node[n].busy = None

\* An owner-stamped call: a restarted node has no owner, and the client then
\* claims the lease again and repeats the call.
MayCall(n, c) == node[n].owner \in {None, c}

\* slot(): a retired node refuses, and so does one placed for another layout.
WouldServe(n, lay) == node[n].retired = 0 /\ node[n].gen = lay.gen

\* Retire: durable, idempotent for its operation, refused for another one.
MayRetire(n, op, gen) == node[n].gen = gen /\ node[n].retired \in {0, op}

\* Unretire lifts its own operation's retirement and refuses another one's.
MayUnretire(n, op) == node[n].retired \in {0, op}

-----------------------------------------------------------------------------
RemoteInit ==
    /\ ctl = [gen |-> 0, at |-> Origin, nodes |-> Origin, intent |-> None]
    /\ node = [n \in Nodes |->
                 [owner   |-> IF n \in Origin THEN First ELSE None,
                  retired |-> 0,
                  gen     |-> IF n \in Origin THEN 0 ELSE -1,
                  val     |-> Empty,
                  busy    |-> None]]
    /\ co = [c \in Coordinators |->
               IF c = First
               THEN Serving(LayoutAt(0, Origin))
               ELSE Idle]
    /\ acked = Empty
    /\ writes = 0
    /\ used = {}
    /\ resizes = 0
    /\ restarts = 0
    /\ budget \in Budgets

-----------------------------------------------------------------------------
(* Writes of a serving coordinator.  The fence is checked where a mutation *)
(* starts; raising it waits for the mutations that passed that check.      *)

Routing(c) == co[c].pc \notin {"down", "resolve", "claim", "abort", "lift",
                               "recheck", "unretire", "connect", "attest", "dead"}

StartWrite(c, id) ==
    LET n == Place(co[c].lay.at, id) IN
    /\ Routing(c) /\ ~ co[c].fence
    /\ writes < budget.writes
    /\ MayCall(n, c) /\ node[n].busy = None
    /\ WouldServe(n, co[c].lay)
    /\ node' = [node EXCEPT ![n].owner = c,
                            ![n].busy = [id |-> id, v |-> writes + 1, waiting |-> TRUE]]
    /\ writes' = writes + 1
    /\ UNCHANGED <<ctl, co, acked, used, resizes, restarts, budget>>

\* The handler applies what it was admitted with; it does not look again.
NodeAppliesWrite(n) ==
    LET w == node[n].busy IN
    /\ w # None
    /\ node' = [node EXCEPT ![n].busy = None, ![n].val[w.id] = w.v]
    /\ acked' = IF w.waiting THEN [acked EXCEPT ![w.id] = w.v] ELSE acked
    /\ UNCHANGED <<ctl, co, writes, used, resizes, restarts, budget>>

\* The client side of the call gives up; the handler goes on.
WriteTimesOut(n) ==
    /\ node[n].busy # None /\ node[n].busy.waiting
    /\ node' = [node EXCEPT ![n].busy.waiting = FALSE]
    /\ UNCHANGED <<ctl, co, acked, writes, used, resizes, restarts, budget>>

\* What a restart keeps: the data, the layout and the retirement.
NodeRestart(n) ==
    /\ restarts < budget.restarts
    /\ restarts' = restarts + 1
    /\ node' = [node EXCEPT ![n].owner = None, ![n].busy = None]
    /\ UNCHANGED <<ctl, co, acked, writes, used, resizes, budget>>

-----------------------------------------------------------------------------
(* prepare_remote_resize                                                   *)

\* No mutation of c that passed the fence check is still waited for.
Drained(c) == \A n \in Nodes :
    node[n].busy # None /\ node[n].busy.waiting => node[n].owner # c

\* Operation ids are the caller's: a fresh one, or a retry's.
OperationIds == {resizes + 1} \union (IF ReuseOperation THEN used ELSE {})

RaiseFence(c, op, to) ==
    /\ co[c].pc = "serving" /\ ~ co[c].fence
    /\ resizes < budget.resizes
    /\ Drained(c)
    /\ co' = [co EXCEPT ![c].pc = "prior", ![c].fence = TRUE, ![c].op = op,
                        ![c].to = to, ![c].asked = {}, ![c].proposed = FALSE]
    /\ used' = used \union {op}
    /\ resizes' = resizes + 1
    /\ UNCHANGED <<ctl, node, acked, writes, restarts, budget>>

\* register_resize_targets, then finish_prior_resize on the state read back
FinishPrior(c) ==
    LET state == [ctl EXCEPT !.nodes = @ \union co[c].to]
        prior == state.intent
        answer == IF prior = None THEN Answer(state, "applied")
                  ELSE IF prior.op = co[c].op /\ prior.phase # "committed"
                  THEN ApplyAbort(state, prior.op)
                  ELSE IF prior.phase = "committed" /\ prior.to = ServedBy(state)
                          /\ co[c].lay = prior.to
                  THEN ApplyFinish(state, prior.op)
                  ELSE Answer(state, "conflict")
    IN
    /\ co[c].pc = "prior"
    /\ ctl' = answer.state
    /\ co' = [co EXCEPT ![c].pc = IF Accepted(answer) THEN "begin" ELSE "failed"]
    /\ UNCHANGED <<node, acked, writes, used, resizes, restarts, budget>>

\* attest_committed_layout under the reservation, then Begin
Begin(c) ==
    LET intent == [op |-> co[c].op, from |-> ServedBy(ctl),
                   to |-> LayoutAt(ctl.gen + 1, co[c].to), phase |-> "preparing",
                   evidence |-> <<>>]
        answer == ApplyBegin(ctl, intent)
    IN
    /\ co[c].pc = "begin"
    /\ IF co[c].lay = ServedBy(ctl) /\ Accepted(answer)
       THEN /\ ctl' = answer.state
            /\ co' = [co EXCEPT ![c].pc = "stage", ![c].todo = co[c].to]
       ELSE /\ co' = [co EXCEPT ![c].pc = "failed"]
            /\ UNCHANGED ctl
    /\ UNCHANGED <<node, acked, writes, used, resizes, restarts, budget>>

\* connect_remote_with_security_mode on the targets: each adopts the next
\* generation, claims the node and must be empty
StageTarget(c, n) ==
    /\ co[c].pc = "stage" /\ n \in co[c].todo
    /\ MayClaim(n, c)
    /\ node[n].retired = 0 /\ node[n].val = Empty
    /\ node' = [node EXCEPT ![n].owner = c, ![n].gen = co[c].lay.gen + 1]
    /\ co' = [co EXCEPT ![c].todo = @ \ {n},
                        ![c].pc = IF @ = "stage" /\ co[c].todo = {n} THEN "before" ELSE @]
    /\ UNCHANGED <<ctl, acked, writes, used, resizes, restarts, budget>>

\* source_fingerprints
Fingerprint(c) ==
    /\ co[c].pc = "before"
    /\ \A n \in co[c].lay.at : MayCall(n, c) /\ WouldServe(n, co[c].lay)
    /\ node' = [n \in Nodes |-> IF n \in co[c].lay.at
                                THEN [node[n] EXCEPT !.owner = c] ELSE node[n]]
    /\ co' = [co EXCEPT ![c].pc = "copy", ![c].todo = co[c].lay.at,
                        ![c].before = [n \in co[c].lay.at |-> node[n].val]]
    /\ UNCHANGED <<ctl, acked, writes, used, resizes, restarts, budget>>

\* load_staged_layout: the export of one position, placed under the new ring;
\* the fingerprints of the targets after the last one are the evidence
CopyNode(c, n) ==
    LET held == {id \in ResizeIds : Place(co[c].lay.at, id) = n} IN
    /\ co[c].pc = "copy" /\ n \in co[c].todo
    /\ MayCall(n, c) /\ WouldServe(n, co[c].lay)
    /\ \A t \in co[c].to : MayCall(t, c) /\ node[t].retired = 0
                           /\ node[t].gen = co[c].lay.gen + 1
    /\ node' = [t \in Nodes |->
                  IF t \in co[c].to
                  THEN [node[t] EXCEPT !.owner = c,
                          !.val = [id \in ResizeIds |-> IF id \in held /\ Place(co[c].to, id) = t
                                                  THEN node[n].val[id] ELSE @[id]]]
                  ELSE IF t = n THEN [node[t] EXCEPT !.owner = c]
                  ELSE node[t]]
    /\ co' = [co EXCEPT ![c].todo = @ \ {n},
                        ![c].evidence = [t \in co[c].to |-> node'[t].val],
                        ![c].pc = IF co[c].todo = {n} THEN "retire" ELSE @]
    /\ UNCHANGED <<ctl, acked, writes, used, resizes, restarts, budget>>

\* What Retire reports must be what the export started from.
Unchanged(c, n) == node[n].val = co[c].before[n]

\* Mutant: the first node that agrees is taken for the whole layout.
RetiresOneNode(c, n) ==
    /\ co[c].pc = "retire" /\ n \in co[c].lay.at \ co[c].asked
    /\ MayCall(n, c) /\ MayRetire(n, co[c].op, co[c].lay.gen)
    /\ node' = [node EXCEPT ![n].owner = c, ![n].retired = co[c].op]
    /\ co' = [co EXCEPT ![c].asked = @ \union {n},
                        ![c].pc = IF Unchanged(c, n) THEN "ready" ELSE "failed"]
    /\ UNCHANGED <<ctl, acked, writes, used, resizes, restarts, budget>>

\* retire_old_layout: the node is noted before it is asked
RetireNode(c, n) ==
    /\ co[c].pc = "retire" /\ n \in co[c].lay.at \ co[c].asked
    /\ MayCall(n, c) /\ MayRetire(n, co[c].op, co[c].lay.gen)
    /\ node' = [node EXCEPT ![n].owner = c, ![n].retired = co[c].op]
    /\ co' = [co EXCEPT ![c].asked = @ \union {n},
                        ![c].pc = IF ~ Unchanged(c, n) THEN "failed"
                                  ELSE IF co[c].asked \union {n} = co[c].lay.at THEN "ready"
                                  ELSE @]
    /\ UNCHANGED <<ctl, acked, writes, used, resizes, restarts, budget>>

\* The reply is lost, or the request never arrived.
RetireLost(c, n) ==
    /\ co[c].pc = "retire" /\ n \in co[c].lay.at \ co[c].asked
    /\ \/ /\ MayCall(n, c) /\ MayRetire(n, co[c].op, co[c].lay.gen)
          /\ node' = [node EXCEPT ![n].owner = c, ![n].retired = co[c].op]
       \/ UNCHANGED node
    /\ co' = [co EXCEPT ![c].asked = @ \union {n}, ![c].pc = "failed"]
    /\ UNCHANGED <<ctl, acked, writes, used, resizes, restarts, budget>>

MarkReady(c) ==
    LET answer == ApplyMarkReady(ctl, co[c].op, co[c].evidence) IN
    /\ co[c].pc = "ready"
    /\ ctl' = answer.state
    /\ co' = [co EXCEPT ![c].pc = IF Accepted(answer) THEN "commit" ELSE "failed"]
    /\ UNCHANGED <<node, acked, writes, used, resizes, restarts, budget>>

\* commit_resize: the proposal may apply with its reply lost, or not at all
ProposeCommit(c) ==
    LET answer == ApplyCommit(ctl, co[c].op) IN
    /\ co[c].pc = "commit"
    /\ \/ /\ ctl' = answer.state
          /\ co' = [co EXCEPT ![c].proposed = TRUE,
                              ![c].pc = IF Accepted(answer) THEN "install" ELSE "readback"]
       \/ /\ ctl' \in {ctl, answer.state}
          /\ co' = [co EXCEPT ![c].proposed = TRUE, ![c].pc = "readback"]
    /\ UNCHANGED <<node, acked, writes, used, resizes, restarts, budget>>

ReadBack(c) ==
    /\ co[c].pc = "readback"
    /\ co' = [co EXCEPT ![c].pc =
                IF ServedBy(ctl) = LayoutAt(co[c].lay.gen + 1, co[c].to)
                THEN "install" ELSE "failed"]
    /\ UNCHANGED <<ctl, node, acked, writes, used, resizes, restarts, budget>>

\* install_remote_resize: publish the committed layout and lower the fence
Install(c) ==
    /\ co[c].pc = "install"
    /\ co' = [co EXCEPT ![c].lay = LayoutAt(co[c].lay.gen + 1, co[c].to),
                        ![c].fence = FALSE, ![c].pc = "finish"]
    /\ UNCHANGED <<ctl, node, acked, writes, used, resizes, restarts, budget>>

\* finish_remote_resize is best effort
Finish(c) ==
    /\ co[c].pc = "finish"
    /\ ctl' \in {ctl, ApplyFinish(ctl, co[c].op).state}
    /\ co' = [co EXCEPT ![c] = Serving(@.lay)]
    /\ UNCHANGED <<node, acked, writes, used, resizes, restarts, budget>>

-----------------------------------------------------------------------------
(* fail_resize                                                             *)

\* Any call of the preparation may fail.
Fail(c) ==
    /\ co[c].pc \in {"prior", "begin", "stage", "before", "copy", "retire",
                     "ready", "readback"}
    /\ co' = [co EXCEPT ![c].pc = "failed"]
    /\ UNCHANGED <<ctl, node, acked, writes, used, resizes, restarts, budget>>

\* Proven: the commit was not proposed, or the abort was accepted and the
\* layout of record is still the served one.
Proven(c, answer, state) ==
    \/ ~ co[c].proposed
    \/ Accepted(answer) /\ ServedBy(state) = co[c].lay /\ state.intent = None

ResolveFailure(c) ==
    LET answer == IF co[c].proposed THEN ApplyAbort(ctl, co[c].op)
                  ELSE Answer(ctl, "applied")
    IN
    /\ co[c].pc = "failed"
    /\ \/ /\ ctl' = answer.state
          /\ co' = [co EXCEPT ![c].pc = IF Proven(c, answer, ctl') THEN "unretireAll"
                                        ELSE "unresolved"]
       \/ /\ co[c].proposed             \* the abort or the read fails
          /\ ctl' \in {ctl, answer.state}
          /\ co' = [co EXCEPT ![c].pc = "unresolved"]
    /\ UNCHANGED <<node, acked, writes, used, resizes, restarts, budget>>

\* unretire_all: claim the node, then lift; a failure is only reported
UnretireOne(c, n) ==
    /\ co[c].pc = "unretireAll" /\ n \in co[c].asked
    /\ \/ /\ MayClaim(n, c) /\ MayUnretire(n, co[c].op)
          /\ node' = [node EXCEPT ![n].owner = c, ![n].retired = 0]
       \/ UNCHANGED node
    /\ co' = [co EXCEPT ![c].asked = @ \ {n}]
    /\ UNCHANGED <<ctl, acked, writes, used, resizes, restarts, budget>>

\* The trailing abort is best effort; then writes reopen.
Reopen(c) ==
    /\ co[c].pc = "unretireAll" /\ co[c].asked = {}
    /\ ctl' \in {ctl, ApplyAbort(ctl, co[c].op).state}
    /\ co' = [co EXCEPT ![c] = Serving(@.lay)]
    /\ UNCHANGED <<node, acked, writes, used, resizes, restarts, budget>>

-----------------------------------------------------------------------------
(* Coordinator startup: recover_durable_resize, connect, attest.  Any       *)
(* refusal or failed call ends the process.                                *)

Start(c) ==
    /\ co[c].pc = "down"
    /\ co' = [co EXCEPT ![c].pc = IF ctl.intent # None /\ ctl.intent.phase # "committed"
                                  THEN "claim" ELSE "resolve",
                        ![c].seen = ctl.intent,
                        ![c].lay = ServedBy(ctl),
                        ![c].todo = IF ctl.intent = None THEN {} ELSE ctl.intent.from.at]
    /\ UNCHANGED <<ctl, node, acked, writes, used, resizes, restarts, budget>>

\* Claim every node the recorded resize would have retired, then abort it.
ClaimOld(c, n) ==
    /\ co[c].pc = "claim" /\ n \in co[c].todo
    /\ MayClaim(n, c)
    /\ node' = [node EXCEPT ![n].owner = c]
    /\ co' = [co EXCEPT ![c].todo = @ \ {n},
                        ![c].pc = IF co[c].todo = {n} THEN "resolve" ELSE @]
    /\ UNCHANGED <<ctl, acked, writes, used, resizes, restarts, budget>>

\* Abort or Finish what was read, then read the committed layout again.
ResolveIntent(c) ==
    LET seen == co[c].seen
        answer == IF seen = None THEN Answer(ctl, "applied")
                  ELSE IF seen.phase = "committed" THEN ApplyFinish(ctl, seen.op)
                  ELSE ApplyAbort(ctl, seen.op)
    IN
    /\ co[c].pc = "resolve"
    /\ ctl' = answer.state
    /\ co' = [co EXCEPT ![c].pc = IF Accepted(answer) THEN "lift" ELSE "dead",
                        ![c].todo = ctl'.at, ![c].seen = None]
    /\ UNCHANGED <<node, acked, writes, used, resizes, restarts, budget>>

\* Claim a node of the committed layout and learn which resize retired it.
LiftClaim(c, n) ==
    /\ co[c].pc = "lift" /\ n \in co[c].todo
    /\ MayClaim(n, c)
    /\ node' = [node EXCEPT ![n].owner = c]
    /\ co' = [co EXCEPT ![c].op = node[n].retired,
                        ![c].asked = IF node[n].retired = 0 THEN {} ELSE {n},
                        ![c].todo = IF node[n].retired = 0 THEN @ \ {n} ELSE @,
                        ![c].pc = IF node[n].retired = 0 THEN @ ELSE "recheck"]
    /\ UNCHANGED <<ctl, acked, writes, used, resizes, restarts, budget>>

\* Holding the claim: is the node still of the committed layout, and no
\* resize under way?
StillCommitted(state, n) == state.intent = None /\ n \in state.at

Recheck(c) ==
    /\ co[c].pc = "recheck"
    /\ co' = [co EXCEPT ![c].pc = IF \A n \in co[c].asked : StillCommitted(ctl, n)
                                  THEN "unretire" ELSE "dead"]
    /\ UNCHANGED <<ctl, node, acked, writes, used, resizes, restarts, budget>>

LiftUnretire(c, n) ==
    /\ co[c].pc = "unretire" /\ n \in co[c].asked
    /\ MayClaim(n, c) /\ MayUnretire(n, co[c].op)
    /\ node' = [node EXCEPT ![n].owner = c, ![n].retired = 0]
    /\ co' = [co EXCEPT ![c].pc = "lift", ![c].todo = @ \ {n}, ![c].asked = {}]
    /\ UNCHANGED <<ctl, acked, writes, used, resizes, restarts, budget>>

\* build_groups reads the assignments; the generation is the one read at start.
Resolve(c) ==
    /\ co[c].pc = "lift" /\ co[c].todo = {}
    /\ co' = [co EXCEPT ![c].pc = "connect", ![c].todo = ctl.at,
                        ![c].lay = LayoutAt(@.gen, ctl.at)]
    /\ UNCHANGED <<ctl, node, acked, writes, used, resizes, restarts, budget>>

\* adopt_dict: refused when retired or when it holds data of another layout
Adopt(c, n) ==
    /\ co[c].pc = "connect" /\ n \in co[c].todo
    /\ MayClaim(n, c)
    /\ node[n].retired = 0
    /\ node[n].gen = co[c].lay.gen \/ node[n].val = Empty
    /\ node' = [node EXCEPT ![n].owner = c, ![n].gen = co[c].lay.gen]
    /\ co' = [co EXCEPT ![c].todo = @ \ {n},
                        ![c].pc = IF co[c].todo = {n} THEN "attest" ELSE @]
    /\ UNCHANGED <<ctl, acked, writes, used, resizes, restarts, budget>>

Attest(c) ==
    /\ co[c].pc = "attest"
    /\ co' = [co EXCEPT ![c] = IF ServedBy(ctl) = @.lay THEN Serving(@.lay)
                               ELSE [Idle EXCEPT !.pc = "dead"]]
    /\ UNCHANGED <<ctl, node, acked, writes, used, resizes, restarts, budget>>

Crash(c) ==
    /\ co[c].pc \notin {"down", "dead"}
    /\ co' = [co EXCEPT ![c] = [Idle EXCEPT !.pc = "dead"]]
    /\ node' = [n \in Nodes |->
                  IF node[n].busy # None /\ node[n].owner = c
                  THEN [node[n] EXCEPT !.busy.waiting = FALSE] ELSE node[n]]
    /\ UNCHANGED <<ctl, acked, writes, used, resizes, restarts, budget>>

-----------------------------------------------------------------------------
Prepare(c) ==
    \/ \E op \in OperationIds, to \in Targets : RaiseFence(c, op, to)
    \/ FinishPrior(c) \/ Begin(c)
    \/ \E n \in Nodes : StageTarget(c, n)
    \/ Fingerprint(c)
    \/ \E n \in Nodes : CopyNode(c, n) \/ RetireNode(c, n) \/ RetireLost(c, n)
    \/ MarkReady(c) \/ ProposeCommit(c) \/ ReadBack(c) \/ Install(c) \/ Finish(c)

Unwind(c) ==
    \/ Fail(c) \/ ResolveFailure(c) \/ Reopen(c)
    \/ \E n \in Nodes : UnretireOne(c, n)

Startup(c) ==
    \/ Start(c) \/ ResolveIntent(c) \/ Recheck(c) \/ Resolve(c) \/ Attest(c)
    \/ \E n \in Nodes : ClaimOld(c, n) \/ LiftClaim(c, n) \/ LiftUnretire(c, n)
                        \/ Adopt(c, n)

RemoteNext ==
    \/ \E c \in Coordinators : Prepare(c) \/ Unwind(c) \/ Startup(c) \/ Crash(c)
    \/ \E c \in Coordinators, id \in ResizeIds : StartWrite(c, id)
    \/ \E n \in Nodes : NodeAppliesWrite(n) \/ WriteTimesOut(n) \/ NodeRestart(n)

RemoteSpec == RemoteInit /\ [][RemoteNext]_remoteVars

-----------------------------------------------------------------------------
\* Whether coordinator c, asked for id now, would be answered by its layout.
Answered(c, id) ==
    LET n == Place(co[c].lay.at, id) IN
    Routing(c) /\ MayCall(n, c) /\ WouldServe(n, co[c].lay)

\* No coordinator answers from a superseded layout: whenever the node that
\* holds a query under a coordinator's layout would answer it, its answer
\* is at least as new as the last acknowledged write.  Retirement before
\* the commit, not the coordinators' memory, has to guarantee it.
NoStaleAnswer ==
    \A c \in Coordinators, id \in ResizeIds :
        Answered(c, id) => node[Place(co[c].lay.at, id)].val[id] >= acked[id]

\* The layout of record never loses an acknowledged write: the fingerprints
\* taken before the export, compared at the retirement, make the copy
\* complete even when another coordinator wrote in between.
RecordKeepsAcked ==
    \A id \in ResizeIds : node[Place(ctl.at, id)].val[id] >= acked[id]

\* A node of a superseded layout stays retired: nothing after the commit,
\* neither a failed attempt's unwinding nor a startup, puts it back.
SupersededIsRetired ==
    \A n \in Nodes \ ctl.nodes : node[n].gen >= 0 => node[n].retired # 0

(* A resize loses nothing and answers nothing stale: the recorded layout    *)
(* has every acknowledged write, a superseded one answers no longer, and    *)
(* its nodes are retired.                                                   *)
ResizeIsSafe == NoStaleAnswer /\ RecordKeepsAcked /\ SupersededIsRetired
=============================================================================
