------------------------------- MODULE Sweeps -------------------------------
(***************************************************************************)
(* The passes that place positions on nodes                                *)
(* (engine/src/cluster/{allocator,autoscale}.rs and                        *)
(* cluster/coordinator/{autoscale,reconcile,control_plane}.rs,             *)
(* coordinator/reassign/{parallel,group/plan}.rs): the reconcile loop, an  *)
(* operator's rebalance and the autoscaler's tick read the map, plan the   *)
(* moves in waves and drive them, side by side and while nodes come and    *)
(* go.  A move is one step here; DurableMoves has its inside.              *)
(***************************************************************************)
EXTENDS Integers, Sequences, FiniteSets, SequencesExt, FiniteSetsExt

CONSTANTS NodeIds,      \* numbers: ties go to the smaller
          Ranked,       \* position -> its nodes by rendezvous weight, heaviest first
          Corpus,       \* position -> the rows it holds
          MaxParallel,  \* max_parallel_moves of the reconcile loop
          SweepBounds   \* scenarios: [topology, rf, skew, changes, failures, passes, occupied]

Positions == DOMAIN Ranked
Passes_ == {"reconcile", "rebalance", "tick"}

VARIABLES members,   \* the registered data nodes with an endpoint
          groups,    \* position -> the committed group
          sweep,     \* pass -> where it is
          allowed    \* the scenario, and what is left of its bounds

sweepVars == <<members, groups, sweep, allowed>>

(***************************************************************************)
(* Placement                                                               *)
(***************************************************************************)

Group(chosen) == [primary |-> Head(chosen), replicas |-> ToSet(Tail(chosen))]
Members_(g) == {g.primary} \cup g.replicas

PlanAssignments(nodes, rf) ==
  LET here(p) == SelectSeq(Ranked[p], LAMBDA n : n \in nodes)
  IN  [p \in Positions |-> Group(SubSeq(here(p), 1, Min({rf, Len(here(p))})))]

\* The positions whose group is not the planned one, in order; none without nodes.
RebalanceGroupTargets(seen, rf) ==
  IF seen.nodes = {} THEN <<>>
  ELSE SetToSortSeq({p \in Positions : seen.groups[p] # PlanAssignments(seen.nodes, rf)[p]}, <)

\* An endpoint that is not registered is left out.
MoveFootprint(seen, p, desired) ==
  (Members_(seen.groups[p]) \cup Members_(desired[p])) \cap seen.nodes

\* Greedy: a target joins the wave unless the wave is full or touches its endpoints.
PlanWaves(seen, targets, desired, most) ==
  LET admit(w, p) ==
        LET fp == MoveFootprint(seen, p, desired)
        IN  IF Len(w.wave) < most /\ fp \cap w.busy = {}
              THEN [w EXCEPT !.wave = Append(@, p), !.busy = @ \cup fp]
              ELSE [w EXCEPT !.deferred = Append(@, p)]
      next(rem) == FoldLeft(admit, [wave |-> <<>>, busy |-> {}, deferred |-> <<>>], rem)
      after[k \in 0..Len(targets)] ==
        IF k = 0 THEN [waves |-> <<>>, rem |-> targets]
        ELSE LET last == after[k - 1]
             IN  IF last.rem = <<>> THEN last
                 ELSE [waves |-> Append(last.waves, next(last.rem).wave),
                       rem |-> next(last.rem).deferred]
  IN  after[Len(targets)].waves

(***************************************************************************)
(* The autoscaler's policy                                                 *)
(***************************************************************************)

MembershipDrift(seen) == seen.nodes # UNION {Members_(seen.groups[p]) : p \in Positions}

\* A hand-off from the most to the least loaded node, of the largest of its positions.
SkewedHandoff(seen, skew) ==
  LET loaded == {seen.groups[p].primary : p \in Positions}
      of(n) == {p \in Positions : seen.groups[p].primary = n}
      load == [n \in loaded |-> MapThenSumSet(LAMBDA p : Corpus[p], of(n))]
      total == MapThenSumSet(LAMBDA n : load[n], loaded)
      most(S, f) == Min({x \in S : \A y \in S : f[y] <= f[x]})
      hot == most(loaded, load)
      cold == Min({n \in loaded : \A o \in loaded : load[n] <= load[o]})
  IN  IF Cardinality(loaded) < 2 \/ total = 0 \/ hot = cold
           \/ load[hot] * 100 * Cardinality(loaded) <= skew * total
        THEN {}
        ELSE {[position |-> most(of(hot), Corpus), from |-> hot, to |-> cold]}

\* The policy without its switch.
NodeSkewAlways(seen, skew) == SkewedHandoff(seen, skew)

NodeSkew(seen, skew) == IF skew <= 100 THEN {} ELSE SkewedHandoff(seen, skew)

Evaluate(seen, skew) ==
  [rebalance |-> MembershipDrift(seen), handoff |-> NodeSkew(seen, skew)]

(***************************************************************************)
(* The passes                                                              *)
(***************************************************************************)

Seen == [nodes |-> members, groups |-> groups]

NoPass == [pc |-> "idle", seen |-> Seen, desired |-> groups, waves |-> <<>>,
           running |-> {}, failed |-> FALSE, clean |-> FALSE, decision |-> {}]

InFlight(s) == sweep[s].pc \in {"decided", "moving"}

\* Every pass under way read the membership that is registered now.
OneMembership == \A s \in Passes_ : InFlight(s) => sweep[s].seen.nodes = members

\* The next wave, or the report; after a failure only the reconcile loop goes on.
NextWave(s, w) ==
  IF w.running # {} THEN w
  ELSE IF w.waves = <<>> \/ (w.failed /\ s # "reconcile")
    THEN [w EXCEPT !.pc = "reported", !.waves = <<>>]
    ELSE [w EXCEPT !.running = ToSet(Head(w.waves)), !.waves = Tail(@)]

Planned(s, clean) ==
  LET desired == PlanAssignments(members, allowed.rf)
      most == IF s = "reconcile" THEN MaxParallel ELSE 1
  IN  NextWave(s, [NoPass EXCEPT !.pc = "moving",
                     !.desired = IF members = {} THEN groups ELSE desired,
                     !.waves = PlanWaves(Seen, RebalanceGroupTargets(Seen, allowed.rf), desired, most),
                     !.clean = clean])

\* ClusterRebalanceTopology: only a coordinator that resolves its shards from the map
\* may move data with it; in process a rebalance changes the map alone.
Remote == allowed.topology # "in_process"

RebalanceMode ==
  CASE allowed.topology = "resolve_only" -> {"data_moving"}
    [] allowed.topology = "in_process" -> {"map_only"}
    [] allowed.topology \in {"static", "cli_seeded"} -> {}

ReconcileTopology == allowed.topology = "resolve_only"

Starts(s) ==
  /\ ~InFlight(s) /\ allowed.passes > 0
  /\ allowed' = [allowed EXCEPT !.passes = @ - 1]
  /\ UNCHANGED <<members, groups>>

\* POST /_cluster/rebalance and /_cluster/reconcile, and the reconcile loop.
StartSweep(s) ==
  /\ \/ s = "rebalance" /\ RebalanceMode # {}
     \/ s = "reconcile" /\ ReconcileTopology
  /\ Starts(s)
  /\ sweep' = [sweep EXCEPT ![s] = Planned(s, OneMembership)]

\* tick: the snapshot and what the policy makes of it.
TickDecides ==
  /\ Starts("tick")
  /\ sweep' = [sweep EXCEPT !["tick"] =
                 [NoPass EXCEPT !.pc = "decided", !.clean = OneMembership,
                                !.decision = {Evaluate(Seen, allowed.skew)}]]

\* A rebalance reads the map again, and hand-offs wait for the next tick; a hand-off is
\* driven with the snapshot it was decided on.
TickActs ==
  LET t == sweep["tick"]
      decision == CHOOSE d \in t.decision : TRUE
      handoff == CHOOSE h \in decision.handoff : TRUE
  IN  /\ t.pc = "decided"
      /\ sweep' = [sweep EXCEPT !["tick"] =
           IF decision.rebalance THEN Planned("tick", t.clean /\ OneMembership)
           ELSE IF decision.handoff = {} \/ ~Remote THEN [t EXCEPT !.pc = "reported"]
           ELSE NextWave("tick", [t EXCEPT !.pc = "moving", !.waves = <<<<handoff.position>>>>,
                  !.desired = [groups EXCEPT ![handoff.position] = Group(<<handoff.to>>)],
                  !.seen.groups[handoff.position].replicas = {}])]
      /\ UNCHANGED <<members, groups, allowed>>

\* dispatch_move: which mover the shapes call for, and what it refuses before it starts.
MoveRefused(w, p) ==
  LET to == w.desired[p]
  IN  IF w.seen.groups[p].replicas = {} /\ to.replicas = {}
        THEN groups[p].replicas # {} \/ ~({groups[p].primary, to.primary} \subseteq members)
        ELSE groups[p] # to /\ ~(Members_(groups[p]) \cup Members_(to) \subseteq members)

MoveEnds(s, p, fails) ==
  /\ p \in sweep[s].running
  /\ sweep' = [sweep EXCEPT ![s] =
                 NextWave(s, [@ EXCEPT !.running = @ \ {p}, !.failed = @ \/ fails])]
  /\ UNCHANGED members

\* In process the map is committed as planned and no row moves.
Moves(s, p) ==
  /\ ~Remote \/ ~MoveRefused(sweep[s], p)
  /\ groups' = [groups EXCEPT ![p] = sweep[s].desired[p]]
  /\ MoveEnds(s, p, FALSE)
  /\ UNCHANGED allowed

MoveIsRefused(s, p) ==
  /\ Remote /\ MoveRefused(sweep[s], p)
  /\ MoveEnds(s, p, TRUE)
  /\ UNCHANGED <<groups, allowed>>

MoveFails(s, p) ==
  /\ allowed.failures > 0
  /\ allowed' = [allowed EXCEPT !.failures = @ - 1]
  /\ MoveEnds(s, p, TRUE)
  /\ UNCHANGED groups

\* A pass that has read another membership is no longer the latest word.
MembershipChanges(nodes) ==
  /\ allowed.changes > 0 /\ nodes # members
  /\ members' = nodes
  /\ allowed' = [allowed EXCEPT !.changes = @ - 1]
  /\ sweep' = [s \in Passes_ |-> [sweep[s] EXCEPT !.clean = FALSE]]
  /\ UNCHANGED groups

RegisterNode(n) == MembershipChanges(members \cup {n})

\* The REST route takes out a node no group names; on_node_left takes out any.
DeregisterNode(n) ==
  /\ allowed.occupied \/ \A p \in Positions : n \notin Members_(groups[p])
  /\ MembershipChanges(members \ {n})

\* What the caller of a pass is told.
ReconcileAcknowledged(w) == w.pc = "reported" /\ ~w.failed
RebalanceAcknowledged(w) == w.pc = "reported" /\ ~w.failed
TickFoundPlaced(w) == w.pc = "reported" /\ ~w.failed /\ w.decision = {}

(***************************************************************************)
(* Specification                                                           *)
(***************************************************************************)

SweepInit ==
  /\ allowed \in SweepBounds
  /\ members \in SUBSET NodeIds \ {{}}
  /\ groups \in {PlanAssignments(nodes, rf) :
                   nodes \in SUBSET members \ {{}}, rf \in 1..allowed.rf}
  /\ sweep = [s \in Passes_ |-> NoPass]

SweepNext ==
  \/ \E s \in Passes_ : StartSweep(s)
  \/ TickDecides
  \/ TickActs
  \/ \E s \in Passes_ : \E p \in sweep[s].running :
       Moves(s, p) \/ MoveIsRefused(s, p) \/ MoveFails(s, p)
  \/ \E n \in NodeIds : RegisterNode(n) \/ DeregisterNode(n)

(***************************************************************************)
(* Properties                                                              *)
(***************************************************************************)

\* A pass that is acknowledged has left every position on the group the allocator plans
\* for the registered nodes, whatever other passes ran beside it, and no pass takes it
\* away again - until a node comes or goes, and unless a pass that had read another
\* membership was still moving when this one began (reconcile and rebalance over
\* plan_waves and reassign; a tick once it found drift; the autoscaler's skew rule is
\* off, its default).
AcknowledgedIsPlaced ==
  \A s \in Passes_ :
    LET w == sweep[s]
        told == CASE s = "reconcile" -> ReconcileAcknowledged(w)
                  [] s = "rebalance" -> RebalanceAcknowledged(w)
                  [] s = "tick" -> TickFoundPlaced(w)
    IN  told /\ w.clean => members = {} \/ groups = PlanAssignments(members, allowed.rf)

=============================================================================
