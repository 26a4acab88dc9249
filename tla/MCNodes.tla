------------------------------ MODULE MCNodes ------------------------------
(***************************************************************************)
(* The shard server process in one run: a behaviour is one of its lease    *)
(* (CoordinatorLease) or one of its slots and files (ShardNode), and the   *)
(* variables of the other stay at their initial values.                    *)
(***************************************************************************)
EXTENDS CoordinatorLease, ShardNode, TLC

VARIABLE part

Space(d, g) == [dict |-> d, gen |-> g]

Setting(b, doubts, hosts, drops) ==
  [of |-> [c \in Owners |-> IF c = "B" THEN b ELSE Space(1, 1)],
   doubts |-> doubts, hosts |-> hosts, drops |-> drops]

One == {CHOOSE s \in Shards : TRUE}

(* Coordinator A ships dict 1 in generation 1.  B ships another dict with   *)
(* two shards, another generation of the same layout, or the same space on  *)
(* a disk whose directory syncs may fail.                                   *)
MCSettings ==
  {Setting(Space(2, 1), FALSE, Shards, One), Setting(Space(1, 2), FALSE, One, One),
   Setting(Space(1, 1), TRUE, One, One)}

HandlerSymmetry == Permutations(Handlers)

-----------------------------------------------------------------------------
NodesInit ==
  /\ part \in {"lease", "node"}
  /\ LeaseInit
  /\ NodeInit /\ (part = "lease" => setting = Setting(Space(1, 1), TRUE, One, One))

NodesNext ==
  \/ part = "lease" /\ LeaseNext /\ UNCHANGED <<part, nodeVars>>
  \/ part = "node" /\ NodeNext /\ UNCHANGED <<part, leaseVars>>

NodesSpec == NodesInit /\ [][NodesNext]_<<part, leaseVars, nodeVars>>
=============================================================================
