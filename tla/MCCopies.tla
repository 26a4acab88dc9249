------------------------------ MODULE MCCopies ------------------------------
(***************************************************************************)
(* The copies of a shard position in one run: a behaviour is one of its    *)
(* moves between nodes (DurableMoves), one of the replica group it has at  *)
(* one place (ReplicaGroup) or one of the bulk load over all positions     *)
(* (BulkLoad).  The three share no state.                                  *)
(***************************************************************************)
EXTENDS DurableMoves, ReplicaGroup, BulkLoad, TLC

VARIABLE part

CONSTANTS n1, n2, n3, e1, e2, e3, t1, t2

MCNodeIds == {n1, n2, n3}
MCEndpoints == {e1, e2, e3}
MCAddr == n1 :> e1 @@ n2 :> e2 @@ n3 :> e3
MCMovers == {t1, t2}
MCSolo == Solo(n1)
MCWants == {Solo(n2), [primary |-> n2, replicas |-> {n1}], [primary |-> n1, replicas |-> {n2}]}

GroupOf(where, copies, writes, reads, seals, stops, recoveries) ==
  [place |-> where, replicas |-> copies, writes |-> writes, reads |-> reads,
   seals |-> seals, stops |-> stops, recoveries |-> recoveries]

MCGroups ==
  {GroupOf("remote", <<"a", "b">>, 2, 1, 0, 0, 0), GroupOf("remote", <<"a">>, 2, 1, 1, 1, 0),
   GroupOf("remote", <<"a">>, 3, 0, 1, 1, 0), GroupOf("local", <<>>, 3, 0, 1, 0, 1)}

MCShards == <<<<"p", "r">>, <<"p", "r">>>>

Symmetry == Permutations(MCMovers) \cup Permutations(QueryIds)

-----------------------------------------------------------------------------
(* The parts that are not the run's stay in an initial state.               *)
CopiesInit ==
  /\ part \in {"move", "group", "load"}
  /\ Init /\ LoadInit /\ GroupInit
  /\ part # "group" => place = "local"

CopiesNext ==
  \/ part = "move" /\ Next /\ UNCHANGED <<part, groupVars, loadVars>>
  \/ part = "group" /\ GroupNext /\ UNCHANGED <<part, vars, loadVars>>
  \/ part = "load" /\ LoadNext /\ UNCHANGED <<part, vars, groupVars>>

CopiesSpec == CopiesInit /\ [][CopiesNext]_<<part, vars, groupVars, loadVars>>
=============================================================================
