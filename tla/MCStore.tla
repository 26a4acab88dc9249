------------------------------ MODULE MCStore ------------------------------
(***************************************************************************)
(* The layouts of a cluster in one run: a behaviour is one of the data     *)
(* directory of an in-process cluster (ClusterStore) or one of a resize    *)
(* over shard servers (RemoteResize), and the variables of the other stay  *)
(* at their initial values or blank.                                       *)
(***************************************************************************)
EXTENDS ClusterStore, RemoteResize

VARIABLE part

MCPlaced ==
  (1 :> [i \in Ids |-> {0}]) @@ (2 :> ("a" :> {1} @@ "b" :> {0, 1}))

MCRows == {<<"a", 0>>}

Within(writing, gens, epochs, faults, crashes, losses) ==
  [writes |-> writing, gens |-> gens, epochs |-> epochs, faults |-> faults,
   crashes |-> crashes, losses |-> losses]

MCBounds ==
  {Within(1, 3, 3, 0, 1, 0), Within(1, 3, 2, 1, 1, 0), Within(2, 1, 2, 1, 2, 2),
   Within(1, 2, 2, 2, 1, 0), Within(2, 2, 2, 1, 1, 0)}

-----------------------------------------------------------------------------
(* RemoteResize: two source nodes and one target, two coordinators.         *)
MCPlace(nodes, id) ==
  IF nodes = {"a", "b"} THEN (IF id = "x" THEN "a" ELSE "b") ELSE CHOOSE n \in nodes : TRUE

RBudget(w, z, r) == [writes |-> w, resizes |-> z, restarts |-> r]

(* Two writes around two requests, or one write with a restart of a node.   *)
MCBudgets == {RBudget(2, 2, 0), RBudget(1, 2, 1)}

-----------------------------------------------------------------------------
NoResize ==
  /\ ctl = 0 /\ node = 0 /\ co = 0 /\ acked = 0 /\ writes = 0 /\ used = 0
  /\ resizes = 0 /\ restarts = 0 /\ budget = 0

LayoutsInit ==
  /\ part \in {"files", "resize"}
  /\ StoreInit /\ (part = "resize" => env.bound = Within(1, 3, 3, 0, 1, 0))
  /\ IF part = "resize" THEN RemoteInit ELSE NoResize

LayoutsNext ==
  \/ part = "files" /\ StoreNext /\ UNCHANGED <<part, remoteVars>>
  \/ part = "resize" /\ RemoteNext /\ UNCHANGED <<part, vars>>

LayoutsSpec == LayoutsInit /\ [][LayoutsNext]_<<part, vars, remoteVars>>

(* RemoteResize's ResizeIsSafe: the layout that the control plane has       *)
(* recorded holds every acknowledged write, and no other answers.           *)
ResizeKeepsAcked == part = "resize" => ResizeIsSafe
=============================================================================
