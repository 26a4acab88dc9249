-------------------------- MODULE MCClusterWrites --------------------------
EXTENDS ClusterWrites, TLC

MCShards == {1, 2, 3}

(* Two overlapping selective placements and a replicated one.               *)
MCPlacements == {Selective({1, 2}), Selective({2, 3}), Broad}

(* Titles routed to two shards: with the owner on either side of a move.    *)
MCTitles == {[routed |-> {1, 2}, broad |-> 1], [routed |-> {1, 3}, broad |-> 3]}

Faults(n, restarts) == [faults |-> n, restarts |-> restarts, late |-> FALSE, reads |-> FALSE]
Reads(n) == [faults |-> n, restarts |-> 0, late |-> FALSE, reads |-> TRUE]
Late(n, restarts) == [faults |-> n, restarts |-> restarts, late |-> TRUE, reads |-> FALSE]

(* Failed writes and a restart, undisturbed reads, and late writes.         *)
MCBudgets == {Faults(2, 1), Reads(0), Late(1, 1)}

Symmetry == Permutations(Writers)
=============================================================================
