----------------------------- MODULE MCControl -----------------------------
(***************************************************************************)
(* The control plane in one run: a behaviour is one of its quorum          *)
(* (ControlQuorum), one of the resizes under the registry and the governor *)
(* (GovernedResize) or one of the autoscaler's sweeps (Sweeps).  The three *)
(* share no state, and the variables of the other two are blank.           *)
(***************************************************************************)
EXTENDS ControlQuorum, GovernedResize, Sweeps, TLC

VARIABLE part

Scenario(calls, ballots, stops, losses, snapshots) ==
  [calls |-> calls, ballots |-> ballots, stops |-> stops, losses |-> losses,
   snapshots |-> snapshots]

MCScenarios ==
  {Scenario(<<"propose", "read">>, 2, 0, 0, 0), Scenario(<<"move">>, 1, 1, 0, 0),
   Scenario(<<"propose", "read">>, 2, 1, 1, 0), Scenario(<<"propose">>, 2, 1, 0, 1)}

MCResizes ==
  {[admits |-> 3, vocabs |-> 0, looks |-> 0, faults |-> 2],
   [admits |-> 1, vocabs |-> 1, looks |-> 4, faults |-> 1]}

MCRanked == <<<<1, 2, 3>>, <<2, 3, 1>>, <<2, 1, 3>>>>
MCCorpus == <<10, 1, 1>>

Sweep(topology, rf, changes, failures, occupied) ==
  [topology |-> topology, rf |-> rf, skew |-> 0, changes |-> changes,
   failures |-> failures, passes |-> 2, occupied |-> occupied]

MCSweeps ==
  {Sweep("resolve_only", 1, 2, 1, TRUE), Sweep("resolve_only", 2, 1, 1, FALSE),
   Sweep("in_process", 1, 1, 0, TRUE), Sweep("cli_seeded", 1, 1, 0, FALSE)}

ManagerSymmetry == Permutations(Managers)

-----------------------------------------------------------------------------
NoQuorum == budget = 0 /\ owner = 0 /\ disk = 0 /\ core = 0 /\ call = 0 /\ answered = 0
NoResize ==
  /\ serving = 0 /\ control = 0 /\ manifest = 0 /\ records = 0 /\ marks = 0 /\ running = 0
  /\ governor = 0 /\ retry = 0 /\ seen = 0 /\ spare = 0
NoSweep == members = 0 /\ groups = 0 /\ sweep = 0 /\ allowed = 0

ControlInit ==
  \/ part = "quorum" /\ QuorumInit /\ NoResize /\ NoSweep
  \/ part = "resize" /\ ResizeInit /\ NoQuorum /\ NoSweep
  \/ part = "sweep" /\ SweepInit /\ NoQuorum /\ NoResize

ControlNext ==
  \/ part = "quorum" /\ QuorumNext /\ UNCHANGED <<part, resizeVars, sweepVars>>
  \/ part = "resize" /\ ResizeNext /\ UNCHANGED <<part, quorumVars, sweepVars>>
  \/ part = "sweep" /\ SweepNext /\ UNCHANGED <<part, quorumVars, resizeVars>>

ControlSpec == ControlInit /\ [][ControlNext]_<<part, quorumVars, resizeVars, sweepVars>>

-----------------------------------------------------------------------------
(* ControlQuorum's OneHistory: the managers hold one history, and a read of *)
(* the quorum has every proposal that was reported committed.               *)
ManagersHoldOneHistory == part = "quorum" => OneHistory

(* ControlQuorum's ProposalsApplyOnce: a move call that the client repeats  *)
(* on another manager is never committed twice.                             *)
QuorumAppliesOnce == part = "quorum" => ProposalsApplyOnce

(* GovernedResize's SwapCanBeFinished and ReplacesWhatItSaw: a layout that  *)
(* was swapped in and not recorded in the control plane can still be        *)
(* recorded, and a resize replaces only the layout it was decided on.       *)
SwappedLayoutIsRecorded == part = "resize" => SwapCanBeFinished /\ ReplacesWhatItSaw

(* Sweeps' AcknowledgedIsPlaced: an acknowledged pass leaves every position *)
(* where the allocator wants it.                                            *)
SweepsPlace == part = "sweep" => AcknowledgedIsPlaced
=============================================================================
