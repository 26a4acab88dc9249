------------------------ MODULE MCLocks ------------------------
(***************************************************************************)
(* The three synchronisation components of the coordinator, checked in one *)
(* run.  They share no state: a behaviour is one of MoveFence, of          *)
(* WriteLocks or of FannedWrites, and the variables of the other two stay  *)
(* at their initial values.                                                *)
(***************************************************************************)
EXTENDS MoveFence, WriteLocks

VARIABLES part,
  lock, mover, fanPc, step, todo, open, writes                 \* FannedWrites

FW == INSTANCE FannedWrites WITH pc <- fanPc, Shards <- 1..3, Remote <- {1, 3},
                                 MaxSteps <- 2, MaxWrites <- 1

fanVars == <<lock, mover, fanPc, step, todo, open, writes>>
all == <<part, vars, lockVars, fanVars>>

OnlyFence == part = "fence" /\ UNCHANGED <<part, lockVars, fanVars>>
OnlyLocks == part = "locks" /\ UNCHANGED <<part, vars, fanVars>>
OnlyFan == part = "fan" /\ UNCHANGED <<part, vars, lockVars>>

LocksInit ==
  /\ part \in {"fence", "locks", "fan"}
  /\ Init /\ LockInit /\ FW!Init
  /\ part # "locks" => \A v \in Writers : want[v] = CHOOSE i \in Ids : TRUE

LocksNext ==
  \/ OnlyFence /\ Next
  \/ OnlyLocks /\ LockNext
  \/ OnlyFan /\ FW!Next

LocksFairness ==
  /\ \A m \in Movers : WF_all(OnlyFence /\ Moves(m))
  /\ \A r \in Readers : WF_all(OnlyFence /\ Reads(r))
  /\ \A w \in Writers : WF_all(OnlyLocks /\ Steps(w)) /\ WF_all(OnlyFan /\ FW!Goes(w))

LocksSpec == LocksInit /\ [][LocksNext]_all /\ LocksFairness

(* Nobody waits forever: every read the fence is asked for ends (MoveFence),*)
(* a free lock is taken by one of its waiters (WriteLocks), and every       *)
(* mutation that was begun ends (FannedWrites).                             *)
NobodyWaitsForever == (part = "fence" => ReadsEnd) /\ FreeLockIsTaken /\ FW!MutationsEnd
=============================================================================
