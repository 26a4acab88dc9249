------------------------------ MODULE MoveFence ------------------------------
(***************************************************************************)
(* The optimistic fence between upserts that move a query and the reads    *)
(* that are not fenced.  A mover makes the counter odd, rewrites shards    *)
(* one after the other and makes it even; a reader samples an even         *)
(* counter, reads the shards one after the other and compares.  After      *)
(* Attempts overlapped passes it takes the mover lock for one more pass.   *)
(*                                                                         *)
(* The shards a move rewrites are two cells here; a version is whole when  *)
(* both hold it.                                                           *)
(***************************************************************************)
EXTENDS Naturals, FiniteSets

CONSTANTS Movers, Readers,
          Timed,      \* the readers that have a deadline
          None,
          Attempts,   \* OPTIMISTIC_ATTEMPTS
          MaxMoves    \* bound on the moves that are made

ASSUME ThreadsAssumption ==
  /\ Movers \cap Readers = {} /\ None \notin Movers \cup Readers \cup Nat
  /\ Timed \subseteq Readers
ASSUME BoundsAssumption == MaxMoves \in Nat /\ Attempts \in Nat \ {0}

VARIABLES
  seq,        \* MoveFence.seq
  movers,     \* who holds MoveFence.movers
  idleLock,   \* who holds MoveFence.idle_lock
  pc,         \* where each thread is
  stamp,      \* ReadPass.stamp of each reader; None for an exclusive pass
  tries,      \* optimistic passes each reader has made
  cell,       \* the version on each of two shards
  seen,       \* what the pass of each reader found on them
  moves       \* moves begun

vars == <<seq, movers, idleLock, pc, stamp, tries, cell, seen, moves>>
data == <<cell, seen, moves>>

Even(n) == n % 2 = 0

(***************************************************************************)
(* A move.                                                                 *)
(***************************************************************************)
Goto(t, l) == pc' = [pc EXCEPT ![t] = l]

LockMovers(m) ==
  /\ pc[m] = "idle" /\ movers = None /\ moves < MaxMoves
  /\ movers' = m /\ moves' = moves + 1
  /\ Goto(m, "begin")
  /\ UNCHANGED <<seq, idleLock, stamp, tries, cell, seen>>

BeginMove(m) ==
  /\ pc[m] = "begin"
  /\ seq' = seq + 1
  /\ Goto(m, "first")
  /\ UNCHANGED <<movers, idleLock, stamp, tries, data>>

Rewrite(m) ==
  /\ \/ pc[m] = "first" /\ cell' = [cell EXCEPT ![1] = moves] /\ Goto(m, "second")
     \/ pc[m] = "second" /\ cell' = [cell EXCEPT ![2] = moves] /\ Goto(m, "end")
  /\ UNCHANGED <<seq, movers, idleLock, stamp, tries, seen, moves>>

EndMove(m) ==
  /\ pc[m] = "end"
  /\ seq' = seq + 1
  /\ Goto(m, "order")
  /\ UNCHANGED <<movers, idleLock, stamp, tries, data>>

(* The idle lock is taken and released.                                     *)
OrderWakeUp(m) ==
  /\ pc[m] = "order" /\ idleLock = None
  /\ Goto(m, "notify")
  /\ UNCHANGED <<seq, movers, idleLock, stamp, tries, data>>

NotifyAll(m) ==
  /\ pc[m] = "notify"
  /\ pc' = [t \in Movers \cup Readers |->
              IF t = m THEN "unlock" ELSE IF pc[t] = "asleep" THEN "woken" ELSE pc[t]]
  /\ UNCHANGED <<seq, movers, idleLock, stamp, tries, data>>

UnlockMovers(m) ==
  /\ pc[m] = "unlock"
  /\ movers' = None
  /\ Goto(m, "idle")
  /\ UNCHANGED <<seq, idleLock, stamp, tries, data>>

(***************************************************************************)
(* A read.                                                                 *)
(***************************************************************************)
StartPass(r) ==
  /\ stamp' = [stamp EXCEPT ![r] = seq]
  /\ Goto(r, "read1")

(* Mutant: a pass may start under an odd counter.                           *)
SampleAny(r) ==
  /\ pc[r] = "start"
  /\ StartPass(r)
  /\ UNCHANGED <<seq, movers, idleLock, tries, data>>

Sample(r) ==
  /\ pc[r] = "start"
  /\ IF Even(seq) THEN StartPass(r) ELSE Goto(r, "woken") /\ UNCHANGED stamp
  /\ UNCHANGED <<seq, movers, idleLock, tries, data>>

LockIdle(r) ==
  /\ pc[r] = "woken" /\ idleLock = None
  /\ idleLock' = r
  /\ Goto(r, "loaded")
  /\ UNCHANGED <<seq, movers, stamp, tries, data>>

(* Under the idle lock: the counter is even, or the move may still end, and *)
(* the wait is about to begin.                                              *)
Reload(r) ==
  /\ pc[r] = "loaded"
  /\ IF Even(seq) THEN StartPass(r) /\ idleLock' = None
                  ELSE Goto(r, "odd") /\ UNCHANGED <<stamp, idleLock>>
  /\ UNCHANGED <<seq, movers, tries, data>>

(* Condvar::wait releases the lock and sleeps in one step.                  *)
Sleep(r) ==
  /\ pc[r] = "odd"
  /\ idleLock' = None
  /\ Goto(r, "asleep")
  /\ UNCHANGED <<seq, movers, stamp, tries, data>>

(* A wait may end with no wake-up, and ends at the deadline.                *)
WakeUnasked(r) ==
  /\ pc[r] = "asleep"
  /\ Goto(r, "woken")
  /\ UNCHANGED <<seq, movers, idleLock, stamp, tries, data>>

(* The deadline has passed while a move held the read back.                 *)
GiveUp(r) ==
  /\ r \in Timed
  /\ pc[r] = "odd" \/ (pc[r] = "exclude" /\ movers # None)
  /\ idleLock' = IF idleLock = r THEN None ELSE idleLock
  /\ Goto(r, "gone")
  /\ UNCHANGED <<seq, movers, stamp, tries, data>>

ReadCells(r) ==
  /\ \/ pc[r] = "read1" /\ seen' = [seen EXCEPT ![r][1] = cell[1]] /\ Goto(r, "read2")
     \/ pc[r] = "read2" /\ seen' = [seen EXCEPT ![r][2] = cell[2]] /\ Goto(r, "check")
  /\ UNCHANGED <<seq, movers, idleLock, stamp, tries, cell, moves>>

(* overlapped_a_move, and what read_until does with the answer.             *)
Overlapped(r) == stamp[r] # None /\ seq # stamp[r]

Check(r) ==
  /\ pc[r] = "check"
  /\ IF ~Overlapped(r)
     THEN /\ Goto(r, "done")
          /\ movers' = IF stamp[r] = None THEN None ELSE movers
          /\ UNCHANGED tries
     ELSE /\ tries' = [tries EXCEPT ![r] = @ + 1]
          /\ Goto(r, IF tries[r] + 1 < Attempts THEN "start" ELSE "exclude")
          /\ UNCHANGED movers
  /\ UNCHANGED <<seq, idleLock, stamp, data>>

ExcludeMovers(r) ==
  /\ pc[r] = "exclude" /\ movers = None
  /\ movers' = r
  /\ stamp' = [stamp EXCEPT ![r] = None]
  /\ Goto(r, "read1")
  /\ UNCHANGED <<seq, idleLock, tries, data>>

(* The caller has its answer; it may read again.                            *)
ReadAgain(r) ==
  /\ pc[r] \in {"done", "gone"}
  /\ Goto(r, "start")
  /\ tries' = [tries EXCEPT ![r] = 0]
  /\ UNCHANGED <<seq, movers, idleLock, stamp, data>>

(***************************************************************************)
(* The specification.  A thread that can go on does; a thread that waits   *)
(* for a lock gets it once it stays free.  Nothing makes a caller read     *)
(* again or move, or a wait end unasked.                                   *)
(***************************************************************************)
Init ==
  /\ seq = 0 /\ movers = None /\ idleLock = None
  /\ pc = [t \in Movers \cup Readers |-> IF t \in Movers THEN "idle" ELSE "start"]
  /\ stamp = [r \in Readers |-> 0]
  /\ tries = [r \in Readers |-> 0]
  /\ cell = [c \in {1, 2} |-> 0]
  /\ seen = [r \in Readers |-> [c \in {1, 2} |-> 0]]
  /\ moves = 0

Moves(m) == BeginMove(m) \/ Rewrite(m) \/ EndMove(m) \/ OrderWakeUp(m) \/ NotifyAll(m) \/ UnlockMovers(m)

Reads(r) == Sample(r) \/ LockIdle(r) \/ Reload(r) \/ Sleep(r) \/ ReadCells(r) \/ Check(r) \/ ExcludeMovers(r)

Next ==
  \/ \E m \in Movers : LockMovers(m) \/ Moves(m)
  \/ \E r \in Readers : Reads(r) \/ WakeUnasked(r) \/ GiveUp(r) \/ ReadAgain(r)

Spec == Init /\ [][Next]_vars
Fairness == /\ \A m \in Movers : WF_vars(Moves(m))
            /\ \A r \in Readers : WF_vars(Reads(r))
FairSpec == Spec /\ Fairness

(***************************************************************************)
(* Properties.                                                             *)
(***************************************************************************)
MoverSteps == {"begin", "first", "second", "end", "order", "notify", "unlock"}
PassSteps == {"read1", "read2", "check"}

(* Every variable stays within its type.                                    *)
TypeOK ==
  /\ seq \in Nat /\ moves \in 0..MaxMoves
  /\ movers \in Movers \cup Readers \cup {None}
  /\ idleLock \in Readers \cup {None}
  /\ pc \in [Movers \cup Readers -> MoverSteps \cup PassSteps \cup
       {"idle", "start", "woken", "loaded", "odd", "asleep", "exclude", "done", "gone"}]
  /\ stamp \in [Readers -> Nat \cup {None}]
  /\ tries \in [Readers -> 0..Attempts]
  /\ cell \in [{1, 2} -> 0..MaxMoves]
  /\ seen \in [Readers -> [{1, 2} -> 0..MaxMoves]]

(* MoveFence::read returns what a pass computed while no move was between   *)
(* its first and its last shard: both shards were seen at one version.      *)
ReturnsOneVersion == \A r \in Readers : pc[r] = "done" => seen[r][1] = seen[r][2]

(* A reader sleeps only while a move that will wake it is under way, so the *)
(* wake-up of MoveGuard::drop is never lost.                                *)
SleeperWillBeWoken ==
  (\E r \in Readers : pc[r] = "asleep") =>
    \E m \in Movers : pc[m] \in {"first", "second", "end", "order", "notify"}

(* Movers stay out while a starved reader makes its exclusive pass: the     *)
(* counter does not change until it is over.                                *)
ExclusivePassIsQuiet ==
  [][\A r \in Readers : pc[r] \in PassSteps /\ stamp[r] = None => UNCHANGED <<seq, cell>>]_vars

(* Every read ends, however many moves it meets: with an answer, or at its  *)
(* deadline.                                                                *)
ReadsEnd == \A r \in Readers : (pc[r] = "start") ~> (pc[r] \in {"done", "gone"})

(* What the fence promises its callers: a read it returns is of one         *)
(* version, and a reader that sleeps is woken.                              *)
FenceIsSafe == ReturnsOneVersion /\ SleeperWillBeWoken
=============================================================================
