---------------------------- MODULE FannedWrites ----------------------------
(***************************************************************************)
(* The locks a mutation holds while its steps are under way on several     *)
(* shards.  A replicated shard whose primary answers over a network keeps  *)
(* its write lock from the start of a write until the answer is waited for *)
(* and mirrored, so one step holds several of these locks at once.  The    *)
(* mover lock of the fence may be taken between two steps.                 *)
(***************************************************************************)
EXTENDS Naturals, FiniteSets, FiniteSetsExt

CONSTANTS Shards,      \* positions, numbers
          Remote,      \* those whose primary answers over a network
          Writers, None,
          MaxSteps,    \* steps of one mutation
          MaxWrites    \* bound on the mutations of one writer

VARIABLES
  lock,     \* ReplicatedShard.write_lock: who holds it
  mover,    \* MoveFence.movers: who holds it
  pc, step,
  todo,     \* the shards a step has still to be started on
  open,     \* the shards it was started on and not waited for
  writes    \* mutations begun by each writer

vars == <<lock, mover, pc, step, todo, open, writes>>

Init ==
  /\ lock = [s \in Shards |-> None] /\ mover = None
  /\ pc = [w \in Writers |-> "idle"]
  /\ step = [w \in Writers |-> 0]
  /\ todo = [w \in Writers |-> {}] /\ open = [w \in Writers |-> {}]
  /\ writes = [w \in Writers |-> 0]

(* A mutation begins with its first step.                                   *)
Begin(w, targets) ==
  /\ pc[w] = "idle" /\ writes[w] < MaxWrites
  /\ writes' = [writes EXCEPT ![w] = @ + 1]
  /\ step' = [step EXCEPT ![w] = 1]
  /\ todo' = [todo EXCEPT ![w] = targets]
  /\ pc' = [pc EXCEPT ![w] = "start"]
  /\ UNCHANGED <<lock, mover, open>>

(* on_each is called again, for another set of shards.                      *)
NextStep(w, targets) ==
  /\ pc[w] = "between" /\ step[w] < MaxSteps
  /\ step' = [step EXCEPT ![w] = @ + 1]
  /\ todo' = [todo EXCEPT ![w] = targets]
  /\ pc' = [pc EXCEPT ![w] = "start"]
  /\ UNCHANGED <<lock, mover, open, writes>>

(* Mutant: writes are started in the order of the targets, not ascending.   *)
NextShardAny(w, s) == s \in todo[w]

NextShard(w, s) == todo[w] # {} /\ s = Min(todo[w])

(* start_write: the lock is taken, and kept only for a remote primary.      *)
StartWrite(w, s) ==
  /\ pc[w] = "start" /\ NextShard(w, s) /\ lock[s] = None
  /\ todo' = [todo EXCEPT ![w] = @ \ {s}]
  /\ IF s \in Remote
     THEN lock' = [lock EXCEPT ![s] = w] /\ open' = [open EXCEPT ![w] = @ \cup {s}]
     ELSE UNCHANGED <<lock, open>>
  /\ UNCHANGED <<mover, pc, step, writes>>

(* The answer of one shard is waited for, mirrored, and its lock released.  *)
WaitAnswer(w, s) ==
  /\ pc[w] = "start" /\ todo[w] = {} /\ s \in open[w]
  /\ lock' = [lock EXCEPT ![s] = None]
  /\ open' = [open EXCEPT ![w] = @ \ {s}]
  /\ UNCHANGED <<mover, pc, step, todo, writes>>

EndStep(w) ==
  /\ pc[w] = "start" /\ todo[w] = {} /\ open[w] = {}
  /\ pc' = [pc EXCEPT ![w] = "between"]
  /\ UNCHANGED <<lock, mover, step, todo, open, writes>>

(* The query moves: the rest of the mutation runs in the fence.             *)
Moves(w) ==
  /\ pc[w] = "between" /\ step[w] = 1 /\ step[w] < MaxSteps /\ mover # w
  /\ pc' = [pc EXCEPT ![w] = "fence"]
  /\ UNCHANGED <<lock, mover, step, todo, open, writes>>

EnterFence(w) ==
  /\ pc[w] = "fence" /\ mover = None
  /\ mover' = w
  /\ pc' = [pc EXCEPT ![w] = "between"]
  /\ UNCHANGED <<lock, step, todo, open, writes>>

End(w) ==
  /\ pc[w] = "between"
  /\ mover' = IF mover = w THEN None ELSE mover
  /\ pc' = [pc EXCEPT ![w] = "idle"]
  /\ UNCHANGED <<lock, step, todo, open, writes>>

(* A flush, a seal or the promotion of a replica holds the lock of its one  *)
(* shard meanwhile: to a mutation it is a step of one shard.                *)
Goes(w) ==
  \/ \E s \in Shards : StartWrite(w, s) \/ WaitAnswer(w, s)
  \/ EndStep(w) \/ EnterFence(w) \/ End(w)

Next == \E w \in Writers :
  \/ \E targets \in (SUBSET Shards) \ {{}} : Begin(w, targets) \/ NextStep(w, targets)
  \/ Moves(w) \/ Goes(w)

Spec == Init /\ [][Next]_vars

(***************************************************************************)
(* Properties.                                                             *)
(***************************************************************************)
(* Every variable stays within its type, and a lock is held by the writer   *)
(* that has the write open on the shard.                                    *)
TypeOK ==
  /\ lock \in [Shards -> Writers \cup {None}] /\ mover \in Writers \cup {None}
  /\ pc \in [Writers -> {"idle", "between", "start", "fence"}]
  /\ step \in [Writers -> 0..MaxSteps] /\ writes \in [Writers -> 0..MaxWrites]
  /\ todo \in [Writers -> SUBSET Shards]
  /\ \A w \in Writers : open[w] = {s \in Shards : lock[s] = w}

(* Every mutation that was begun ends, whatever sets of shards the others   *)
(* write at the same time.                                                  *)
MutationsEnd == \A w \in Writers : (pc[w] # "idle") ~> (pc[w] = "idle")

=============================================================================
