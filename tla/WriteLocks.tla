----------------------------- MODULE WriteLocks -----------------------------
(***************************************************************************)
(* The per-id write locks of the coordinator.  The lock of an id exists    *)
(* only while a thread is registered for it, as holder or as waiter; a     *)
(* bulk load holds the other side of a reader-writer lock.  A lock object  *)
(* has a number, so that a lock that was retired and the one that replaced *)
(* it can be told apart.                                                   *)
(***************************************************************************)
EXTENDS Naturals, FiniteSets

CONSTANTS Ids, Writers, Loaders, Nobody,
          MaxLocks    \* bound on the lock objects that are made

ASSUME LockersAssumption == Writers \cap Loaders = {} /\ Nobody \notin Writers \cup Loaders
ASSUME FiniteAssumption == IsFiniteSet(Writers)
ASSUME LocksAssumption == MaxLocks \in Nat

VARIABLES
  shared,     \* the threads on the shared side of LogicalWriteLocks.bulk
  owner,      \* the thread on its exclusive side
  entries,    \* LogicalWriteLocks.entries: id -> Registration
  made,       \* lock objects made so far
  held,       \* IdLock.held of each
  at,         \* where each thread is
  want, mine  \* the id each writer locks and the lock object it registered for

lockVars == <<shared, owner, entries, made, held, at, want, mine>>

LockGoto(t, l) == at' = [at EXCEPT ![t] = l]

(***************************************************************************)
(* lock                                                                    *)
(***************************************************************************)
EnterShared(w, i) ==
  /\ at[w] = "idle" /\ owner = Nobody
  /\ shared' = shared \cup {w}
  /\ want' = [want EXCEPT ![w] = i]
  /\ LockGoto(w, "register")
  /\ UNCHANGED <<owner, entries, made, held, mine>>

(* Under the registry mutex: join the registration of the id or make one.   *)
Register(w) ==
  LET i == want[w] IN
  /\ at[w] = "register"
  /\ IF i \in DOMAIN entries
     THEN /\ entries' = [entries EXCEPT ![i].users = @ + 1]
          /\ mine' = [mine EXCEPT ![w] = entries[i].lock]
          /\ UNCHANGED <<made, held>>
     ELSE /\ made < MaxLocks
          /\ made' = made + 1
          /\ held' = [held EXCEPT ![made + 1] = FALSE]
          /\ entries' = [j \in DOMAIN entries \cup {i} |->
                           IF j = i THEN [lock |-> made + 1, users |-> 1] ELSE entries[j]]
          /\ mine' = [mine EXCEPT ![w] = made + 1]
  /\ LockGoto(w, "acquire")
  /\ UNCHANGED <<shared, owner, want>>

(* Mutant: a thread that was woken does not look at the flag again.         *)
AcquireOnWakeUp(w) ==
  /\ at[w] \in {"acquire", "woken"}
  /\ IF held[mine[w]] /\ at[w] = "acquire" THEN LockGoto(w, "asleep") /\ UNCHANGED held
     ELSE LockGoto(w, "in") /\ held' = [held EXCEPT ![mine[w]] = TRUE]
  /\ UNCHANGED <<shared, owner, entries, made, want, mine>>

(* wait_while: under the flag's mutex, take the lock or sleep.              *)
Acquire(w) ==
  /\ at[w] \in {"acquire", "woken"}
  /\ IF held[mine[w]] THEN LockGoto(w, "asleep") /\ UNCHANGED held
     ELSE LockGoto(w, "in") /\ held' = [held EXCEPT ![mine[w]] = TRUE]
  /\ UNCHANGED <<shared, owner, entries, made, want, mine>>

WakeSleeper(w) ==
  /\ at[w] = "asleep"
  /\ LockGoto(w, "woken")
  /\ UNCHANGED <<shared, owner, entries, made, held, want, mine>>

Release(w) ==
  /\ at[w] = "in"
  /\ held' = [held EXCEPT ![mine[w]] = FALSE]
  /\ LockGoto(w, "notify")
  /\ UNCHANGED <<shared, owner, entries, made, want, mine>>

Asleep(k) == {v \in Writers : at[v] = "asleep" /\ mine[v] = k}

NotifyOne(w) ==
  /\ at[w] = "notify"
  /\ \/ \E v \in Asleep(mine[w]) : at' = [at EXCEPT ![w] = "retire", ![v] = "woken"]
     \/ Asleep(mine[w]) = {} /\ LockGoto(w, "retire")
  /\ UNCHANGED <<shared, owner, entries, made, held, want, mine>>

Retire(w) ==
  LET i == want[w] IN
  /\ at[w] = "retire"
  /\ entries' = IF entries[i].users = 1 THEN [j \in DOMAIN entries \ {i} |-> entries[j]]
                ELSE [entries EXCEPT ![i].users = @ - 1]
  /\ LockGoto(w, "leave")
  /\ UNCHANGED <<shared, owner, made, held, want, mine>>

LeaveShared(w) ==
  /\ at[w] = "leave"
  /\ shared' = shared \ {w}
  /\ LockGoto(w, "idle")
  /\ UNCHANGED <<owner, entries, made, held, want, mine>>

(***************************************************************************)
(* lock_bulk                                                               *)
(***************************************************************************)
LockBulk(l) ==
  /\ at[l] = "idle" /\ shared = {} /\ owner = Nobody
  /\ owner' = l
  /\ LockGoto(l, "bulk")
  /\ UNCHANGED <<shared, entries, made, held, want, mine>>

UnlockBulk(l) ==
  /\ at[l] = "bulk"
  /\ owner' = Nobody
  /\ LockGoto(l, "idle")
  /\ UNCHANGED <<shared, entries, made, held, want, mine>>

(***************************************************************************)
(* The specification.  A thread past the bulk lock goes on when it can.    *)
(***************************************************************************)
LockInit ==
  /\ shared = {} /\ owner = Nobody
  /\ entries = [i \in {} |-> 0]
  /\ made = 0 /\ held = [k \in 1..MaxLocks |-> FALSE]
  /\ at = [t \in Writers \cup Loaders |-> "idle"]
  /\ want \in [Writers -> Ids]
  /\ mine = [w \in Writers |-> 0]

Steps(w) == Register(w) \/ Acquire(w) \/ Release(w) \/ NotifyOne(w) \/ Retire(w) \/ LeaveShared(w)

LockNext ==
  \/ \E w \in Writers : Steps(w) \/ WakeSleeper(w) \/ \E i \in Ids : EnterShared(w, i)
  \/ \E l \in Loaders : LockBulk(l) \/ UnlockBulk(l)

LockSpec == LockInit /\ [][LockNext]_lockVars
FairLockSpec == LockSpec /\ \A w \in Writers : WF_lockVars(Steps(w))

(***************************************************************************)
(* Properties.                                                             *)
(***************************************************************************)
Registered == {w \in Writers : at[w] \in {"acquire", "asleep", "woken", "in", "notify", "retire"}}
Users(i) == {w \in Registered : want[w] = i}
Registration == [lock : 1..MaxLocks, users : Nat \ {0}]

(* Every variable stays within its type; a registration has a user.         *)
LockTypeOK ==
  /\ shared \subseteq Writers /\ owner \in Loaders \cup {Nobody}
  /\ DOMAIN entries \subseteq Ids /\ entries \in [DOMAIN entries -> Registration]
  /\ made \in 0..MaxLocks /\ held \in [1..MaxLocks -> BOOLEAN]
  /\ at \in [Writers \cup Loaders -> {"idle", "register", "acquire", "asleep", "woken", "in",
                                      "notify", "retire", "leave", "bulk"}]
  /\ want \in [Writers -> Ids] /\ mine \in [Writers -> 0..MaxLocks]

(* Two threads never hold the write lock of one id, though the lock object  *)
(* behind it is dropped and made anew between them.                         *)
MutualExclusion ==
  \A v, w \in Writers : v # w /\ at[v] = "in" /\ at[w] = "in" => want[v] # want[w]

(* A bulk load runs while no writer is registered at all, so no waiter can  *)
(* wake up into the middle of it.                                           *)
BulkIsAlone == owner # Nobody => Registered = {} /\ DOMAIN entries = {}

(* The table holds one entry for each id with registered threads, and its   *)
(* count is theirs: memory is proportional to the active callers, and no    *)
(* waiter is left with a lock that is no longer in the table.               *)
TableIsItsCallers ==
  /\ DOMAIN entries = {want[w] : w \in Registered}
  /\ \A i \in DOMAIN entries : entries[i].users = Cardinality(Users(i))
  /\ \A w \in Registered : entries[want[w]].lock = mine[w]

(* A free lock that a registered thread waits for is taken: the one         *)
(* notification of a release is enough, whoever it wakes.                   *)
FreeLockIsTaken ==
  \A k \in 1..MaxLocks :
    (~held[k] /\ \E w \in Writers : at[w] \in {"acquire", "asleep", "woken"} /\ mine[w] = k)
      ~> held[k]

(* What the locks promise: one holder for an id, bulk loads alone, and a    *)
(* table of exactly the ids that are held or waited for.                    *)
LocksAreSafe == MutualExclusion /\ BulkIsAlone /\ TableIsItsCallers
=============================================================================
