------------------------- MODULE CoordinatorProofs -------------------------
(***************************************************************************)
(* Proofs about the coordinator's two locks and its lease.  The move       *)
(* fence, for any number of movers, readers, passes and moves: a read that *)
(* is returned saw one version, no wake-up is lost, and an exclusive pass  *)
(* is undisturbed.  The per-id write locks, for any number of ids and      *)
(* threads: they exclude, because the table counts its callers exactly, so *)
(* the lock object a waiter registered for stays the one in the table      *)
(* until the waiter is done with it.  The lease, for any number of calls   *)
(* and coordinators: it fences, loses no wake-up and cannot wedge, because *)
(* the counters of a transition are exact and the waiters of a claim never *)
(* outnumber the handshakes that will leave it.                            *)
(***************************************************************************)
EXTENDS MoveFence, WriteLocks, CoordinatorLease, FiniteSetTheorems, TLAPS

InFence == {"first", "second", "end"}

(* The mover lock is held by the one thread that is in a move.              *)
OneMover == \A m \in Movers : pc[m] \in MoverSteps <=> movers = m

(* The counter is even exactly while no move is in the fence.               *)
ParityTells == Even(seq) <=> \A m \in Movers : pc[m] \notin InFence

(* The shards differ only while a mover is between them.                    *)
ShardsAgree == (\A m \in Movers : pc[m] # "second") => cell[1] = cell[2]

(* A mover between the shards has written the first one.                    *)
SecondIsHalfWay == \A m \in Movers : pc[m] = "second" => cell[1] = moves

(* What a pass has read so far is what the shards hold.                     *)
Current(r) == /\ pc[r] \in {"read2", "check"} => seen[r][1] = cell[1]
              /\ pc[r] = "check" => seen[r][2] = cell[2]

(* A pass that no move has overlapped so far is current.                    *)
PassesAreCurrent ==
  \A r \in Readers : pc[r] \in PassSteps =>
    /\ stamp[r] = None => movers = r /\ Current(r)
    /\ stamp[r] # None => /\ stamp[r] <= seq /\ Even(stamp[r])
                          /\ stamp[r] = seq => Current(r)

(* A reader that may still fail a pass has a pass left.                     *)
TriesLeft ==
  \A r \in Readers :
    \/ pc[r] \in {"start", "woken", "loaded", "odd", "asleep"}
    \/ pc[r] \in PassSteps /\ stamp[r] # None
    => tries[r] < Attempts

FInv == TypeOK /\ OneMover /\ ParityTells /\ ShardsAgree /\ SecondIsHalfWay
        /\ PassesAreCurrent /\ ReturnsOneVersion
        /\ SecondIsHalfWay /\ TriesLeft

(* One step turns an even counter odd and an odd one even.                  *)
LEMMA NextIsOther == \A n \in Nat : Even(n + 1) <=> ~Even(n)
  BY DEF Even

(* The invariant holds at the start.                                        *)
LEMMA FenceInitInv == Init => FInv
  <1> SUFFICES ASSUME Init PROVE FInv
    BY Zenon
  <1>0. /\ \A m \in Movers : pc[m] = "idle" /\ m \notin Readers
        /\ \A r \in Readers : pc[r] = "start" /\ r \notin Movers
    BY Zenon, ThreadsAssumption DEF Init
  <1>1. TypeOK
    BY BoundsAssumption, ThreadsAssumption, <1>0 DEF Init, TypeOK, MoverSteps, PassSteps
  <1>2. OneMover
    BY Zenon, <1>0, ThreadsAssumption DEF Init, OneMover, MoverSteps
  <1>3. ParityTells
    BY <1>0 DEF Init, ParityTells, InFence, Even
  <1>4. ShardsAgree /\ SecondIsHalfWay
        /\ PassesAreCurrent /\ ReturnsOneVersion
    BY Zenon, <1>0 DEF Init, ShardsAgree, SecondIsHalfWay, PassesAreCurrent, ReturnsOneVersion, PassSteps
  <1>5. TriesLeft
    BY <1>0, BoundsAssumption DEF Init, TriesLeft
  <1> QED
    BY Zenon, <1>1, <1>2, <1>3, <1>4, <1>5 DEF FInv

(* The steps of a mover.                                                    *)
LEMMA MoverInv ==
  ASSUME FInv, NEW m \in Movers, LockMovers(m) \/ Moves(m)
  PROVE  FInv'
  <1> USE DEF FInv
  <1>d. m \notin Readers /\ m # None /\ None \notin Nat /\ m \in Movers \cup Readers
        /\ (\A r \in Readers : r \notin Movers /\ r # None)
        /\ (\A n \in Movers : n # None)
    BY Zenon, ThreadsAssumption
  <1>0. UNCHANGED <<stamp, tries, seen, idleLock>>
    BY Zenon DEF LockMovers, Moves, BeginMove, Rewrite, EndMove, OrderWakeUp, NotifyAll, UnlockMovers, data
  <1>t. TriesLeft'
    <2>1. \A r \in Readers : pc'[r] = pc[r] \/ (pc[r] = "asleep" /\ pc'[r] = "woken")
      BY Zenon, <1>d DEF LockMovers, Moves, BeginMove, Rewrite, EndMove, OrderWakeUp, NotifyAll, UnlockMovers, Goto, TypeOK
    <2> QED
      BY Zenon, <2>1, <1>0 DEF TriesLeft, PassSteps
  <1>1. CASE LockMovers(m)
    <2>1. /\ pc[m] = "idle" /\ movers = None /\ movers' = m /\ moves' = moves + 1
          /\ pc' = [pc EXCEPT ![m] = "begin"] /\ seq' = seq /\ cell' = cell /\ moves < MaxMoves
      BY Zenon, <1>1 DEF LockMovers, Goto
    <2>9. \A n \in Movers : pc[n] # "second"
      BY Zenon, <2>1, <1>d DEF OneMover, MoverSteps
    <2>2. TypeOK'
      BY <1>0, <2>1, BoundsAssumption DEF TypeOK, MoverSteps
    <2>3. OneMover'
      BY Zenon, <2>1, <1>d DEF OneMover, TypeOK, MoverSteps
    <2>4. ParityTells'
      BY Zenon, <2>1 DEF ParityTells, InFence, TypeOK
    <2>5. ShardsAgree' /\ SecondIsHalfWay'
      BY Zenon, <2>1, <2>9 DEF ShardsAgree, SecondIsHalfWay, TypeOK
    <2>6. PassesAreCurrent' /\ ReturnsOneVersion'
      BY Zenon, <1>0, <2>1, <1>d DEF PassesAreCurrent, Current, ReturnsOneVersion, TypeOK
    <2> QED
      BY Zenon, <1>t, <2>2, <2>3, <2>4, <2>5, <2>6
  <1>2. CASE BeginMove(m) \/ EndMove(m)
    <2>1. /\ pc[m] \in MoverSteps /\ movers' = movers /\ moves' = moves /\ cell' = cell
          /\ seq' = seq + 1
          /\ \/ pc[m] = "begin" /\ pc' = [pc EXCEPT ![m] = "first"]
             \/ pc[m] = "end" /\ pc' = [pc EXCEPT ![m] = "order"]
      BY Zenon, <1>2 DEF BeginMove, EndMove, Goto, data, MoverSteps
    <2>0. movers = m
      BY Zenon, <2>1 DEF OneMover
    <2>2. TypeOK'
      BY <1>0, <2>1 DEF TypeOK, MoverSteps
    <2>3. OneMover'
      BY Zenon, <2>1 DEF OneMover, TypeOK, MoverSteps
    <2>4. ParityTells'
      <3>1. \A n \in Movers : n # m => pc[n] \notin InFence /\ pc'[n] = pc[n]
        BY Zenon, <2>0, <2>1 DEF OneMover, InFence, MoverSteps, TypeOK
      <3>2. Even(seq') <=> ~Even(seq)
        BY Zenon, <2>1, NextIsOther DEF TypeOK
      <3>3. pc'[m] \in InFence <=> pc[m] \notin InFence
        BY Zenon, <2>1 DEF InFence, TypeOK
      <3> QED
        BY Zenon, <3>1, <3>2, <3>3 DEF ParityTells
    <2>5. ShardsAgree' /\ SecondIsHalfWay'
      BY Zenon, <2>1 DEF ShardsAgree, SecondIsHalfWay, TypeOK
    <2>6. PassesAreCurrent' /\ ReturnsOneVersion'
      <3>1. \A r \in Readers : pc'[r] = pc[r]
        BY Zenon, <2>1, <1>d DEF TypeOK
      <3>2. \A r \in Readers : pc[r] \in PassSteps => stamp[r] # None /\ stamp[r] \in Nat
        BY Zenon, <2>0, <1>d DEF PassesAreCurrent, TypeOK
      <3>3. \A r \in Readers : stamp[r] \in Nat /\ stamp[r] <= seq => stamp[r] <= seq' /\ stamp[r] # seq'
        BY <2>1 DEF TypeOK
      <3> QED
        BY Zenon, <3>1, <3>2, <3>3, <1>0 DEF PassesAreCurrent, ReturnsOneVersion
    <2> QED
      BY Zenon, <1>t, <2>2, <2>3, <2>4, <2>5, <2>6
  <1>3. CASE Rewrite(m)
    <2>1. /\ pc[m] \in {"first", "second"} /\ movers' = movers /\ moves' = moves /\ seq' = seq
          /\ \/ /\ pc[m] = "first" /\ pc' = [pc EXCEPT ![m] = "second"]
                /\ cell' = [cell EXCEPT ![1] = moves]
             \/ /\ pc[m] = "second" /\ pc' = [pc EXCEPT ![m] = "end"]
                /\ cell' = [cell EXCEPT ![2] = moves]
      BY Zenon, <1>3 DEF Rewrite, Goto
    <2>0. movers = m
      BY Zenon, <2>1 DEF OneMover, MoverSteps
    <2>2. TypeOK'
      <3>1. cell' \in [{1, 2} -> 0..MaxMoves]
        BY Zenon, <2>1 DEF TypeOK
      <3>2. pc' \in [Movers \cup Readers -> MoverSteps \cup PassSteps \cup
              {"idle", "start", "woken", "loaded", "odd", "asleep", "exclude", "done", "gone"}]
        BY Zenon, <2>1 DEF TypeOK, MoverSteps
      <3> QED
        BY Zenon, <1>0, <2>1, <3>1, <3>2 DEF TypeOK
    <2>3. OneMover' /\ ParityTells'
      BY Zenon, <2>1 DEF OneMover, ParityTells, InFence, TypeOK, MoverSteps
    <2>4. ShardsAgree'
      <3>2. CASE pc[m] = "first"
        <4>1. pc'[m] = "second"
          BY Zenon, <3>2, <2>1 DEF TypeOK
        <4> QED
          BY Zenon, <4>1 DEF ShardsAgree
      <3>3. CASE pc[m] = "second" /\ cell[1] = moves
        BY Zenon, <3>3, <2>1 DEF ShardsAgree, TypeOK
      <3> QED
        BY Zenon, <3>2, <3>3, <2>1 DEF SecondIsHalfWay
    <2>5. SecondIsHalfWay'
      <3>1. \A n \in Movers : n # m => pc'[n] # "second"
        BY Zenon, <2>0, <2>1 DEF OneMover, MoverSteps, TypeOK
      <3>2. pc'[m] = "second" => cell'[1] = moves'
        BY Zenon, <2>1 DEF TypeOK
      <3> QED
        BY Zenon, <3>1, <3>2 DEF SecondIsHalfWay
    <2>6. PassesAreCurrent' /\ ReturnsOneVersion'
      <3>1. \A r \in Readers : pc'[r] = pc[r]
        BY Zenon, <2>1, <1>d DEF TypeOK
      <3>2. \A r \in Readers : pc[r] \in PassSteps => stamp[r] # None /\ stamp[r] # seq
        BY Zenon, <2>0, <2>1, <1>d DEF PassesAreCurrent, ParityTells, InFence
      <3> QED
        BY Zenon, <3>1, <3>2, <2>1, <1>0 DEF PassesAreCurrent, ReturnsOneVersion
    <2> QED
      BY Zenon, <1>t, <2>2, <2>3, <2>4, <2>5, <2>6
  <1>4. CASE OrderWakeUp(m) \/ NotifyAll(m)
    <2>1. /\ pc[m] \in {"order", "notify"} /\ UNCHANGED <<seq, movers, cell, moves>>
          /\ pc' \in [Movers \cup Readers -> MoverSteps \cup PassSteps \cup
               {"idle", "start", "woken", "loaded", "odd", "asleep", "exclude", "done", "gone"}]
          /\ pc'[m] \in {"notify", "unlock"}
          /\ \A t \in Movers \cup Readers : t # m =>
               pc'[t] = pc[t] \/ (pc[t] = "asleep" /\ pc'[t] = "woken")
      BY Zenon, <1>4, <1>d DEF OrderWakeUp, NotifyAll, Goto, data, TypeOK, MoverSteps
    <2>2. TypeOK'
      BY Zenon, <1>0, <2>1 DEF TypeOK
    <2>3. OneMover' /\ ParityTells'
      BY Zenon, <2>1, <1>d DEF OneMover, ParityTells, InFence, MoverSteps
    <2>4. ShardsAgree' /\ SecondIsHalfWay'
      BY Zenon, <2>1, <1>d DEF ShardsAgree, SecondIsHalfWay
    <2>5. \A r \in Readers : (pc'[r] \in PassSteps \/ pc'[r] = "done") => pc'[r] = pc[r]
      BY Zenon, <2>1, <1>d DEF PassSteps
    <2>6. PassesAreCurrent' /\ ReturnsOneVersion'
      BY Zenon, <2>1, <2>5, <1>0 DEF PassesAreCurrent, ReturnsOneVersion, Current
    <2> QED
      BY Zenon, <1>t, <2>2, <2>3, <2>4, <2>6
  <1>5. CASE UnlockMovers(m)
    <2>1. /\ pc[m] = "unlock" /\ movers' = None /\ UNCHANGED <<seq, cell, moves>>
          /\ pc' = [pc EXCEPT ![m] = "idle"]
      BY Zenon, <1>5 DEF UnlockMovers, Goto, data
    <2>0. movers = m
      BY Zenon, <2>1 DEF OneMover, MoverSteps
    <2>2. TypeOK'
      BY Zenon, <1>0, <2>1 DEF TypeOK
    <2>3. OneMover'
      BY Zenon, <2>0, <2>1, <1>d DEF OneMover, MoverSteps, TypeOK
    <2>4. ParityTells' /\ ShardsAgree' /\ SecondIsHalfWay'
      BY Zenon, <2>1, <1>d DEF ShardsAgree, SecondIsHalfWay, ParityTells, InFence, TypeOK
    <2>5. \A r \in Readers : pc'[r] = pc[r]
      BY Zenon, <2>1, <1>d DEF TypeOK
    <2>6. PassesAreCurrent' /\ ReturnsOneVersion'
      BY Zenon, <2>0, <2>1, <2>5, <1>0, <1>d DEF PassesAreCurrent, ReturnsOneVersion, Current
    <2> QED
      BY Zenon, <1>t, <2>2, <2>3, <2>4, <2>6
  <1> QED
    BY Zenon, <1>1, <1>2, <1>3, <1>4, <1>5 DEF Moves

(* The steps of a reader.                                                   *)
LEMMA ReaderInv ==
  ASSUME FInv, NEW r \in Readers, Reads(r) \/ WakeUnasked(r) \/ GiveUp(r) \/ ReadAgain(r)
  PROVE  FInv'
  <1> USE DEF FInv
  <1>d. r \notin Movers /\ r # None /\ None \notin Nat /\ r \in Movers \cup Readers
        /\ (\A m \in Movers : m # None /\ m # r)
    BY Zenon, ThreadsAssumption
  <1>0. UNCHANGED <<seq, cell, moves>>
    BY Zenon DEF Reads, Sample, LockIdle, Reload, Sleep, WakeUnasked, GiveUp, ReadCells, Check, ExcludeMovers, ReadAgain, data
  <1>1. /\ \A t \in Movers \cup Readers : t # r => pc'[t] = pc[t]
        /\ \A q \in Readers : q # r => stamp'[q] = stamp[q] /\ seen'[q] = seen[q]
    BY Zenon DEF Reads, Sample, LockIdle, Reload, Sleep, WakeUnasked, GiveUp, ReadCells, Check, ExcludeMovers, ReadAgain,
           StartPass, Goto, data, TypeOK
  <1>2. TypeOK'
    <2>1. pc' \in [Movers \cup Readers -> MoverSteps \cup PassSteps \cup
               {"idle", "start", "woken", "loaded", "odd", "asleep", "exclude", "done", "gone"}]
      BY Zenon DEF Reads, Sample, LockIdle, Reload, Sleep, WakeUnasked, GiveUp, ReadCells, Check, ExcludeMovers, ReadAgain,
             StartPass, Goto, TypeOK, PassSteps
    <2>2. /\ movers' \in Movers \cup Readers \cup {None}
          /\ idleLock' \in Readers \cup {None}
          /\ stamp' \in [Readers -> Nat \cup {None}]
      BY Zenon DEF Reads, Sample, LockIdle, Reload, Sleep, WakeUnasked, GiveUp, ReadCells, Check, ExcludeMovers, ReadAgain,
             StartPass, TypeOK
    <2>3. tries' \in [Readers -> 0..Attempts]
      <3>1. CASE Check(r)
        BY <3>1, BoundsAssumption DEF Check, Overlapped, TypeOK, TriesLeft, PassSteps
      <3>2. CASE tries' = tries
        BY Zenon, <3>2 DEF TypeOK
      <3>3. CASE ReadAgain(r)
        BY <3>3, BoundsAssumption DEF ReadAgain, TypeOK
      <3> QED
        BY Zenon, <3>1, <3>2, <3>3 DEF Reads, Sample, LockIdle, Reload, Sleep, WakeUnasked, GiveUp, ReadCells, ExcludeMovers
    <2>4. seen' \in [Readers -> [{1, 2} -> 0..MaxMoves]]
      BY DEF Reads, Sample, LockIdle, Reload, Sleep, WakeUnasked, GiveUp, ReadCells, Check, ExcludeMovers, ReadAgain,
             data, TypeOK
    <2> QED
      BY Zenon, <2>1, <2>2, <2>3, <2>4, <1>0 DEF TypeOK
  <1>3. \/ movers' = movers \/ (movers = None /\ movers' = r)
        \/ movers = r /\ movers' = None /\ pc'[r] = "done"
    BY Zenon DEF Reads, Sample, LockIdle, Reload, Sleep, WakeUnasked, GiveUp, ReadCells, Check, ExcludeMovers, ReadAgain,
           Goto, Overlapped, PassesAreCurrent, PassSteps, TypeOK
  <1>4. OneMover'
    BY Zenon, <1>1, <1>3, <1>d DEF OneMover
  <1>5. ParityTells' /\ ShardsAgree' /\ SecondIsHalfWay'
    BY Zenon, <1>0, <1>1, <1>d DEF ParityTells, ShardsAgree, SecondIsHalfWay
  <1>6. \A q \in Readers : q # r /\ pc'[q] \in PassSteps =>
          /\ stamp'[q] = None => movers' = q /\ Current(q)'
          /\ stamp'[q] # None => /\ stamp'[q] <= seq' /\ Even(stamp'[q])
                                 /\ stamp'[q] = seq' => Current(q)'
    BY <1>0, <1>1, <1>3, ThreadsAssumption DEF PassesAreCurrent, Current
  <1>7. pc'[r] \in PassSteps =>
          /\ stamp'[r] = None => movers' = r /\ Current(r)'
          /\ stamp'[r] # None => /\ stamp'[r] <= seq' /\ Even(stamp'[r])
                                 /\ stamp'[r] = seq' => Current(r)'
    <2>1. CASE pc'[r] = "read1"
      <3>1. Current(r)'
        BY Zenon, <2>1 DEF Current
      <3>2. (stamp'[r] = seq /\ Even(seq)) \/ (stamp'[r] = None /\ movers' = r)
        BY Zenon, <2>1 DEF Reads, Sample, LockIdle, Reload, Sleep, WakeUnasked, GiveUp, ReadCells, Check, ExcludeMovers,
                    ReadAgain, StartPass, Goto, TypeOK
      <3> QED
        BY <3>1, <3>2, <1>0, <1>d DEF TypeOK
    <2>2. CASE pc'[r] \in {"read2", "check"}
      <3>1. ReadCells(r)
        BY Zenon, <2>2 DEF Reads, Sample, LockIdle, Reload, Sleep, WakeUnasked, GiveUp, Check, ExcludeMovers,
                    ReadAgain, StartPass, Goto, TypeOK
      <3>2. /\ pc[r] \in PassSteps /\ stamp' = stamp /\ movers' = movers
            /\ Current(r) => Current(r)'
        BY SMTT(30), <3>1, <1>0 DEF ReadCells, Goto, PassSteps, Current, TypeOK
      <3> QED
        BY Zenon, <3>2, <1>0 DEF PassesAreCurrent
    <2> QED
      BY Zenon, <2>1, <2>2 DEF PassSteps
  <1>8. PassesAreCurrent'
    BY Zenon, <1>6, <1>7 DEF PassesAreCurrent
  <1>9. ReturnsOneVersion'
    <2>1. ASSUME Check(r), pc'[r] = "done" PROVE seen'[r][1] = seen'[r][2]
      <3>1. pc[r] = "check" /\ seen' = seen /\ (stamp[r] = None \/ stamp[r] = seq)
        BY Zenon, <2>1 DEF Check, Overlapped, Goto, data, TypeOK
      <3>2. \A m \in Movers : pc[m] # "second"
        <4>1. CASE stamp[r] = None
          BY Zenon, <4>1, <3>1, <1>d DEF PassesAreCurrent, PassSteps, OneMover, MoverSteps
        <4>2. CASE stamp[r] # None
          BY Zenon, <4>2, <3>1 DEF PassesAreCurrent, PassSteps, ParityTells, InFence
        <4> QED
          BY Zenon, <4>1, <4>2
      <3>3. Current(r)
        BY Zenon, <3>1 DEF PassesAreCurrent, PassSteps
      <3> QED
        BY Zenon, <3>1, <3>2, <3>3 DEF Current, ShardsAgree
    <2>2. pc'[r] = "done" => Check(r)
      BY Zenon DEF Reads, Sample, LockIdle, Reload, Sleep, WakeUnasked, GiveUp, ReadCells, ExcludeMovers, ReadAgain,
             StartPass, Goto, TypeOK
    <2> QED
      BY Zenon, <2>1, <2>2, <1>1 DEF ReturnsOneVersion
  <1>10. TriesLeft'
    <2>1. \A q \in Readers : q # r => tries'[q] = tries[q]
      BY Zenon DEF Reads, Sample, LockIdle, Reload, Sleep, WakeUnasked, GiveUp, ReadCells, Check, ExcludeMovers, ReadAgain, TypeOK
    <2>2. \/ pc'[r] \in {"start", "woken", "loaded", "odd", "asleep"}
          \/ pc'[r] \in PassSteps /\ stamp'[r] # None
          => tries'[r] < Attempts
      <3>1. CASE Check(r)
        BY Zenon, <3>1 DEF Check, Goto, PassSteps, TypeOK
      <3>2. CASE ReadAgain(r)
        BY <3>2, BoundsAssumption DEF ReadAgain, TypeOK
      <3>3. CASE ExcludeMovers(r)
        BY Zenon, <3>3 DEF ExcludeMovers, Goto, TypeOK
      <3>4. CASE Sample(r) \/ LockIdle(r) \/ Reload(r) \/ Sleep(r) \/ ReadCells(r) \/ WakeUnasked(r) \/ GiveUp(r)
        BY Zenon, <3>4 DEF Sample, LockIdle, Reload, Sleep, WakeUnasked, GiveUp, ReadCells, StartPass, Goto, TriesLeft,
                    PassSteps, TypeOK
      <3> QED
        BY Zenon, <3>1, <3>2, <3>3, <3>4 DEF Reads
    <2> QED
      BY Zenon, <2>1, <2>2, <1>1 DEF TriesLeft
  <1> QED
    BY Zenon, <1>2, <1>4, <1>5, <1>8, <1>9, <1>10

(* The invariant holds in every reachable state.                            *)
LEMMA FenceInvariant == Spec => []FInv
  <1>1. FInv /\ [Next]_vars => FInv'
    <2> SUFFICES ASSUME FInv, [Next]_vars PROVE FInv'
      BY Zenon
    <2>1. CASE UNCHANGED vars
      BY Zenon, <2>1 DEF vars, FInv, TypeOK, OneMover, ParityTells, ShardsAgree, SecondIsHalfWay, PassesAreCurrent, Current,
                  ReturnsOneVersion, TriesLeft
    <2>2. CASE Next
      BY Zenon, <2>2, MoverInv, ReaderInv DEF Next
    <2> QED
      BY Zenon, <2>1, <2>2
  <1> QED
    BY FenceInitInv, <1>1, PTL DEF Spec

(* MoveFence::read returns only passes that saw one version.                *)
THEOREM ReadsAreAtomic == Spec => []ReturnsOneVersion
  <1>1. FInv => ReturnsOneVersion
    BY Zenon DEF FInv
  <1> QED
    BY FenceInvariant, <1>1, PTL

(* No mover changes the counter or a shard during an exclusive pass of      *)
(* exclude_movers.                                                          *)
THEOREM StarvedReadersAreAlone == Spec => ExclusivePassIsQuiet
  <1>1. FInv /\ [Next]_vars =>
          [\A r \in Readers : pc[r] \in PassSteps /\ stamp[r] = None => UNCHANGED <<seq, cell>>]_vars
    <2> SUFFICES ASSUME FInv, Next, NEW r \in Readers, pc[r] \in PassSteps, stamp[r] = None
                 PROVE  UNCHANGED <<seq, cell>>
      BY Zenon
    <2>0. movers = r /\ r \notin Movers
      BY Zenon, ThreadsAssumption DEF FInv, PassesAreCurrent
    <2>1. ASSUME NEW m \in Movers, LockMovers(m) \/ Moves(m) PROVE UNCHANGED <<seq, cell>>
      <3>1. pc[m] \notin MoverSteps
        BY Zenon, <2>0 DEF FInv, OneMover
      <3> QED
        BY Zenon, <2>1, <3>1 DEF LockMovers, Moves, BeginMove, Rewrite, EndMove, OrderWakeUp, NotifyAll, UnlockMovers, MoverSteps
    <2>2. ASSUME NEW q \in Readers, Reads(q) \/ WakeUnasked(q) \/ GiveUp(q) \/ ReadAgain(q)
          PROVE  UNCHANGED <<seq, cell>>
      BY Zenon, <2>2 DEF Reads, Sample, LockIdle, Reload, Sleep, WakeUnasked, GiveUp, ReadCells, Check, ExcludeMovers, ReadAgain, data
    <2> QED
      BY Zenon, <2>1, <2>2 DEF Next
  <1> QED
    BY FenceInvariant, <1>1, PTL DEF Spec, ExclusivePassIsQuiet

(***************************************************************************)
(* The wake-up.  A reader that found the counter odd under the idle lock   *)
(* keeps the mover from ordering its wake-up until the reader sleeps.      *)
(***************************************************************************)
WillNotify == {"first", "second", "end", "order", "notify"}

WInv ==
  \A r \in Readers :
    /\ pc[r] \in {"loaded", "odd"} => idleLock = r
    /\ pc[r] = "odd" => \E m \in Movers : pc[m] \in WillNotify \ {"notify"}
    /\ pc[r] = "asleep" => \E m \in Movers : pc[m] \in WillNotify

(* A step of a mover loses no wake-up.                                      *)
LEMMA MoverWakes ==
  ASSUME FInv, WInv, NEW m \in Movers, LockMovers(m) \/ Moves(m)
  PROVE  WInv'
  <1>d. (\A r \in Readers : r # None /\ r # m) /\ (\A n \in Movers : n # None) /\ m \in Movers \cup Readers
    BY Zenon, ThreadsAssumption
  <1>0. idleLock' = idleLock
    BY Zenon DEF LockMovers, Moves, BeginMove, Rewrite, EndMove, OrderWakeUp, NotifyAll, UnlockMovers, data
  <1>1. \A r \in Readers : pc'[r] = pc[r] \/ (pc[r] = "asleep" /\ pc'[r] = "woken")
    BY Zenon, <1>d DEF LockMovers, Moves, BeginMove, Rewrite, EndMove, OrderWakeUp, NotifyAll, UnlockMovers, Goto, FInv, TypeOK
  <1>2. \A n \in Movers : pc[n] \in WillNotify => n = m
    BY Zenon, <1>d DEF LockMovers, Moves, BeginMove, Rewrite, EndMove, OrderWakeUp, NotifyAll, UnlockMovers,
                FInv, OneMover, MoverSteps, WillNotify
  <1>3. ASSUME pc[m] \in WillNotify \ {"notify"}, ~ OrderWakeUp(m) PROVE pc'[m] \in WillNotify \ {"notify"}
    BY Zenon, <1>3 DEF LockMovers, Moves, BeginMove, Rewrite, EndMove, NotifyAll, UnlockMovers, Goto, FInv, TypeOK, WillNotify
  <1>4. CASE OrderWakeUp(m)
    <2>1. idleLock = None /\ pc'[m] = "notify"
      BY Zenon, <1>4 DEF OrderWakeUp, Goto, FInv, TypeOK
    <2> QED
      BY Zenon, <2>1, <1>0, <1>1, <1>d DEF WInv, WillNotify
  <1>5. CASE NotifyAll(m)
    <2>1. pc[m] = "notify" /\ \A r \in Readers : pc'[r] # "asleep"
      BY Zenon, <1>5, <1>d DEF NotifyAll
    <2> QED
      BY Zenon, <2>1, <1>0, <1>1, <1>2 DEF WInv, WillNotify
  <1>6. CASE ~ OrderWakeUp(m) /\ ~ NotifyAll(m)
    <2>1. pc[m] # "notify"
      BY Zenon, <1>6 DEF LockMovers, Moves, BeginMove, Rewrite, EndMove, UnlockMovers
    <2> QED
      BY Zenon, <2>1, <1>0, <1>1, <1>2, <1>3, <1>6 DEF WInv
  <1> QED
    BY Zenon, <1>4, <1>5, <1>6

(* A reader goes to sleep only while a mover will still notify it.          *)
LEMMA ReaderWakes ==
  ASSUME FInv, WInv, NEW r \in Readers, Reads(r) \/ WakeUnasked(r) \/ GiveUp(r) \/ ReadAgain(r)
  PROVE  WInv'
  <1>d. (\A q \in Readers : q # None /\ q \in Movers \cup Readers) /\ (\A m \in Movers : m # r /\ m \in Movers \cup Readers)
    BY Zenon, ThreadsAssumption
  <1>1. \A t \in Movers \cup Readers : t # r => pc'[t] = pc[t]
    BY Zenon DEF Reads, Sample, LockIdle, Reload, Sleep, WakeUnasked, GiveUp, ReadCells, Check, ExcludeMovers, ReadAgain,
           StartPass, Goto, FInv, TypeOK
  <1>2. \/ idleLock' = idleLock
        \/ idleLock = None /\ idleLock' = r
        \/ idleLock = r /\ idleLock' = None /\ pc'[r] \notin {"loaded", "odd"}
    BY Zenon, <1>d DEF Reads, Sample, LockIdle, Reload, Sleep, WakeUnasked, GiveUp, ReadCells, Check, ExcludeMovers, ReadAgain,
           StartPass, Goto, FInv, TypeOK, WInv
  <1>3. ASSUME NEW q \in Readers, q # r
        PROVE  /\ pc'[q] \in {"loaded", "odd"} => idleLock' = q
               /\ pc'[q] = "odd" => \E m \in Movers : pc'[m] \in WillNotify \ {"notify"}
               /\ pc'[q] = "asleep" => \E m \in Movers : pc'[m] \in WillNotify
    BY Zenon, <1>1, <1>2, <1>3, <1>d DEF WInv
  <1>4. pc'[r] \in {"loaded", "odd"} => idleLock' = r
    BY DEF Reads, Sample, LockIdle, Reload, Sleep, WakeUnasked, GiveUp, ReadCells, Check, ExcludeMovers, ReadAgain,
           StartPass, Goto, FInv, TypeOK, WInv
  <1>5. pc'[r] = "odd" => \E m \in Movers : pc'[m] \in WillNotify \ {"notify"}
    <2>1. pc'[r] = "odd" => ~ Even(seq)
      BY Zenon DEF Reads, Sample, LockIdle, Reload, Sleep, WakeUnasked, GiveUp, ReadCells, Check, ExcludeMovers, ReadAgain,
             StartPass, Goto, FInv, TypeOK
    <2> QED
      BY Zenon, <2>1, <1>1, <1>d DEF FInv, ParityTells, InFence, WillNotify
  <1>6. pc'[r] = "asleep" => \E m \in Movers : pc'[m] \in WillNotify
    <2>1. pc'[r] = "asleep" => pc[r] = "odd"
      BY Zenon DEF Reads, Sample, LockIdle, Reload, Sleep, WakeUnasked, GiveUp, ReadCells, Check, ExcludeMovers, ReadAgain,
             StartPass, Goto, FInv, TypeOK
    <2> QED
      BY Zenon, <2>1, <1>1, <1>d DEF WInv
  <1> QED
    BY Zenon, <1>3, <1>4, <1>5, <1>6 DEF WInv

(* The wake-up of MoveGuard::drop reaches every reader that sleeps.         *)
THEOREM NoWakeUpIsLost == Spec => []SleeperWillBeWoken
  <1>1. Init => WInv
    BY Zenon, ThreadsAssumption DEF Init, WInv
  <1>2. FInv /\ WInv /\ [Next]_vars => WInv'
    <2>1. ASSUME WInv, UNCHANGED vars PROVE WInv'
      BY Zenon, <2>1 DEF WInv, vars
    <2> QED
      BY Zenon, <2>1, MoverWakes, ReaderWakes DEF Next
  <1>3. WInv => SleeperWillBeWoken
    BY Zenon DEF WInv, SleeperWillBeWoken, WillNotify
  <1> QED
    BY FenceInvariant, <1>1, <1>2, <1>3, PTL DEF Spec

(* Both together: what the locks run checks of the fence.                   *)
THEOREM FenceSafe == Spec => []FenceIsSafe
BY ReadsAreAtomic, NoWakeUpIsLost, PTL DEF FenceIsSafe

-----------------------------------------------------------------------------
(* A holder has set the flag of its lock object.                            *)
HoldersSetTheFlag == \A w \in Writers : at[w] = "in" => held[mine[w]]

(* Two ids never share a lock object, and a new object is new.              *)
LocksAreDistinct ==
  /\ \A i, j \in DOMAIN entries : entries[i].lock = entries[j].lock => i = j
  /\ \A i \in DOMAIN entries : entries[i].lock <= made

(* A writer that is not idle is on the shared side of the bulk lock.        *)
WritersAreShared ==
  /\ \A w \in Writers : at[w] # "idle" => w \in shared
  /\ owner # Nobody => shared = {}

IInv == /\ LockTypeOK /\ TableIsItsCallers /\ MutualExclusion
        /\ HoldersSetTheFlag /\ LocksAreDistinct /\ WritersAreShared

(***************************************************************************)
(* The callers of an id.                                                   *)
(***************************************************************************)
(* The callers of an id are finitely many.                                  *)
LEMMA UsersFinite == ASSUME NEW i PROVE IsFiniteSet(Users(i))
  <1>1. Users(i) \in SUBSET Writers
    BY Zenon DEF Users, Registered
  <1> QED
    BY Zenon, <1>1, FiniteAssumption, FS_Subset

(* A step that leaves the registered threads and what they want alone       *)
(* leaves the count of every id alone.                                      *)
LEMMA SameCallers ==
  ASSUME TableIsItsCallers, Registered' = Registered,
         entries' = entries, want' = want, mine' = mine
  PROVE  TableIsItsCallers'
  <1>1. ASSUME NEW i PROVE Users(i)' = Users(i)
    BY Zenon DEF Users
  <1> QED
    BY Zenon, <1>1 DEF TableIsItsCallers

(* Nobody is registered for an id that is not in the table.                 *)
LEMMA NoEntryNoUser ==
  ASSUME TableIsItsCallers, NEW i, i \notin DOMAIN entries
  PROVE  Users(i) = {}
  BY Zenon DEF TableIsItsCallers, Users

(***************************************************************************)
(* The invariant.                                                          *)
(***************************************************************************)
(* The invariant holds at the start, when nobody has registered.            *)
LEMMA LocksInitInv == LockInit => IInv
  <1> SUFFICES ASSUME LockInit PROVE IInv
    BY Zenon
  <1>1. Registered = {} /\ DOMAIN entries = {}
    BY Zenon, LockersAssumption DEF LockInit, Registered
  <1>2. LockTypeOK
    BY LocksAssumption, <1>1 DEF LockInit, LockTypeOK
  <1>3. TableIsItsCallers
    BY Zenon, <1>1 DEF TableIsItsCallers
  <1> QED
    BY Zenon, <1>1, <1>2, <1>3 DEF LockInit, IInv, MutualExclusion, HoldersSetTheFlag, LocksAreDistinct,
       WritersAreShared

(* Joining a registration or making one keeps the table exact.              *)
LEMMA RegisterInv ==
  ASSUME IInv, NEW w \in Writers, Register(w)
  PROVE  IInv'
  <1> USE DEF IInv
  <1>0. PICK i \in Ids : i = want[w]
    BY Zenon DEF LockTypeOK
  <1> USE <1>0
  <1>i. i \in Ids /\ w \in Writers \cup Loaders /\ made + 1 \in Nat
    BY LocksAssumption DEF LockTypeOK
  <1>t. LockTypeOK'
    <2>1. entries' \in [DOMAIN entries' -> Registration] /\ DOMAIN entries' \subseteq Ids
      <3>1. CASE i \in DOMAIN entries
        <4>1. entries' = [entries EXCEPT ![i] = [entries[i] EXCEPT !.users = @ + 1]]
          BY Zenon, <3>1 DEF Register
        <4>2. [entries[i] EXCEPT !.users = @ + 1] \in Registration
          <5>1. entries[i] \in Registration
            BY Zenon, <3>1 DEF LockTypeOK
          <5>2. entries[i].users + 1 \in Nat \ {0}
            BY <5>1 DEF Registration
          <5> QED
            BY Zenon, <5>1, <5>2 DEF Registration
        <4> QED
          BY Zenon, <4>1, <4>2, <3>1 DEF LockTypeOK
      <3>2. CASE i \notin DOMAIN entries
        <4>1. [lock |-> made + 1, users |-> 1] \in Registration
          BY <3>2, LocksAssumption DEF Register, LockTypeOK, Registration
        <4> QED
          BY <4>1, <3>2, <1>i DEF Register, LockTypeOK
      <3> QED
        BY Zenon, <3>1, <3>2
    <2>2. made' \in 0..MaxLocks /\ mine' \in [Writers -> 0..MaxLocks]
      BY LocksAssumption DEF Register, LockTypeOK, Registration
    <2>3. held' \in [1..MaxLocks -> BOOLEAN]
      BY Zenon DEF Register, LockTypeOK
    <2>4. /\ shared' = shared /\ owner' = owner /\ want' = want
          /\ at' = [at EXCEPT ![w] = "acquire"]
      BY Zenon DEF Register, LockGoto
    <2> QED
      BY Zenon, <2>1, <2>2, <2>3, <2>4 DEF LockTypeOK
  <1>p. /\ at' = [at EXCEPT ![w] = "acquire"] /\ at[w] = "register" /\ want' = want
        /\ \A v \in Writers : v # w => mine'[v] = mine[v]
    BY Zenon DEF Register, LockGoto, LockTypeOK
  <1>r. Registered' = Registered \cup {w} /\ w \notin Registered
    BY Zenon, <1>p DEF Registered, LockTypeOK
  <1>u. /\ Users(i)' = Users(i) \cup {w} /\ w \notin Users(i)
        /\ \A j : j # i => Users(j)' = Users(j)
    BY Zenon, <1>r, <1>p DEF Users
  <1>c. IsFiniteSet(Users(i)) /\ Cardinality(Users(i)') = Cardinality(Users(i)) + 1
    BY Zenon, <1>u, UsersFinite, FS_AddElement
  <1>d. DOMAIN entries' = DOMAIN entries \cup {i}
    BY Zenon DEF Register, LockTypeOK
  <1>e. /\ \A j \in DOMAIN entries : entries'[j].lock = entries[j].lock
        /\ \A j \in DOMAIN entries : j # i => entries'[j] = entries[j]
        /\ entries'[i].lock = mine'[w]
    <2>1. CASE i \in DOMAIN entries
      <3>1. /\ entries' = [entries EXCEPT ![i] = [entries[i] EXCEPT !.users = @ + 1]]
            /\ mine'[w] = entries[i].lock
        BY Zenon, <2>1 DEF Register, LockTypeOK
      <3>2. entries[i] \in Registration
        BY Zenon, <2>1 DEF LockTypeOK
      <3>3. entries'[i].lock = entries[i].lock
        BY Zenon, <3>1, <3>2, <2>1 DEF LockTypeOK, Registration
      <3> QED
        BY Zenon, <3>1, <3>3 DEF LockTypeOK
    <2>2. CASE i \notin DOMAIN entries
      BY <2>2 DEF Register, LockTypeOK
    <2> QED
      BY Zenon, <2>1, <2>2
  <1>n. entries'[i].users = Cardinality(Users(i)')
    <2>1. CASE i \in DOMAIN entries
      <3>1. entries'[i].users = entries[i].users + 1
        BY <2>1 DEF Register, LockTypeOK, Registration
      <3> QED
        BY Zenon, <3>1, <2>1, <1>c DEF TableIsItsCallers
    <2>2. CASE i \notin DOMAIN entries
      <3>1. entries'[i].users = 1
        BY <2>2 DEF Register, LockTypeOK
      <3> QED
        BY <3>1, <2>2, <1>c, NoEntryNoUser, FS_EmptySet
    <2> QED
      BY Zenon, <2>1, <2>2
  <1>1. TableIsItsCallers'
    <2>1. DOMAIN entries' = {want'[v] : v \in Registered'}
      BY Zenon, <1>d, <1>r, <1>p DEF TableIsItsCallers
    <2>2. \A j \in DOMAIN entries' : entries'[j].users = Cardinality(Users(j)')
      <3> SUFFICES ASSUME NEW j \in DOMAIN entries'
                   PROVE  entries'[j].users = Cardinality(Users(j)')
        BY Zenon
      <3>1. CASE j = i
        BY Zenon, <3>1, <1>n
      <3>2. CASE j # i
        BY <3>2, <1>e, <1>d, <1>u DEF TableIsItsCallers
      <3> QED
        BY Zenon, <3>1, <3>2
    <2>3. \A v \in Registered' : entries'[want'[v]].lock = mine'[v]
      BY Zenon, <1>e, <1>r, <1>p DEF TableIsItsCallers, Registered
    <2> QED
      BY Zenon, <2>1, <2>2, <2>3 DEF TableIsItsCallers
  <1>2. MutualExclusion'
    BY Zenon, <1>p DEF MutualExclusion, LockTypeOK
  <1>3. LocksAreDistinct'
    <2>1. CASE i \in DOMAIN entries
      BY <2>1, <1>d, <1>e DEF Register, LocksAreDistinct, LockTypeOK
    <2>2. CASE i \notin DOMAIN entries
      <3>1. made' = made + 1 /\ entries'[i].lock = made + 1
        BY <2>2 DEF Register, LockTypeOK
      <3>2. \A j \in DOMAIN entries : entries'[j].lock \in Nat /\ entries'[j].lock <= made
        BY SMTT(30), <1>e DEF LocksAreDistinct, LockTypeOK, Registration
      <3> QED
        BY <3>1, <3>2, <1>d, <1>e, <2>2 DEF LocksAreDistinct, LockTypeOK
    <2> QED
      BY Zenon, <2>1, <2>2
  <1>4. HoldersSetTheFlag'
    <2>1. ASSUME NEW v \in Writers, at'[v] = "in" PROVE held'[mine'[v]]
      <3>1. v # w /\ at[v] = "in" /\ v \in Registered /\ held[mine[v]] /\ mine'[v] = mine[v]
        BY Zenon, <2>1, <1>p DEF LockTypeOK, Registered, HoldersSetTheFlag
      <3>2. mine[v] <= made /\ mine[v] \in 1..MaxLocks
        BY <3>1 DEF TableIsItsCallers, LocksAreDistinct, LockTypeOK, Registration
      <3>3. made + 1 # mine[v]
        BY <3>2 DEF LockTypeOK
      <3>4. held' = held \/ held' = [held EXCEPT ![made + 1] = FALSE]
        BY Zenon DEF Register
      <3>5. held'[mine[v]] = held[mine[v]]
        BY Zenon, <3>3, <3>4, <3>2 DEF LockTypeOK
      <3> QED
        BY Zenon, <3>1, <3>5
    <2> QED
      BY Zenon, <2>1 DEF HoldersSetTheFlag
  <1>5. WritersAreShared'
    BY Zenon, <1>p DEF Register, WritersAreShared, LockTypeOK
  <1> QED
    BY Zenon, <1>t, <1>1, <1>2, <1>3, <1>4, <1>5

(* Retiring a registration keeps the table exact: the entry goes with its   *)
(* last user and no earlier.                                                *)
LEMMA RetireInv ==
  ASSUME IInv, NEW w \in Writers, Retire(w)
  PROVE  IInv'
  <1> USE DEF IInv
  <1>0. PICK i \in Ids : i = want[w]
    BY Zenon DEF LockTypeOK
  <1> USE <1>0
  <1>p. /\ at' = [at EXCEPT ![w] = "leave"] /\ at[w] = "retire"
        /\ shared' = shared /\ owner' = owner /\ made' = made /\ held' = held
        /\ want' = want /\ mine' = mine
    BY Zenon DEF Retire, LockGoto
  <1>r. Registered' = Registered \ {w} /\ w \in Registered
    BY Zenon, <1>p DEF Registered, LockTypeOK
  <1>u. /\ Users(i)' = Users(i) \ {w} /\ w \in Users(i)
        /\ \A j : j # i => Users(j)' = Users(j)
    BY Zenon, <1>r, <1>p DEF Users
  <1>c. /\ IsFiniteSet(Users(i)') /\ Cardinality(Users(i)') = Cardinality(Users(i)) - 1
        /\ Cardinality(Users(i)) \in Nat
    BY <1>u, UsersFinite, FS_RemoveElement, FS_CardinalityType
  <1>i. i \in DOMAIN entries /\ entries[i] \in Registration
    BY Zenon, <1>r DEF TableIsItsCallers, LockTypeOK
  <1>n. entries[i].users = Cardinality(Users(i)) /\ entries[i].users \in Nat \ {0}
    BY Zenon, <1>i DEF TableIsItsCallers, Registration
  <1>l. CASE entries[i].users = 1
    <2>1. entries' = [j \in DOMAIN entries \ {i} |-> entries[j]]
      BY Zenon, <1>l DEF Retire
    <2>2. Users(i)' = {}
      BY <1>l, <1>n, <1>c, FS_EmptySet
    <2>3. LockTypeOK'
      BY SMTT(30), <2>1, <1>p DEF LockTypeOK
    <2>4. DOMAIN entries' = {want'[v] : v \in Registered'}
      <3>1. \A v \in Registered' : want[v] # i
        BY Zenon, <2>2, <1>p DEF Users
      <3> QED
        BY Zenon, <3>1, <2>1, <1>r, <1>p DEF TableIsItsCallers
    <2>5. \A j \in DOMAIN entries' : entries'[j].users = Cardinality(Users(j)')
      BY Zenon, <2>1, <1>u DEF TableIsItsCallers
    <2>6. \A v \in Registered' : entries'[want'[v]].lock = mine'[v]
      BY Zenon, <2>1, <2>4, <1>r, <1>p DEF TableIsItsCallers
    <2>7. LocksAreDistinct'
      BY Zenon, <2>1, <1>p DEF LocksAreDistinct
    <2>8. MutualExclusion' /\ HoldersSetTheFlag' /\ WritersAreShared'
      BY SMTT(30), <1>p DEF MutualExclusion, HoldersSetTheFlag, WritersAreShared, LockTypeOK
    <2> QED
      BY Zenon, <2>3, <2>4, <2>5, <2>6, <2>7, <2>8 DEF TableIsItsCallers
  <1>m. CASE entries[i].users # 1
    <2>1. entries' = [entries EXCEPT ![i] = [entries[i] EXCEPT !.users = @ - 1]]
      BY Zenon, <1>m DEF Retire
    <2>2. entries[i].users - 1 \in Nat \ {0}
      BY <1>m, <1>n
    <2>3. /\ [entries[i] EXCEPT !.users = @ - 1] \in Registration
          /\ [entries[i] EXCEPT !.users = @ - 1].lock = entries[i].lock
          /\ [entries[i] EXCEPT !.users = @ - 1].users = entries[i].users - 1
      BY Zenon, <2>2, <1>i DEF Registration
    <2>4. DOMAIN entries' = DOMAIN entries /\ entries' \in [DOMAIN entries' -> Registration]
      BY Zenon, <2>1, <2>3, <1>i DEF LockTypeOK
    <2>5. LockTypeOK'
      BY Zenon, <2>4, <1>p DEF LockTypeOK
    <2>6. /\ \A j \in DOMAIN entries : entries'[j].lock = entries[j].lock
          /\ \A j \in DOMAIN entries : j # i => entries'[j] = entries[j]
          /\ entries'[i].users = entries[i].users - 1
      BY Zenon, <2>1, <2>3, <1>i DEF LockTypeOK
    <2>7. PICK v \in Users(i)' : TRUE
      BY Zenon, <2>2, <1>n, <1>c, FS_EmptySet
    <2>8. DOMAIN entries' = {want'[x] : x \in Registered'}
      <3>1. v \in Registered' /\ want'[v] = i
        BY Zenon, <2>7, <1>p DEF Users
      <3> QED
        BY Zenon, <3>1, <2>4, <1>r, <1>p DEF TableIsItsCallers
    <2>9. \A j \in DOMAIN entries' : entries'[j].users = Cardinality(Users(j)')
      <3> SUFFICES ASSUME NEW j \in DOMAIN entries'
                   PROVE  entries'[j].users = Cardinality(Users(j)')
        BY Zenon
      <3>1. CASE j = i
        BY Zenon, <3>1, <2>6, <1>n, <1>c
      <3>2. CASE j # i
        BY Zenon, <3>2, <2>4, <2>6, <1>u DEF TableIsItsCallers
      <3> QED
        BY Zenon, <3>1, <3>2
    <2>10. \A x \in Registered' : entries'[want'[x]].lock = mine'[x]
      BY Zenon, <2>6, <1>r, <1>p DEF TableIsItsCallers
    <2>11. LocksAreDistinct'
      BY Zenon, <2>4, <2>6, <1>p DEF LocksAreDistinct
    <2>12. MutualExclusion' /\ HoldersSetTheFlag' /\ WritersAreShared'
      BY SMTT(30), <1>p DEF MutualExclusion, HoldersSetTheFlag, WritersAreShared, LockTypeOK
    <2> QED
      BY Zenon, <2>5, <2>8, <2>9, <2>10, <2>11, <2>12 DEF TableIsItsCallers
  <1> QED
    BY Zenon, <1>l, <1>m

(* A thread takes the flag only when no other thread holds its id.          *)
LEMMA AcquireInv ==
  ASSUME IInv, NEW w \in Writers, Acquire(w)
  PROVE  IInv'
  <1> USE DEF IInv
  <1>p. /\ shared' = shared /\ owner' = owner /\ made' = made
        /\ want' = want /\ mine' = mine /\ entries' = entries
        /\ at[w] \in {"acquire", "woken"}
    BY Zenon DEF Acquire
  <1>m. w \in Registered /\ mine[w] \in 1..MaxLocks
    BY SMTT(30), <1>p DEF Registered, TableIsItsCallers, LockTypeOK, Registration
  <1>1. CASE held[mine[w]]
    <2>1. at' = [at EXCEPT ![w] = "asleep"] /\ held' = held
      BY Zenon, <1>1 DEF Acquire, LockGoto
    <2>2. Registered' = Registered
      BY Zenon, <2>1, <1>p DEF Registered, LockTypeOK
    <2>3. LockTypeOK' /\ MutualExclusion' /\ HoldersSetTheFlag' /\ LocksAreDistinct' /\ WritersAreShared'
      BY Zenon, <2>1, <1>p DEF LockTypeOK, MutualExclusion, HoldersSetTheFlag, LocksAreDistinct, WritersAreShared
    <2> QED
      BY Zenon, <2>2, <2>3, <1>p, SameCallers
  <1>2. CASE ~held[mine[w]]
    <2>1. at' = [at EXCEPT ![w] = "in"] /\ held' = [held EXCEPT ![mine[w]] = TRUE]
      BY Zenon, <1>2 DEF Acquire, LockGoto
    <2>2. Registered' = Registered
      BY Zenon, <2>1, <1>p DEF Registered, LockTypeOK
    <2>3. LockTypeOK'
      BY Zenon, <2>1, <1>p DEF LockTypeOK
    <2>4. LocksAreDistinct' /\ WritersAreShared'
      BY Zenon, <2>1, <1>p DEF LocksAreDistinct, WritersAreShared, LockTypeOK
    <2>5. HoldersSetTheFlag'
      BY <2>1, <1>p, <1>m DEF HoldersSetTheFlag, LockTypeOK
    <2>6. ASSUME NEW v \in Writers, v # w, at[v] = "in" PROVE want[v] # want[w]
      <3>1. held[mine[v]] /\ v \in Registered
        BY Zenon, <2>6 DEF HoldersSetTheFlag, Registered
      <3>2. mine[v] # mine[w]
        BY Zenon, <3>1, <1>2
      <3> QED
        BY Zenon, <3>1, <3>2, <1>m DEF TableIsItsCallers
    <2>7. MutualExclusion'
      BY Zenon, <2>6, <2>1, <1>p DEF MutualExclusion, LockTypeOK
    <2> QED
      BY Zenon, <2>2, <2>3, <2>4, <2>5, <2>7, <1>p, SameCallers
  <1> QED
    BY SMTT(30), <1>1, <1>2

(* Giving up a lock object touches the holder of no other id.               *)
LEMMA ReleaseInv ==
  ASSUME IInv, NEW w \in Writers, Release(w)
  PROVE  IInv'
  <1> USE DEF IInv
  <1>p. /\ shared' = shared /\ owner' = owner /\ made' = made
        /\ want' = want /\ mine' = mine /\ entries' = entries
        /\ at[w] = "in" /\ at' = [at EXCEPT ![w] = "notify"]
        /\ held' = [held EXCEPT ![mine[w]] = FALSE]
    BY Zenon DEF Release, LockGoto
  <1>m. w \in Registered /\ want[w] \in DOMAIN entries
    BY Zenon, <1>p DEF Registered, TableIsItsCallers
  <1>1. Registered' = Registered
    BY Zenon, <1>p DEF Registered, LockTypeOK
  <1>2. LockTypeOK' /\ LocksAreDistinct' /\ WritersAreShared' /\ MutualExclusion'
    BY Zenon, <1>p DEF LockTypeOK, LocksAreDistinct, WritersAreShared, MutualExclusion
  <1>3. HoldersSetTheFlag'
    <2> SUFFICES ASSUME NEW v \in Writers, at'[v] = "in" PROVE held'[mine'[v]]
      BY Zenon DEF HoldersSetTheFlag
    <2>1. v # w /\ at[v] = "in"
      BY Zenon, <1>p DEF LockTypeOK
    <2>2. want[v] # want[w]
      BY Zenon, <2>1, <1>p DEF MutualExclusion
    <2>3. v \in Registered /\ want[v] \in DOMAIN entries /\ held[mine[v]]
      BY Zenon, <2>1 DEF Registered, TableIsItsCallers, HoldersSetTheFlag
    <2>4. mine[v] # mine[w] /\ mine[v] \in 1..MaxLocks
      BY <2>2, <2>3, <1>m DEF TableIsItsCallers, LocksAreDistinct, LockTypeOK, Registration
    <2>5. held'[mine[v]] = held[mine[v]]
      BY Zenon, <2>4, <1>p DEF LockTypeOK
    <2> QED
      BY Zenon, <2>5, <2>3, <1>p
  <1> QED
    BY Zenon, <1>1, <1>2, <1>3, <1>p, SameCallers

(* Steps that register nobody and touch no flag: entering and leaving the   *)
(* bulk lock, and waking a sleeper.                                         *)
LEMMA QuietInv ==
  ASSUME IInv, Registered' = Registered, entries' = entries, mine' = mine,
         made' = made, held' = held, LockTypeOK', WritersAreShared',
         \A v \in Registered : want'[v] = want[v],
         \A v \in Writers : at'[v] = "in" => at[v] = "in"
  PROVE  IInv'
  <1> USE DEF IInv
  <1>1. ASSUME NEW i PROVE Users(i)' = Users(i)
    BY SMTT(30) DEF Users
  <1>2. TableIsItsCallers'
    BY <1>1 DEF TableIsItsCallers
  <1>3. \A v \in Writers : at[v] = "in" => v \in Registered
    BY Zenon DEF Registered
  <1>4. MutualExclusion'
    BY Zenon, <1>3 DEF MutualExclusion
  <1>5. HoldersSetTheFlag' /\ LocksAreDistinct'
    BY Zenon DEF HoldersSetTheFlag, LocksAreDistinct
  <1> QED
    BY Zenon, <1>2, <1>4, <1>5

(* Every step keeps the invariant.                                          *)
LEMMA StepInv == IInv /\ [LockNext]_lockVars => IInv'
  <1> SUFFICES ASSUME IInv, [LockNext]_lockVars PROVE IInv'
    BY Zenon
  <1>1. CASE UNCHANGED lockVars
    <2>1. Registered' = Registered
      BY Zenon, <1>1 DEF Registered, lockVars
    <2>2. LockTypeOK' /\ WritersAreShared'
      BY Zenon, <1>1 DEF IInv, LockTypeOK, WritersAreShared, lockVars
    <2> QED
      BY Zenon, <2>1, <2>2, <1>1, QuietInv DEF lockVars
  <1>2. ASSUME NEW w \in Writers, NEW i \in Ids, EnterShared(w, i) PROVE IInv'
    <2>1. /\ at[w] = "idle" /\ at' = [at EXCEPT ![w] = "register"] /\ owner = Nobody
          /\ shared' = shared \cup {w} /\ want' = [want EXCEPT ![w] = i]
          /\ UNCHANGED <<owner, entries, made, held, mine>>
      BY Zenon, <1>2 DEF EnterShared, LockGoto
    <2>2. Registered' = Registered /\ w \notin Registered
      BY Zenon, <2>1 DEF IInv, LockTypeOK, Registered
    <2>3. LockTypeOK' /\ WritersAreShared'
      BY Zenon, <2>1 DEF IInv, LockTypeOK, WritersAreShared
    <2>4. \A v \in Registered : want'[v] = want[v]
      BY Zenon, <2>1, <2>2 DEF IInv, LockTypeOK, Registered
    <2>5. \A v \in Writers : at'[v] = "in" => at[v] = "in"
      BY Zenon, <2>1 DEF IInv, LockTypeOK
    <2> QED
      BY Zenon, <2>1, <2>2, <2>3, <2>4, <2>5, QuietInv
  <1>3. ASSUME NEW w \in Writers, WakeSleeper(w) PROVE IInv'
    <2>1. /\ at[w] = "asleep" /\ at' = [at EXCEPT ![w] = "woken"]
          /\ UNCHANGED <<shared, owner, entries, made, held, want, mine>>
      BY Zenon, <1>3 DEF WakeSleeper, LockGoto
    <2>2. Registered' = Registered
      BY Zenon, <2>1 DEF IInv, LockTypeOK, Registered
    <2>3. LockTypeOK' /\ WritersAreShared'
      BY Zenon, <2>1 DEF IInv, LockTypeOK, WritersAreShared
    <2>4. \A v \in Writers : at'[v] = "in" => at[v] = "in"
      BY Zenon, <2>1 DEF IInv, LockTypeOK
    <2> QED
      BY Zenon, <2>1, <2>2, <2>3, <2>4, QuietInv
  <1>4. ASSUME NEW w \in Writers, NotifyOne(w) PROVE IInv'
    <2>0. /\ at[w] = "notify"
          /\ UNCHANGED <<shared, owner, entries, made, held, want, mine>>
      BY Zenon, <1>4 DEF NotifyOne
    <2>1. PICK v \in Writers : /\ v = w \/ at[v] = "asleep"
                               /\ \/ at' = [at EXCEPT ![w] = "retire", ![v] = "woken"] /\ v # w
                                  \/ at' = [at EXCEPT ![w] = "retire"]
      BY Zenon, <1>4, <2>0 DEF NotifyOne, LockGoto, Asleep
    <2>2. Registered' = Registered
      BY Zenon, <2>0, <2>1 DEF IInv, LockTypeOK, Registered
    <2>3. LockTypeOK' /\ WritersAreShared'
      BY Zenon, <2>0, <2>1 DEF IInv, LockTypeOK, WritersAreShared
    <2>4. \A x \in Writers : at'[x] = "in" => at[x] = "in"
      BY Zenon, <2>1 DEF IInv, LockTypeOK
    <2> QED
      BY Zenon, <2>0, <2>2, <2>3, <2>4, QuietInv
  <1>5. ASSUME NEW w \in Writers, LeaveShared(w) PROVE IInv'
    <2>1. /\ at[w] = "leave" /\ at' = [at EXCEPT ![w] = "idle"] /\ shared' = shared \ {w}
          /\ UNCHANGED <<owner, entries, made, held, want, mine>>
      BY Zenon, <1>5 DEF LeaveShared, LockGoto
    <2>2. Registered' = Registered
      BY Zenon, <2>1 DEF IInv, LockTypeOK, Registered
    <2>3. LockTypeOK' /\ WritersAreShared'
      BY Zenon, <2>1 DEF IInv, LockTypeOK, WritersAreShared
    <2>4. \A v \in Writers : at'[v] = "in" => at[v] = "in"
      BY Zenon, <2>1 DEF IInv, LockTypeOK
    <2> QED
      BY Zenon, <2>1, <2>2, <2>3, <2>4, QuietInv
  <1>6. ASSUME NEW l \in Loaders, LockBulk(l) \/ UnlockBulk(l) PROVE IInv'
    <2>1. /\ at' = [at EXCEPT ![l] = "bulk"] \/ at' = [at EXCEPT ![l] = "idle"]
          /\ owner' = Nobody \/ (owner' = l /\ shared = {})
          /\ UNCHANGED <<shared, entries, made, held, want, mine>>
      BY Zenon, <1>6 DEF LockBulk, UnlockBulk, LockGoto
    <2>0. l \notin Writers
      BY Zenon, LockersAssumption
    <2>2. Registered' = Registered
      BY Zenon, <2>0, <2>1 DEF IInv, LockTypeOK, Registered
    <2>3. LockTypeOK' /\ WritersAreShared'
      BY Zenon, <2>0, <2>1 DEF IInv, LockTypeOK, WritersAreShared
    <2>4. \A v \in Writers : at'[v] = "in" => at[v] = "in"
      BY Zenon, <2>0, <2>1 DEF IInv, LockTypeOK
    <2> QED
      BY Zenon, <2>1, <2>2, <2>3, <2>4, QuietInv
  <1> QED
    BY Zenon, <1>1, <1>2, <1>3, <1>4, <1>5, <1>6, RegisterInv, AcquireInv, ReleaseInv, RetireInv
       DEF LockNext, Steps

(* The invariant holds in every reachable state.                            *)
LEMMA LocksInvariant == LockSpec => []IInv
  BY LocksInitInv, StepInv, PTL DEF LockSpec

(* The write lock of an id has one holder, for any number of ids, threads   *)
(* and lock objects made and dropped on the way.                            *)
THEOREM WriteLocksExclude == LockSpec => []MutualExclusion
  <1>1. IInv => MutualExclusion
    BY Zenon DEF IInv
  <1> QED
    BY <1>1, LocksInvariant, PTL

(* The table has exactly the ids somebody holds or waits for, counts them   *)
(* exactly, and never replaces a lock object a waiter is registered for.    *)
THEOREM TableMatchesCallers == LockSpec => []TableIsItsCallers
  <1>1. IInv => TableIsItsCallers
    BY Zenon DEF IInv
  <1> QED
    BY <1>1, LocksInvariant, PTL

(* A bulk load has the table to itself, waiters included.                   *)
THEOREM BulkLoadsAlone == LockSpec => []BulkIsAlone
  <1>1. IInv => BulkIsAlone
    <2> SUFFICES ASSUME IInv, owner # Nobody PROVE Registered = {} /\ DOMAIN entries = {}
      BY Zenon DEF BulkIsAlone
    <2>1. Registered = {}
      BY Zenon DEF IInv, WritersAreShared, Registered
    <2> QED
      BY Zenon, <2>1 DEF IInv, TableIsItsCallers
  <1> QED
    BY <1>1, LocksInvariant, PTL

(* All three together: what the locks run checks of the write locks.        *)
THEOREM LocksSafe == LockSpec => []LocksAreSafe
BY WriteLocksExclude, TableMatchesCallers, BulkLoadsAlone, PTL DEF LocksAreSafe

-----------------------------------------------------------------------------
Unstamped == {k \in Admitted : who[k] = Unowned}
Stamped == {k \in Admitted : who[k] # Unowned}

(* The two counters count the admitted calls.                               *)
CountersExact ==
  /\ unstamped = Cardinality(Unstamped)
  /\ stamped = Cardinality(Stamped)

(* A claim that has looked is in the queue, or was woken.                   *)
LookersQueued ==
  \A k \in Calls : stage[k] \in {"check", "wait"} => k \in listening \cup notified

(* A handshake carries a coordinator id.                                    *)
ClaimsNamed ==
  \A k \in Calls :
    stage[k] \in {"enable", "check", "wait", "notify", "leave"} => who[k] \in Candidates

(* Every waiter the claim counts is a handshake that has still to leave it. *)
WaitersBounded ==
  candidate # Unowned => waiters > 0 /\ waiters <= Cardinality(Claimants(candidate))

LeaseInv ==
  /\ LeaseTypeOK /\ CountersExact /\ AdmittedUnderOwner /\ LookersQueued
  /\ ClaimsNamed /\ SleeperIsAwaited /\ WaitersBounded

(***************************************************************************)
(* Counting                                                                *)
(***************************************************************************)
(* A set of calls is finite.                                                *)
LEMMA CallsFinite == ASSUME NEW S, S \subseteq Calls PROVE IsFiniteSet(S)
  BY Zenon, CallsAssumption, FS_Subset

(* The counters are zero exactly when nothing is under way.                 *)
LEMMA NothingUnderWay ==
  ASSUME CountersExact
  PROVE  unstamped = 0 /\ stamped = 0 <=> Admitted = {}
  <1>1. IsFiniteSet(Unstamped) /\ IsFiniteSet(Stamped)
    BY Zenon, CallsFinite DEF Unstamped, Stamped, Admitted
  <1>2. unstamped = 0 <=> Unstamped = {}
    BY Zenon, <1>1, FS_EmptySet DEF CountersExact
  <1>3. stamped = 0 <=> Stamped = {}
    BY Zenon, <1>1, FS_EmptySet DEF CountersExact
  <1>4. Admitted = {} <=> Unstamped = {} /\ Stamped = {}
    BY Zenon DEF Unstamped, Stamped
  <1> QED
    BY Zenon, <1>2, <1>3, <1>4

(* A claim with waiters has a handshake that will leave it.                 *)
LEMMA BoundedHasWaiter == LeaseTypeOK /\ WaitersBounded => ClaimHasWaiter
  <1> SUFFICES ASSUME LeaseTypeOK, WaitersBounded,
                      candidate # Unowned, Claimants(candidate) = {}
               PROVE  FALSE
    BY Zenon DEF ClaimHasWaiter
  <1>1. Cardinality(Claimants(candidate)) = 0
    BY Zenon, FS_EmptySet
  <1> QED
    BY <1>1 DEF WaitersBounded, LeaseTypeOK

(* A step that admits nobody and ends no call keeps the counters exact and  *)
(* the admitted calls under their owner, if it leaves owner and counters.   *)
LEMMA SameAdmitted ==
  ASSUME CountersExact, Admitted' = Admitted, \A k \in Admitted : who'[k] = who[k],
         unstamped' = unstamped, stamped' = stamped
  PROVE  CountersExact'
  <1>1. Unstamped' = Unstamped /\ Stamped' = Stamped
    BY Zenon DEF Unstamped, Stamped
  <1> QED
    BY Zenon, <1>1 DEF CountersExact

(* A step that changes neither the claim nor who is registered for it.      *)
LEMMA SameWaiters ==
  ASSUME WaitersBounded, candidate' = candidate, waiters' = waiters,
         Claimants(candidate)' = Claimants(candidate)
  PROVE  WaitersBounded'
  BY Zenon DEF WaitersBounded

(***************************************************************************)
(* The invariant                                                           *)
(***************************************************************************)
(* The invariant holds in a process that has just started.                  *)
LEMMA LeaseInitInv == LeaseInit => LeaseInv
  <1> SUFFICES ASSUME LeaseInit PROVE LeaseInv
    BY Zenon
  <1>1. Admitted = {} /\ Unstamped = {} /\ Stamped = {}
    BY Zenon DEF LeaseInit, Admitted, Unstamped, Stamped
  <1>2. LeaseTypeOK
    BY Zenon DEF LeaseInit, LeaseTypeOK, Stages
  <1>3. CountersExact
    BY Zenon, <1>1, FS_EmptySet DEF LeaseInit, CountersExact
  <1> QED
    BY Zenon, <1>1, <1>2, <1>3 DEF LeaseInit, LeaseInv, AdmittedUnderOwner, LookersQueued, ClaimsNamed,
       SleeperIsAwaited, WaitersBounded

(* Admitting a call without an id, while nobody owns or claims the node.    *)
LEMMA BeginUnstampedInv ==
  ASSUME LeaseInv, NEW k \in Calls, BeginUnstamped(k) PROVE LeaseInv'
  <1> USE DEF LeaseInv
  <1>1. LeaseTypeOK'
    BY DEF BeginUnstamped, LeaseGoto, LeaseTypeOK, Stages
  <1>2. /\ Admitted' = Admitted \cup {k} /\ k \notin Admitted
        /\ who'[k] = Unowned /\ \A j \in Calls : j # k => who'[j] = who[j]
        /\ \A j \in Calls : j # k => stage'[j] = stage[j]
        /\ stage'[k] = "running"
    BY Zenon DEF BeginUnstamped, LeaseGoto, LeaseTypeOK, Admitted
  <1>3. Unstamped' = Unstamped \cup {k} /\ k \notin Unstamped /\ Stamped' = Stamped
    BY Zenon, <1>2 DEF Unstamped, Stamped, Admitted
  <1>4. Cardinality(Unstamped') = Cardinality(Unstamped) + 1
    BY SMTT(30), <1>3, CallsFinite, FS_AddElement DEF Unstamped, Admitted
  <1>5. CountersExact'
    BY Zenon, <1>3, <1>4 DEF CountersExact, BeginUnstamped
  <1>6. AdmittedUnderOwner'
    BY Zenon, <1>2 DEF AdmittedUnderOwner, BeginUnstamped, Admitted
  <1>7. LookersQueued' /\ ClaimsNamed' /\ SleeperIsAwaited'
    BY Zenon, <1>2 DEF LookersQueued, ClaimsNamed, SleeperIsAwaited, BeginUnstamped
  <1>8. WaitersBounded'
    BY Zenon DEF WaitersBounded, BeginUnstamped
  <1> QED
    BY Zenon, <1>1, <1>5, <1>6, <1>7, <1>8

(* Admitting a call of the owner, while nobody claims the node.             *)
LEMMA BeginOwnerInv ==
  ASSUME LeaseInv, NEW k \in Calls, NEW c \in Candidates, BeginOwner(k, c) PROVE LeaseInv'
  <1> USE DEF LeaseInv
  <1>1. LeaseTypeOK'
    BY DEF BeginOwner, LeaseGoto, LeaseTypeOK, Stages
  <1>2. /\ Admitted' = Admitted \cup {k} /\ k \notin Admitted
        /\ who'[k] = c /\ \A j \in Calls : j # k => who'[j] = who[j]
        /\ \A j \in Calls : j # k => stage'[j] = stage[j]
        /\ stage'[k] = "verify"
    BY Zenon DEF BeginOwner, LeaseGoto, LeaseTypeOK, Admitted
  <1>3. Stamped' = Stamped \cup {k} /\ k \notin Stamped /\ Unstamped' = Unstamped
    BY Zenon, <1>2, UnownedAssumption DEF Unstamped, Stamped, Admitted
  <1>4. Cardinality(Stamped') = Cardinality(Stamped) + 1
    BY Zenon, <1>3, CallsFinite, FS_AddElement DEF Stamped, Admitted
  <1>5. CountersExact'
    BY Zenon, <1>3, <1>4 DEF CountersExact, BeginOwner
  <1>6. AdmittedUnderOwner'
    BY Zenon, <1>2 DEF AdmittedUnderOwner, BeginOwner, Admitted
  <1>7. LookersQueued' /\ ClaimsNamed' /\ SleeperIsAwaited'
    BY Zenon, <1>2 DEF LookersQueued, ClaimsNamed, SleeperIsAwaited, BeginOwner
  <1>8. WaitersBounded'
    BY Zenon DEF WaitersBounded, BeginOwner
  <1> QED
    BY Zenon, <1>1, <1>5, <1>6, <1>7, <1>8

(* Dropping an admitted call: the last one wakes every claim.               *)
LEMMA EndCallInv ==
  ASSUME LeaseInv, NEW k \in Calls, EndCall(k) PROVE LeaseInv'
  <1> USE DEF LeaseInv
  <1>1. /\ k \in Admitted /\ Admitted' = Admitted \ {k} /\ who' = who
        /\ \A j \in Calls : j # k => stage'[j] = stage[j]
        /\ stage'[k] = "idle" /\ stage' \in [Calls -> Stages]
    BY Zenon DEF EndCall, LeaseGoto, LeaseTypeOK, Admitted, Stages
  <1>2. CountersExact'
    <2>1. IsFiniteSet(Unstamped) /\ IsFiniteSet(Stamped)
      BY Zenon, CallsFinite DEF Unstamped, Stamped, Admitted
    <2>2. CASE who[k] = Unowned
      <3>1. Unstamped' = Unstamped \ {k} /\ k \in Unstamped /\ Stamped' = Stamped
        BY Zenon, <1>1, <2>2 DEF Unstamped, Stamped
      <3>2. Cardinality(Unstamped') = Cardinality(Unstamped) - 1
        BY Zenon, <3>1, <2>1, FS_RemoveElement
      <3> QED
        BY Zenon, <3>1, <3>2, <2>2 DEF CountersExact, EndCall
    <2>3. CASE who[k] # Unowned
      <3>1. Stamped' = Stamped \ {k} /\ k \in Stamped /\ Unstamped' = Unstamped
        BY Zenon, <1>1, <2>3 DEF Unstamped, Stamped
      <3>2. Cardinality(Stamped') = Cardinality(Stamped) - 1
        BY Zenon, <3>1, <2>1, FS_RemoveElement
      <3> QED
        BY Zenon, <3>1, <3>2, <2>3 DEF CountersExact, EndCall
    <2> QED
      BY Zenon, <2>2, <2>3
  <1>3. unstamped' \in Nat /\ stamped' \in Nat
    <2>1. IsFiniteSet(Unstamped') /\ IsFiniteSet(Stamped')
      BY Zenon, <1>1, CallsFinite DEF Unstamped, Stamped, Admitted
    <2> QED
      BY Zenon, <2>1, <1>2, FS_CardinalityType DEF CountersExact
  <1>4. /\ listening' \subseteq Calls /\ notified' \subseteq Calls
        /\ listening \cup notified = listening' \cup notified'
        /\ notified \subseteq notified'
    BY Zenon DEF EndCall, NotifyWaiters, LeaseTypeOK
  <1>5. LeaseTypeOK'
    BY Zenon, <1>1, <1>3, <1>4 DEF EndCall, LeaseTypeOK
  <1>6. AdmittedUnderOwner' /\ LookersQueued' /\ ClaimsNamed'
    BY Zenon, <1>1, <1>4 DEF EndCall, AdmittedUnderOwner, LookersQueued, ClaimsNamed
  <1>7. SleeperIsAwaited'
    <2>1. CASE Admitted' # {}
      BY Zenon, <2>1 DEF SleeperIsAwaited
    <2>2. CASE Admitted' = {}
      <3>1. unstamped' = 0 /\ stamped' = 0
        <4>1. Unstamped' = {} /\ Stamped' = {}
          BY Zenon, <2>2 DEF Unstamped, Stamped
        <4> QED
          BY Zenon, <4>1, <1>2, FS_EmptySet DEF CountersExact
      <3>2. listening' = {}
        BY Zenon, <3>1 DEF EndCall, NotifyWaiters
      <3> QED
        BY Zenon, <3>2, <1>6 DEF SleeperIsAwaited, LookersQueued
    <2> QED
      BY Zenon, <2>1, <2>2
  <1>8. Claimants(candidate)' = Claimants(candidate) /\ candidate' = candidate /\ waiters' = waiters
    BY Zenon, <1>1 DEF EndCall, Claimants, Admitted
  <1>9. WaitersBounded'
    BY Zenon, <1>8, SameWaiters
  <1> QED
    BY Zenon, <1>2, <1>5, <1>6, <1>7, <1>9

(* A handshake registers: it opens the claim, or joins it.                  *)
LEMMA RegisterClaimInv ==
  ASSUME LeaseInv, NEW k \in Calls, NEW c \in Candidates, RegisterClaim(k, c) PROVE LeaseInv'
  <1> USE DEF LeaseInv
  <1>1. LeaseTypeOK'
    BY DEF RegisterClaim, LeaseGoto, LeaseTypeOK, Stages
  <1>2. /\ stage[k] = "idle" /\ stage'[k] = "enable" /\ who'[k] = c
        /\ \A j \in Calls : j # k => stage'[j] = stage[j] /\ who'[j] = who[j]
        /\ candidate' = c /\ c # Unowned
    BY Zenon, UnownedAssumption DEF RegisterClaim, LeaseGoto, LeaseTypeOK
  <1>3. Admitted' = Admitted /\ \A j \in Admitted : who'[j] = who[j]
    BY Zenon, <1>2 DEF Admitted
  <1>4. CountersExact' /\ AdmittedUnderOwner'
    BY Zenon, <1>3, SameAdmitted DEF RegisterClaim, AdmittedUnderOwner
  <1>5. LookersQueued' /\ ClaimsNamed'
    BY Zenon, <1>2 DEF RegisterClaim, LookersQueued, ClaimsNamed
  <1>6. SleeperIsAwaited'
    BY Zenon, <1>2, <1>3 DEF RegisterClaim, SleeperIsAwaited
  <1>7. WaitersBounded'
    <2>1. Claimants(c)' = Claimants(c) \cup {k} /\ k \notin Claimants(c)
      BY Zenon, <1>2 DEF Claimants
    <2>2. IsFiniteSet(Claimants(c))
      BY Zenon, CallsFinite DEF Claimants
    <2>3. /\ Cardinality(Claimants(c)') = Cardinality(Claimants(c)) + 1
          /\ Cardinality(Claimants(c)) \in Nat
      BY Zenon, <2>1, <2>2, FS_AddElement, FS_CardinalityType
    <2>4. waiters' > 0 /\ waiters' <= Cardinality(Claimants(c)')
      <3>1. CASE candidate = Unowned
        BY <3>1, <2>3 DEF RegisterClaim
      <3>2. CASE candidate # Unowned
        <4>1. candidate = c
          BY Zenon, <3>2 DEF RegisterClaim
        <4> QED
          BY <3>2, <4>1, <2>3 DEF RegisterClaim, WaitersBounded, LeaseTypeOK
      <3> QED
        BY Zenon, <3>1, <3>2
    <2> QED
      BY Zenon, <2>4, <1>2 DEF WaitersBounded
  <1> QED
    BY Zenon, <1>1, <1>4, <1>5, <1>6, <1>7

(* A handshake leaves its claim; the last one reopens admission.            *)
LEMMA EndClaimInv ==
  ASSUME LeaseInv, NEW k \in Calls, EndClaim(k) PROVE LeaseInv'
  <1> USE DEF LeaseInv
  <1>1. /\ stage[k] \in {"leave", "wait"} /\ stage'[k] = "idle" /\ who' = who
        /\ \A j \in Calls : j # k => stage'[j] = stage[j]
        /\ stage' \in [Calls -> Stages]
    BY Zenon DEF EndClaim, LeaseGoto, LeaseTypeOK, Stages
  <1>2. Admitted' = Admitted
    BY Zenon, <1>1 DEF Admitted
  <1>3. CountersExact' /\ AdmittedUnderOwner'
    BY Zenon, <1>1, <1>2, SameAdmitted DEF EndClaim, AdmittedUnderOwner
  <1>4. /\ listening' \subseteq Calls /\ notified' \subseteq Calls
        /\ listening' \cup notified' = (listening \cup notified) \ {k}
        /\ notified \ {k} \subseteq notified'
    BY Zenon DEF EndClaim, LeaveClaim, LeaseTypeOK
  <1>5. waiters' \in Nat /\ candidate' \in Candidates \cup {Unowned}
    BY DEF EndClaim, LeaveClaim, LeaseTypeOK
  <1>6. LeaseTypeOK'
    BY Zenon, <1>1, <1>4, <1>5 DEF EndClaim, LeaseTypeOK
  <1>7. LookersQueued' /\ ClaimsNamed'
    BY Zenon, <1>1, <1>4 DEF LookersQueued, ClaimsNamed
  <1>8. SleeperIsAwaited'
    BY Zenon, <1>1, <1>2, <1>4 DEF SleeperIsAwaited
  <1>9. WaitersBounded'
    <2>1. CASE candidate # who[k]
      <3>1. candidate' = candidate /\ waiters' = waiters
        BY Zenon, <2>1 DEF EndClaim, LeaveClaim, LastWaiter
      <3>2. Claimants(candidate)' = Claimants(candidate)
        BY Zenon, <1>1, <2>1, <3>1 DEF Claimants
      <3> QED
        BY Zenon, <3>1, <3>2, SameWaiters
    <2>2. CASE candidate = who[k] /\ waiters <= 1
      BY Zenon, <2>2 DEF EndClaim, LeaveClaim, LastWaiter, WaitersBounded
    <2>3. CASE candidate = who[k] /\ ~(waiters <= 1)
      <3>1. candidate' = candidate /\ waiters' = waiters - 1 /\ waiters > 1 /\ waiters \in Nat
        BY <2>3 DEF EndClaim, LeaveClaim, LastWaiter, LeaseTypeOK
      <3>2. Claimants(candidate)' = Claimants(candidate) \ {k} /\ k \in Claimants(candidate)
        BY Zenon, <1>1, <2>3, <3>1 DEF Claimants
      <3>3. IsFiniteSet(Claimants(candidate))
        BY Zenon, CallsFinite DEF Claimants
      <3>4. /\ Cardinality(Claimants(candidate)') = Cardinality(Claimants(candidate)) - 1
            /\ Cardinality(Claimants(candidate)) \in Nat
        BY Zenon, <3>2, <3>3, FS_RemoveElement, FS_CardinalityType
      <3> QED
        BY <3>1, <3>4 DEF WaitersBounded
    <2> QED
      BY Zenon, <2>1, <2>2, <2>3
  <1> QED
    BY Zenon, <1>3, <1>6, <1>7, <1>8, <1>9

(* Publishing: nothing is under way, so no call runs under the old owner.   *)
LEMMA PublishInv ==
  ASSUME LeaseInv, NEW k \in Calls, Publish(k) PROVE LeaseInv'
  <1> USE DEF LeaseInv
  <1>1. LeaseTypeOK'
    BY Zenon DEF Publish, LeaseGoto, LeaseTypeOK, Stages
  <1>2. /\ stage[k] = "check" /\ stage'[k] = "notify" /\ who' = who
        /\ \A j \in Calls : j # k => stage'[j] = stage[j]
    BY Zenon DEF Publish, LeaseGoto, LeaseTypeOK
  <1>3. Admitted' = Admitted /\ Admitted = {}
    BY Zenon, <1>2, NothingUnderWay DEF Admitted, Publish
  <1>4. CountersExact' /\ AdmittedUnderOwner'
    BY Zenon, <1>2, <1>3, SameAdmitted DEF Publish, AdmittedUnderOwner
  <1>5. LookersQueued' /\ ClaimsNamed' /\ SleeperIsAwaited'
    BY Zenon, <1>2 DEF Publish, LookersQueued, ClaimsNamed, SleeperIsAwaited
  <1>6. WaitersBounded'
    BY Zenon DEF Publish, WaitersBounded
  <1> QED
    BY Zenon, <1>1, <1>4, <1>5, <1>6

(* Telling the waiters that the owner was published.                        *)
LEMMA NotifyPublishedInv ==
  ASSUME LeaseInv, NEW k \in Calls, NotifyPublished(k) PROVE LeaseInv'
  <1> USE DEF LeaseInv
  <1>1. LeaseTypeOK'
    BY Zenon DEF NotifyPublished, NotifyWaiters, LeaseGoto, LeaseTypeOK, Stages
  <1>2. /\ stage[k] = "notify" /\ stage'[k] = "leave" /\ who' = who
        /\ \A j \in Calls : j # k => stage'[j] = stage[j]
        /\ notified' = notified \cup listening
    BY Zenon DEF NotifyPublished, NotifyWaiters, LeaseGoto, LeaseTypeOK
  <1>3. Admitted' = Admitted
    BY Zenon, <1>2 DEF Admitted
  <1>4. CountersExact' /\ AdmittedUnderOwner'
    BY Zenon, <1>2, <1>3, SameAdmitted DEF NotifyPublished, AdmittedUnderOwner
  <1>5. LookersQueued' /\ ClaimsNamed'
    BY Zenon, <1>2 DEF LookersQueued, ClaimsNamed
  <1>6. SleeperIsAwaited'
    BY Zenon, <1>2 DEF LookersQueued, SleeperIsAwaited
  <1>7. WaitersBounded'
    <2>1. candidate' = candidate /\ waiters' = waiters
      BY Zenon DEF NotifyPublished
    <2>2. Claimants(candidate) \subseteq Claimants(candidate)'
      BY Zenon, <1>2, <2>1 DEF Claimants
    <2>3. IsFiniteSet(Claimants(candidate)')
      BY Zenon, CallsFinite DEF Claimants
    <2>4. /\ Cardinality(Claimants(candidate)) <= Cardinality(Claimants(candidate)')
          /\ Cardinality(Claimants(candidate)) \in Nat /\ Cardinality(Claimants(candidate)') \in Nat
      BY Zenon, <2>2, <2>3, CallsFinite, FS_Subset, FS_CardinalityType DEF Claimants
    <2> QED
      BY <2>1, <2>4 DEF WaitersBounded, LeaseTypeOK
  <1> QED
    BY Zenon, <1>1, <1>4, <1>5, <1>6, <1>7

(* The other steps of a handshake move it between its own stages.           *)
LEMMA HandshakeInv ==
  ASSUME LeaseInv, NEW k \in Calls, Enable(k) \/ ClaimSleeps(k) \/ ClaimDecided(k) \/ WakeClaim(k)
  PROVE  LeaseInv'
  <1> USE DEF LeaseInv
  <1>1. LeaseTypeOK'
    BY Zenon DEF Enable, ClaimSleeps, ClaimDecided, WakeClaim, LeaseGoto, LeaseTypeOK, Stages
  <1>2. /\ stage[k] \in {"enable", "check", "wait"} /\ stage'[k] \in {"enable", "check", "wait", "leave"}
        /\ who' = who /\ candidate' = candidate /\ waiters' = waiters
        /\ \A j \in Calls : j # k => stage'[j] = stage[j]
        /\ leaseOwner' = leaseOwner /\ unstamped' = unstamped /\ stamped' = stamped
    BY Zenon DEF Enable, ClaimSleeps, ClaimDecided, WakeClaim, LeaseGoto, LeaseTypeOK
  <1>3. Admitted' = Admitted
    BY Zenon, <1>2 DEF Admitted
  <1>4. CountersExact' /\ AdmittedUnderOwner'
    BY Zenon, <1>2, <1>3, SameAdmitted DEF AdmittedUnderOwner
  <1>5. ClaimsNamed'
    BY Zenon, <1>2 DEF ClaimsNamed
  <1>6. WaitersBounded'
    <2>1. Claimants(candidate)' = Claimants(candidate)
      BY Zenon, <1>2 DEF Claimants
    <2> QED
      BY Zenon, <1>2, <2>1, SameWaiters
  <1>7. LookersQueued'
    BY Zenon, <1>2 DEF LookersQueued, Enable, ClaimSleeps, ClaimDecided, WakeClaim, LeaseGoto, LeaseTypeOK
  <1>8. SleeperIsAwaited'
    <2>1. ASSUME ClaimSleeps(k) PROVE Admitted # {}
      BY Zenon, <2>1, NothingUnderWay DEF ClaimSleeps
    <2>2. CASE ClaimSleeps(k)
      BY Zenon, <2>1, <2>2, <1>3 DEF SleeperIsAwaited
    <2>3. CASE Enable(k) \/ ClaimDecided(k) \/ WakeClaim(k)
      <3>1. stage'[k] # "wait" /\ notified \ {k} \subseteq notified'
        BY Zenon, <2>3 DEF Enable, ClaimDecided, WakeClaim, LeaseGoto, LeaseTypeOK
      <3> QED
        BY Zenon, <3>1, <1>2, <1>3 DEF SleeperIsAwaited
    <2> QED
      BY Zenon, <2>2, <2>3
  <1> QED
    BY Zenon, <1>1, <1>4, <1>5, <1>6, <1>7, <1>8

(* Renewing the lease and its expiry touch no call.                         *)
LEMMA RenewInv ==
  ASSUME LeaseInv,
         \/ \E k \in Calls : AuthorizeOwner(k)
         \/ \E c \in Candidates : RenewByClaim(c)
         \/ Expire
  PROVE  LeaseInv'
  <1> USE DEF LeaseInv
  <1>1. LeaseTypeOK'
    BY Zenon DEF AuthorizeOwner, RenewByClaim, Expire, LeaseGoto, LeaseTypeOK, Stages
  <1>2. /\ who' = who /\ candidate' = candidate /\ waiters' = waiters
        /\ listening' = listening /\ notified' = notified
        /\ leaseOwner' = leaseOwner /\ unstamped' = unstamped /\ stamped' = stamped
    BY Zenon DEF AuthorizeOwner, RenewByClaim, Expire
  <1>3. \A j \in Calls :
           \/ stage'[j] = stage[j]
           \/ stage[j] = "verify" /\ stage'[j] = "running"
    BY Zenon DEF AuthorizeOwner, RenewByClaim, Expire, LeaseGoto, LeaseTypeOK
  <1>4. Admitted' = Admitted
    BY Zenon, <1>3 DEF Admitted
  <1>5. CountersExact' /\ AdmittedUnderOwner'
    BY Zenon, <1>2, <1>4, SameAdmitted DEF AdmittedUnderOwner
  <1>6. LookersQueued' /\ ClaimsNamed'
    BY Zenon, <1>2, <1>3 DEF LookersQueued, ClaimsNamed
  <1>7. SleeperIsAwaited'
    BY Zenon, <1>2, <1>3, <1>4 DEF SleeperIsAwaited
  <1>8. WaitersBounded'
    <2>1. Claimants(candidate)' = Claimants(candidate)
      BY Zenon, <1>2, <1>3 DEF Claimants
    <2> QED
      BY Zenon, <1>2, <2>1, SameWaiters
  <1> QED
    BY Zenon, <1>1, <1>5, <1>6, <1>7, <1>8

(* A step that changes nothing.                                             *)
LEMMA LeaseStutterInv == LeaseInv /\ UNCHANGED leaseVars => LeaseInv'
  <1> SUFFICES ASSUME LeaseInv, UNCHANGED leaseVars PROVE LeaseInv'
    BY Zenon
  <1> USE DEF LeaseInv, leaseVars
  <1>1. Admitted' = Admitted
    BY Zenon DEF Admitted
  <1>2. Claimants(candidate)' = Claimants(candidate)
    BY Zenon DEF Claimants
  <1>3. CountersExact' /\ WaitersBounded'
    BY Zenon, <1>1, <1>2, SameAdmitted, SameWaiters
  <1>4. LeaseTypeOK' /\ AdmittedUnderOwner' /\ LookersQueued' /\ ClaimsNamed' /\ SleeperIsAwaited'
    BY Zenon, <1>1 DEF LeaseTypeOK, AdmittedUnderOwner, LookersQueued, ClaimsNamed, SleeperIsAwaited
  <1> QED
    BY Zenon, <1>3, <1>4

(* Every step of the lease keeps the invariant.                             *)
LEMMA LeaseNextInv == LeaseInv /\ [LeaseNext]_leaseVars => LeaseInv'
  <1> SUFFICES ASSUME LeaseInv, [LeaseNext]_leaseVars PROVE LeaseInv'
    BY Zenon
  <1>1. ASSUME NEW k \in Calls, LeaseCall(k) PROVE LeaseInv'
    BY Zenon, <1>1, BeginUnstampedInv, BeginOwnerInv, EndCallInv, RegisterClaimInv, EndClaimInv,
       PublishInv, NotifyPublishedInv, HandshakeInv, RenewInv DEF LeaseCall
  <1>2. CASE (\E c \in Candidates : RenewByClaim(c)) \/ Expire
    BY Zenon, <1>2, RenewInv
  <1>3. CASE UNCHANGED leaseVars
    BY Zenon, <1>3, LeaseStutterInv
  <1> QED
    BY Zenon, <1>1, <1>2, <1>3 DEF LeaseNext

(***************************************************************************)
(* The theorems                                                            *)
(***************************************************************************)
(* The invariant holds throughout.                                          *)
LEMMA LeaseInvariant == LeaseSpec => []LeaseInv
  BY LeaseInitInv, LeaseNextInv, PTL DEF LeaseSpec

(* The state of the lease is well typed (CoordinatorTransition).            *)
THEOREM LeaseTypes == LeaseSpec => []LeaseTypeOK
  <1>1. LeaseInv => LeaseTypeOK
    BY Zenon DEF LeaseInv
  <1> QED
    BY <1>1, LeaseInvariant, PTL

(* A takeover fences: no call of another coordinator, and no unstamped      *)
(* call, is under way on an owned node (claim, CoordinatorLeaseService).    *)
THEOREM LeaseFences == LeaseSpec => []AdmittedUnderOwner
  <1>1. LeaseInv => AdmittedUnderOwner
    BY Zenon DEF LeaseInv
  <1> QED
    BY <1>1, LeaseInvariant, PTL

(* No wake-up of a waiting claim is lost (Notify enable before the check).  *)
THEOREM LeaseLosesNoWakeup == LeaseSpec => []SleeperIsAwaited
  <1>1. LeaseInv => SleeperIsAwaited
    BY Zenon DEF LeaseInv
  <1> QED
    BY <1>1, LeaseInvariant, PTL

(* A claim closes admission only while a handshake is there to reopen it    *)
(* (PendingClaim::drop).                                                    *)
THEOREM LeaseNeverWedged == LeaseSpec => []ClaimHasWaiter
  <1>1. LeaseInv => ClaimHasWaiter
    BY Zenon, BoundedHasWaiter DEF LeaseInv
  <1> QED
    BY <1>1, LeaseInvariant, PTL

(* All three together: what the nodes run checks of the lease.              *)
THEOREM LeaseSafe == LeaseSpec => []LeaseIsSafe
BY LeaseFences, LeaseLosesNoWakeup, LeaseNeverWedged, PTL DEF LeaseIsSafe
=============================================================================
