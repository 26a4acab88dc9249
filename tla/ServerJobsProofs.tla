-------------------------- MODULE ServerJobsProofs --------------------------
(***************************************************************************)
(* Proofs about the exhaustive jobs of the coordinator's HTTP server, for  *)
(* any number of jobs, chunks and places in a job's channel: what the      *)
(* registry publishes is what the consumer got, and the event index names  *)
(* the jobs that are kept.                                                 *)
(***************************************************************************)
EXTENDS ExhaustiveJobs, FiniteSetTheorems, TLAPS

Gates == {"pending", "delivered", "cancelled", "deadline", "not_consumed", "execution_failed"}

JobRecord ==
  [at : {"start", "run", "await", "failing", "finish", "over"}, event : Events, print : Prints,
   sequence : Nat, kept : BOOLEAN, phase : {"running"} \cup Terminal, gate : Gates,
   cancel : BOOLEAN, past : BOOLEAN, chan : Seq(Int), rx : {"record", "client", "closed"},
   sent : Nat, seen : Seq(Int), want : Terminal]

JobsTypeOK ==
  /\ job \in [JobIds -> JobRecord \cup {Absent}]
  /\ byEvent \in [Events -> JobIds \cup {Nobody}]
  /\ started \in Nat

-----------------------------------------------------------------------------
(* The channel and the frames taken from it, of one job.                    *)

(* The number of frames.                                                    *)
Count(s) == Len(s)

(* The consumer got the chunks in order.  Only the last frame can be another *)
(* one: the completion, after every chunk, or a failure.                    *)
SeenInOrder(j) ==
  \A n \in DOMAIN j.seen :
    \/ j.seen[n] = n /\ n <= j.sent
    \/ n = Count(j.seen) /\ n = Chunks + 1 /\ j.seen[n] = Completion /\ j.gate = "delivered"
    \/ n = Count(j.seen) /\ j.seen[n] = Failure

(* What is in the channel comes next: chunks, then the completion, then a   *)
(* failure.                                                                 *)
ChanFollows(j) ==
  \A n \in DOMAIN j.chan :
    \/ j.chan[n] = Count(j.seen) + n /\ Count(j.seen) + n <= j.sent
    \/ j.chan[n] = Completion /\ Count(j.seen) + n = Chunks + 1
    \/ j.chan[n] = Failure /\ n = Count(j.chan)

(* Nothing is in the channel of a consumer that got its last frame or left. *)
ChanEnds(j) ==
  /\ j.chan # <<>> => j.rx # "closed" /\ \A n \in DOMAIN j.seen : j.seen[n] = n
  /\ j.gate = "delivered" =>
       j.chan = <<>> /\ Count(j.seen) = Chunks + 1 /\ j.seen[Chunks + 1] = Completion

(* Until the worker has sent its last chunk, what was sent is on its way or *)
(* arrived.                                                                 *)
SentArrives(j) ==
  /\ j.sent <= Chunks
  /\ j.at \in {"start", "run"} => \A n \in DOMAIN j.chan : j.chan[n] = Count(j.seen) + n
  /\ j.at \in {"start", "run"} /\ j.rx # "closed" => Count(j.seen) + Count(j.chan) = j.sent

(* A failure is told once its job has failed for good.                      *)
FailureIsFinal(j) ==
  (\E n \in DOMAIN j.chan : j.chan[n] = Failure) \/ (\E n \in DOMAIN j.seen : j.seen[n] = Failure)
    => j.at \in {"finish", "over"} /\ j.gate \notin {"pending", "delivered"}

(* The gate is decided before the job is finished, and decides its phase.   *)
GateDecides(j) ==
  /\ j.cancel => j.gate = "cancelled"
  /\ j.at \in {"finish", "over"} => j.gate # "pending"
  /\ j.phase \in Terminal => j.at = "over" /\ j.phase = PhaseOf(j.gate)

JobOK(j) ==
  /\ SeenInOrder(j) /\ ChanFollows(j) /\ ChanEnds(j) /\ SentArrives(j)
  /\ FailureIsFinal(j) /\ GateDecides(j)

JobsInv == JobsTypeOK /\ (\A i \in Live : JobOK(job[i])) /\ EventNamesItsJob

(* A job that was started has the type of a record.                         *)
LEMMA LiveIsRecord == ASSUME JobsTypeOK, NEW i \in Live PROVE i \in JobIds /\ job[i] \in JobRecord
  BY DEF JobsTypeOK, Live, Absent

(* A step that leaves the frames alone: a gate that was decided stays, and  *)
(* one that was not is not delivered by it.                                 *)
LEMMA SameFrames ==
  ASSUME NEW j \in JobRecord, NEW k \in JobRecord, JobOK(j), GateDecides(k),
         k.seen = j.seen, k.chan = j.chan, k.sent = j.sent,
         k.rx = "closed" <=> j.rx = "closed",
         j.gate # "pending" => k.gate = j.gate,
         j.gate = "pending" => k.gate # "delivered",
         j.at \in {"finish", "over"} => k.at \in {"finish", "over"},
         k.at \in {"start", "run"} => j.at \in {"start", "run"}
  PROVE  JobOK(k)
  <1>1. SeenInOrder(k)
    BY DEF JobOK, SeenInOrder, JobRecord
  <1>2. ChanFollows(k)
    BY DEF JobOK, ChanFollows, JobRecord
  <1>3. ChanEnds(k)
    BY Zenon DEF JobOK, ChanEnds, JobRecord
  <1>4. SentArrives(k)
    BY DEF JobOK, SentArrives, JobRecord
  <1>5. FailureIsFinal(k)
    BY DEF JobOK, FailureIsFinal, JobRecord
  <1> QED
    BY Zenon, <1>1, <1>2, <1>3, <1>4, <1>5 DEF JobOK

(* Steps of jobs that keep their places in the registry, and take no slot.  *)
LEMMA JobsStep ==
  ASSUME JobsInv, JobsTypeOK', Live' = Live, byEvent' = byEvent,
         \A n \in Live : /\ job'[n].event = job[n].event /\ job'[n].kept = job[n].kept
                         /\ job'[n].at # "over" => job[n].at # "over"
                         /\ JobOK(job'[n])
  PROVE  JobsInv'
  <1>1. Kept' = Kept /\ Kept \subseteq Live
    BY Zenon DEF Kept
  <1>2. \A n \in Live' : JobOK(job'[n])
    BY Zenon
  <1>3. {n \in Live : HoldsSlot(n)}' \subseteq {n \in Live : HoldsSlot(n)}
    BY Zenon DEF HoldsSlot
  <1>4. IsFiniteSet({n \in Live : HoldsSlot(n)})
    BY Zenon, JobsAssumption, FS_Subset DEF Live
  <1>5. Cardinality({n \in Live : HoldsSlot(n)}') <= Cardinality({n \in Live : HoldsSlot(n)})
    BY Zenon, <1>3, <1>4, FS_Subset
  <1>6. /\ Cardinality({n \in Live : HoldsSlot(n)}) \in Nat
        /\ Cardinality({n \in Live : HoldsSlot(n)}') \in Nat
    BY Zenon, <1>3, <1>4, FS_Subset, FS_CardinalityType
  <1>7. Cardinality({n \in Live : HoldsSlot(n)}') <= JobSlots
    BY <1>5, <1>6, JobsAssumption DEF JobsInv, EventNamesItsJob
  <1>8. \A e \in Events : byEvent'[e] # Nobody =>
           byEvent'[e] \in Kept' /\ job'[byEvent'[e]].event = e
    BY Zenon, <1>1 DEF JobsInv, EventNamesItsJob
  <1>9. \A n \in Kept' : byEvent'[job'[n].event] = n
    BY Zenon, <1>1 DEF JobsInv, EventNamesItsJob
  <1>10. EventNamesItsJob'
    BY Zenon, <1>1, <1>7, <1>8, <1>9 DEF JobsInv, EventNamesItsJob
  <1> QED
    BY Zenon, <1>2, <1>10 DEF JobsInv

(* A step of one job's worker, consumer or clock that keeps its place in    *)
(* the registry.                                                            *)
LEMMA OneJobSteps ==
  ASSUME JobsInv, NEW i \in Live, NEW k \in JobRecord, job' = [job EXCEPT ![i] = k],
         k.event = job[i].event, k.kept = job[i].kept, k.at # "over" => job[i].at # "over",
         JobOK(k), byEvent' = byEvent, started' = started
  PROVE  JobsInv'
  <1>1. i \in JobIds /\ job[i] \in JobRecord
    BY Zenon, LiveIsRecord DEF JobsInv
  <1>2. JobsTypeOK'
    BY Zenon, <1>1 DEF JobsInv, JobsTypeOK
  <1>3. job'[i] = k /\ \A n \in JobIds : n # i => job'[n] = job[n]
    BY Zenon, <1>1 DEF JobsInv, JobsTypeOK
  <1>4. k.at # "unused"
    BY Zenon DEF JobRecord
  <1>5. Live' = Live
    BY Zenon, <1>1, <1>3, <1>4 DEF Live
  <1>6. \A n \in Live : n # i => job'[n] = job[n] /\ JobOK(job[n])
    BY Zenon, <1>3 DEF JobsInv, Live
  <1> QED
    BY Zenon, <1>2, <1>3, <1>5, <1>6, JobsStep

-----------------------------------------------------------------------------
(* The steps that change the frames, on the record of one job.              *)

(* Frames t are the frames s and one more, x; or s without its first.       *)
Grows(s, t, x) ==
  /\ Count(t) = Count(s) + 1 /\ DOMAIN t = 1 .. Count(s) + 1
  /\ \A n \in 1 .. Count(s) : t[n] = s[n]
  /\ t[Count(s) + 1] = x
Shrinks(s, t) ==
  /\ Count(s) # 0 /\ Count(t) = Count(s) - 1 /\ DOMAIN t = 1 .. Count(s) - 1
  /\ \A n \in 1 .. Count(s) - 1 : t[n] = s[n + 1]

(* A frame put into a channel.                                              *)
LEMMA Appended ==
  ASSUME NEW s \in Seq(Int), NEW x \in Int
  PROVE  Append(s, x) \in Seq(Int) /\ Grows(s, Append(s, x), x)
  BY DEF Grows, Count

(* A frame taken out of a channel.                                          *)
LEMMA Taken ==
  ASSUME NEW s \in Seq(Int), s # <<>>
  PROVE  Tail(s) \in Seq(Int) /\ Shrinks(s, Tail(s)) /\ Head(s) = s[1] /\ Head(s) \in Int
  <1>1. /\ Head(s) \in Int /\ Tail(s) \in Seq(Int) /\ Len(Tail(s)) = Len(s) - 1
        /\ \A n \in 1 .. Len(Tail(s)) : Tail(s)[n] = s[n + 1]
    OBVIOUS
  <1>2. Len(s) \in Nat \ {0} /\ DOMAIN s = 1 .. Len(s)
    OBVIOUS
  <1>3. DOMAIN Tail(s) = 1 .. Len(s) - 1
    BY <1>1
  <1>4. Head(s) = s[1]
    BY <1>2
  <1> QED
    BY Zenon, <1>1, <1>2, <1>3, <1>4 DEF Shrinks, Count

(* The frames of a job are numbered from one.                               *)
Numbered(j) ==
  /\ Count(j.chan) \in Nat /\ DOMAIN j.chan = 1 .. Count(j.chan)
  /\ Count(j.seen) \in Nat /\ DOMAIN j.seen = 1 .. Count(j.seen)
  /\ j.chan = <<>> <=> Count(j.chan) = 0
  /\ j.sent \in Nat /\ Chunks \in Nat

(* The frames of every job are numbered.                                    *)
LEMMA FramesAreNumbered == ASSUME NEW j \in JobRecord PROVE Numbered(j)
  <1>1. j.chan \in Seq(Int) /\ j.seen \in Seq(Int) /\ j.sent \in Nat /\ Chunks \in Nat
    BY Zenon, JobsAssumption DEF JobRecord
  <1> QED
    BY <1>1 DEF Numbered, Count

(* The worker sends the next chunk.                                         *)
LEMMA ChunkIsSent ==
  ASSUME NEW j \in JobRecord, JobOK(j), j.at = "run", j.rx # "closed", j.sent < Chunks,
         NEW k \in JobRecord, Grows(j.chan, k.chan, j.sent + 1), k.sent = j.sent + 1,
         k.seen = j.seen, k.gate = j.gate, k.at = j.at, k.rx = j.rx,
         k.cancel = j.cancel, k.phase = j.phase
  PROVE  JobOK(k)
  <1>1. Numbered(j) /\ Numbered(k)
    BY Zenon, FramesAreNumbered
  <1>5. /\ Count(j.seen) + Count(j.chan) = j.sent
        /\ \A n \in DOMAIN j.chan : j.chan[n] = Count(j.seen) + n
        /\ j.gate # "delivered"
    BY <1>1 DEF JobOK, SentArrives, ChanEnds, Numbered
  <1>6. \A n \in DOMAIN j.seen : j.seen[n] = n
    BY Zenon, <1>1, <1>5 DEF JobOK, SeenInOrder, FailureIsFinal, Numbered
  <1>7. SeenInOrder(k)
    BY <1>1, <1>5, <1>6 DEF SeenInOrder, Numbered
  <1>8. \A n \in DOMAIN k.chan : k.chan[n] = Count(k.seen) + n /\ Count(k.seen) + n <= k.sent
    <2> TAKE n \in DOMAIN k.chan
    <2>1. (n \in DOMAIN j.chan /\ k.chan[n] = j.chan[n]) \/ n = Count(j.chan) + 1
      BY <1>1 DEF Grows, Numbered
    <2>2. k.chan[Count(j.chan) + 1] = j.sent + 1
      BY Zenon DEF Grows
    <2> QED
      BY <1>1, <1>5, <2>1, <2>2 DEF Numbered
  <1>9. ChanFollows(k)
    BY Zenon, <1>8 DEF ChanFollows
  <1>12. ChanEnds(k)
    BY Zenon, <1>5, <1>6 DEF ChanEnds
  <1>13. SentArrives(k)
    BY <1>1, <1>5, <1>8 DEF SentArrives, Grows, Numbered
  <1>10. FailureIsFinal(k)
    BY <1>1, <1>6, <1>8 DEF FailureIsFinal, Failure, Numbered
  <1>11. GateDecides(k)
    BY Zenon DEF JobOK, GateDecides
  <1> QED
    BY Zenon, <1>7, <1>9, <1>10, <1>11, <1>12, <1>13 DEF JobOK

(* The worker sends the completion, after every chunk.                      *)
LEMMA CompletionIsSent ==
  ASSUME NEW j \in JobRecord, JobOK(j), j.at = "run", j.rx # "closed", j.sent = Chunks,
         NEW k \in JobRecord, Grows(j.chan, k.chan, Completion), k.at = "await",
         k.sent = j.sent, k.seen = j.seen, k.gate = j.gate, k.rx = j.rx,
         k.cancel = j.cancel, k.phase = j.phase
  PROVE  JobOK(k)
  <1>1. Numbered(j) /\ Numbered(k)
    BY Zenon, FramesAreNumbered
  <1>2. /\ Count(j.seen) + Count(j.chan) = j.sent
        /\ \A n \in DOMAIN j.chan : j.chan[n] = Count(j.seen) + n
        /\ j.gate # "delivered"
    BY <1>1 DEF JobOK, SentArrives, ChanEnds, Numbered
  <1>3. \A n \in DOMAIN j.seen : j.seen[n] = n
    BY Zenon, <1>1, <1>2 DEF JobOK, SeenInOrder, FailureIsFinal, Numbered
  <1>4. SeenInOrder(k)
    BY <1>1, <1>2, <1>3 DEF SeenInOrder, Numbered
  <1>5. \A n \in DOMAIN k.chan :
          \/ k.chan[n] = Count(k.seen) + n /\ Count(k.seen) + n <= k.sent
          \/ k.chan[n] = Completion /\ Count(k.seen) + n = Chunks + 1
    <2> TAKE n \in DOMAIN k.chan
    <2>1. (n \in DOMAIN j.chan /\ k.chan[n] = j.chan[n]) \/ n = Count(j.chan) + 1
      BY <1>1 DEF Grows, Numbered
    <2>2. k.chan[Count(j.chan) + 1] = Completion
      BY Zenon DEF Grows
    <2> QED
      BY <1>1, <1>2, <2>1, <2>2 DEF Numbered
  <1>6. ChanFollows(k)
    BY Zenon, <1>5 DEF ChanFollows
  <1>7. ChanEnds(k)
    BY Zenon, <1>2, <1>3 DEF ChanEnds
  <1>8. SentArrives(k)
    BY <1>1 DEF SentArrives, Numbered
  <1>9. FailureIsFinal(k)
    BY <1>1, <1>3, <1>5 DEF FailureIsFinal, Failure, Completion, Numbered
  <1>10. GateDecides(k)
    BY Zenon DEF JobOK, GateDecides
  <1> QED
    BY Zenon, <1>4, <1>6, <1>7, <1>8, <1>9, <1>10 DEF JobOK

(* The worker tells the consumer that the job failed.                       *)
LEMMA FailureIsTold ==
  ASSUME NEW j \in JobRecord, JobOK(j), j.at = "failing", j.rx # "closed",
         NEW k \in JobRecord, Grows(j.chan, k.chan, Failure), k.at = "finish",
         k.gate \notin {"pending", "delivered"}, j.gate # "pending" => k.gate = j.gate,
         k.sent = j.sent, k.seen = j.seen, k.rx = j.rx, k.cancel = j.cancel, k.phase = j.phase
  PROVE  JobOK(k)
  <1>1. Numbered(j) /\ Numbered(k)
    BY Zenon, FramesAreNumbered
  <1>2. /\ \A n \in DOMAIN j.chan : j.chan[n] # Failure
        /\ \A n \in DOMAIN j.seen : j.seen[n] # Failure
    BY Zenon DEF JobOK, FailureIsFinal
  <1>3. j.gate # "delivered"
    BY Zenon DEF JobOK
  <1>4. \A n \in DOMAIN j.seen : j.seen[n] = n /\ n <= j.sent
    BY Zenon, <1>2, <1>3 DEF JobOK, SeenInOrder
  <1>5. SeenInOrder(k)
    BY Zenon, <1>4 DEF SeenInOrder
  <1>6. ChanFollows(k)
    <2>1. \A n \in DOMAIN k.chan :
            (n \in DOMAIN j.chan /\ k.chan[n] = j.chan[n]) \/ n = Count(k.chan)
      BY <1>1 DEF Grows, Numbered
    <2>2. k.chan[Count(k.chan)] = Failure
      BY Zenon DEF Grows
    <2> QED
      BY Zenon, <1>2, <2>1, <2>2 DEF JobOK, ChanFollows
  <1>7. ChanEnds(k)
    BY Zenon, <1>4 DEF ChanEnds
  <1>8. SentArrives(k)
    BY Zenon DEF JobOK, SentArrives
  <1>9. FailureIsFinal(k)
    BY Zenon DEF FailureIsFinal
  <1>10. GateDecides(k)
    BY Zenon DEF JobOK, GateDecides
  <1> QED
    BY Zenon, <1>5, <1>6, <1>7, <1>8, <1>9, <1>10 DEF JobOK

(* The consumer takes a chunk.                                              *)
LEMMA ChunkIsTaken ==
  ASSUME NEW j \in JobRecord, JobOK(j), j.chan # <<>>, j.chan[1] \notin {Completion, Failure},
         NEW k \in JobRecord, Shrinks(j.chan, k.chan), Grows(j.seen, k.seen, j.chan[1]),
         k.at = j.at, k.gate = j.gate, k.sent = j.sent, k.rx = j.rx, k.cancel = j.cancel,
         k.phase = j.phase
  PROVE  JobOK(k)
  <1>1. Numbered(j) /\ Numbered(k)
    BY Zenon, FramesAreNumbered
  <1>2. /\ j.chan[1] = Count(j.seen) + 1 /\ Count(j.seen) + 1 <= j.sent
        /\ 1 \in DOMAIN j.chan
    <2>1. 1 \in DOMAIN j.chan
      BY <1>1 DEF Shrinks, Numbered
    <2> QED
      BY Zenon, <2>1 DEF JobOK, ChanFollows
  <1>3. \A n \in DOMAIN k.seen : k.seen[n] = n /\ n <= k.sent
    <2>1. \A n \in DOMAIN j.seen : j.seen[n] = n
      BY Zenon DEF JobOK, ChanEnds
    <2>2. \A n \in DOMAIN k.seen :
            (n \in DOMAIN j.seen /\ k.seen[n] = j.seen[n]) \/ n = Count(j.seen) + 1
      BY <1>1 DEF Grows, Numbered
    <2>3. k.seen[Count(j.seen) + 1] = j.chan[1]
      BY Zenon DEF Grows
    <2> QED
      BY <1>1, <1>2, <2>1, <2>2, <2>3 DEF Numbered
  <1>4. \A n \in DOMAIN k.chan : n + 1 \in DOMAIN j.chan /\ k.chan[n] = j.chan[n + 1] /\ n \in Int
    BY <1>1 DEF Shrinks, Numbered
  <1>5. Count(k.seen) = Count(j.seen) + 1 /\ Count(k.chan) = Count(j.chan) - 1
    BY Zenon DEF Grows, Shrinks
  <1>6. SeenInOrder(k)
    BY Zenon, <1>3 DEF SeenInOrder
  <1>7. ChanFollows(k)
    <2> SUFFICES ASSUME NEW n \in DOMAIN k.chan
                 PROVE  \/ k.chan[n] = Count(k.seen) + n /\ Count(k.seen) + n <= k.sent
                        \/ k.chan[n] = Completion /\ Count(k.seen) + n = Chunks + 1
                        \/ k.chan[n] = Failure /\ n = Count(k.chan)
      BY Zenon DEF ChanFollows
    <2>1. \/ j.chan[n + 1] = Count(j.seen) + (n + 1) /\ Count(j.seen) + (n + 1) <= j.sent
          \/ j.chan[n + 1] = Completion /\ Count(j.seen) + (n + 1) = Chunks + 1
          \/ j.chan[n + 1] = Failure /\ n + 1 = Count(j.chan)
      BY Zenon, <1>4 DEF JobOK, ChanFollows
    <2>2. n \in Int /\ Count(j.seen) \in Int /\ Count(j.chan) \in Int /\ k.chan[n] = j.chan[n + 1]
      BY <1>1, <1>4 DEF Numbered
    <2> QED
      BY <1>5, <2>1, <2>2
  <1>8. ChanEnds(k)
    BY Zenon, <1>3 DEF JobOK, ChanEnds
  <1>9. SentArrives(k)
    BY <1>1, <1>4, <1>5 DEF JobOK, SentArrives, Numbered
  <1>10. FailureIsFinal(k)
    BY <1>1, <1>3, <1>4 DEF JobOK, FailureIsFinal, Failure, Numbered
  <1>11. GateDecides(k)
    BY Zenon DEF JobOK, GateDecides
  <1> QED
    BY Zenon, <1>6, <1>7, <1>8, <1>9, <1>10, <1>11 DEF JobOK

(* Behind the completion there can only be one failure.                     *)
LEMMA BehindTheCompletion ==
  ASSUME NEW j \in JobRecord, JobOK(j), j.chan # <<>>, j.chan[1] = Completion
  PROVE  /\ Count(j.seen) = Chunks /\ j.at \notin {"start", "run"} /\ j.gate # "delivered"
         /\ \A n \in DOMAIN j.chan : n # 1 => j.chan[n] = Failure /\ n = Count(j.chan)
         /\ \A n \in DOMAIN j.seen : j.seen[n] = n
  <1>1. Numbered(j)
    BY Zenon, FramesAreNumbered
  <1>2. 1 \in DOMAIN j.chan
    BY <1>1 DEF Numbered
  <1>3. Count(j.seen) = Chunks
    BY <1>1, <1>2 DEF JobOK, ChanFollows, Completion, Failure, Numbered
  <1>4. j.at \notin {"start", "run"}
    BY <1>1, <1>2 DEF JobOK, SentArrives, Completion, Numbered
  <1>5. j.gate # "delivered" /\ \A n \in DOMAIN j.seen : j.seen[n] = n
    BY Zenon DEF JobOK, ChanEnds
  <1>6. ASSUME NEW n \in DOMAIN j.chan, n # 1 PROVE j.chan[n] = Failure /\ n = Count(j.chan)
    <2>1. n \in Int /\ n > 1
      BY <1>1, <1>6 DEF Numbered
    <2>2. j.sent <= Chunks /\ j.sent \in Int /\ Chunks \in Int
      BY <1>1 DEF JobOK, SentArrives, Numbered
    <2>3. \/ Count(j.seen) + n <= j.sent
          \/ Count(j.seen) + n = Chunks + 1
          \/ j.chan[n] = Failure /\ n = Count(j.chan)
      BY Zenon DEF JobOK, ChanFollows
    <2> QED
      BY <1>3, <2>1, <2>2, <2>3
  <1> QED
    BY Zenon, <1>3, <1>4, <1>5, <1>6

(* The consumer takes the completion in time: it is the last frame.         *)
LEMMA CompletionIsDelivered ==
  ASSUME NEW j \in JobRecord, JobOK(j), j.chan # <<>>, j.chan[1] = Completion,
         j.gate = "pending", ~j.cancel,
         NEW k \in JobRecord, Shrinks(j.chan, k.chan), Grows(j.seen, k.seen, Completion),
         k.gate = "delivered", k.at = j.at, k.sent = j.sent, k.rx = j.rx, k.cancel = j.cancel,
         k.phase = j.phase
  PROVE  JobOK(k)
  <1>1. Numbered(j) /\ Numbered(k)
    BY Zenon, FramesAreNumbered
  <1>2. /\ Count(j.seen) = Chunks /\ j.at \notin {"start", "run"}
        /\ \A n \in DOMAIN j.chan : n # 1 => j.chan[n] = Failure
        /\ \A n \in DOMAIN j.seen : j.seen[n] = n
    BY Zenon, BehindTheCompletion
  <1>3. \A n \in DOMAIN j.chan : j.chan[n] # Failure
    BY Zenon DEF JobOK, FailureIsFinal
  <1>4. Count(j.chan) = 1
    <2>1. Count(j.chan) \in Nat /\ Count(j.chan) # 0 /\ DOMAIN j.chan = 1 .. Count(j.chan)
      BY Zenon, <1>1 DEF Numbered
    <2>2. 2 \notin DOMAIN j.chan
      BY <1>2, <1>3
    <2> QED
      BY <2>1, <2>2
  <1>5. k.chan = <<>> /\ Count(k.chan) = 0 /\ DOMAIN k.chan = {}
    BY <1>1, <1>4 DEF Shrinks, Numbered
  <1>6. /\ Count(k.seen) = Chunks + 1 /\ k.seen[Chunks + 1] = Completion
        /\ \A n \in DOMAIN k.seen : n # Chunks + 1 => n \in DOMAIN j.seen /\ k.seen[n] = n
    BY <1>1, <1>2 DEF Grows, Numbered
  <1>7. SeenInOrder(k)
    <2>1. \A n \in DOMAIN j.seen : n <= j.sent
      BY <1>1, <1>2 DEF JobOK, SeenInOrder, Failure, Completion, Numbered
    <2> QED
      BY Zenon, <1>6, <2>1 DEF SeenInOrder
  <1>8. ChanFollows(k)
    BY Zenon, <1>5 DEF ChanFollows
  <1>9. ChanEnds(k)
    BY Zenon, <1>5, <1>6 DEF ChanEnds
  <1>10. SentArrives(k)
    BY Zenon, <1>2, <1>5 DEF JobOK, SentArrives
  <1>11. FailureIsFinal(k)
    BY <1>1, <1>5, <1>6 DEF FailureIsFinal, Failure, Completion, Numbered
  <1>12. GateDecides(k)
    <2>1. j.at \notin {"finish", "over"} /\ j.phase \notin Terminal
      BY Zenon DEF JobOK, GateDecides
    <2> QED
      BY Zenon, <2>1 DEF GateDecides
  <1> QED
    BY Zenon, <1>7, <1>8, <1>9, <1>10, <1>11, <1>12 DEF JobOK

(* The consumer takes the completion too late: it is dropped.               *)
LEMMA CompletionIsDropped ==
  ASSUME NEW j \in JobRecord, JobOK(j), j.chan # <<>>, j.chan[1] = Completion,
         NEW k \in JobRecord, Shrinks(j.chan, k.chan), k.seen = j.seen,
         k.gate \notin {"pending", "delivered"}, j.gate # "pending" => k.gate = j.gate,
         k.at = j.at, k.sent = j.sent, k.rx = j.rx, k.cancel = j.cancel, k.phase = j.phase
  PROVE  JobOK(k)
  <1>1. Numbered(j) /\ Numbered(k)
    BY Zenon, FramesAreNumbered
  <1>2. /\ j.at \notin {"start", "run"}
        /\ \A n \in DOMAIN j.chan : n # 1 => j.chan[n] = Failure /\ n = Count(j.chan)
        /\ \A n \in DOMAIN j.seen : j.seen[n] = n
    BY Zenon, BehindTheCompletion
  <1>3. Count(k.chan) = Count(j.chan) - 1
    BY Zenon DEF Shrinks
  <1>4. \A n \in DOMAIN k.chan : n + 1 \in DOMAIN j.chan /\ k.chan[n] = j.chan[n + 1] /\ n \in Nat \ {0}
    BY <1>1 DEF Shrinks, Numbered
  <1>5. \A n \in DOMAIN k.chan : k.chan[n] = Failure /\ n = Count(k.chan)
    <2> TAKE n \in DOMAIN k.chan
    <2>1. n \in Nat \ {0} /\ Count(j.chan) \in Nat
      BY Zenon, <1>1, <1>4 DEF Numbered
    <2>2. n + 1 # 1
      BY <2>1
    <2>3. j.chan[n + 1] = Failure /\ n + 1 = Count(j.chan)
      BY Zenon, <1>2, <1>4, <2>2
    <2> QED
      BY <1>3, <1>4, <2>1, <2>3
  <1>6. SeenInOrder(k)
    <2>1. \A n \in DOMAIN j.seen : n <= j.sent
      BY <1>1, <1>2 DEF JobOK, SeenInOrder, Failure, Completion, Numbered
    <2> QED
      BY Zenon, <1>2, <2>1 DEF SeenInOrder
  <1>7. ChanFollows(k)
    BY Zenon, <1>5 DEF ChanFollows
  <1>8. ChanEnds(k)
    BY Zenon, <1>2 DEF JobOK, ChanEnds
  <1>9. SentArrives(k)
    BY Zenon, <1>2 DEF JobOK, SentArrives
  <1>10. FailureIsFinal(k)
    BY Zenon, <1>4 DEF JobOK, FailureIsFinal
  <1>11. GateDecides(k)
    BY Zenon DEF JobOK, GateDecides
  <1> QED
    BY Zenon, <1>6, <1>7, <1>8, <1>9, <1>10, <1>11 DEF JobOK

(* The consumer takes a failure: it is the last frame.                      *)
LEMMA FailureIsTaken ==
  ASSUME NEW j \in JobRecord, JobOK(j), j.chan # <<>>, j.chan[1] = Failure,
         NEW k \in JobRecord, Shrinks(j.chan, k.chan), Grows(j.seen, k.seen, Failure),
         k.gate = j.gate, k.at = j.at, k.sent = j.sent, k.rx = j.rx, k.cancel = j.cancel,
         k.phase = j.phase
  PROVE  JobOK(k)
  <1>1. Numbered(j) /\ Numbered(k)
    BY Zenon, FramesAreNumbered
  <1>2. 1 \in DOMAIN j.chan
    BY <1>1 DEF Numbered
  <1>3. j.gate \notin {"pending", "delivered"} /\ j.at \in {"finish", "over"}
    BY Zenon, <1>2 DEF JobOK, FailureIsFinal
  <1>4. Count(j.chan) = 1
    BY <1>1, <1>2 DEF JobOK, ChanFollows, Failure, Completion, Numbered
  <1>5. k.chan = <<>> /\ Count(k.chan) = 0 /\ DOMAIN k.chan = {}
    BY <1>1, <1>4 DEF Shrinks, Numbered
  <1>6. /\ Count(k.seen) = Count(j.seen) + 1 /\ k.seen[Count(k.seen)] = Failure
        /\ \A n \in DOMAIN k.seen :
             n # Count(k.seen) => n \in DOMAIN j.seen /\ k.seen[n] = j.seen[n]
    BY <1>1 DEF Grows, Numbered
  <1>7. SeenInOrder(k)
    <2>1. \A n \in DOMAIN j.seen : j.seen[n] = n
      BY Zenon DEF JobOK, ChanEnds
    <2>2. \A n \in DOMAIN j.seen : n <= j.sent
      BY <1>1, <2>1 DEF JobOK, SeenInOrder, Failure, Completion, Numbered
    <2> QED
      BY Zenon, <1>6, <2>1, <2>2 DEF SeenInOrder
  <1>8. ChanFollows(k)
    BY Zenon, <1>5 DEF ChanFollows
  <1>9. ChanEnds(k)
    BY Zenon, <1>3, <1>5 DEF ChanEnds
  <1>10. SentArrives(k)
    BY Zenon, <1>3, <1>5 DEF JobOK, SentArrives
  <1>11. FailureIsFinal(k)
    BY Zenon, <1>3 DEF FailureIsFinal
  <1>12. GateDecides(k)
    BY Zenon DEF JobOK, GateDecides
  <1> QED
    BY Zenon, <1>7, <1>8, <1>9, <1>10, <1>11, <1>12 DEF JobOK

(* The consumer disconnects, and a completion in the channel is lost.       *)
LEMMA FramesAreDropped ==
  ASSUME NEW j \in JobRecord, JobOK(j), NEW k \in JobRecord, k.chan = <<>>, k.rx = "closed",
         j.gate # "pending" => k.gate = j.gate, j.gate = "pending" => k.gate # "delivered",
         k.cancel => k.gate = "cancelled",
         k.seen = j.seen, k.at = j.at, k.sent = j.sent, k.phase = j.phase
  PROVE  JobOK(k)
  <1>1. Numbered(j) /\ Numbered(k)
    BY Zenon, FramesAreNumbered
  <1>2. DOMAIN k.chan = {}
    BY <1>1 DEF Numbered
  <1>3. SeenInOrder(k)
    BY Zenon DEF JobOK, SeenInOrder
  <1>4. ChanFollows(k) /\ SentArrives(k)
    BY Zenon, <1>2 DEF JobOK, ChanFollows, SentArrives
  <1>5. ChanEnds(k)
    BY Zenon DEF JobOK, ChanEnds
  <1>6. FailureIsFinal(k)
    BY Zenon, <1>2 DEF JobOK, FailureIsFinal
  <1>7. GateDecides(k)
    BY Zenon DEF JobOK, GateDecides
  <1> QED
    BY Zenon, <1>3, <1>4, <1>5, <1>6, <1>7 DEF JobOK

(* A job that just started.                                                 *)
LEMMA NewJobIsOK ==
  ASSUME NEW e \in Events, NEW f \in Prints, started \in Nat
  PROVE  NewJob(e, f) \in JobRecord /\ JobOK(NewJob(e, f))
  <1> DEFINE j == NewJob(e, f)
  <1>1. <<>> \in Seq(Int)
    OBVIOUS
  <1>2. j \in JobRecord
    BY Zenon, <1>1 DEF NewJob, JobRecord, Gates, Terminal
  <1>3. /\ j.chan = <<>> /\ j.seen = <<>> /\ j.sent = 0 /\ j.gate = "pending" /\ ~j.cancel
        /\ j.at = "start" /\ j.phase = "running" /\ j.rx = "record"
    BY Zenon DEF NewJob
  <1>4. Chunks \in Nat /\ Count(<<>>) = 0 /\ DOMAIN <<>> = {}
    BY JobsAssumption DEF Count
  <1> HIDE DEF j
  <1>5. SeenInOrder(j) /\ ChanFollows(j) /\ ChanEnds(j) /\ FailureIsFinal(j)
    BY Zenon, <1>3, <1>4 DEF SeenInOrder, ChanFollows, ChanEnds, FailureIsFinal
  <1>6. SentArrives(j)
    BY <1>3, <1>4 DEF SentArrives
  <1>7. GateDecides(j)
    BY Zenon, <1>3 DEF GateDecides, Terminal
  <1> QED
    BY Zenon, <1>2, <1>5, <1>6, <1>7 DEF JobOK, j

-----------------------------------------------------------------------------
(* The actions.                                                             *)

(* A step that leaves the frames and the place in the registry alone, and   *)
(* does not move the job backwards.                                         *)
Quiet(j, k) ==
  /\ k.seen = j.seen /\ k.chan = j.chan /\ k.sent = j.sent
  /\ k.rx = "closed" <=> j.rx = "closed"
  /\ k.event = j.event /\ k.kept = j.kept
  /\ j.gate # "pending" => k.gate = j.gate
  /\ j.gate = "pending" => k.gate # "delivered"
  /\ j.at \in {"finish", "over"} => k.at \in {"finish", "over"}
  /\ k.at \in {"start", "run"} => j.at \in {"start", "run"}
  /\ k.at # "over" => j.at # "over"

(* A quiet step of one job keeps JobsInv.                                   *)
LEMMA QuietStep ==
  ASSUME JobsInv, NEW i \in Live, NEW k \in JobRecord, job' = [job EXCEPT ![i] = k],
         Quiet(job[i], k), GateDecides(k), byEvent' = byEvent, started' = started
  PROVE  JobsInv'
  <1>1. job[i] \in JobRecord /\ JobOK(job[i])
    BY Zenon, LiveIsRecord DEF JobsInv
  <1>2. JobOK(k)
    BY Zenon, <1>1, SameFrames DEF Quiet
  <1> QED
    BY Zenon, <1>2, OneJobSteps DEF Quiet

(* The worker goes on to fail.                                              *)
LEMMA FailingKeepsInv ==
  ASSUME JobsInv, NEW i \in Live, job[i].at \in {"start", "run"},
         job' = [job EXCEPT ![i].at = "failing"], byEvent' = byEvent, started' = started
  PROVE  JobsInv'
  <1> DEFINE j == job[i]
             k == [j EXCEPT !.at = "failing"]
  <1>1. j \in JobRecord /\ JobOK(j)
    BY Zenon, LiveIsRecord DEF JobsInv
  <1>2. k \in JobRecord /\ job' = [job EXCEPT ![i] = k]
    BY Zenon, <1>1 DEF JobRecord
  <1>3. /\ Quiet(j, k) /\ k.at = "failing" /\ k.gate = j.gate /\ k.cancel = j.cancel
        /\ k.phase = j.phase
    BY Zenon, <1>1 DEF Quiet, JobRecord
  <1> HIDE DEF k
  <1>4. GateDecides(k)
    BY Zenon, <1>1, <1>3 DEF JobOK, GateDecides
  <1> QED
    BY Zenon, <1>2, <1>3, <1>4, QuietStep

(* A job begins to run.                                                     *)
LEMMA BeginsKeepsInv == ASSUME JobsInv, NEW i \in JobIds, JobBegins(i) PROVE JobsInv'
  <1> DEFINE j == job[i]
             k == [j EXCEPT !.at = "run"]
  <1>1. i \in Live /\ byEvent' = byEvent /\ started' = started /\ j.at = "start"
    BY Zenon DEF JobBegins
  <1>2. j \in JobRecord /\ JobOK(j)
    BY Zenon, <1>1, LiveIsRecord DEF JobsInv
  <1>3. CASE j.cancel \/ j.past
    BY Zenon, <1>1, <1>3, FailingKeepsInv DEF JobBegins
  <1>4. CASE ~(j.cancel \/ j.past)
    <2>1. k \in JobRecord /\ job' = [job EXCEPT ![i] = k]
      BY Zenon, <1>2, <1>4 DEF JobRecord, JobBegins
    <2>2. /\ Quiet(j, k) /\ k.at = "run" /\ k.gate = j.gate /\ k.cancel = j.cancel
          /\ k.phase = j.phase
      BY Zenon, <1>1, <1>2 DEF Quiet, JobRecord
    <2> HIDE DEF k
    <2>3. GateDecides(k)
      BY Zenon, <1>1, <1>2, <2>2 DEF JobOK, GateDecides
    <2> QED
      BY Zenon, <1>1, <2>1, <2>2, <2>3, QuietStep
  <1> QED
    BY Zenon, <1>3, <1>4

(* A job sends a chunk.                                                     *)
LEMMA ChunkKeepsInv == ASSUME JobsInv, NEW i \in JobIds, SendChunk(i) PROVE JobsInv'
  <1> DEFINE j == job[i]
             k == [j EXCEPT !.chan = Append(j.chan, j.sent + 1), !.sent = j.sent + 1]
  <1>1. /\ i \in Live /\ byEvent' = byEvent /\ started' = started /\ j.at = "run"
        /\ j.sent < Chunks
    BY Zenon DEF SendChunk
  <1>2. j \in JobRecord /\ JobOK(j) /\ j.chan \in Seq(Int) /\ j.sent \in Nat
    BY Zenon, <1>1, LiveIsRecord DEF JobsInv, JobRecord
  <1>3. CASE job' = [job EXCEPT ![i].at = "failing"]
    BY Zenon, <1>1, <1>3, FailingKeepsInv
  <1>4. CASE /\ Active(i)
             /\ job' = [job EXCEPT ![i].chan = Append(@, job[i].sent + 1), ![i].sent = @ + 1]
    <2>1. Append(j.chan, j.sent + 1) \in Seq(Int) /\ Grows(j.chan, Append(j.chan, j.sent + 1), j.sent + 1)
      BY <1>2, Appended
    <2>2. job' = [job EXCEPT ![i] = k] /\ k \in JobRecord
      <3>1. job' = [job EXCEPT ![i] = k]
        BY Zenon, <1>4
      <3>2. j.sent + 1 \in Nat
        BY <1>2
      <3> QED
        BY Zenon, <1>2, <2>1, <3>1, <3>2 DEF JobRecord
    <2>3. /\ Grows(j.chan, k.chan, j.sent + 1) /\ k.sent = j.sent + 1 /\ k.seen = j.seen
          /\ k.gate = j.gate /\ k.at = j.at /\ k.rx = j.rx /\ k.cancel = j.cancel
          /\ k.phase = j.phase /\ k.event = j.event /\ k.kept = j.kept
      BY Zenon, <1>2, <2>1 DEF JobRecord
    <2>4. j.rx # "closed"
      BY Zenon, <1>4 DEF Active
    <2> HIDE DEF k
    <2>5. JobOK(k)
      BY Zenon, <1>1, <1>2, <2>2, <2>3, <2>4, ChunkIsSent
    <2> QED
      BY Zenon, <1>1, <2>2, <2>3, <2>5, OneJobSteps
  <1> QED
    BY Zenon, <1>3, <1>4 DEF SendChunk

(* A job sends its completion and waits for the delivery.                   *)
LEMMA CompletionKeepsInv == ASSUME JobsInv, NEW i \in JobIds, SendCompletion(i) PROVE JobsInv'
  <1> DEFINE j == job[i]
             k == [j EXCEPT !.chan = Append(j.chan, Completion), !.at = "await"]
  <1>1. /\ i \in Live /\ byEvent' = byEvent /\ started' = started /\ j.at = "run"
        /\ j.sent = Chunks
    BY Zenon DEF SendCompletion
  <1>2. j \in JobRecord /\ JobOK(j) /\ j.chan \in Seq(Int) /\ Completion \in Int
    BY <1>1, LiveIsRecord DEF JobsInv, JobRecord, Completion
  <1>3. CASE job' = [job EXCEPT ![i].at = "failing"]
    BY Zenon, <1>1, <1>3, FailingKeepsInv
  <1>4. CASE /\ Active(i)
             /\ job' = [job EXCEPT ![i].chan = Append(@, Completion), ![i].at = "await"]
    <2>1. Append(j.chan, Completion) \in Seq(Int) /\ Grows(j.chan, Append(j.chan, Completion), Completion)
      BY Zenon, <1>2, Appended
    <2>2. job' = [job EXCEPT ![i] = k] /\ k \in JobRecord
      BY Zenon, <1>1, <1>2, <1>4, <2>1 DEF JobRecord
    <2>3. /\ Grows(j.chan, k.chan, Completion) /\ k.sent = j.sent /\ k.seen = j.seen
          /\ k.gate = j.gate /\ k.at = "await" /\ k.rx = j.rx /\ k.cancel = j.cancel
          /\ k.phase = j.phase /\ k.event = j.event /\ k.kept = j.kept
      BY Zenon, <1>2, <2>1 DEF JobRecord
    <2>4. j.rx # "closed"
      BY Zenon, <1>4 DEF Active
    <2> HIDE DEF k
    <2>5. JobOK(k)
      BY Zenon, <1>1, <1>2, <2>2, <2>3, <2>4, CompletionIsSent
    <2> QED
      BY Zenon, <1>1, <2>2, <2>3, <2>5, OneJobSteps
  <1> QED
    BY Zenon, <1>3, <1>4 DEF SendCompletion

(* A job learns whether its completion was delivered.                       *)
LEMMA AwaitKeepsInv == ASSUME JobsInv, NEW i \in JobIds, AwaitDelivery(i) PROVE JobsInv'
  <1> DEFINE j == job[i]
             g == DeliveryStatus(i)
             k == [j EXCEPT !.gate = g, !.at = IF g = "delivered" THEN "finish" ELSE "failing",
                            !.want = IF g = "delivered" THEN "completed" ELSE j.want]
  <1>1. i \in Live /\ byEvent' = byEvent /\ started' = started /\ j.at = "await" /\ g # "pending"
    BY Zenon DEF AwaitDelivery
  <1>2. j \in JobRecord /\ JobOK(j)
    BY Zenon, <1>1, LiveIsRecord DEF JobsInv
  <1>3. /\ g \in Gates
        /\ j.gate # "pending" => g = j.gate
        /\ j.gate = "pending" => g # "delivered"
        /\ j.cancel => g = "cancelled"
    BY Zenon, <1>2 DEF DeliveryStatus, Gates, JobRecord, JobOK, GateDecides
  <1>4. job' = [job EXCEPT ![i] = k]
    BY Zenon DEF AwaitDelivery
  <1> HIDE DEF g
  <1>5. k \in JobRecord
    BY Zenon, <1>2, <1>3 DEF JobRecord, Terminal
  <1>6. /\ Quiet(j, k) /\ k.at \in {"finish", "failing"} /\ k.gate = g /\ k.cancel = j.cancel
        /\ k.phase = j.phase
    BY Zenon, <1>1, <1>2, <1>3 DEF Quiet, JobRecord
  <1> HIDE DEF k
  <1>7. GateDecides(k)
    BY Zenon, <1>1, <1>2, <1>3, <1>6 DEF JobOK, GateDecides
  <1> QED
    BY Zenon, <1>1, <1>4, <1>5, <1>6, <1>7, QuietStep

(* What a terminal gate can be.                                             *)
LEMMA Resolved ==
  ASSUME JobsInv, NEW i \in Live, NEW want \in Terminal
  PROVE  LET g == ResolveTerminal(i, want) IN
         /\ g \in Gates \ {"pending"}
         /\ job[i].gate # "pending" => g = job[i].gate
         /\ job[i].gate = "pending" => g # "delivered"
         /\ job[i].cancel => g = "cancelled"
         /\ PhaseOf(g) \in Terminal
  <1>1. job[i] \in JobRecord /\ JobOK(job[i])
    BY Zenon, LiveIsRecord DEF JobsInv
  <1>2. job[i].gate \in Gates /\ (job[i].cancel => job[i].gate = "cancelled")
    BY Zenon, <1>1 DEF JobRecord, JobOK, GateDecides
  <1>3. want = "completed" \/ want = "failed" \/ want = "cancelled"
    BY Zenon DEF Terminal
  <1> DEFINE g == ResolveTerminal(i, want)
  <1>4. /\ g \in Gates \ {"pending"}
        /\ job[i].gate # "pending" => g = job[i].gate
        /\ job[i].gate = "pending" => g # "delivered"
    BY Zenon, <1>2, <1>3 DEF ResolveTerminal, Gates
  <1> HIDE DEF g
  <1>5. PhaseOf(g) \in Terminal
    BY Zenon DEF PhaseOf, Terminal
  <1> QED
    BY Zenon, <1>2, <1>4, <1>5 DEF g

(* A job that failed decides its gate and tells the consumer.               *)
LEMMA CommitKeepsInv == ASSUME JobsInv, NEW i \in JobIds, CommitFailure(i) PROVE JobsInv'
  <1> DEFINE j == job[i]
             g == ResolveTerminal(i, "failed")
             tells == g # "delivered" /\ j.rx # "closed" /\ Len(j.chan) < Depth
             c == IF tells THEN Append(j.chan, Failure) ELSE j.chan
             k == [j EXCEPT !.gate = g, !.want = PhaseOf(g), !.at = "finish", !.chan = c]
  <1>1. i \in Live /\ byEvent' = byEvent /\ started' = started /\ j.at = "failing"
    BY Zenon DEF CommitFailure
  <1>2. j \in JobRecord /\ JobOK(j) /\ j.chan \in Seq(Int) /\ Failure \in Int
    BY <1>1, LiveIsRecord DEF JobsInv, JobRecord, Failure
  <1>3. /\ g \in Gates \ {"pending"}
        /\ j.gate # "pending" => g = j.gate
        /\ j.gate = "pending" => g # "delivered"
        /\ j.cancel => g = "cancelled"
        /\ PhaseOf(g) \in Terminal
    BY Zenon, <1>1, Resolved DEF Terminal
  <1>4. job' = [job EXCEPT ![i] = k]
    BY Zenon DEF CommitFailure
  <1>5. c \in Seq(Int) /\ (tells => Grows(j.chan, c, Failure)) /\ (~tells => c = j.chan)
    BY Zenon, <1>2, Appended
  <1> HIDE DEF g, c
  <1>6. k \in JobRecord
    BY Zenon, <1>2, <1>3, <1>5 DEF JobRecord
  <1>7. /\ k.gate = g /\ k.at = "finish" /\ k.chan = c /\ k.seen = j.seen /\ k.sent = j.sent
        /\ k.rx = j.rx /\ k.cancel = j.cancel /\ k.phase = j.phase
        /\ k.event = j.event /\ k.kept = j.kept
    BY Zenon, <1>2 DEF JobRecord
  <1> HIDE DEF k
  <1>8. CASE tells
    <2>1. JobOK(k)
      BY Zenon, <1>1, <1>2, <1>3, <1>5, <1>6, <1>7, <1>8, FailureIsTold
    <2> QED
      BY Zenon, <1>1, <1>4, <1>6, <1>7, <2>1, OneJobSteps
  <1>9. CASE ~tells
    <2>1. Quiet(j, k)
      BY Zenon, <1>1, <1>3, <1>5, <1>7, <1>9 DEF Quiet
    <2>2. GateDecides(k)
      BY Zenon, <1>1, <1>2, <1>3, <1>7 DEF JobOK, GateDecides
    <2> QED
      BY Zenon, <1>1, <1>4, <1>6, <2>1, <2>2, QuietStep
  <1> QED
    BY Zenon, <1>8, <1>9

(* A job ends with what its gate decided.                                   *)
LEMMA FinishKeepsInv == ASSUME JobsInv, NEW i \in JobIds, FinishJob(i) PROVE JobsInv'
  <1> DEFINE j == job[i]
             g == ResolveTerminal(i, j.want)
             k == [j EXCEPT !.gate = g, !.phase = PhaseOf(g), !.at = "over"]
  <1>1. i \in Live /\ byEvent' = byEvent /\ started' = started /\ j.at = "finish"
    BY Zenon DEF FinishJob
  <1>2. j \in JobRecord /\ JobOK(j) /\ j.want \in Terminal
    BY Zenon, <1>1, LiveIsRecord DEF JobsInv, JobRecord
  <1>3. /\ g \in Gates \ {"pending"}
        /\ j.gate # "pending" => g = j.gate
        /\ j.gate = "pending" => g # "delivered"
        /\ j.cancel => g = "cancelled"
        /\ PhaseOf(g) \in Terminal
    BY Zenon, <1>1, <1>2, Resolved
  <1>4. job' = [job EXCEPT ![i] = k]
    BY Zenon DEF FinishJob
  <1> HIDE DEF g
  <1>5. k \in JobRecord
    BY Zenon, <1>2, <1>3 DEF JobRecord
  <1>6. /\ Quiet(j, k) /\ k.at = "over" /\ k.gate = g /\ k.cancel = j.cancel
        /\ k.phase = PhaseOf(g)
    BY Zenon, <1>1, <1>2, <1>3 DEF Quiet, JobRecord
  <1> HIDE DEF k
  <1>7. GateDecides(k)
    BY Zenon, <1>3, <1>6 DEF GateDecides
  <1> QED
    BY Zenon, <1>1, <1>4, <1>5, <1>6, <1>7, QuietStep

(* The deadline of a job passes.                                            *)
LEMMA ExpiresKeepsInv == ASSUME JobsInv, NEW i \in JobIds, JobExpires(i) PROVE JobsInv'
  <1> DEFINE j == job[i]
             k == [j EXCEPT !.past = TRUE]
  <1>1. i \in Live /\ byEvent' = byEvent /\ started' = started
    BY Zenon DEF JobExpires
  <1>2. j \in JobRecord /\ JobOK(j)
    BY Zenon, <1>1, LiveIsRecord DEF JobsInv
  <1>3. job' = [job EXCEPT ![i] = k] /\ k \in JobRecord
    BY Zenon, <1>2 DEF JobExpires, JobRecord
  <1>4. /\ Quiet(j, k) /\ k.at = j.at /\ k.gate = j.gate /\ k.cancel = j.cancel
        /\ k.phase = j.phase
    BY Zenon, <1>2 DEF Quiet, JobRecord
  <1> HIDE DEF k
  <1>5. GateDecides(k)
    BY Zenon, <1>2, <1>4 DEF JobOK, GateDecides
  <1> QED
    BY Zenon, <1>1, <1>3, <1>4, <1>5, QuietStep

(* A client takes the stream of a job.                                      *)
LEMMA TakeKeepsInv == ASSUME JobsInv, NEW i \in JobIds, TakeStream(i) PROVE JobsInv'
  <1> DEFINE j == job[i]
             k == [j EXCEPT !.rx = "client"]
  <1>1. i \in Live /\ byEvent' = byEvent /\ started' = started /\ j.rx = "record"
    BY Zenon DEF TakeStream, Kept
  <1>2. j \in JobRecord /\ JobOK(j)
    BY Zenon, <1>1, LiveIsRecord DEF JobsInv
  <1>3. job' = [job EXCEPT ![i] = k] /\ k \in JobRecord
    BY Zenon, <1>2 DEF TakeStream, JobRecord
  <1>4. /\ Quiet(j, k) /\ k.at = j.at /\ k.gate = j.gate /\ k.cancel = j.cancel
        /\ k.phase = j.phase
    BY Zenon, <1>1, <1>2 DEF Quiet, JobRecord
  <1> HIDE DEF k
  <1>5. GateDecides(k)
    BY Zenon, <1>2, <1>4 DEF JobOK, GateDecides
  <1> QED
    BY Zenon, <1>1, <1>3, <1>4, <1>5, QuietStep

(* A client reads a frame.                                                  *)
LEMMA IntoBytesKeepsInv == ASSUME JobsInv, NEW i \in JobIds, IntoBytes(i) PROVE JobsInv'
  <1> DEFINE j == job[i]
             x == Head(j.chan)
             g == IF x = Completion THEN Deliver(i) ELSE j.gate
             drops == x = Completion /\ ~(j.gate = "pending" /\ g = "delivered")
             c == Tail(j.chan)
             s == IF drops THEN j.seen ELSE Append(j.seen, x)
             k == [j EXCEPT !.chan = c, !.gate = g, !.seen = s]
  <1>1. i \in Live /\ byEvent' = byEvent /\ started' = started /\ j.chan # <<>>
    BY Zenon DEF IntoBytes
  <1>2. j \in JobRecord /\ JobOK(j) /\ j.chan \in Seq(Int) /\ j.seen \in Seq(Int)
    BY Zenon, <1>1, LiveIsRecord DEF JobsInv, JobRecord
  <1>3. job' = [job EXCEPT ![i] = k]
    BY Zenon DEF IntoBytes
  <1>4. c \in Seq(Int) /\ Shrinks(j.chan, c) /\ x = j.chan[1] /\ x \in Int
    BY Zenon, <1>1, <1>2, Taken
  <1>5. /\ g \in Gates
        /\ x # Completion => g = j.gate
        /\ j.gate # "pending" => g = j.gate
        /\ x = Completion => g # "pending"
        /\ j.gate = "pending" /\ g = "delivered" => ~j.cancel
    BY Zenon, <1>2 DEF Deliver, Gates, JobRecord
  <1> HIDE DEF c, x, g
  <1>6. s \in Seq(Int) /\ (drops => s = j.seen) /\ (~drops => Grows(j.seen, s, x))
    BY Zenon, <1>2, <1>4, Appended
  <1> HIDE DEF s
  <1>7. k \in JobRecord
    BY Zenon, <1>2, <1>4, <1>5, <1>6 DEF JobRecord
  <1>8. /\ k.gate = g /\ k.at = j.at /\ k.chan = c /\ k.seen = s /\ k.sent = j.sent
        /\ k.rx = j.rx /\ k.cancel = j.cancel /\ k.phase = j.phase
        /\ k.event = j.event /\ k.kept = j.kept
    BY Zenon, <1>2 DEF JobRecord
  <1> HIDE DEF k
  <1>9. JobOK(k)
    <2>1. CASE x \notin {Completion, Failure}
      BY Zenon, <1>1, <1>2, <1>4, <1>5, <1>6, <1>7, <1>8, <2>1, ChunkIsTaken
    <2>2. CASE x = Failure
      <3>1. x # Completion
        BY <2>2 DEF Failure, Completion
      <3> QED
        BY Zenon, <1>1, <1>2, <1>4, <1>5, <1>6, <1>7, <1>8, <2>2, <3>1, FailureIsTaken
    <2>3. CASE x = Completion /\ j.gate = "pending" /\ g = "delivered"
      BY Zenon, <1>1, <1>2, <1>4, <1>5, <1>6, <1>7, <1>8, <2>3, CompletionIsDelivered
    <2>4. CASE x = Completion /\ ~(j.gate = "pending" /\ g = "delivered")
      <3>1. j.gate # "delivered"
        BY Zenon, <1>1, <1>2, <1>4, <2>4, BehindTheCompletion
      <3> QED
        BY Zenon, <1>1, <1>2, <1>4, <1>5, <1>6, <1>7, <1>8, <2>4, <3>1, CompletionIsDropped
    <2> QED
      BY Zenon, <2>1, <2>2, <2>3, <2>4
  <1> QED
    BY Zenon, <1>1, <1>3, <1>7, <1>8, <1>9, OneJobSteps

(* A client leaves: a completion it did not read is withdrawn.              *)
LEMMA DisconnectKeepsInv == ASSUME JobsInv, NEW i \in JobIds, Disconnect(i) PROVE JobsInv'
  <1> DEFINE j == job[i]
             g == IF Completion \in Range(j.chan) THEN Invalidate(i) ELSE j.gate
             k == [j EXCEPT !.rx = "closed", !.chan = <<>>, !.gate = g]
  <1>1. i \in Live /\ byEvent' = byEvent /\ started' = started
    BY Zenon DEF Disconnect
  <1>2. j \in JobRecord /\ JobOK(j) /\ <<>> \in Seq(Int)
    BY <1>1, LiveIsRecord DEF JobsInv
  <1>3. job' = [job EXCEPT ![i] = k]
    BY Zenon DEF Disconnect
  <1>4. /\ g \in Gates
        /\ j.gate # "pending" => g = j.gate
        /\ j.gate = "pending" => g # "delivered"
        /\ j.cancel => g = "cancelled"
    BY Zenon, <1>2 DEF Invalidate, Gates, JobRecord, JobOK, GateDecides
  <1> HIDE DEF g
  <1>5. k \in JobRecord
    BY Zenon, <1>2, <1>4 DEF JobRecord
  <1>6. /\ k.gate = g /\ k.at = j.at /\ k.chan = <<>> /\ k.seen = j.seen /\ k.sent = j.sent
        /\ k.rx = "closed" /\ k.cancel = j.cancel /\ k.phase = j.phase
        /\ k.event = j.event /\ k.kept = j.kept
    BY Zenon, <1>2 DEF JobRecord
  <1> HIDE DEF k
  <1>7. JobOK(k)
    BY Zenon, <1>2, <1>4, <1>5, <1>6, FramesAreDropped
  <1> QED
    BY Zenon, <1>1, <1>3, <1>5, <1>6, <1>7, OneJobSteps

(* A cancellation that is asked for decides a gate that was open.           *)
LEMMA CancelIsQuiet ==
  ASSUME JobsInv, NEW i \in Live
  PROVE  /\ RequestCancel(i) \in JobRecord /\ Quiet(job[i], RequestCancel(i))
         /\ GateDecides(RequestCancel(i)) /\ RequestCancel(i).at = job[i].at
  <1> DEFINE j == job[i]
             k == RequestCancel(i)
  <1>1. j \in JobRecord /\ JobOK(j)
    BY Zenon, LiveIsRecord DEF JobsInv
  <1>2. k \in JobRecord /\ k.at = j.at
    BY Zenon, <1>1 DEF RequestCancel, JobRecord, Gates
  <1>3. Quiet(j, k)
    BY Zenon, <1>1 DEF RequestCancel, JobRecord, Quiet
  <1>4. /\ k.at = j.at /\ k.phase = j.phase /\ (k.cancel => j.cancel \/ k.gate = "cancelled")
        /\ (j.gate # "pending" => k.gate = j.gate) /\ (j.cancel => k.gate = "cancelled")
        /\ (j.gate = "pending" => k.gate # "pending")
    BY Zenon, <1>1 DEF RequestCancel, JobRecord, JobOK, GateDecides
  <1> HIDE DEF k
  <1>5. GateDecides(k)
    BY Zenon, <1>1, <1>4 DEF JobOK, GateDecides
  <1> QED
    BY Zenon, <1>2, <1>3, <1>5 DEF k

(* The shutdown cancels every running job.                                  *)
LEMMA CancelAllKeepsInv == ASSUME JobsInv, CancelAll PROVE JobsInv'
  <1>1. /\ job' = [i \in JobIds |-> IF i \in Kept /\ Running(i) THEN RequestCancel(i) ELSE job[i]]
        /\ byEvent' = byEvent /\ started' = started
    BY Zenon DEF CancelAll
  <1>2. Live \subseteq JobIds /\ Kept \subseteq Live
    BY Zenon DEF Live, Kept
  <1>3. \A n \in Live : /\ job[n] \in JobRecord /\ JobOK(job[n])
                        /\ RequestCancel(n) \in JobRecord /\ Quiet(job[n], RequestCancel(n))
                        /\ GateDecides(RequestCancel(n)) /\ RequestCancel(n).at = job[n].at
    BY Zenon, LiveIsRecord, CancelIsQuiet DEF JobsInv
  <1>4. \A n \in Live : JobOK(RequestCancel(n))
    <2> TAKE n \in Live
    <2> DEFINE k == RequestCancel(n)
    <2>1. job[n] \in JobRecord /\ JobOK(job[n]) /\ k \in JobRecord /\ Quiet(job[n], k) /\ GateDecides(k)
      BY Zenon, <1>3
    <2> HIDE DEF k
    <2>2. JobOK(k)
      BY Zenon, <2>1, SameFrames DEF Quiet
    <2> QED
      BY Zenon, <2>2 DEF k
  <1>5. \A n \in JobIds : job'[n] = job[n] \/ (n \in Live /\ job'[n] = RequestCancel(n))
    BY Zenon, <1>1, <1>2
  <1>6. JobsTypeOK'
    BY Zenon, <1>1, <1>2, <1>3 DEF JobsInv, JobsTypeOK
  <1>7. \A n \in Live : RequestCancel(n).at # "unused"
    BY Zenon, <1>3 DEF JobRecord
  <1>8. Live' = Live
    BY Zenon, <1>5, <1>7 DEF Live
  <1>9. \A n \in Live : /\ job'[n].event = job[n].event /\ job'[n].kept = job[n].kept
                        /\ job'[n].at # "over" => job[n].at # "over"
                        /\ JobOK(job'[n])
    BY <1>2, <1>3, <1>4, <1>5 DEF Quiet
  <1> QED
    BY Zenon, <1>1, <1>6, <1>8, <1>9, JobsStep

(* DELETE: a running job is cancelled, another one leaves the registry and  *)
(* its event with it.                                                       *)
LEMMA DeleteKeepsInv == ASSUME JobsInv, NEW i \in JobIds, Delete(i) PROVE JobsInv'
  <1> DEFINE j == job[i]
  <1>1. i \in Live /\ i \in Kept /\ started' = started
    BY Zenon DEF Delete, Kept
  <1>2. j \in JobRecord /\ JobOK(j) /\ j.event \in Events /\ j.kept
    BY Zenon, <1>1, LiveIsRecord DEF JobsInv, JobRecord, Kept
  <1>3. CASE Running(i)
    <2>1. job' = [job EXCEPT ![i] = RequestCancel(i)] /\ byEvent' = byEvent
      BY Zenon, <1>3 DEF Delete
    <2> QED
      BY Zenon, <1>1, <2>1, CancelIsQuiet, QuietStep
  <1>4. CASE ~Running(i)
    <2> DEFINE k == [j EXCEPT !.kept = FALSE]
    <2>1. /\ job' = [job EXCEPT ![i] = k]
          /\ byEvent' = [byEvent EXCEPT ![j.event] = IF @ = i THEN Nobody ELSE @]
      BY Zenon, <1>4 DEF Delete
    <2>2. /\ k \in JobRecord /\ ~k.kept /\ k.event = j.event /\ k.at = j.at /\ k.seen = j.seen
          /\ k.chan = j.chan /\ k.sent = j.sent /\ k.rx = j.rx /\ k.gate = j.gate
          /\ k.cancel = j.cancel /\ k.phase = j.phase
      BY Zenon, <1>2 DEF JobRecord
    <2> HIDE DEF k
    <2>3. JobOK(k)
      <3>1. GateDecides(k)
        BY Zenon, <1>2, <2>2 DEF JobOK, GateDecides
      <3>2. j.gate = "pending" => k.gate # "delivered"
        BY Zenon, <2>2
      <3> QED
        BY Zenon, <1>2, <2>2, <3>1, <3>2, SameFrames
    <2>4. byEvent[j.event] = i
      BY Zenon, <1>1 DEF JobsInv, EventNamesItsJob
    <2>5. byEvent' = [byEvent EXCEPT ![j.event] = Nobody]
      BY Zenon, <2>1, <2>4
    <2>6. JobsTypeOK'
      BY Zenon, <1>1, <1>2, <2>1, <2>2, <2>5 DEF JobsInv, JobsTypeOK
    <2>7. job'[i] = k /\ \A n \in JobIds : n # i => job'[n] = job[n]
      BY Zenon, <2>1 DEF JobsInv, JobsTypeOK
    <2>8. k.at # "unused"
      BY Zenon, <2>2 DEF JobRecord
    <2>9. Live' = Live
      BY Zenon, <1>1, <2>7, <2>8 DEF Live
    <2>10. Kept' = Kept \ {i} /\ Kept \subseteq JobIds
      BY Zenon, <2>2, <2>7, <2>9 DEF Kept, Live
    <2>11. \A n \in Live' : JobOK(job'[n])
      BY Zenon, <2>3, <2>7, <2>9 DEF JobsInv, Live
    <2>12. {n \in Live : HoldsSlot(n)}' = {n \in Live : HoldsSlot(n)}
      BY Zenon, <2>2, <2>7, <2>9 DEF HoldsSlot, Live
    <2>13. Cardinality(Kept') <= Retained
      <3>1. IsFiniteSet(Kept)
        BY Zenon, <2>10, JobsAssumption, FS_Subset
      <3>2. Cardinality(Kept') = Cardinality(Kept) - 1 /\ Cardinality(Kept) \in Nat
        BY Zenon, <1>1, <2>10, <3>1, FS_RemoveElement, FS_CardinalityType
      <3> QED
        BY <3>2, JobsAssumption DEF JobsInv, EventNamesItsJob
    <2>14. \A e \in Events : byEvent'[e] # Nobody =>
              byEvent'[e] \in Kept' /\ job'[byEvent'[e]].event = e
      BY Zenon, <1>2, <2>5, <2>7, <2>10 DEF JobsInv, JobsTypeOK, EventNamesItsJob
    <2>15. \A n \in Kept' : byEvent'[job'[n].event] = n
      <3> TAKE n \in Kept'
      <3>1. n \in Kept /\ n # i /\ job'[n] = job[n] /\ n \in Live
        BY Zenon, <2>7, <2>10 DEF Kept
      <3>2. byEvent[job[n].event] = n /\ job[n].event \in Events
        BY Zenon, <3>1, LiveIsRecord DEF JobsInv, EventNamesItsJob, JobRecord
      <3> QED
        BY Zenon, <2>4, <2>5, <3>1, <3>2 DEF JobsInv, JobsTypeOK
    <2>16. EventNamesItsJob'
      BY Zenon, <2>12, <2>13, <2>14, <2>15 DEF JobsInv, EventNamesItsJob
    <2> QED
      BY Zenon, <2>6, <2>11, <2>16 DEF JobsInv
  <1> QED
    BY Zenon, <1>3, <1>4

(* A job to prune is the oldest of those that ended.                        *)
LEMMA OldestIsThere ==
  ASSUME JobsTypeOK, NEW S, S \subseteq Live, S # {}
  PROVE  Oldest(S) \in S
  <1> DEFINE R == OpToRel(<, Nat)
             T == {job[n].sequence : n \in S}
  <1>1. IsWellFoundedOn(R, Nat)
    BY Zenon, NatLessThanWellFounded
  <1>2. \A x, y \in Nat : y < x => <<y, x>> \in R
    BY Zenon DEF OpToRel
  <1>3. \A n \in S : job[n].sequence \in Nat
    BY Zenon, LiveIsRecord DEF JobRecord
  <1>4. T \subseteq Nat /\ T # {}
    BY Zenon, <1>3
  <1> HIDE DEF R
  <1>5. PICK x \in T : \A y \in T : ~ (<<y, x>> \in R)
    BY Zenon, <1>1, <1>4, WFMin
  <1>6. PICK i \in S : x = job[i].sequence
    BY Zenon
  <1>7. ASSUME NEW n \in S PROVE job[i].sequence <= job[n].sequence
    <2>1. job[n].sequence \in T
      BY Zenon
    <2>2. ~ (job[n].sequence < x)
      BY Zenon, <1>2, <1>4, <1>5, <2>1
    <2> QED
      BY <1>3, <1>6, <2>2
  <1> QED
    BY Zenon, <1>7 DEF Oldest

(* A new job takes a slot and a place in the registry; the job it pushes    *)
(* out leaves with its event.                                               *)
LEMMA StartKeepsInv ==
  ASSUME JobsInv, NEW e \in Events, NEW f \in Prints, Start(e, f)
  PROVE  JobsInv'
  <1> DEFINE P == Pruned
             H == {n \in Live : HoldsSlot(n)}
  <1>1. PICK i \in JobIds :
          /\ job[i] = Absent
          /\ job' = [k \in JobIds |-> IF k = i THEN NewJob(e, f)
                                      ELSE IF k \in P THEN [job[k] EXCEPT !.kept = FALSE]
                                      ELSE job[k]]
          /\ byEvent' = [PrunedEvents(P) EXCEPT ![e] = i]
    BY Zenon DEF Start
  <1>2. /\ byEvent[e] = Nobody /\ Cardinality(H) < JobSlots /\ HasRoom /\ started' = started + 1
    BY Zenon DEF Start
  <1>3. /\ i \notin Live /\ Live \subseteq JobIds /\ Kept \subseteq Live /\ Ended \subseteq Kept
        /\ i \in Nat /\ i # Nobody
    BY <1>1, JobsAssumption DEF Live, Kept, Ended, Absent, Nobody
  <1>4. IsFiniteSet(Kept) /\ IsFiniteSet(H) /\ Cardinality(Kept) \in Nat /\ Cardinality(H) \in Nat
    <2>1. IsFiniteSet(Kept) /\ IsFiniteSet(H)
      BY Zenon, <1>3, JobsAssumption, FS_Subset
    <2> QED
      BY Zenon, <2>1, FS_CardinalityType
  <1>5. P \subseteq Kept /\ Cardinality(Kept \ P) < Retained
    <2>1. CASE Cardinality(Kept) < Retained
      <3>1. P = {} /\ Kept \ P = Kept
        BY Zenon, <2>1 DEF Pruned
      <3> QED
        BY Zenon, <2>1, <3>1
    <2>2. CASE ~(Cardinality(Kept) < Retained)
      <3>1. Ended # {} /\ Ended \subseteq Live /\ P = {Oldest(Ended)}
        BY Zenon, <1>2, <1>3, <2>2 DEF HasRoom, Pruned
      <3>2. Oldest(Ended) \in Kept
        BY Zenon, <1>3, <3>1, OldestIsThere DEF JobsInv
      <3>3. Cardinality(Kept \ P) = Cardinality(Kept) - 1
        BY Zenon, <1>4, <3>1, <3>2, FS_RemoveElement
      <3>4. Cardinality(Kept) <= Retained /\ Retained \in Nat
        BY Zenon, JobsAssumption DEF JobsInv, EventNamesItsJob
      <3> QED
        BY <1>4, <3>1, <3>2, <3>3, <3>4
    <2> QED
      BY Zenon, <2>1, <2>2
  <1>6. NewJob(e, f) \in JobRecord /\ JobOK(NewJob(e, f))
    BY Zenon, NewJobIsOK DEF JobsInv, JobsTypeOK
  <1>7. NewJob(e, f).event = e /\ NewJob(e, f).kept /\ NewJob(e, f).at = "start"
    BY Zenon DEF NewJob
  <1> HIDE DEF P
  <1>8. \A n \in Live : job[n] \in JobRecord /\ JobOK(job[n])
    BY Zenon, LiveIsRecord DEF JobsInv
  <1>9. /\ job'[i] = NewJob(e, f)
        /\ \A n \in JobIds \ {i} : /\ n \in P => job'[n] = [job[n] EXCEPT !.kept = FALSE]
                                   /\ n \notin P => job'[n] = job[n]
    BY Zenon, <1>1
  <1>10. ASSUME NEW n \in P
         PROVE  LET j == job[n] k == job'[n] IN
                /\ n \in Live /\ n \in JobIds /\ n # i
                /\ k \in JobRecord /\ ~k.kept /\ k.event = j.event /\ k.at = j.at /\ JobOK(k)
    <2> DEFINE j == job[n]
               k == [j EXCEPT !.kept = FALSE]
    <2>1. n \in Live /\ n \in JobIds /\ n # i /\ job'[n] = k
      BY Zenon, <1>3, <1>5, <1>9
    <2>2. j \in JobRecord /\ JobOK(j)
      BY Zenon, <1>8, <2>1
    <2>3. /\ k \in JobRecord /\ ~k.kept /\ k.event = j.event /\ k.at = j.at /\ k.seen = j.seen
          /\ k.chan = j.chan /\ k.sent = j.sent /\ k.rx = j.rx /\ k.gate = j.gate
          /\ k.cancel = j.cancel /\ k.phase = j.phase
      BY Zenon, <2>2 DEF JobRecord
    <2> HIDE DEF k
    <2>4. GateDecides(k)
      BY Zenon, <2>2, <2>3 DEF JobOK, GateDecides
    <2>5. j.gate = "pending" => k.gate # "delivered"
      BY Zenon, <2>3
    <2>6. JobOK(k)
      BY Zenon, <2>2, <2>3, <2>4, <2>5, SameFrames
    <2> QED
      BY Zenon, <2>1, <2>3, <2>6
  <1>11. JobsTypeOK'
    <2>1. \A n \in JobIds : job'[n] \in JobRecord \cup {Absent}
      BY Zenon, <1>6, <1>9, <1>10 DEF JobsInv, JobsTypeOK
    <2>2. job' \in [JobIds -> JobRecord \cup {Absent}]
      BY Zenon, <1>1, <2>1
    <2>3. byEvent' \in [Events -> JobIds \cup {Nobody}]
      BY Zenon, <1>1 DEF JobsInv, JobsTypeOK, PrunedEvents
    <2> QED
      BY <1>2, <2>2, <2>3 DEF JobsInv, JobsTypeOK
  <1>12. Live' = Live \cup {i}
    BY Zenon, <1>3, <1>7, <1>9, <1>10 DEF Live
  <1>13. Kept' = (Kept \ P) \cup {i}
    <2>1. ASSUME NEW n \in Live PROVE n \in Kept' <=> n \in Kept \ P
      <3>1. n # i /\ n \in JobIds
        BY Zenon, <1>3
      <3>2. CASE n \in P
        BY Zenon, <1>10, <1>12, <3>2 DEF Kept
      <3>3. CASE n \notin P
        BY Zenon, <1>9, <1>12, <3>1, <3>3 DEF Kept
      <3> QED
        BY Zenon, <3>2, <3>3
    <2>2. i \in Kept'
      BY Zenon, <1>7, <1>9, <1>12 DEF Kept
    <2>3. Kept' \subseteq Live \cup {i}
      BY Zenon, <1>12 DEF Kept
    <2> QED
      BY Zenon, <1>3, <2>1, <2>2, <2>3
  <1>14. \A n \in Live' : JobOK(job'[n])
    BY Zenon, <1>3, <1>6, <1>8, <1>9, <1>10, <1>12
  <1>15. Cardinality(Kept') <= Retained
    <2>1. IsFiniteSet(Kept \ P) /\ i \notin Kept \ P
      BY Zenon, <1>3, <1>4, FS_Subset
    <2>2. Cardinality(Kept') = Cardinality(Kept \ P) + 1 /\ Cardinality(Kept \ P) \in Nat
      BY Zenon, <1>13, <2>1, FS_AddElement, FS_CardinalityType
    <2> QED
      BY <1>5, <2>2, JobsAssumption
  <1>16. Cardinality(H') <= JobSlots
    <2>1. H' \subseteq H \cup {i}
      BY Zenon, <1>3, <1>9, <1>10, <1>12 DEF HoldsSlot
    <2>2. i \notin H
      BY Zenon, <1>3
    <2> HIDE DEF H
    <2>3. IsFiniteSet(H \cup {i}) /\ Cardinality(H \cup {i}) = Cardinality(H) + 1
      BY Zenon, <1>4, <2>2, FS_AddElement
    <2>4. Cardinality(H') <= Cardinality(H \cup {i}) /\ Cardinality(H') \in Nat
      BY Zenon, <2>1, <2>3, FS_Subset, FS_CardinalityType
    <2> QED
      BY <1>2, <1>4, <2>3, <2>4, JobsAssumption
  <1>17. \A n \in Kept : n \in Live /\ n # i /\ job[n].event \in Events /\ byEvent[job[n].event] = n
    BY Zenon, <1>3, <1>8 DEF JobsInv, EventNamesItsJob, JobRecord
  <1>18. /\ byEvent'[e] = i
         /\ \A d \in Events \ {e} : byEvent'[d] = IF \E n \in P : job[n].event = d THEN Nobody
                                                  ELSE byEvent[d]
    BY Zenon, <1>1 DEF PrunedEvents
  <1>19. \A d \in Events : byEvent'[d] # Nobody => byEvent'[d] \in Kept' /\ job'[byEvent'[d]].event = d
    <2> TAKE d \in Events
    <2>1. CASE d = e
      BY Zenon, <1>7, <1>9, <1>13, <1>18, <2>1
    <2>2. CASE d # e /\ byEvent'[d] # Nobody
      <3> DEFINE m == byEvent[d]
      <3>1. byEvent'[d] = m /\ m # Nobody /\ \A n \in P : job[n].event # d
        BY Zenon, <1>18, <2>2
      <3>2. m \in Kept /\ job[m].event = d
        BY Zenon, <3>1 DEF JobsInv, EventNamesItsJob
      <3>3. m \notin P /\ job'[m] = job[m]
        BY Zenon, <1>3, <1>9, <1>17, <3>1, <3>2
      <3> QED
        BY Zenon, <1>13, <3>1, <3>2, <3>3
    <2> QED
      BY Zenon, <2>1, <2>2
  <1>20. \A n \in Kept' : byEvent'[job'[n].event] = n
    <2> TAKE n \in Kept'
    <2>1. CASE n = i
      BY Zenon, <1>7, <1>9, <1>18, <2>1
    <2>2. CASE n \in Kept \ P
      <3>1. job'[n] = job[n] /\ n # Nobody
        BY Zenon, <1>3, <1>9, <1>17, <2>2, JobsAssumption DEF Nobody
      <3>2. job[n].event # e
        BY Zenon, <1>2, <1>17, <2>2, <3>1
      <3>3. \A p \in P : job[p].event # job[n].event
        BY <1>5, <1>17, <2>2
      <3> QED
        BY <1>17, <1>18, <2>2, <3>1, <3>2, <3>3
    <2> QED
      BY Zenon, <1>13, <2>1, <2>2
  <1>21. EventNamesItsJob'
    BY Zenon, <1>15, <1>16, <1>19, <1>20 DEF EventNamesItsJob
  <1> QED
    BY Zenon, <1>11, <1>14, <1>21 DEF JobsInv

-----------------------------------------------------------------------------
(* JobsInv holds at the start.                                              *)
LEMMA JobsInitially == ASSUME JobsInit PROVE JobsInv
  <1>1. Live = {}
    BY Zenon DEF JobsInit, Live, Absent
  <1>2. JobsTypeOK
    BY Zenon DEF JobsInit, JobsTypeOK
  <1>3. Kept = {} /\ {i \in Live : HoldsSlot(i)} = {}
    BY Zenon, <1>1 DEF Kept
  <1>4. Cardinality({}) = 0
    BY Zenon, FS_EmptySet
  <1>5. \A e \in Events : byEvent[e] = Nobody
    BY Zenon DEF JobsInit
  <1>6. EventNamesItsJob
    BY <1>3, <1>4, <1>5, JobsAssumption DEF EventNamesItsJob
  <1> QED
    BY Zenon, <1>1, <1>2, <1>6 DEF JobsInv

(* Every step keeps JobsInv.                                                *)
LEMMA JobsStepKeepsInv == ASSUME JobsInv, [JobsNext]_jobVars PROVE JobsInv'
  <1>1. CASE JobsNext
    <2>1. CASE \E e \in Events, f \in Prints : Start(e, f)
      BY Zenon, <2>1, StartKeepsInv
    <2>2. CASE CancelAll
      BY Zenon, <2>2, CancelAllKeepsInv
    <2>3. CASE \E i \in JobIds :
                 \/ Delete(i) \/ JobExpires(i) \/ WorkerSteps(i) \/ MatchFails(i)
                 \/ TakeStream(i) \/ IntoBytes(i) \/ Disconnect(i)
      <3>1. PICK i \in JobIds :
                 \/ Delete(i) \/ JobExpires(i) \/ WorkerSteps(i) \/ MatchFails(i)
                 \/ TakeStream(i) \/ IntoBytes(i) \/ Disconnect(i)
        BY Zenon, <2>3
      <3>2. CASE Delete(i)
        BY Zenon, <3>2, DeleteKeepsInv
      <3>3. CASE JobExpires(i)
        BY Zenon, <3>3, ExpiresKeepsInv
      <3>4. CASE WorkerSteps(i)
        BY Zenon, <3>4, BeginsKeepsInv, ChunkKeepsInv, CompletionKeepsInv, AwaitKeepsInv,
           CommitKeepsInv, FinishKeepsInv DEF WorkerSteps
      <3>5. CASE MatchFails(i)
        BY Zenon, <3>5, FailingKeepsInv DEF MatchFails
      <3>6. CASE TakeStream(i)
        BY Zenon, <3>6, TakeKeepsInv
      <3>7. CASE IntoBytes(i)
        BY Zenon, <3>7, IntoBytesKeepsInv
      <3>8. CASE Disconnect(i)
        BY Zenon, <3>8, DisconnectKeepsInv
      <3> QED
        BY Zenon, <3>1, <3>2, <3>3, <3>4, <3>5, <3>6, <3>7, <3>8
    <2> QED
      BY Zenon, <1>1, <2>1, <2>2, <2>3 DEF JobsNext
  <1>2. CASE UNCHANGED jobVars
    <2>1. job' = job /\ byEvent' = byEvent /\ started' = started
      BY Zenon, <1>2 DEF jobVars
    <2>2. Live' = Live /\ Kept' = Kept
      BY Zenon, <2>1 DEF Live, Kept
    <2> QED
      BY Zenon, <2>1, <2>2 DEF JobsInv, JobsTypeOK, EventNamesItsJob, HoldsSlot
  <1> QED
    BY Zenon, <1>1, <1>2

(* The invariant says what a client is told.                                *)
LEMMA JobsInvTells == ASSUME JobsInv PROVE JobsTellWhatHappened
  <1> SUFFICES ASSUME NEW i \in Live
               PROVE  LET got == job[i].seen
                          whole == Len(got) = Chunks + 1 /\ got[Chunks + 1] = Completion
                      IN
                      /\ \A n \in 1..Len(got) : n <= Chunks /\ got[n] # Failure => got[n] = n
                      /\ Completion \in Range(got) => whole
                      /\ job[i].phase \in Terminal =>
                           /\ job[i].phase = "completed" <=> whole
                           /\ job[i].cancel => job[i].phase = "cancelled"
    BY Zenon DEF JobsTellWhatHappened, OutcomeIsWhatWasDelivered, JobsInv
  <1> DEFINE j == job[i]
             got == j.seen
             whole == Count(got) = Chunks + 1 /\ got[Chunks + 1] = Completion
  <1>1. j \in JobRecord /\ JobOK(j)
    BY Zenon, LiveIsRecord DEF JobsInv
  <1>2. Numbered(j)
    BY Zenon, <1>1, FramesAreNumbered
  <1>3. SeenInOrder(j) /\ ChanEnds(j) /\ GateDecides(j) /\ Chunks \in Nat
    BY Zenon, <1>1, <1>2 DEF JobOK, Numbered
  <1>4. \A n \in 1 .. Count(got) : n <= Chunks /\ got[n] # Failure => got[n] = n
    BY <1>2, <1>3 DEF SeenInOrder, Numbered
  <1>5. \A n \in DOMAIN got : got[n] = Completion => whole /\ j.gate = "delivered"
    <2> TAKE n \in DOMAIN got
    <2>1. n \in 1 .. Count(got) /\ Count(got) \in Nat
      BY Zenon, <1>2 DEF Numbered
    <2> QED
      BY <1>3, <2>1 DEF SeenInOrder, Completion, Failure
  <1>6. Completion \in Range(got) => whole
    BY Zenon, <1>5 DEF Range
  <1>7. j.gate = "delivered" <=> whole
    <2>1. whole => Chunks + 1 \in DOMAIN got
      BY <1>2 DEF Numbered
    <2> QED
      BY Zenon, <1>3, <1>5, <2>1 DEF ChanEnds
  <1>8. j.phase \in Terminal => /\ j.phase = "completed" <=> j.gate = "delivered"
                                /\ j.cancel => j.phase = "cancelled"
    BY Zenon, <1>3 DEF GateDecides, PhaseOf
  <1> QED
    BY Zenon, <1>4, <1>6, <1>7, <1>8 DEF Count

(* What the registry publishes of an exhaustive job is what its consumer    *)
(* got (start, finish, commit_failure, into_bytes and the delivery gate     *)
(* they share), and the event index names exactly the retained jobs, within *)
(* their bounds: for any number of jobs, chunks and places in the channel.  *)
THEOREM JobsTell == JobsSpec => []JobsTellWhatHappened
  <1>1. JobsInit => JobsInv
    BY Zenon, JobsInitially
  <1>2. JobsInv /\ [JobsNext]_jobVars => JobsInv'
    BY Zenon, JobsStepKeepsInv
  <1>3. JobsInv => JobsTellWhatHappened
    BY Zenon, JobsInvTells
  <1> QED
    BY <1>1, <1>2, <1>3, PTL DEF JobsSpec
=============================================================================
