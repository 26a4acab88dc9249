--------------------------- MODULE ExhaustiveJobs ---------------------------
(***************************************************************************)
(* Exhaustive jobs of the HTTP server: a request starts a job that streams *)
(* every match in chunks, over a bounded channel, to exactly one consumer. *)
(* The job's outcome is decided at a gate shared by its worker, the        *)
(* consumer that takes the completion frame off the channel, DELETE        *)
(* requests, shutdown and the deadline; the registry keeps a bounded       *)
(* number of jobs and reuses the job of a repeated event.                  *)
(***************************************************************************)
EXTENDS Integers, FiniteSets, Sequences, Functions

CONSTANTS JobIds,        \* job identities, one per job ever started
          Events,        \* client event ids
          Prints,        \* request fingerprints
          JobSlots,      \* concurrent jobs
          Retained,      \* max_retained
          Chunks,        \* chunks of one exhaustive answer
          Depth          \* channel_depth

ASSUME JobsAssumption ==
  /\ JobIds \subseteq Nat \ {0} /\ IsFiniteSet(JobIds)
  /\ {JobSlots, Retained, Chunks, Depth} \subseteq Nat

VARIABLES job,        \* every job started so far
          byEvent,    \* the registry's event index
          started     \* next_sequence

jobVars == <<job, byEvent, started>>

Nobody == 0

(* A frame is a chunk number, or one of these.                              *)
Completion == 0
Failure == -1

Terminal == {"completed", "failed", "cancelled"}
Absent == [at |-> "unused"]

Live == {i \in JobIds : job[i].at # "unused"}
Kept == {i \in Live : job[i].kept}
Running(i) == job[i].phase = "running"
HoldsSlot(i) == job[i].at # "over"

JobsInit ==
  /\ job = [i \in JobIds |-> Absent]
  /\ byEvent = [e \in Events |-> Nobody]
  /\ started = 0

(* prune_for_capacity: the oldest finished jobs make room, together with    *)
(* their event index entries.                                               *)
Oldest(ids) == CHOOSE i \in ids : \A k \in ids : job[i].sequence <= job[k].sequence
Ended == {i \in Kept : job[i].phase \in Terminal}
HasRoom == Cardinality(Kept) < Retained \/ Ended # {}
Pruned == IF Cardinality(Kept) < Retained THEN {} ELSE {Oldest(Ended)}
PrunedEvents(ids) ==
  [e \in Events |-> IF \E i \in ids : job[i].event = e THEN Nobody ELSE byEvent[e]]

NewJob(e, f) ==
  [at |-> "start", event |-> e, print |-> f, sequence |-> started, kept |-> TRUE,
   phase |-> "running", gate |-> "pending", cancel |-> FALSE, past |-> FALSE,
   chan |-> <<>>, rx |-> "record", sent |-> 0, seen |-> <<>>, want |-> "failed"]

(* start: a repeated event reuses the retained job, a different request     *)
(* under the same event is refused (both change nothing); otherwise the job *)
(* needs a slot and a place in the registry.                                *)
Start(e, f) ==
  /\ byEvent[e] = Nobody
  /\ Cardinality({i \in Live : HoldsSlot(i)}) < JobSlots /\ HasRoom
  /\ \E i \in JobIds :
       /\ job[i] = Absent
       /\ \A k \in JobIds : job[k] = Absent => i <= k
       /\ job' = [k \in JobIds |-> IF k = i THEN NewJob(e, f)
                                   ELSE IF k \in Pruned THEN [job[k] EXCEPT !.kept = FALSE]
                                   ELSE job[k]]
       /\ byEvent' = [PrunedEvents(Pruned) EXCEPT ![e] = i]
  /\ started' = started + 1

\* Mutant: the frame counts as delivered when it is taken.
DeliverAnyway(i) == "delivered"

(* The gate.  Whoever comes first decides; a deadline that has passed is    *)
(* noticed by whoever comes next.                                           *)
Deliver(i) ==
  IF job[i].gate # "pending" THEN job[i].gate
  ELSE IF job[i].cancel THEN "cancelled"
  ELSE IF job[i].past THEN "deadline" ELSE "delivered"

Invalidate(i) ==
  IF job[i].gate # "pending" THEN job[i].gate
  ELSE IF job[i].cancel THEN "cancelled"
  ELSE IF job[i].past THEN "deadline" ELSE "not_consumed"

\* Mutant: a completion that nobody takes is awaited past the deadline.
DeliveryStatusPatient(i) ==
  IF job[i].gate # "pending" THEN job[i].gate
  ELSE IF job[i].cancel THEN "cancelled"
  ELSE IF job[i].rx = "closed" THEN "not_consumed" ELSE "pending"

DeliveryStatus(i) ==
  IF job[i].gate # "pending" THEN job[i].gate
  ELSE IF job[i].cancel THEN "cancelled"
  ELSE IF job[i].past THEN "deadline"
  ELSE IF job[i].rx = "closed" THEN "not_consumed" ELSE "pending"

ResolveTerminal(i, requested) ==
  IF job[i].gate # "pending" THEN job[i].gate
  ELSE IF job[i].past THEN "deadline"
  ELSE CASE requested = "completed" -> "not_consumed"
         [] requested = "cancelled" -> "cancelled"
         [] requested = "failed" -> "execution_failed"

PhaseOf(gate) ==
  CASE gate = "delivered" -> "completed"
    [] gate = "cancelled" -> "cancelled"
    [] OTHER -> "failed"

(* request_cancel, from DELETE of a running job or from shutdown.           *)
RequestCancel(i) ==
  IF job[i].gate # "pending" THEN job[i]
  ELSE IF job[i].past THEN [job[i] EXCEPT !.gate = "deadline"]
  ELSE [job[i] EXCEPT !.gate = "cancelled", !.cancel = TRUE]

Delete(i) ==
  /\ i \in Kept
  /\ IF Running(i)
     THEN job' = [job EXCEPT ![i] = RequestCancel(i)] /\ UNCHANGED byEvent
     ELSE /\ job' = [job EXCEPT ![i].kept = FALSE]
          /\ byEvent' = [byEvent EXCEPT ![job[i].event] = IF @ = i THEN Nobody ELSE @]
  /\ UNCHANGED started

CancelAll ==
  /\ \E i \in Kept : Running(i)
  /\ job' = [i \in JobIds |-> IF i \in Kept /\ Running(i) THEN RequestCancel(i) ELSE job[i]]
  /\ UNCHANGED <<byEvent, started>>

JobExpires(i) ==
  /\ i \in Live /\ ~job[i].past /\ job[i].at # "over"
  /\ job' = [job EXCEPT ![i].past = TRUE]
  /\ UNCHANGED <<byEvent, started>>

(* check_active, consulted before every frame and while the channel is      *)
(* full.                                                                    *)
Active(i) == ~job[i].cancel /\ ~job[i].past /\ job[i].rx # "closed"

JobBegins(i) ==
  /\ i \in Live /\ job[i].at = "start"
  /\ job' = [job EXCEPT ![i].at = IF job[i].cancel \/ job[i].past THEN "failing" ELSE "run"]
  /\ UNCHANGED <<byEvent, started>>

(* One chunk of the answer, in order; while the channel is full the worker  *)
(* polls, and stops when the job is no longer active.  The match itself may *)
(* fail.                                                                    *)
SendChunk(i) ==
  /\ i \in Live /\ job[i].at = "run" /\ job[i].sent < Chunks
  /\ \/ /\ Active(i) /\ Len(job[i].chan) < Depth
        /\ job' = [job EXCEPT ![i].chan = Append(@, job[i].sent + 1), ![i].sent = @ + 1]
     \/ /\ ~Active(i)
        /\ job' = [job EXCEPT ![i].at = "failing"]
  /\ UNCHANGED <<byEvent, started>>

MatchFails(i) ==
  /\ i \in Live /\ job[i].at = "run" /\ job[i].sent < Chunks
  /\ job' = [job EXCEPT ![i].at = "failing"]
  /\ UNCHANGED <<byEvent, started>>

(* The completion frame follows the last chunk, and the worker waits until  *)
(* somebody has decided what became of it.                                  *)
SendCompletion(i) ==
  /\ i \in Live /\ job[i].at = "run" /\ job[i].sent = Chunks
  /\ \/ /\ Active(i) /\ Len(job[i].chan) < Depth
        /\ job' = [job EXCEPT ![i].chan = Append(@, Completion), ![i].at = "await"]
     \/ /\ ~Active(i)
        /\ job' = [job EXCEPT ![i].at = "failing"]
  /\ UNCHANGED <<byEvent, started>>

AwaitDelivery(i) ==
  /\ i \in Live /\ job[i].at = "await" /\ DeliveryStatus(i) # "pending"
  /\ job' = [job EXCEPT
       ![i].gate = DeliveryStatus(i),
       ![i].at = IF DeliveryStatus(i) = "delivered" THEN "finish" ELSE "failing",
       ![i].want = IF DeliveryStatus(i) = "delivered" THEN "completed" ELSE @]
  /\ UNCHANGED <<byEvent, started>>

(* commit_failure decides, then tells the consumer if there is room.        *)
CommitFailure(i) ==
  LET gate == ResolveTerminal(i, "failed")
      tells == gate # "delivered" /\ job[i].rx # "closed" /\ Len(job[i].chan) < Depth
  IN
  /\ i \in Live /\ job[i].at = "failing"
  /\ job' = [job EXCEPT
       ![i].gate = gate, ![i].want = PhaseOf(gate), ![i].at = "finish",
       ![i].chan = IF tells THEN Append(@, Failure) ELSE @]
  /\ UNCHANGED <<byEvent, started>>

(* finish publishes the phase and returns the slot.                         *)
FinishJob(i) ==
  LET gate == ResolveTerminal(i, job[i].want) IN
  /\ i \in Live /\ job[i].at = "finish"
  /\ job' = [job EXCEPT ![i].gate = gate, ![i].phase = PhaseOf(gate), ![i].at = "over"]
  /\ UNCHANGED <<byEvent, started>>

(* The one consumer claims the stream, takes frames, or disconnects: the    *)
(* frames it leaves behind are dropped, the completion frame with them.     *)
TakeStream(i) ==
  /\ i \in Kept /\ job[i].rx = "record"
  /\ job' = [job EXCEPT ![i].rx = "client"]
  /\ UNCHANGED <<byEvent, started>>

IntoBytes(i) ==
  LET frame == Head(job[i].chan)
      gate == IF frame = Completion THEN Deliver(i) ELSE job[i].gate
  IN
  /\ i \in Live /\ job[i].rx = "client" /\ job[i].chan # <<>>
  /\ job' = [job EXCEPT
       ![i].chan = Tail(@), ![i].gate = gate,
       ![i].seen = IF frame = Completion /\ ~(job[i].gate = "pending" /\ gate = "delivered")
                   THEN @ ELSE Append(@, frame)]
  /\ UNCHANGED <<byEvent, started>>

Disconnect(i) ==
  /\ i \in Live /\ job[i].rx = "client"
  /\ job' = [job EXCEPT
       ![i].rx = "closed", ![i].chan = <<>>,
       ![i].gate = IF Completion \in Range(job[i].chan) THEN Invalidate(i) ELSE @]
  /\ UNCHANGED <<byEvent, started>>

WorkerSteps(i) ==
  \/ JobBegins(i) \/ SendChunk(i) \/ SendCompletion(i) \/ AwaitDelivery(i)
  \/ CommitFailure(i) \/ FinishJob(i)

JobsNext ==
  \/ \E e \in Events, f \in Prints : Start(e, f)
  \/ CancelAll
  \/ \E i \in JobIds :
       \/ Delete(i) \/ JobExpires(i) \/ WorkerSteps(i) \/ MatchFails(i)
       \/ TakeStream(i) \/ IntoBytes(i) \/ Disconnect(i)

(* The pool runs every worker on, and time passes.                          *)
JobsFairness ==
  \A i \in JobIds : WF_jobVars(WorkerSteps(i)) /\ WF_jobVars(JobExpires(i))

JobsSpec == JobsInit /\ [][JobsNext]_jobVars /\ JobsFairness

-----------------------------------------------------------------------------
(* What the registry publishes is what the consumer got: a job is completed *)
(* exactly when the completion frame left the channel in time, after every  *)
(* chunk in order; a cancellation that was accepted ends in "cancelled";    *)
(* and a stream that saw the completion never sees a failure frame.         *)
OutcomeIsWhatWasDelivered ==
  \A i \in Live :
    LET got == job[i].seen
        whole == Len(got) = Chunks + 1 /\ got[Chunks + 1] = Completion
    IN
    /\ \A n \in 1..Len(got) : n <= Chunks /\ got[n] # Failure => got[n] = n
    /\ Completion \in Range(got) => whole
    /\ job[i].phase \in Terminal =>
         /\ job[i].phase = "completed" <=> whole
         /\ job[i].cancel => job[i].phase = "cancelled"

(* The event index never dangles (start's "event index must reference a     *)
(* retained job"), is unique, and retention and slots stay within bounds.   *)
EventNamesItsJob ==
  /\ \A e \in Events :
       byEvent[e] # Nobody => byEvent[e] \in Kept /\ job[byEvent[e]].event = e
  /\ \A i \in Kept : byEvent[job[i].event] = i
  /\ Cardinality(Kept) <= Retained
  /\ Cardinality({i \in Live : HoldsSlot(i)}) <= JobSlots

(* Every job becomes terminal and gives its slot back, whether or not       *)
(* anybody ever claims the stream, reads it or hangs up.                    *)
JobsEnd ==
  \A i \in JobIds : (i \in Live) ~> (i \in Live /\ job[i].at = "over" /\ job[i].phase \in Terminal)

(* What a job tells its client is what happened: its outcome is what was    *)
(* delivered, and an event is of the job it names.                          *)
JobsTellWhatHappened == OutcomeIsWhatWasDelivered /\ EventNamesItsJob
=============================================================================
