-------------------------- MODULE CoordinatorLease --------------------------
(***************************************************************************)
(* The coordinator lease of one shard server process.  Every call is       *)
(* admitted before its handler runs: without an id while nobody owns the   *)
(* node, with an id only for the owner.  A claim closes admission, waits   *)
(* for the admitted calls (their response bodies included) to end, and     *)
(* only then publishes its candidate.  The lease expires unless a call of  *)
(* the owner renews it; waiting claims sleep on a tokio Notify.            *)
(***************************************************************************)
EXTENDS Naturals, FiniteSets

CONSTANTS Calls,       \* the calls that may be under way at the same time
          Candidates,  \* coordinator ids
          Unowned      \* id 0: no owner, and the id of an unstamped call

ASSUME CallsAssumption == IsFiniteSet(Calls)
ASSUME UnownedAssumption == Unowned \notin Candidates

VARIABLES
  leaseOwner,  \* CoordinatorLease.owner
  expired,     \* the owner's expiry lies in the past
  candidate,   \* CoordinatorClaim.candidate, or Unowned when nobody claims
  waiters,     \* CoordinatorClaim.waiters
  unstamped,   \* CoordinatorTransition.active_unstamped
  stamped,     \* CoordinatorTransition.active_owner
  stage, who,  \* where each call is, and the id it carries
  listening,   \* the claims in the queue of the Notify
  notified     \* the claims it has woken

leaseVars == <<leaseOwner, expired, candidate, waiters, unstamped, stamped,
               stage, who, listening, notified>>

LeaseGoto(k, s) == stage' = [stage EXCEPT ![k] = s]

NotifyWaiters ==
  /\ notified' = notified \cup listening
  /\ listening' = {}

(***************************************************************************)
(* Admission                                                               *)
(***************************************************************************)
BeginUnstamped(k) ==
  /\ stage[k] = "idle" /\ leaseOwner = Unowned /\ candidate = Unowned
  /\ unstamped' = unstamped + 1
  /\ LeaseGoto(k, "running")
  /\ who' = [who EXCEPT ![k] = Unowned]
  /\ UNCHANGED <<leaseOwner, expired, candidate, waiters, stamped, listening, notified>>

BeginOwner(k, c) ==
  /\ stage[k] = "idle" /\ leaseOwner = c /\ candidate = Unowned
  /\ stamped' = stamped + 1
  /\ LeaseGoto(k, "verify")
  /\ who' = [who EXCEPT ![k] = c]
  /\ UNCHANGED <<leaseOwner, expired, candidate, waiters, unstamped, listening, notified>>

(* The token was right: the call renews the lease, unless a claim waits.    *)
AuthorizeOwner(k) ==
  /\ stage[k] = "verify" /\ leaseOwner = who[k]
  /\ expired' = IF candidate = Unowned THEN FALSE ELSE expired
  /\ LeaseGoto(k, "running")
  /\ UNCHANGED <<leaseOwner, candidate, waiters, unstamped, stamped, who, listening, notified>>

(* ActiveCoordinatorCall::drop: the body ended, the call was cancelled, or  *)
(* its token was refused.                                                   *)
EndCall(k) ==
  LET u == IF who[k] = Unowned THEN unstamped - 1 ELSE unstamped
      s == IF who[k] = Unowned THEN stamped ELSE stamped - 1
  IN
  /\ stage[k] \in {"verify", "running"}
  /\ unstamped' = u /\ stamped' = s
  /\ IF u = 0 /\ s = 0 THEN NotifyWaiters ELSE UNCHANGED <<listening, notified>>
  /\ LeaseGoto(k, "idle")
  /\ UNCHANGED <<leaseOwner, expired, candidate, waiters, who>>

(***************************************************************************)
(* claim                                                                   *)
(***************************************************************************)
(* register_claim by the owner itself renews the lease.                     *)
RenewByClaim(c) ==
  /\ leaseOwner = c /\ candidate \in {Unowned, c}
  /\ expired' = FALSE
  /\ UNCHANGED <<leaseOwner, candidate, waiters, unstamped, stamped, stage, who,
                 listening, notified>>

RegisterClaim(k, c) ==
  /\ stage[k] = "idle" /\ leaseOwner # c
  /\ leaseOwner = Unowned \/ expired
  /\ candidate \in {Unowned, c}
  /\ waiters' = IF candidate = Unowned THEN 1 ELSE waiters + 1
  /\ candidate' = c
  /\ LeaseGoto(k, "enable")
  /\ who' = [who EXCEPT ![k] = c]
  /\ UNCHANGED <<leaseOwner, expired, unstamped, stamped, listening, notified>>

(* The waiter joins the queue of the Notify before it looks.                *)
Enable(k) ==
  /\ stage[k] = "enable"
  /\ listening' = listening \cup {k}
  /\ LeaseGoto(k, "check")
  /\ UNCHANGED <<leaseOwner, expired, candidate, waiters, unstamped, stamped, who, notified>>

(* PendingClaim::drop: the last waiter of a candidate reopens admission.    *)
LastWaiter(k) == candidate = who[k] /\ waiters <= 1

LeaveClaim(k) ==
  /\ waiters' = IF candidate = who[k] /\ waiters > 0 THEN waiters - 1 ELSE waiters
  /\ candidate' = IF LastWaiter(k) THEN Unowned ELSE candidate
  /\ IF LastWaiter(k)
     THEN /\ notified' = (notified \cup listening) \ {k}
          /\ listening' = {}
     ELSE /\ notified' = notified \ {k}
          /\ listening' = listening \ {k}

(* Mutant: the claim publishes although calls are still under way.          *)
PublishUndrained(k) ==
  /\ stage[k] = "check" /\ leaseOwner # who[k] /\ candidate = who[k]
  /\ leaseOwner' = who[k] /\ expired' = FALSE
  /\ candidate' = Unowned /\ waiters' = 0
  /\ listening' = listening \ {k} /\ notified' = notified \ {k}
  /\ LeaseGoto(k, "notify")
  /\ UNCHANGED <<unstamped, stamped, who>>

(* Under the mutex: nothing is under way, so the candidate owns the node.   *)
Publish(k) ==
  /\ stage[k] = "check" /\ leaseOwner # who[k] /\ candidate = who[k]
  /\ unstamped = 0 /\ stamped = 0
  /\ leaseOwner' = who[k] /\ expired' = FALSE
  /\ candidate' = Unowned /\ waiters' = 0
  /\ listening' = listening \ {k} /\ notified' = notified \ {k}
  /\ LeaseGoto(k, "notify")
  /\ UNCHANGED <<unstamped, stamped, who>>

(* notify_waiters after the mutex is released.                              *)
NotifyPublished(k) ==
  /\ stage[k] = "notify"
  /\ NotifyWaiters
  /\ LeaseGoto(k, "leave")
  /\ UNCHANGED <<leaseOwner, expired, candidate, waiters, unstamped, stamped, who>>

ClaimSleeps(k) ==
  /\ stage[k] = "check" /\ leaseOwner # who[k] /\ candidate = who[k]
  /\ unstamped # 0 \/ stamped # 0
  /\ LeaseGoto(k, "wait")
  /\ UNCHANGED <<leaseOwner, expired, candidate, waiters, unstamped, stamped, who,
                 listening, notified>>

(* Another waiter published for us, or the claim is gone: an error.         *)
ClaimDecided(k) ==
  /\ stage[k] = "check"
  /\ leaseOwner = who[k] \/ candidate # who[k]
  /\ LeaseGoto(k, "leave")
  /\ UNCHANGED <<leaseOwner, expired, candidate, waiters, unstamped, stamped, who,
                 listening, notified>>

WakeClaim(k) ==
  /\ stage[k] = "wait" /\ k \in notified
  /\ notified' = notified \ {k}
  /\ LeaseGoto(k, "enable")
  /\ UNCHANGED <<leaseOwner, expired, candidate, waiters, unstamped, stamped, who, listening>>

(* The handshake returns, or is cancelled where it waits.                   *)
EndClaim(k) ==
  /\ stage[k] \in {"leave", "wait"}
  /\ LeaveClaim(k)
  /\ LeaseGoto(k, "idle")
  /\ UNCHANGED <<leaseOwner, expired, unstamped, stamped, who>>

Expire ==
  /\ leaseOwner # Unowned /\ ~ expired
  /\ expired' = TRUE
  /\ UNCHANGED <<leaseOwner, candidate, waiters, unstamped, stamped, stage, who,
                 listening, notified>>

(***************************************************************************)
(* The specification                                                       *)
(***************************************************************************)
LeaseInit ==
  /\ leaseOwner = Unowned /\ expired = FALSE
  /\ candidate = Unowned /\ waiters = 0
  /\ unstamped = 0 /\ stamped = 0
  /\ stage = [k \in Calls |-> "idle"]
  /\ who = [k \in Calls |-> Unowned]
  /\ listening = {} /\ notified = {}

LeaseCall(k) ==
  \/ BeginUnstamped(k) \/ AuthorizeOwner(k) \/ EndCall(k)
  \/ Enable(k) \/ Publish(k) \/ NotifyPublished(k) \/ ClaimSleeps(k)
  \/ ClaimDecided(k) \/ WakeClaim(k) \/ EndClaim(k)
  \/ \E c \in Candidates : BeginOwner(k, c) \/ RegisterClaim(k, c)

LeaseNext ==
  \/ \E k \in Calls : LeaseCall(k)
  \/ \E c \in Candidates : RenewByClaim(c)
  \/ Expire

LeaseSpec == LeaseInit /\ [][LeaseNext]_leaseVars

(***************************************************************************)
(* Properties                                                              *)
(***************************************************************************)
Stages == {"idle", "verify", "running", "enable", "check", "wait", "notify", "leave"}

(* What CoordinatorTransition and the calls may hold.                       *)
LeaseTypeOK ==
  /\ leaseOwner \in Candidates \cup {Unowned}
  /\ expired \in BOOLEAN
  /\ candidate \in Candidates \cup {Unowned}
  /\ waiters \in Nat /\ unstamped \in Nat /\ stamped \in Nat
  /\ stage \in [Calls -> Stages]
  /\ who \in [Calls -> Candidates \cup {Unowned}]
  /\ listening \subseteq Calls /\ notified \subseteq Calls

Admitted == {k \in Calls : stage[k] \in {"verify", "running"}}

(* A takeover fences: while a call of one coordinator is under way, its     *)
(* response body included, the node has no other owner, and an unstamped    *)
(* call and an owner never overlap (CoordinatorLeaseService, claim).        *)
AdmittedUnderOwner == \A k \in Admitted : who[k] = leaseOwner

(* No lost wake-up: a claim sleeps only while a call it waits for is under  *)
(* way, or its wake-up is on the way (enable before the check; drop and     *)
(* publish notify).                                                         *)
SleeperIsAwaited ==
  \A k \in Calls :
    stage[k] = "wait" /\ k \notin notified =>
      \/ Admitted # {}
      \/ \E j \in Calls : stage[j] = "notify"

Claimants(c) ==
  {k \in Calls : stage[k] \in {"enable", "check", "wait", "leave"} /\ who[k] = c}

(* A cancelled handshake does not wedge the node: admission stays closed    *)
(* only while some handshake of the candidate is there to reopen it         *)
(* (PendingClaim::drop).                                                    *)
ClaimHasWaiter == candidate # Unowned => Claimants(candidate) # {}

(* What the lease promises: calls run under the owner they were admitted    *)
(* for, a claim that sleeps has something to wake it, and a registered      *)
(* claim has a waiter.                                                      *)
LeaseIsSafe == AdmittedUnderOwner /\ SleeperIsAwaited /\ ClaimHasWaiter
=============================================================================
