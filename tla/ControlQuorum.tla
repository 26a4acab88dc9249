--------------------------- MODULE ControlQuorum ---------------------------
(***************************************************************************)
(* The durable control plane: manager nodes that keep a Raft log, a vote   *)
(* and a snapshot on disk (engine/src/cluster/control_raft,                *)
(* control_store.rs), the service each of them offers (control_server.rs)  *)
(* and the thin client of a coordinator (remote_control.rs).               *)
(*                                                                         *)
(* The consensus engine is the openraft library.  What it does is modelled *)
(* from the storage and network calls it makes on this code: ballots       *)
(* (a term and a node, in one total order), a vote saved before it is      *)
(* granted, a blank entry per leader, commit by a majority of the leader's *)
(* ballot.  The voters are fixed.                                          *)
(*                                                                         *)
(* A document is the sequence of the proposals that had an effect on it; a *)
(* proposal is the number of its call, and a blank entry is 0.             *)
(***************************************************************************)
EXTENDS Integers, Sequences, FiniteSets, SequencesExt, FiniteSetsExt

CONSTANTS Managers,
          Scenarios    \* the bounds: records [calls, ballots, stops, losses, snapshots]
                       \*   calls : a sequence of "propose", "move" and "read"

VARIABLES
  budget,    \* the calls, and what is left of the bounds
  owner,     \* ballot -> the manager that campaigned with it, as a set
  disk,      \* manager -> the files of its directory
  core,      \* manager -> what it holds in memory
  call,      \* the coordinator's call, the next of the calls, and where it is
  answered   \* the calls whose proposal a finished call has reported

quorumVars == <<budget, owner, disk, core, call, answered>>

Ballots == 1 .. 3

Majority(s) == 2 * Cardinality(s) > Cardinality(Managers)

NoFile == [there |-> FALSE, log |-> <<>>, first |-> 1, vote |-> 0, committed |-> 0,
           purged |-> 0, snap |-> [at |-> 0, ballot |-> 0, doc |-> <<>>]]

Down == [role |-> "down", votes |-> {}, match |-> [m \in Managers |-> 0],
         applied |-> 0, doc |-> <<>>]

-----------------------------------------------------------------------------
(* LogStore: the entries from `first' on, and what was purged before them.  *)

LastIndex(d) == IF d.log = <<>> THEN d.purged ELSE d.first + Len(d.log) - 1

EntryAt(d, i) == d.log[i - d.first + 1]

Has(d, i) == i >= d.first /\ i <= d.first + Len(d.log) - 1

BallotAt(d, i) ==
  CASE i = 0 -> 0
    [] i > 0 /\ Has(d, i) -> EntryAt(d, i).ballot
    [] OTHER -> IF i = d.snap.at THEN d.snap.ballot ELSE -1

\* get_log_state: the last entry, or what was purged last.
LastLog(d) == [ballot |-> BallotAt(d, LastIndex(d)), index |-> LastIndex(d)]

AtLeastAsLong(d, e) ==
  LET a == LastLog(d)
      b == LastLog(e)
  IN  a.ballot > b.ballot \/ (a.ballot = b.ballot /\ a.index >= b.index)

\* append: the record is on disk before the entry counts as written.
Appended(d, e) ==
  [d EXCEPT !.log = Append(@, e), !.first = IF d.log = <<>> THEN d.purged + 1 ELSE @]

\* truncate: the entries from i on are dropped, and the file is rewritten.
Truncated(d, i) ==
  [d EXCEPT !.log = IF i <= d.first THEN <<>> ELSE SubSeq(@, 1, i - d.first)]

\* purge: the lower bound is recorded, then the file is rewritten without the prefix.  A
\* stop between the two leaves the prefix in the file.
Purged(d, i, rewritten) ==
  [d EXCEPT !.purged = i,
            !.log = IF rewritten THEN SubSeq(@, i - d.first + 2, Len(@)) ELSE @,
            !.first = IF rewritten THEN i + 1 ELSE @]

\* save_vote: durable before it is answered.
SaveVote(d, b) == [d EXCEPT !.vote = b]

\* Mutant: a node whose log is gone starts with an empty one beside its other state.
StartsAnyway(d) == TRUE

\* check_log_against_other_state: only a node without any state starts without a log.
MayStart(d) ==
  d.there \/ (d.vote = 0 /\ d.committed = 0 /\ d.purged = 0 /\ d.snap.at = 0)

\* open: a snapshot ahead of the log replaces it (the library purges up to it).
Opened(d) ==
  IF LastIndex(d) < d.snap.at
  THEN [d EXCEPT !.there = TRUE, !.log = <<>>, !.first = d.snap.at + 1, !.purged = d.snap.at]
  ELSE [d EXCEPT !.there = TRUE]

-----------------------------------------------------------------------------
(* StateMachine: a committed entry is applied before anything else is asked *)
(* of the document.                                                         *)

Kind(n) == budget.calls[n]

\* control::apply: a move command is recognised by its operation; any other change is made
\* every time it is applied.
Effect(doc, what) ==
  IF what = 0 \/ (what \in Range(doc) /\ Kind(what) = "move") THEN doc ELSE Append(doc, what)

\* apply, of the entries after the k-th up to the i-th.
Applied(doc, d, k, i) ==
  FoldLeft(Effect, doc, [j \in 1 .. (i - k) |-> EntryAt(d, k + j).what])

AppliedTo(c, d, i) == [c EXCEPT !.applied = i, !.doc = Applied(c.doc, d, c.applied, i)]

\* A manager that runs, with what its files told it: the snapshot, and the entries up to the
\* last one it recorded as committed.
Follower(d) ==
  AppliedTo([Down EXCEPT !.role = "follower", !.applied = d.snap.at, !.doc = d.snap.doc],
            d, Max({Min({d.committed, LastIndex(d)}), d.snap.at}))

\* build_snapshot, and the purge of the prefix it covers, which may be cut short.
Snapshot(m, whole) ==
  LET i == core[m].applied
      saved == [disk[m] EXCEPT !.snap = [at |-> i, ballot |-> BallotAt(disk[m], i), doc |-> core[m].doc]]
  IN  /\ core[m].role # "down" /\ budget.snapshots > 0
      /\ i > disk[m].snap.at /\ Has(disk[m], i)
      /\ ~ whole => budget.stops > 0
      /\ budget' = [budget EXCEPT !.snapshots = @ - 1, !.stops = IF whole THEN @ ELSE @ - 1]
      /\ disk' = [disk EXCEPT ![m] = Purged(saved, i, whole)]
      /\ core' = IF whole THEN core ELSE [core EXCEPT ![m] = Down]
      /\ UNCHANGED <<owner, call, answered>>

-----------------------------------------------------------------------------
(* Elections.                                                               *)

BallotOf(m) == disk[m].vote

IsLeader(m) == core[m].role = "leader"

Campaign(m, b) ==
  /\ core[m].role # "down" /\ owner[b] = {} /\ b > BallotOf(m) /\ b <= budget.ballots
  /\ owner' = [owner EXCEPT ![b] = {m}]
  /\ disk' = [disk EXCEPT ![m] = SaveVote(@, b)]
  /\ core' = [core EXCEPT ![m].role = "candidate", ![m].votes = {m}]
  /\ UNCHANGED <<budget, call, answered>>

\* vote: the request is relayed to the node's consensus engine.  An answer that is lost is
\* one the candidate makes no use of.
GrantVote(c, m) ==
  LET b == BallotOf(c)
  IN  /\ core[c].role = "candidate" /\ core[m].role # "down" /\ m # c
      /\ b > BallotOf(m) /\ AtLeastAsLong(disk[c], disk[m])
      /\ disk' = [disk EXCEPT ![m] = SaveVote(@, b)]
      /\ core' = [core EXCEPT ![m].role = "follower", ![m].votes = {},
                              ![c].votes = @ \cup {m}]
      /\ UNCHANGED <<budget, owner, call, answered>>

Elected(m) ==
  /\ core[m].role = "candidate" /\ Majority(core[m].votes)
  /\ LET d == Appended(disk[m], [ballot |-> BallotOf(m), what |-> 0])
     IN  /\ disk' = [disk EXCEPT ![m] = d]
         /\ core' = [core EXCEPT ![m].role = "leader", ![m].votes = {},
                       ![m].match = [x \in Managers |-> IF x = m THEN LastIndex(d) ELSE 0]]
  /\ UNCHANGED <<budget, owner, call, answered>>

-----------------------------------------------------------------------------
(* Replication: append_entries and full_snapshot, sent by a leader and      *)
(* relayed to the node's consensus engine.                                  *)

Steps(m, f) == BallotOf(m) >= BallotOf(f) /\ core[f].role # "down" /\ f # m

\* The longest prefix on which two logs agree, as far as both still hold it.
Agree(d, e, i) == BallotAt(d, i) = BallotAt(e, i) /\ BallotAt(d, i) # -1

\* The entry after the ones the follower is known to hold.
NextIndex(m, f) == Max({core[m].match[f], disk[m].purged}) + 1

Replicate(m, f) ==
  LET i == NextIndex(m, f)
      held == disk[f]
      kept == IF Has(held, i) /\ BallotAt(held, i) # EntryAt(disk[m], i).ballot
              THEN Truncated(held, i) ELSE held
      next == IF Has(kept, i) THEN kept ELSE Appended(kept, EntryAt(disk[m], i))
  IN  /\ IsLeader(m) /\ Steps(m, f)
      /\ Has(disk[m], i) /\ i <= LastIndex(held) + 1 /\ Agree(disk[m], held, i - 1)
      /\ disk' = [disk EXCEPT ![f] = SaveVote(next, BallotOf(m))]
      /\ core' = [core EXCEPT ![f].role = "follower", ![f].votes = {},
                              ![m].match[f] = i]
      /\ UNCHANGED <<budget, owner, call, answered>>

\* install_snapshot: the leader no longer holds the entry the follower needs.
Install(m, f) ==
  LET s == disk[m].snap
  IN  /\ IsLeader(m) /\ Steps(m, f)
      /\ s.at > core[f].applied /\ ~ Has(disk[m], s.at)
      /\ disk' = [disk EXCEPT ![f] =
                    [SaveVote(@, BallotOf(m)) EXCEPT !.snap = s, !.purged = s.at,
                       !.log = IF Agree(disk[m], disk[f], s.at)
                               THEN SubSeq(@, s.at - disk[f].first + 2, Len(@)) ELSE <<>>,
                       !.first = s.at + 1]]
      /\ core' = [core EXCEPT ![f] = [@ EXCEPT !.role = "follower", !.votes = {},
                                        !.applied = s.at, !.doc = s.doc],
                              ![m].match[f] = s.at]
      /\ UNCHANGED <<budget, owner, call, answered>>

\* save_committed, by the leader and by a follower that hears of it.
Commits(m, i) ==
  /\ IsLeader(m) /\ i > core[m].applied /\ Has(disk[m], i)
  /\ EntryAt(disk[m], i).ballot = BallotOf(m)
  /\ Majority({x \in Managers : core[m].match[x] >= i})
  /\ disk' = [disk EXCEPT ![m].committed = i]
  /\ core' = [core EXCEPT ![m] = AppliedTo(@, disk[m], i)]
  /\ UNCHANGED <<budget, owner, call, answered>>

HearsCommit(m, f) ==
  LET i == Min({core[m].applied, core[m].match[f]})
  IN  /\ IsLeader(m) /\ Steps(m, f) /\ i > core[f].applied /\ i <= LastIndex(disk[f])
      /\ disk' = [disk EXCEPT ![f] = [SaveVote(@, BallotOf(m)) EXCEPT !.committed = i]]
      /\ core' = [core EXCEPT ![f] = [AppliedTo(@, disk[f], i) EXCEPT !.role = "follower", !.votes = {}]]
      /\ UNCHANGED <<budget, owner, call, answered>>

\* A leader or candidate learns of a newer ballot from an answer.
StepsDown(m, f) ==
  /\ core[m].role \in {"leader", "candidate"} /\ core[f].role # "down"
  /\ BallotOf(f) > BallotOf(m)
  /\ disk' = [disk EXCEPT ![m] = SaveVote(@, BallotOf(f))]
  /\ core' = [core EXCEPT ![m].role = "follower", ![m].votes = {}]
  /\ UNCHANGED <<budget, owner, call, answered>>

-----------------------------------------------------------------------------
(* Stops and starts.                                                        *)

Stop(m) ==
  /\ core[m].role # "down" /\ budget.stops > 0
  /\ budget' = [budget EXCEPT !.stops = @ - 1]
  /\ core' = [core EXCEPT ![m] = Down]
  /\ UNCHANGED <<owner, disk, call, answered>>

\* The log's file is lost while the node is down.
LoseLog(m) ==
  /\ core[m].role = "down" /\ budget.losses > 0
  /\ budget' = [budget EXCEPT !.losses = @ - 1]
  /\ disk' = [disk EXCEPT ![m] = [@ EXCEPT !.there = FALSE, !.log = <<>>, !.first = disk[m].purged + 1]]
  /\ UNCHANGED <<owner, core, call, answered>>

Start(m) ==
  /\ core[m].role = "down" /\ MayStart(disk[m])
  /\ disk' = [disk EXCEPT ![m] = Opened(@)]
  /\ core' = [core EXCEPT ![m] = Follower(Opened(disk[m]))]
  /\ UNCHANGED <<budget, owner, call, answered>>

-----------------------------------------------------------------------------
(* RemoteControlPlane: a call over its client, one redirection to the       *)
(* leader, and the other endpoints for a call that may be sent again.  The  *)
(* coordinator makes one call after another.                                *)

\* pc: "idle", "sent" (on its way to `at'), "waits" (for its entry at `at').
NewCall(n) == [n |-> n, pc |-> "idle", at |-> {}, again |-> {}, hops |-> 0, entry |-> <<>>, need |-> {}]

TheCall == Kind(call.n)

\* The coordinator's client is connected to one of the managers.
CallBegins(m) ==
  /\ call.pc = "idle" /\ call.n <= Len(budget.calls)
  /\ call' = [call EXCEPT !.pc = "sent", !.at = {m}, !.again = Managers, !.need = answered]
  /\ UNCHANGED <<budget, owner, disk, core, answered>>

\* client_control on a node that does not lead: the client follows one redirection.
Redirected(m) ==
  LET leader == IF BallotOf(m) = 0 THEN {} ELSE owner[BallotOf(m)] \ {m}
  IN  /\ call.pc = "sent" /\ call.at = {m} /\ core[m].role # "down" /\ ~ IsLeader(m)
      /\ call' = IF leader # {} /\ call.hops = 0
                 THEN [call EXCEPT !.at = leader, !.hops = 1]
                 ELSE NewCall(call.n + 1)
      /\ UNCHANGED <<budget, owner, disk, core, answered>>

\* client_write: the leader appends the proposal and waits for its entry.
Proposes(m) ==
  LET d == Appended(disk[m], [ballot |-> BallotOf(m), what |-> call.n])
  IN  /\ call.pc = "sent" /\ call.at = {m} /\ TheCall # "read" /\ IsLeader(m)
      /\ disk' = [disk EXCEPT ![m] = d]
      /\ core' = [core EXCEPT ![m].match[m] = LastIndex(d)]
      /\ call' = [call EXCEPT !.pc = "waits", !.entry = <<LastIndex(d), BallotOf(m)>>]
      /\ UNCHANGED <<budget, owner, answered>>

\* The entry is applied by the node that appended it.
CallCommitted(m) ==
  /\ call.pc = "waits" /\ call.at = {m} /\ core[m].applied >= call.entry[1]
  /\ BallotAt(disk[m], call.entry[1]) \in {call.entry[2], -1}
  /\ answered' = answered \cup {call.n}
  /\ call' = NewCall(call.n + 1)
  /\ UNCHANGED <<budget, owner, disk, core>>

\* The entry was truncated: the library answers as a node that does not lead.
CallReplaced(m) ==
  /\ call.pc = "waits" /\ call.at = {m} /\ core[m].role = "follower"
  /\ \/ LastIndex(disk[m]) < call.entry[1]
     \/ BallotAt(disk[m], call.entry[1]) \notin {call.entry[2], -1}
  /\ call' = [call EXCEPT !.pc = "sent", !.entry = <<>>]
  /\ UNCHANGED <<budget, owner, disk, core, answered>>

\* ensure_linearizable: a majority still follows the leader, which has committed an entry
\* of its ballot and applied everything committed.
ReadAnswer(m) ==
  /\ call.pc = "sent" /\ call.at = {m} /\ TheCall = "read" /\ IsLeader(m)
  /\ Majority({x \in Managers : core[x].role # "down" /\ BallotOf(x) = BallotOf(m)})
  /\ BallotAt(disk[m], core[m].applied) = BallotOf(m)

Reads(m) ==
  /\ ReadAnswer(m)
  /\ answered' = answered \cup Range(core[m].doc)
  /\ call' = NewCall(call.n + 1)
  /\ UNCHANGED <<budget, owner, disk, core>>

\* Mutant: every call is sent to the next endpoint.
FailsOverAlways(kind) == TRUE

\* call: a proposal that is not recognised by its operation is not sent again.
FailsOver(kind) == kind \in {"read", "move"}

\* The connection fails, or the answer is lost, whatever the node did.
CallFails ==
  /\ call.pc \in {"sent", "waits"}
  /\ \/ call' = NewCall(call.n + 1)
     \/ /\ FailsOver(TheCall)
        /\ \E m \in call.again :
             call' = [call EXCEPT !.pc = "sent", !.at = {m}, !.again = @ \ {m}, !.hops = 0, !.entry = <<>>]
  /\ UNCHANGED <<budget, owner, disk, core, answered>>

-----------------------------------------------------------------------------
QuorumInit ==
  /\ budget \in Scenarios
  /\ owner = [b \in Ballots |-> {}]
  /\ disk = [m \in Managers |-> Opened(NoFile)]
  /\ core = [m \in Managers |-> Follower(NoFile)]
  /\ call = NewCall(1)
  /\ answered = {}

QuorumNext ==
  \/ \E m \in Managers :
       \/ Elected(m) \/ Stop(m) \/ LoseLog(m) \/ Start(m)
       \/ \E whole \in BOOLEAN : Snapshot(m, whole)
       \/ \E b \in Ballots : Campaign(m, b)
       \/ \E i \in 1 .. LastIndex(disk[m]) : Commits(m, i)
  \/ \E m, f \in Managers :
       \/ Install(m, f) \/ HearsCommit(m, f) \/ StepsDown(m, f) \/ GrantVote(m, f) \/ Replicate(m, f)
  \/ CallFails
  \/ \E m \in Managers :
       \/ CallBegins(m) \/ Redirected(m) \/ Proposes(m) \/ CallCommitted(m) \/ CallReplaced(m)
       \/ Reads(m)

-----------------------------------------------------------------------------
(* The managers hold one history, whatever stops, whatever answer is lost   *)
(* and whatever log file disappears: the documents of any two are prefixes  *)
(* of one another, and a read a coordinator gets from the quorum holds      *)
(* every proposal that was reported committed, or that another read showed, *)
(* before it began.                                                         *)
OneHistory ==
  /\ \A m, n \in Managers : IsPrefix(core[m].doc, core[n].doc) \/ IsPrefix(core[n].doc, core[m].doc)
  /\ \A m \in Managers : ReadAnswer(m) => call.need \subseteq Range(core[m].doc)

(* A proposal a coordinator makes once changes the document at most once,   *)
(* although an answer may be lost after the change was committed            *)
(* (RemoteControlPlane::call never sends a plain proposal again).           *)
ProposalsApplyOnce ==
  \A m \in Managers : IsInjective(core[m].doc)
=============================================================================
