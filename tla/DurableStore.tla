---------------------------- MODULE DurableStore ----------------------------
(***************************************************************************)
(* What a durable engine promises its callers, and nothing about how.      *)
(*                                                                         *)
(* `live` is the set of rows the running engine serves.  `may` is the set  *)
(* of row sets a restart could serve: an engine at rest has one, a write   *)
(* whose outcome is not known adds the state it asked for.  A write that   *)
(* was acknowledged is in every member of `may`.  This is the rule of the  *)
(* fault matrix's model (engine/src/fault/model.rs): an acknowledged write *)
(* is the state, a failed write leaves the state before it or the one it   *)
(* asked for, and no other.                                                *)
(***************************************************************************)
CONSTANT Writes   \* the writes a caller can ask for, see Effect

VARIABLES up,     \* whether a process is running
          live,   \* the rows it serves
          may     \* the row sets a restart could serve

vars == <<up, live, may>>

(* A write removes every row of the ids in `ids` and the rows in `gone`,    *)
(* then adds the rows in `add`.  Insert and bulk load only add (a row of an *)
(* id that is already stored is a second row), an upsert replaces.          *)
Effect(o, S) == {r \in S : r.id \notin o.ids /\ r \notin o.gone} \cup o.add

Init == up = TRUE /\ live = {} /\ may = {{}}

(* The states a write may start from: the one served, and what earlier      *)
(* writes of unknown outcome asked for.                                     *)
Possible == may \cup {live}

(* A write that is under way, was refused, or failed: served rows are as    *)
(* they were, and a restart may find what the write asked for.              *)
Attempt(o) == /\ up /\ up' /\ live' = live
              /\ may' \subseteq Possible \cup {Effect(o, S) : S \in Possible}
              /\ may' # {}

(* A write that is acknowledged: from here on every restart holds it.       *)
Acknowledge(o) == /\ up /\ up' /\ live' = Effect(o, live)
                  /\ may' \subseteq {Effect(o, S) : S \in Possible}
                  /\ may' # {}

(* The process or the machine stops; which outcome the disk has is settled  *)
(* now or when the store is opened.                                         *)
Stop == /\ ~up' /\ live' = {}
        /\ may' \subseteq may /\ may' # {}

Reopen == /\ ~up /\ up'
          /\ live' \in may
          /\ may' = {live'}

Next == \/ \E o \in Writes : Attempt(o) \/ Acknowledge(o)
        \/ Stop
        \/ Reopen

Spec == Init /\ [][Next]_vars
=============================================================================
