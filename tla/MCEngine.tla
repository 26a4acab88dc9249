------------------------------ MODULE MCEngine ------------------------------
(***************************************************************************)
(* What an engine keeps on disk, in one run: a behaviour is one of its     *)
(* log, segments and manifest (EngineDurability) or one of its source      *)
(* store (SourceFiles), and the variables of the other stay at their       *)
(* initial values.                                                         *)
(***************************************************************************)
EXTENDS EngineDurability, SourceFiles

VARIABLE part

(* One document of the first id, of either generation.                      *)
OneDocument(g) ==
  [id \in SourceIds |->
     IF id = 1 THEN {[query |-> "q", source_generation |-> g,
                      tags_known |-> TRUE, metadata_known |-> TRUE]} ELSE {}]
MCBatches == {OneDocument(g) : g \in 0..1}
MCFiles == {[format |-> f, entries |-> OneDocument(1)] : f \in Formats}

OnlyRows == part = "rows" /\ UNCHANGED <<part, sourceVars>>
OnlySources == part = "sources" /\ UNCHANGED <<part, vars>>

EngineInit ==
  /\ part \in {"rows", "sources"}
  /\ Init
  /\ SourceInit
  /\ part = "rows" => owns /\ ~store.lazy /\ \E f \in files[0] : f.format = "v1"

EngineNext ==
  \/ OnlyRows /\ Next
  \/ OnlySources /\ SourceNext

EngineSpec == EngineInit /\ [][EngineNext]_<<part, vars, sourceVars>>
=============================================================================
