---------------------------- MODULE MCNode ----------------------------
(***************************************************************************)
(* A small node: two or three requests of every kind, one document, one    *)
(* alias group; and, in executions of their own, bulk requests and         *)
(* documents of a few lines and fields.                                    *)
(***************************************************************************)
EXTENDS NodeServer, TLC

VARIABLES part, lines, stored, doc, shape

caseVars == <<part, lines, stored, doc, shape>>
vars == <<nodeVars, caseVars>>

CONSTANTS r1, r2, r3, g1, i1, i2, t1, t2, t3

MCReqs == {r1, r2, r3}
MCTraits == g1 :> [mixed |-> FALSE, inexpressible |-> FALSE, multiword |-> FALSE, variant |-> TRUE]
MCOverflows == {<<g1, t2>>}
MCMentions == {}
MCIntegerOf == ("1" :> 1) @@ ("2" :> 2) @@ ("01" :> 1)

Fine(method, json, body) == {[method |-> method, query |-> "none", json |-> json, body |-> body]}

W(op, arg, flag, shapes) ==
  [op |-> op, id |-> i1, group |-> g1, arg |-> arg, flag |-> flag, shapes |-> shapes]

Get == Fine("GET", FALSE, "empty")
Post == Fine("POST", FALSE, "empty")
PostJson == Fine("POST", TRUE, "valid")
PutJson == Fine("PUT", TRUE, "valid")

Writes ==
  {W("put", t, f, PutJson) : t \in {t1, t2}, f \in BOOLEAN}
    \cup {W("put", t3, FALSE, PutJson), W("delete", t1, FALSE, Fine("DELETE", FALSE, "empty"))}
    \cup {W("bulk", t, FALSE, PostJson) : t \in {t1, t2}}
Settings == {W("settings", t1, f, PutJson) : f \in BOOLEAN}
Vocabs ==
  {W("vocab", s, FALSE, PutJson) : s \in {"active", "rejected", "candidate"}}
    \cup {W(op, t1, FALSE, Post) : op \in {"learn", "alias_learn", "discover_record"}}
    \cup {W("alias_import", t1, FALSE, PostJson)}
    \cup {W("feedback_apply", t1, f, Post) : f \in BOOLEAN}
Maintenance ==
  {W("flush", t1, f, Post) : f \in BOOLEAN} \cup {W("force_merge", t1, f, Post) : f \in BOOLEAN}
    \cup {W("backup", t1, FALSE, PostJson), W("compact", t1, FALSE, Post)}
Feedback ==
  {W("search", s, FALSE, Get) : s \in {"a", "b"}}
    \cup {W("feedback_read", t1, FALSE, Get), W("feedback_reset", t1, FALSE, Post)}
Reads == {W(op, t1, FALSE, Get) : op \in SnapshotReads \cup {"health"}}

All == Writes \cup Settings \cup Vocabs \cup Maintenance \cup Feedback \cup Reads

Nothing == W("stats", t1, FALSE, {})
Three(a, b, c) == (r1 :> a) @@ (r2 :> b) @@ (r3 :> c)

\* Where an execution starts.
Starts(holds, matches) ==
  {s \in [texts : holds, status : {"absent", "candidate", "rejected"}, capture : BOOLEAN,
          tracked : SUBSET {g1}, matched : matches] :
     s.capture => s.tracked = (IF s.status = "candidate" THEN {g1} ELSE {})}
Plain == [texts |-> {t1}, status |-> "candidate", capture |-> TRUE, tracked |-> {g1},
          matched |-> {i1}]

Scenario(starts, works, told) == [start : starts, works : works, stops : {told}]

Put == W("put", t1, FALSE, PutJson)
PutWide == W("put", t2, FALSE, PutJson)
CaptureOn == W("settings", t1, TRUE, PutJson)
Apply == W("feedback_apply", t1, TRUE, Post)
Import == W("alias_import", t1, FALSE, PostJson)

GetStats == W("stats", t1, FALSE, Get)
Probe == W("health", t1, FALSE, Get)

Odd(w) == [w EXCEPT !.shapes = Shapes]

MCScenarios ==
  Scenario(Starts({{t1}, {t2}}, {{i1}}) \cup {[Plain EXCEPT !.texts = {}, !.matched = {}]},
           {Three(a, b, Nothing) : a \in Writes \cup Settings \cup Vocabs \cup Feedback,
                                   b \in {PutWide, CaptureOn, Apply, Import}}, FALSE)
    \cup
  Scenario({Plain},
           {Three(a, b, Nothing) : a \in Writes \cup Vocabs \cup Maintenance,
                                   b \in {Put, Import} \cup Maintenance}, TRUE)
    \cup
  Scenario({Plain}, {Three(Odd(a), b, Nothing) : a \in All, b \in {Put, CaptureOn, GetStats, Probe}},
           FALSE)
    \cup
  Scenario({Plain},
           {Three(a, b, c) : a \in Settings, b \in Feedback \cup {Apply},
                             c \in {W("vocab", s, FALSE, PutJson) : s \in {"candidate", "rejected"}}},
           FALSE)

\* The bulk requests and documents of the other executions.
Actions == [kind : {"action"}, op : {"index", "create"}, id : {i1, i2}]
Sources ==
  [kind : {"source"}, text : {t1, t3}, version : {1, 2}]
    \cup {[kind |-> "broken", text |-> t1, version |-> 1]}
MCLines ==
  {<<a, s, b, u>> : a \in Actions, s \in Sources, b \in Actions, u \in Sources}
    \cup {<<a, s>> : a \in Actions, s \in Sources}

JsonScalars == [kind : {"string", "number", "null"}, text : {"1", "01", "2"}]
                 \cup [kind : {"bool", "object"}, text : {"1"}]
JsonArrays == [kind : {"array"}, items : {<<>>} \cup {<<v>> : v \in JsonScalars}
                                          \cup {<<v, v>> : v \in JsonScalars}]
Priorities == {<<>>} \cup {<<<<"priority", v>>>> : v \in JsonScalars \cup JsonArrays}
MCDocs == [tags : Priorities, fields : Priorities, rank : {{}} \cup {{v} : v \in JsonScalars}]

Quiet ==
  /\ durable = FALSE /\ stops = FALSE /\ phase = "serving"
  /\ engine = [rows |-> [i \in Ids |-> {}], mem |-> FALSE, stale |-> FALSE, healthy |-> TRUE,
               capture |-> FALSE, seq |-> 0, reg |-> EmptyRegistry]
  /\ snapshot = engine
  /\ evidence = [g \in {} |-> NoEvidence]
  /\ locks = [engine |-> NobodyHolds, evidence |-> NobodyHolds, serial |-> NobodyHolds]
  /\ req = [r \in Reqs |-> NewRequest(Nothing)]

Init ==
  \/ /\ part = "node" /\ NodeInit
     /\ lines = <<>> /\ stored = <<>> /\ doc = <<>> /\ shape = <<>>
  \/ /\ part = "bulk" /\ Quiet
     /\ lines \in MCLines /\ stored \in [{i1, i2} -> {{}, {t2}}] /\ doc = <<>> /\ shape = <<>>
  \/ /\ part = "doc" /\ Quiet
     /\ lines = <<>> /\ stored = <<>> /\ doc \in MCDocs /\ shape = <<>>
  \/ /\ part = "contract" /\ Quiet
     /\ lines = <<>> /\ stored = <<>> /\ doc = <<>> /\ shape \in Shapes

NodeOps == {w.op : w \in All}

\* What is decided before a body has come is what is decided with it.
Final(verdict(_)) ==
  LET early == verdict([shape EXCEPT !.body = "stalled"])
  IN  verdict(shape) # early => early = Reading /\ shape.body # "stalled"

\* However a bulk request is applied, its documents and its answers are those of the
\* same items one after another; a document with a typed priority has that one value,
\* in its rank and in its tags; and no endpoint changes a verdict it gave before it had
\* read the body.
IngestIsExact ==
  /\ part = "bulk" =>
       LET items == ClassifyItems(ParseBulk(lines))
       IN  items # <<>> => BulkIngest(stored, items) = ApplyInOrder(stored, items)
  /\ part = "doc" =>
       \A d \in ExtractRankedIngest(doc) : d.rank # {} =>
         {IntegerOf[d.tags[i][2]] : i \in {j \in DOMAIN d.tags : d.tags[j][1] = "priority"}} = d.rank
  /\ part = "contract" =>
       /\ \A op \in NodeOps : Final(LAMBDA s : Contract(op, s))
       /\ \A op \in ClusterOps : Final(LAMBDA s : ClusterContract(op, s))

Next == part = "node" /\ NodeNext /\ UNCHANGED caseVars

Spec == Init /\ [][Next]_vars /\ NodeFairness
=============================================================================
