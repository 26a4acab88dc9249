------------------------------ MODULE Requests ------------------------------
(***************************************************************************)
(* What the HTTP layer checks of a request before a handler's work starts  *)
(* (bin/server/handlers, the transports and validators of both modes), and *)
(* how a document request is read and applied (handlers/doc).              *)
(*                                                                         *)
(* A request's shape is what the checks tell apart:                        *)
(*   method : the verb                                                     *)
(*   query  : "none", "known" (parameters of the endpoint), "unknown" (one *)
(*            it does not have) or "refused" (a value it does not take)    *)
(*   json   : a JSON content type                                          *)
(*   body   : "empty", "valid", "invalid", "oversize", or "stalled" (the   *)
(*            client has not finished sending it)                          *)
(* A contract gives the status of the first check that refuses, Accepted,  *)
(* or Reading while the body is still being sent.                          *)
(***************************************************************************)
EXTENDS Integers, Sequences, FiniteSets, SequencesExt, FiniteSetsExt

Accepted == 200
Reading == 0

Shapes ==
  [method : {"GET", "HEAD", "POST", "PUT", "DELETE"}, query : {"none", "known", "unknown", "refused"},
   json : BOOLEAN, body : {"empty", "valid", "invalid", "oversize", "stalled"}]

\* The checks in the order the code makes them: the first that holds decides.
FirstRefusal(checks) ==
  LET hits == {i \in DOMAIN checks : checks[i][1]}
  IN  IF hits = {} THEN Accepted ELSE checks[Min(hits)][2]

MethodCheck(s, methods) == <<s.method \notin methods, 405>>
QueryCheck(s) == <<s.query \in {"unknown", "refused"}, 400>>
UnknownCheck(s) == <<s.query = "unknown", 400>>
RefusedCheck(s) == <<s.query = "refused", 400>>
NoQueryCheck(s) == <<s.query # "none", 400>>
JsonCheck(s) == <<~s.json, 415>>
BodyChecks(s) == <<<<s.body = "stalled", Reading>>, <<s.body = "oversize", 413>>>>
EmptyCheck(s) == <<s.body # "empty", 400>>
ParseCheck(s) == <<s.body # "valid", 400>>

\* A request without a body, its query read first.
Bodiless(s, methods) ==
  FirstRefusal(<<MethodCheck(s, methods), QueryCheck(s)>> \o BodyChecks(s) \o <<EmptyCheck(s)>>)

BodilessNoQuery(s, methods) ==
  FirstRefusal(<<MethodCheck(s, methods), NoQueryCheck(s)>> \o BodyChecks(s) \o <<EmptyCheck(s)>>)

\* A JSON document whose type is checked before it is read.
Document(s, methods) ==
  FirstRefusal(<<MethodCheck(s, methods), QueryCheck(s), JsonCheck(s)>>
                 \o BodyChecks(s) \o <<ParseCheck(s)>>)

DocumentNoQuery(s, methods) ==
  FirstRefusal(<<MethodCheck(s, methods), NoQueryCheck(s), JsonCheck(s)>>
                 \o BodyChecks(s) \o <<ParseCheck(s)>>)

\* A JSON document that may be left out; its type matters once it is there.
OptionalDocument(s, methods, queryCheck) ==
  FirstRefusal(<<MethodCheck(s, methods), queryCheck>> \o BodyChecks(s)
                 \o <<<<s.body # "empty" /\ ~s.json, 415>>, <<s.body = "invalid", 400>>>>)

\* Axum reads the body before the handler runs, so nothing is refused until it is there.
Extracted(s, checks) ==
  FirstRefusal(<<BodyChecks(s)[1]>> \o checks)

\* A value the endpoint refuses is found when the parameters are resolved, last.
Resolved(s, methods) ==
  Extracted(s, <<MethodCheck(s, methods), UnknownCheck(s), BodyChecks(s)[2], EmptyCheck(s),
                 RefusedCheck(s)>>)

(***************************************************************************)
(* The contracts, one for each endpoint                                    *)
(***************************************************************************)

SettingsRead(s) == Bodiless(s, {"GET", "HEAD"})
SettingsWrite(s) == Document(s, {"PUT"})
VocabRead(s) == BodilessNoQuery(s, {"GET", "HEAD"})
VocabWrite(s) == DocumentNoQuery(s, {"PUT"})
VocabLearnApply(s) == Bodiless(s, {"POST"})
AliasRead(s) == Bodiless(s, {"GET", "HEAD"})
AliasImport(s) == Document(s, {"POST"})
AliasLearnApply(s) == Bodiless(s, {"POST"})
AliasFeedbackApply(s) == Bodiless(s, {"POST"})
AliasFeedbackReset(s) == BodilessNoQuery(s, {"POST"})
AliasFeedbackRead(s) == Bodiless(s, {"GET", "HEAD"})
\* The document of a learn or a discovery is parsed later, in the worker.
VocabLearn(s) ==
  FirstRefusal(<<MethodCheck(s, {"POST"}), NoQueryCheck(s), JsonCheck(s)>> \o BodyChecks(s))
AliasDiscover(s) ==
  FirstRefusal(<<MethodCheck(s, {"POST"}), NoQueryCheck(s)>> \o BodyChecks(s)
                 \o <<<<s.body # "empty" /\ ~s.json, 415>>>>)
AliasDiscoverRecord(s) == AliasDiscover(s)

Stats(s) ==
  Extracted(s, <<MethodCheck(s, {"GET"}), NoQueryCheck(s), BodyChecks(s)[2], EmptyCheck(s)>>)
CatStats(s) == Resolved(s, {"GET"})
CatSegments(s) == Resolved(s, {"GET"})
CatShards(s) == Resolved(s, {"GET"})
Flush(s) ==
  Extracted(s, <<MethodCheck(s, {"GET", "POST"}), QueryCheck(s), BodyChecks(s)[2], EmptyCheck(s)>>)
Compact(s) ==
  Extracted(s, <<MethodCheck(s, {"POST"}), UnknownCheck(s), BodyChecks(s)[2], EmptyCheck(s),
                 NoQueryCheck(s)>>)
ForceMerge(s) == Resolved(s, {"POST"})
Backup(s) ==
  Extracted(s, <<MethodCheck(s, {"POST"}), NoQueryCheck(s), BodyChecks(s)[2], JsonCheck(s),
                 ParseCheck(s)>>)
Metrics(s) == BodilessNoQuery(s, {"GET", "HEAD"})
\* The method is checked before the body is read, the rest after it.
Health(s) ==
  FirstRefusal(<<MethodCheck(s, {"GET", "HEAD"}), BodyChecks(s)[1], UnknownCheck(s),
                 BodyChecks(s)[2], EmptyCheck(s), RefusedCheck(s)>>)

DocPut(s) ==
  FirstRefusal(<<MethodCheck(s, {"PUT"}), JsonCheck(s)>> \o BodyChecks(s)
                 \o <<ParseCheck(s), QueryCheck(s)>>)
DocDelete(s) == FirstRefusal(<<MethodCheck(s, {"DELETE"}), QueryCheck(s)>>)
DocGet(s) == FirstRefusal(<<MethodCheck(s, {"GET", "HEAD"}), QueryCheck(s)>>)
\* The lines of a bulk request and the rest of its parameters are read in the worker.
Bulk(s) ==
  FirstRefusal(<<MethodCheck(s, {"POST"}), BodyChecks(s)[1], UnknownCheck(s), BodyChecks(s)[2]>>)

ClusterCheckpoint(s) == BodilessNoQuery(s, {"POST"})
ClusterState(s) == Bodiless(s, {"GET", "HEAD"})
ClusterGc(s) == Bodiless(s, {"POST"})
ClusterResync(s) == Bodiless(s, {"POST"})
ClusterHandoff(s) == Document(s, {"POST"})
ClusterReassign(s) == Document(s, {"POST"})
ClusterRebalance(s) == OptionalDocument(s, {"POST"}, QueryCheck(s))
ClusterReconcile(s) == OptionalDocument(s, {"POST"}, QueryCheck(s))
ClusterResize(s) ==
  IF s.method = "GET" THEN FirstRefusal(<<NoQueryCheck(s)>>) ELSE Document(s, {"POST"})
ClusterNodeRegister(s) == Document(s, {"POST"})
ClusterNodeDeregister(s) == Bodiless(s, {"DELETE"})

ClusterOps ==
  {"checkpoint", "state", "gc", "resync", "handoff", "reassign", "rebalance", "reconcile",
   "resize", "register", "deregister", "cat_shards"}

ClusterContract(op, shape) ==
  CASE op = "checkpoint" -> ClusterCheckpoint(shape)
    [] op = "state" -> ClusterState(shape)
    [] op = "gc" -> ClusterGc(shape)
    [] op = "resync" -> ClusterResync(shape)
    [] op = "handoff" -> ClusterHandoff(shape)
    [] op = "reassign" -> ClusterReassign(shape)
    [] op = "rebalance" -> ClusterRebalance(shape)
    [] op = "reconcile" -> ClusterReconcile(shape)
    [] op = "resize" -> ClusterResize(shape)
    [] op = "register" -> ClusterNodeRegister(shape)
    [] op = "deregister" -> ClusterNodeDeregister(shape)
    [] op = "cat_shards" -> CatShards(shape)

(***************************************************************************)
(* Reading a document's tags and rank.  A JSON value is a record: its      *)
(* kind, the text of a scalar, the items of an array.  A document is       *)
(*   tags   : its `tags` object, a sequence of <<key, value>>              *)
(*   fields : its other members, a sequence of <<key, value>>              *)
(*   rank   : the value of rank_fields.priority, none or one               *)
(***************************************************************************)

CONSTANT IntegerOf      \* the integer a text denotes, for the texts that denote one

Scalars == {"string", "number", "bool"}

Elements(value) == IF value.kind = "array" THEN value.items ELSE <<value>>

\* A null is no tag; an object, or an array inside an array, is refused.
TagTexts(value) ==
  LET present == SelectSeq(Elements(value), LAMBDA v : v.kind # "null")
  IN  [i \in DOMAIN present |-> present[i].text]

TagsRefused(field) ==
  LET all == Elements(field[2])
  IN  \/ field[1] = ""
      \/ \E i \in DOMAIN all : all[i].kind \notin Scalars \cup {"null"}

IngestTags(doc) ==
  LET fields == doc.tags \o doc.fields
      tagsOf(f) == [i \in DOMAIN TagTexts(f[2]) |-> <<f[1], TagTexts(f[2])[i]>>]
  IN  IF \E i \in DOMAIN fields : TagsRefused(fields[i]) THEN {}
      ELSE {FlattenSeq([i \in DOMAIN fields |-> tagsOf(fields[i])])}

ParsePriority(value) ==
  IF value.kind \in {"number", "string"} /\ value.text \in DOMAIN IntegerOf
    THEN {IntegerOf[value.text]} ELSE {}

\* The tags and the rank of a document, or nothing when it is refused.  The typed
\* priority joins the tags; a tag that states it already has to agree.
RankedWith(doc, tags) ==
  LET priority == UNION {ParsePriority(v) : v \in doc.rank}
      legacy == SelectSeq(tags, LAMBDA t : t[1] = "priority")
      agrees == /\ legacy[1][2] \in DOMAIN IntegerOf
                /\ {IntegerOf[legacy[1][2]]} = priority
      text == CHOOSE t \in DOMAIN IntegerOf : {IntegerOf[t]} = priority
  IN  IF doc.rank = {} THEN {[tags |-> tags, rank |-> {}]}
      ELSE IF priority = {} \/ Len(legacy) > 1 THEN {}
      ELSE IF legacy = <<>>
        THEN {[tags |-> Append(tags, <<"priority", text>>), rank |-> priority]}
      ELSE IF agrees THEN {[tags |-> tags, rank |-> priority]} ELSE {}

ExtractRankedIngest(doc) == UNION {RankedWith(doc, tags) : tags \in IngestTags(doc)}

(***************************************************************************)
(* A bulk request: lines, an action and its source in turn.  `rows` gives  *)
(* the texts live under each id.                                           *)
(***************************************************************************)

CONSTANT Unstorable     \* the texts that do not parse or that no anchor selects

\* The metadata of an action names this index, requires no alias, and has an id.
ValidAction(line) == line.kind = "action"

\* An object with a string query, a version that fits, and tags that are not refused.
ValidSource(source) == source.kind = "source"

\* A wrong action refuses the request, a wrong source only its item.
ParseBulk(lines) ==
  IF lines = <<>> \/ Len(lines) % 2 = 1
       \/ \E i \in DOMAIN lines : i % 2 = 1 /\ ~ValidAction(lines[i])
    THEN <<>>
    ELSE [k \in 1..(Len(lines) \div 2) |->
            [op |-> lines[2 * k - 1].op, id |-> lines[2 * k - 1].id, source |-> lines[2 * k]]]

ClassifyItems(items) == SelectSeq(items, LAMBDA i : ValidSource(i.source))

\* One item under the engine lock: `create` is an insert, `index` an upsert.
ApplyOne(rows, item) ==
  LET live == rows[item.id] # {}
  IN  IF item.op = "create" /\ live THEN [rows |-> rows, result |-> 409]
      ELSE IF item.source.text \in Unstorable THEN [rows |-> rows, result |-> 400]
      ELSE [rows |-> [rows EXCEPT ![item.id] = {item.source.text}],
            result |-> IF live THEN 200 ELSE 201]

FreshUnlessLive(rows, items) ==
  \A k \in DOMAIN items : items[k].source.version = 1 /\ rows[items[k].id] = {}

\* First versions of ids of their own that are not live.
CanUseFreshBatch(rows, items) ==
  /\ \A k \in DOMAIN items : items[k].source.version = 1 /\ rows[items[k].id] = {}
  /\ \A j, k \in DOMAIN items : items[j].id = items[k].id => j = k

\* One segment of every text that can be stored, without a look at what is live.
ApplyFreshBatch(rows, items) ==
  LET stored == {k \in DOMAIN items : items[k].source.text \notin Unstorable}
  IN  [rows |-> [id \in DOMAIN rows |->
                   rows[id] \cup {items[k].source.text : k \in {j \in stored : items[j].id = id}}],
       results |-> [k \in DOMAIN items |-> IF k \in stored THEN 201 ELSE 400]]

ApplyInOrder(rows, items) ==
  LET step(s, item) ==
        LET one == ApplyOne(s.rows, item)
        IN  [rows |-> one.rows, results |-> Append(s.results, one.result)]
  IN  FoldLeft(step, [rows |-> rows, results |-> <<>>], items)

BulkIngest(rows, items) ==
  IF CanUseFreshBatch(rows, items) THEN ApplyFreshBatch(rows, items)
  ELSE ApplyInOrder(rows, items)

=============================================================================
