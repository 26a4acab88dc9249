------------------------- MODULE PercolateRequests -------------------------
(***************************************************************************)
(* What /_search and /_mpercolate make of a request, and how they page the *)
(* matches of its documents into a response: pure functions of the request *)
(* body and of the matched rows.                                           *)
(*                                                                         *)
(* A JSON value is abstracted to what the resolver looks at.  A document   *)
(* is "ok" (an object with just a title), "extra" (a title and more) or    *)
(* "bad"; an optional value is {} or {v}.                                  *)
(***************************************************************************)
EXTENDS Integers, Sequences, FiniteSets, SequencesExt

Refused == [ok |-> FALSE]
Resolved(docs, single, filter) ==
  [ok |-> TRUE, docs |-> docs, single |-> single, filter |-> filter]

-----------------------------------------------------------------------------

FieldOk(v, strict, kind) ==
  CASE kind = "terms" -> v = "array" \/ (v = "scalar" /\ ~strict)
    [] kind = "term" -> v = "scalar"

ClauseOk(c, strict) ==
  /\ Len(c.kinds) = 1
  /\ c.kinds[1] \in {"terms", "term"}
  /\ c.fields # <<>>
  /\ strict => Len(c.fields) = 1
  /\ \A i \in DOMAIN c.fields : FieldOk(c.fields[i], strict, c.kinds[1])

(* parse_es_filter: one (field, values) pair per field of every clause.     *)
EsFilter(clauses, strict) ==
  IF \A i \in DOMAIN clauses : ClauseOk(clauses[i], strict)
  THEN [ok |-> TRUE, pairs |-> FlattenSeq([i \in DOMAIN clauses |-> clauses[i].fields])]
  ELSE Refused

NativeFilter(fields) ==
  IF \A i \in DOMAIN fields : fields[i] \in {"array", "scalar"}
  THEN [ok |-> TRUE, pairs |-> fields]
  ELSE Refused

-----------------------------------------------------------------------------
(* extract_percolate_docs.                                                  *)
TitleOf(doc, strict) == doc = "ok" \/ (doc = "extra" /\ ~strict)

PercolateDocs(p, strict) ==
  IF strict /\ (p.extra \/ p.field # "query") THEN Refused
  ELSE IF p.document # {} /\ (p.documents = {} \/ ~strict)
       THEN LET d == CHOOSE d \in p.document : TRUE IN
            IF TitleOf(d, strict) THEN Resolved(<<d>>, TRUE, <<>>) ELSE Refused
  ELSE IF p.document = {} /\ p.documents # {}
       THEN LET ds == CHOOSE ds \in p.documents : TRUE IN
            IF \A i \in DOMAIN ds : TitleOf(ds[i], strict)
            THEN Resolved(ds, FALSE, <<>>) ELSE Refused
  ELSE Refused

(* resolve_es_query: a bare percolate, or bool with one percolate under     *)
(* must and an optional filter.  `must' lists the clauses found there, each *)
(* {} (something else) or {percolate}.                                      *)
EsQuery(q, strict) ==
  IF strict /\ q.others THEN Refused
  ELSE IF q.bool # {}
       THEN LET b == CHOOSE b \in q.bool : TRUE
                filter == IF b.filter = {} THEN [ok |-> TRUE, pairs |-> <<>>]
                          ELSE EsFilter(CHOOSE f \in b.filter : TRUE, strict)
            IN
            IF (strict /\ b.extra) \/ Len(b.must) # 1 THEN Refused
            ELSE IF b.must[1].percolate = {} \/ (strict /\ b.must[1].extra) \/ ~filter.ok
                 THEN Refused
            ELSE LET docs == PercolateDocs(CHOOSE p \in b.must[1].percolate : TRUE, strict) IN
                 IF docs.ok THEN [docs EXCEPT !.filter = filter.pairs] ELSE Refused
  ELSE IF q.percolate # {} THEN PercolateDocs(CHOOSE p \in q.percolate : TRUE, strict)
  ELSE Refused

(* resolve_percolate_with_mode.  The native documents were checked when the *)
(* body was decoded.                                                        *)
ResolvePercolate(body, strict) ==
  IF body.query # {}
  THEN IF strict /\ (body.document # {} \/ body.documents # {} \/ body.filter # {})
       THEN Refused ELSE EsQuery(CHOOSE q \in body.query : TRUE, strict)
  ELSE LET filter == IF body.filter = {} THEN [ok |-> TRUE, pairs |-> <<>>]
                     ELSE NativeFilter(CHOOSE f \in body.filter : TRUE)
       IN
       IF ~filter.ok \/ (body.document = {} /\ body.documents = {}) THEN Refused
       ELSE IF strict /\ body.document # {} /\ body.documents # {} THEN Refused
       ELSE IF body.document # {}
            THEN Resolved(<<CHOOSE d \in body.document : TRUE>>, TRUE, filter.pairs)
       ELSE Resolved(CHOOSE ds \in body.documents : TRUE, FALSE, filter.pairs)

-----------------------------------------------------------------------------
(* resolve_search_controls: a control is given in the body or in the query  *)
(* string, never in both; _source and include_source are one control, and   *)
(* so are timeout and timeout_ms.  A unit of {} is a timeout without unit.  *)
OneLocation(body, param) ==
  IF body # {} /\ param # {} THEN Refused ELSE [ok |-> TRUE, value |-> body \cup param]

OrElse(opt, default) == IF opt = {} THEN default ELSE CHOOSE v \in opt : TRUE

SearchControls(body, param, defaultSource) ==
  LET from == OneLocation(body.from, param.from)
      size == OneLocation(body.size, param.size)
      both == OneLocation(body.includeSource, body.source)
      source == IF both.ok THEN OneLocation(both.value, param.source) ELSE Refused
      time == OneLocation(body.timeout, param.timeout)
  IN
  IF ~(from.ok /\ size.ok /\ source.ok /\ time.ok) THEN Refused
  ELSE IF body.timeoutMs # {} /\ time.value # {} THEN Refused
  ELSE IF time.value # {} /\ ~(CHOOSE t \in time.value : TRUE).unit THEN Refused
  ELSE [ok |-> TRUE, from |-> OrElse(from.value, 0), size |-> OrElse(size.value, 1000),
        source |-> OrElse(source.value, defaultSource),
        explicit |-> body.timeoutMs # {} \/ time.value # {}]

(* prepare_mpercolate.                                                      *)
PrepareMPercolate(body, defaultSource) ==
  LET docs == ResolvePercolate([document |-> {}, documents |-> body.documents,
                                filter |-> body.filter, query |-> body.query], TRUE)
  IN
  IF body.explain \/ body.allowPartial \/ (body.includeSource # {} /\ body.source # {})
       \/ (body.timeoutMs # {} /\ body.timeout # {}) \/ ~docs.ok
  THEN Refused
  ELSE [ok |-> TRUE, docs |-> docs.docs, filter |-> docs.filter,
        source |-> OrElse(body.includeSource \cup body.source, defaultSource),
        size |-> OrElse(body.size, 1000), from |-> OrElse(body.from, 0)]

-----------------------------------------------------------------------------
(* Matched rows are [id, score]; a slot is the row sequence of a document,  *)
(* in id order.  order_and_page of both servers.                            *)
RowBefore(a, b) == a.score > b.score \/ (a.score = b.score /\ a.id < b.id)
ById(a, b) == a.id < b.id

OrderAndPage(rows, ranked, from, size) ==
  LET all == IF ranked THEN SortSeq(rows, RowBefore) ELSE rows IN
  SubSeq(all, from + 1, IF from + size < Len(all) THEN from + size ELSE Len(all))

(* The union of all slots, sorted and deduplicated by id; a duplicate keeps *)
(* one of its rows.                                                         *)
AllRows(slots) ==
  LET rows == UNION {ToSet(slots[i]) : i \in DOMAIN slots}
      ids == {r.id : r \in rows}
  IN SortSeq(SetToSeq({CHOOSE r \in rows : r.id = i : i \in ids}), ById)

PageIds(rows, c) == {r.id : r \in ToSet(OrderAndPage(rows, c.ranked, c.from, c.size))}

(* source_ids: the ids whose sources are read under the stable view, before *)
(* the response is put together.                                            *)
SourceIds(slots, shape, c) ==
  UNION {PageIds(slots[i], c) : i \in DOMAIN slots}
    \cup (IF shape = "many" THEN PageIds(AllRows(slots), c) ELSE {})

(* The pages of the response: of /_search with one document, of /_search    *)
(* with several (a page over all and one per document), of /_mpercolate.    *)
SingleResponse(slots, c) == {PageIds(slots[1], c)}
SearchResponse(slots, c) ==
  {PageIds(slots[i], c) : i \in DOMAIN slots} \cup {PageIds(AllRows(slots), c)}
MPercolateResponse(slots, c) == {PageIds(slots[i], c) : i \in DOMAIN slots}

Response(slots, shape, c) ==
  CASE shape = "single" -> SingleResponse(slots, c)
    [] shape = "many" -> SearchResponse(slots, c)
    [] shape = "perSlot" -> MPercolateResponse(slots, c)

(* attach_hits: a hit without a source fails the whole response.            *)
AttachHits(slots, shape, c, sources) == \A page \in Response(slots, shape, c) : page \subseteq sources
=============================================================================
