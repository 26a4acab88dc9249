----------------------------- MODULE MCQueries -----------------------------
(***************************************************************************)
(* What answers a percolation, in one run: a behaviour is one of ranked    *)
(* search (RankedSearch), one of a title's completion by alias forms       *)
(* (AliasCompletion), one of segments of queries under three vocabularies  *)
(* (Matching), or a single case of one of the functions a search is made   *)
(* of, which has no steps.                                                 *)
(***************************************************************************)
EXTENDS RankedSearch, PercolateRequests, Matching, AliasCompletion

VARIABLES part, case

MCMatchOf == [t \in SearchTitles |-> IF t = "t1" THEN Queries ELSE {1}]
MCPlacements == {[i \in Queries |-> i], [i \in Queries |-> 1]}

-----------------------------------------------------------------------------
(* Emissions of up to four rows of three queries, in every order and with   *)
(* every repetition.                                                        *)
Score3 == [1..3 -> 1..2]
Emissions(sc) == {[i \in DOMAIN e |-> <<sc[e[i]], e[i]>>] : e \in SeqOf(1..3, 4)}
Boundaries3 == {NoBoundary} \cup (1..2) \X (1..3)

CollectCases ==
  UNION {[emit : Emissions(sc), k : 0..2, upTo : 0..2, after : Boundaries3] : sc \in Score3}

ChunkCases ==
  UNION {[emit : Emissions(sc), size : 1..2, failAt : 0..2] : sc \in {[i \in 1..3 |-> 1]}}

(* Two documents, whose matches overlap as they may.                        *)
SlotOf(ids, sc) == SetToSortSeq({[id |-> i, score |-> sc[i]] : i \in ids}, ById)
PageCases ==
  UNION {[slots : {<<SlotOf(a, sc), SlotOf(b, sc)>> : a \in SUBSET (1..3), b \in SUBSET (1..3)},
          shape : {"many", "perSlot"}, ranked : BOOLEAN, from : 0..1, size : 0..2]
           \cup [slots : {<<SlotOf(a, sc)>> : a \in SUBSET (1..3)},
                 shape : {"single"}, ranked : BOOLEAN, from : 0..1, size : 0..2] :
         sc \in Score3}

Docs == {"ok", "extra", "bad"}
DocLists == {<<>>, <<"ok">>, <<"ok", "extra">>}
Opt(s) == {{}} \cup {{v} : v \in s}
Percolates ==
  [field : {"query", "other"}, extra : BOOLEAN, document : Opt(Docs), documents : Opt(DocLists)]
EsClauses ==
  [kinds : {<<"terms">>, <<"term">>, <<"other">>, <<"terms", "term">>},
   fields : {<<>>, <<"array">>, <<"scalar">>, <<"array", "scalar">>}]
SomePercolate == [field |-> "query", extra |-> FALSE, document |-> {"ok"}, documents |-> {}]
Bools ==
  [extra : BOOLEAN, must : {<<[extra |-> x, percolate |-> p]>> : x \in BOOLEAN, p \in Opt({SomePercolate})}
                             \cup {<<>>},
   filter : Opt({<<c>> : c \in EsClauses})]
EsQueries ==
  [others : BOOLEAN, bool : {{}}, percolate : Opt(Percolates)]
    \cup [others : BOOLEAN, bool : {{b} : b \in Bools}, percolate : {{}}]
RequestCases ==
  [query : Opt(EsQueries), document : Opt({"ok"}), documents : Opt(DocLists),
   filter : Opt({<<"scalar">>, <<"bad">>})]

-----------------------------------------------------------------------------
(* The completion of every title of at most three words, and the segments.  *)
Words == {"a", "b", "c"}

Texts(n) == UNION {[1..k -> Words] : k \in 1..n}

Phrase(toks, how) == [toks |-> toks, feature |-> <<"phrase">> \o toks, mode |-> how]

NoSynonyms == [x \in {} |-> <<>>]

BasePhrases == {<<>>, <<Phrase(<<"a", "b">>, "collapse")>>}

AliasGroups ==
  {{<<"a", "b">>, <<"c">>}, {<<"b", "c">>, <<"d">>},
   {<<"d", "e">>, <<"a", "b", "c">>}, {<<"c", "a">>, <<"e">>}}

MCVocabularies ==
  {<<Build(k[1], NoSynonyms, {}), Build(k[1], NoSynonyms, k[2])>> :
     k \in BasePhrases \X {{g, h, i} : g \in AliasGroups, h \in AliasGroups, i \in AliasGroups}}

MCTitles == Texts(3)

MCFeatures ==
  {Term(w) : w \in Words \cup {"#"}} \cup {<<"phrase", "a", "b">>, <<"entity", "a", "b">>}

Word(w) == [kind |-> "term", neg |-> FALSE, texts |-> <<w>>]
Not(w) == [kind |-> "term", neg |-> TRUE, texts |-> <<w>>]
AnyOf(ts) == [kind |-> "any", neg |-> FALSE, texts |-> ts]
NotAny(ts) == [kind |-> "any", neg |-> TRUE, texts |-> ts]
Quoted(t) == [kind |-> "phrase", neg |-> FALSE, texts |-> <<t>>]
NotQuoted(t) == [kind |-> "phrase", neg |-> TRUE, texts |-> <<t>>]

A == <<"a">>
B == <<"b">>
C == <<"c">>
AB == <<"a", "b">>

TitleTexts == {A, B, C, AB, <<"b", "c", "a">>, <<"#", "a">>}

\* Plain words; a collapsing phrase; an alias.
Case(name, phrases, groups, queries) ==
  [name |-> name, phrases |-> phrases, synonyms |-> NoSynonyms, groups |-> groups,
   queries |-> queries, texts |-> TitleTexts]

MCCases ==
  {Case("plain", <<>>, {},
     << <<Word(A)>>, <<Word(B), Not(C)>>, <<AnyOf(<<A, B>>)>>, <<Not(A)>>,
        <<Word(A), AnyOf(<<B, <<"c", "b">> >>)>> >>),
   Case("phrase", <<Phrase(AB, "collapse")>>, {},
     << <<Word(A), Word(B)>>, <<Word(A), NotAny(<<AB, C>>)>>, <<Quoted(AB)>>, <<Quoted(<<"#">>)>> >>),
   Case("alias", <<>>, {{AB, C}},
     << <<Word(A), Word(B)>>, <<Word(C)>>, <<Word(A), NotQuoted(AB)>> >>)}

MCTagsOf == <<{{}}, {{"x"}}>>

MCSettings == {<<TRUE, TRUE>>, <<FALSE, FALSE>>}

NoCompletion ==
  /\ before = <<>> /\ vocab = <<>> /\ title = <<>> /\ names = {} /\ todo = {}
  /\ view = EmptyView

NoSegments ==
  /\ profile = [vocab |-> [phrases |-> <<>>], queries |-> <<>>, titles |-> {}, truth |-> {}]
  /\ dict = EmptyDict /\ segs = <<>> /\ mem = EmptySegment
  /\ theta = 0 /\ dedup = FALSE /\ acceptD = FALSE /\ adds = 0 /\ merges = 0

-----------------------------------------------------------------------------
(* What is not the run's part stays in one state.                           *)
CaseInit ==
  \/ part \in {"search", "completion", "segments"} /\ case = 0
  \/ part = "collect" /\ case \in CollectCases
  \/ part = "chunk" /\ case \in ChunkCases
  \/ part = "page" /\ case \in PageCases
  \/ part = "request" /\ case \in RequestCases

QueriesInit ==
  /\ CaseInit
  /\ SearchInit /\ (part # "search" => mode = "local" /\ client = "pages")
  /\ IF part = "completion" THEN CompletionInit ELSE NoCompletion
  /\ IF part = "segments" THEN MatchInit ELSE NoSegments

QueriesNext ==
  /\ \/ part = "search" /\ SearchNext /\ UNCHANGED <<completionVars, matchVars>>
     \/ part = "completion" /\ CompletionNext /\ UNCHANGED <<searchVars, matchVars>>
     \/ part = "segments" /\ MatchNext /\ UNCHANGED <<searchVars, completionVars>>
  /\ UNCHANGED <<part, case>>

QueriesSpec ==
  QueriesInit /\ [][QueriesNext]_<<part, case, searchVars, completionVars, matchVars>>

-----------------------------------------------------------------------------
\* What a ranked collection of these rows must return.
TopReference(rows, k, upTo, after) ==
  LET eligible == {h \in rows : after = NoBoundary \/ RankedBeats(after, h)}
      all == Ranked(eligible)
      n == Cardinality(HitIds(rows))
  IN [hits |-> SubSeq(all, 1, IF Len(all) < k THEN Len(all) ELSE k),
      total |-> IF n <= upTo THEN Exact(n) ELSE AtLeast(upTo)]

Distinct(emit) ==
  FoldLeft(LAMBDA seq, h : IF h \in ToSet(seq) THEN seq ELSE Append(seq, h), <<>>, emit)

Only(emit, ids) == SelectSeq(emit, LAMBDA h : h[2] \in ids)

(* The bounded heap returns the k best distinct rows after the boundary and *)
(* the right total for every order and repetition of the emissions, and     *)
(* the coordinator's merge of two shards' answers, which it finds valid, is *)
(* the answer of one shard that had all rows; the chunks of an exhaustive   *)
(* delivery are the distinct rows in order, and only a delivery that the    *)
(* sink took whole has a summary (Observe, MergeTitleRows, Chunked).        *)
CollectionIsExact ==
  /\ part = "collect" =>
       LET want == TopReference(ToSet(case.emit), case.k, case.upTo, case.after)
           of(ids) == TopK(Only(case.emit, ids), case.k, case.upTo, case.after)
           parts == <<of({1, 3}), of({2})>>
       IN
       /\ of({1, 2, 3}) = want
       /\ OwnedOnce(parts)
       /\ \A i \in 1..2 : ValidPart(parts[i], case.k, case.upTo, case.after)
       /\ MergeTitleRows(parts, case.k, case.upTo) = want
  /\ part = "chunk" =>
       LET got == Chunked(case.emit, case.size, case.failAt)
           sent == FlattenSeq(got.chunks)
           n == Len(Distinct(case.emit))
       IN
       /\ IsPrefix(sent, Distinct(case.emit))
       /\ got.summary # {} => sent = Distinct(case.emit)
       /\ (got.summary = {}) <=> (case.failAt \in 1..((n + case.size - 1) \div case.size))
       /\ \A i \in DOMAIN got.chunks :
            Len(got.chunks[i]) = case.size \/ (i = Len(got.chunks) /\ got.summary # {})

(* The sources read under the frozen view (source_ids) are those of every   *)
(* row that any page of the response shows, so attach_hits never fails for  *)
(* a query that has its source: also when the ranked page over all          *)
(* documents shows a row that no document's own page shows.                 *)
SourcesCoverThePages ==
  part = "page" =>
    AttachHits(case.slots, case.shape, case, SourceIds(case.slots, case.shape, case))

(* The strict resolver of /_search and /_mpercolate only refuses more: what *)
(* it accepts, it reads as the other endpoints' resolver does.              *)
StrictNarrowsLenient ==
  part = "request" =>
    LET strict == ResolvePercolate(case, TRUE) IN
    strict.ok => strict = ResolvePercolate(case, FALSE)

(* The functions of a search agree with their contracts on every case.      *)
CasesAreExact == CollectionIsExact /\ SourcesCoverThePages /\ StrictNarrowsLenient
=============================================================================
