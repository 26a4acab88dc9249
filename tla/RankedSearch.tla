---------------------------- MODULE RankedSearch ----------------------------
(***************************************************************************)
(* Ranked search, its points in time (PITs) and its cursors, beside the    *)
(* writes and the layout changes of the same process.                      *)
(*                                                                         *)
(* A query is stored as the row <<score, id>>; its score also stands for   *)
(* its version, hence for its source text.  `store` keeps the shards of    *)
(* every layout generation: a search keeps the layout it began with, and a *)
(* shard keeps the snapshots that PITs pinned.  In mode "local" there is   *)
(* one snapshot and no coordinator; in mode "wire" the shards are remote   *)
(* and cannot pin.                                                         *)
(***************************************************************************)
EXTENDS Integers, Sequences, SequencesExt

(***************************************************************************)
(* How a ranked search collects: the total order of the hits, the bounded  *)
(* heap of one snapshot, the total it claims, the chunks of an exhaustive  *)
(* delivery, and the merge of the shards' parts at the coordinator.        *)
(*                                                                         *)
(* A hit is <<score, id>>.  A snapshot emits its matches in no particular  *)
(* order, an id possibly more than once (a query reached through two       *)
(* lanes), always with the same score.                                     *)
(***************************************************************************)

\* No search_after boundary.
NoBoundary == <<>>

\* result.rs: score descending, then id ascending; a strict total order.
RankedBeats(a, b) == a[1] > b[1] \/ (a[1] = b[1] /\ a[2] < b[2])

Ranked(hits) == SetToSortSeq(hits, RankedBeats)

HitIds(hits) == {h[2] : h \in hits}

Exact(n) == [value |-> n, exact |-> TRUE]
AtLeast(n) == [value |-> n, exact |-> FALSE]

-----------------------------------------------------------------------------
(* One snapshot's collector.                                               *)

EmptyState == [heap |-> {}, seen |-> {}, exceeded |-> FALSE]

\* TotalTracker::observe: ids are remembered until the threshold is passed.
CountId(st, id, upTo) ==
  IF st.exceeded \/ id \in st.seen THEN st
  ELSE [st EXCEPT !.seen = @ \cup {id},
                  !.exceeded = Cardinality(st.seen \cup {id}) > upTo]

Worst(heap) == CHOOSE h \in heap : \A g \in heap : g = h \/ RankedBeats(g, h)

\* Mutant: the rows before the boundary are left out of the total.
ObserveAfterBoundary(st, hit, k, upTo, after) ==
  LET counted == CountId(st, hit[2], upTo) IN
  IF k = 0 \/ (after # NoBoundary /\ ~RankedBeats(after, hit)) THEN st
  ELSE IF Cardinality(st.heap \cup {hit}) <= k THEN [counted EXCEPT !.heap = @ \cup {hit}]
  ELSE IF RankedBeats(hit, Worst(st.heap))
       THEN [counted EXCEPT !.heap = (@ \ {Worst(@)}) \cup {hit}] ELSE counted

\* TopKState::observe.  The total is counted first, so that it does not
\* depend on the page; a hit on or before the boundary is left out.
Observe(st, hit, k, upTo, after) ==
  LET counted == CountId(st, hit[2], upTo)
      skip == \/ k = 0
              \/ hit[2] \in HitIds(st.heap)
              \/ after # NoBoundary /\ ~RankedBeats(after, hit)
  IN  CASE skip -> counted
        [] ~skip /\ Cardinality(st.heap) < k ->
             [counted EXCEPT !.heap = @ \cup {hit}]
        [] OTHER ->
             IF RankedBeats(hit, Worst(st.heap))
             THEN [counted EXCEPT !.heap = (@ \ {Worst(@)}) \cup {hit}]
             ELSE counted

TotalHits(st, upTo) == IF st.exceeded THEN AtLeast(upTo) ELSE Exact(Cardinality(st.seen))

\* finish_summary: the winners in rank order, and the claimed total.
TopK(emissions, k, upTo, after) ==
  LET step(st, hit) == Observe(st, hit, k, upTo, after)
      st == FoldLeft(step, EmptyState, emissions)
  IN  [hits |-> Ranked(st.heap), total |-> TotalHits(st, upTo)]

-----------------------------------------------------------------------------
(* The chunked collector of an exhaustive delivery: `failAt` is the chunk  *)
(* the sink refuses, 0 for none.                                           *)

ChunkStart == [buffer |-> <<>>, sent |-> <<>>, error |-> FALSE, total |-> 0]

FlushChunk(st, failAt) ==
  IF st.buffer = <<>> \/ st.error THEN st
  ELSE IF failAt = Len(st.sent) + 1
       THEN [st EXCEPT !.buffer = <<>>, !.error = TRUE]
       ELSE [st EXCEPT !.buffer = <<>>, !.sent = Append(@, st.buffer)]

\* on_match_at, accept: `canonical` picks one row of an id that has several.
Accept(st, hit, canonical, size, failAt) ==
  IF st.error \/ ~canonical THEN st
  ELSE LET pushed == [st EXCEPT !.buffer = Append(@, hit), !.total = @ + 1]
       IN  IF Len(pushed.buffer) = size THEN FlushChunk(pushed, failAt) ELSE pushed

\* The whole delivery; no summary is given once the sink has refused.
Chunked(emissions, size, failAt) ==
  LET step(st, i) ==
        Accept(st, emissions[i],
               \A j \in 1..(i - 1) : emissions[j][2] # emissions[i][2], size, failAt)
      st == FlushChunk(FoldLeftDomain(step, ChunkStart, emissions), failAt)
  IN  [chunks |-> st.sent,
       summary |-> IF st.error THEN {} ELSE {[total |-> st.total, chunks |-> Len(st.sent)]}]

-----------------------------------------------------------------------------
(* The coordinator: a part is [hits, total] from one shard.                *)

\* validate_part: what the coordinator refuses to merge.
ValidPart(part, k, upTo, after) ==
  /\ Len(part.hits) <= k
  /\ (after # NoBoundary /\ part.hits # <<>>) => RankedBeats(after, part.hits[1])
  /\ IF part.total.exact
     THEN part.total.value <= upTo /\ part.total.value >= Len(part.hits)
     ELSE part.total.value = upTo
  /\ \A i \in 1..(Len(part.hits) - 1) : RankedBeats(part.hits[i], part.hits[i + 1])

\* No id is answered by two shards.
OwnedOnce(parts) ==
  \A i, j \in DOMAIN parts :
    i # j => HitIds(ToSet(parts[i].hits)) \cap HitIds(ToSet(parts[j].hits)) = {}

\* merge_title_rows.
MergeTitleRows(parts, k, upTo) ==
  LET rows == Ranked(UNION {ToSet(parts[i].hits) : i \in DOMAIN parts})
      add(sum, part) == sum + part.total.value
      sum == FoldLeft(add, 0, parts)
      exact == \A i \in DOMAIN parts : parts[i].total.exact
  IN  [hits |-> SubSeq(rows, 1, IF Len(rows) < k THEN Len(rows) ELSE k),
       total |-> IF exact /\ sum <= upTo THEN Exact(sum) ELSE AtLeast(upTo)]

-----------------------------------------------------------------------------
CONSTANTS
  Positions,   \* the shards' positions, 1..n
  Queries,     \* query ids
  Scores,      \* versions of a query
  SearchTitles,      \* titles that clients percolate
  MatchOf,    \* title |-> the queries that match it
  Placements,  \* placements of the queries that layouts have
  Sizes,       \* page sizes a client asks for
  UpTo,        \* track_total_hits_up_to
  OpenLimit,   \* PitConfig.max_open
  MaxPits, MaxWrites, MaxGen, MaxClock   \* bounds of the model

VARIABLES
  mode,     \* "local", "cluster" or "wire"
  client,   \* whether the client pages under PITs or reads the current view
  gen,      \* the published layout's generation
  store,    \* generation |-> position |-> [rows, pins]
  pits,     \* the registry: PIT |-> {} or {[gen, due]}
  nextPit, clock,
  opening,  \* {} or {[pit, left]}: an open between its shards
  write,    \* {} or {[old, from, ...]}: a move between its two shards
  writes, moves,
  search,   \* {} or the one request in progress
  stream,   \* {} or the pages a client has got under one PIT
  cut       \* PIT |-> the rows there were when it was opened (history)

searchVars == <<mode, client, gen, store, pits, nextPit, clock, opening, write, writes, moves,
                search, stream, cut>>

PitIds == 0..(MaxPits - 1)
NoPin == {<<>>}
Hits == Scores \X Queries
Used == IF mode = "local" THEN {1} ELSE Positions
Empty == [rows |-> {}, pins |-> [p \in PitIds |-> NoPin]]

RowsOf(g) == UNION {store[g][s].rows : s \in Used}
Home(id) == {s \in Used : id \in HitIds(store[gen][s].rows)}

SearchInit ==
  /\ mode \in {"local", "cluster", "wire"}
  /\ client \in {"pages", "reads"}
  /\ gen = 0
  /\ \E place \in IF mode = "local" THEN {[id \in Queries |-> 1]} ELSE Placements :
       store = [g \in 0..MaxGen |-> [s \in Positions |->
                  IF g = 0
                  THEN [Empty EXCEPT !.rows = {<<1, id>> : id \in {i \in Queries : place[i] = s}}]
                  ELSE Empty]]
  /\ pits = [p \in PitIds |-> {}]
  /\ nextPit = 0 /\ clock = 0
  /\ opening = {} /\ write = {} /\ writes = 0 /\ moves = 0
  /\ search = {} /\ stream = {}
  /\ cut = [p \in PitIds |-> {}]

-----------------------------------------------------------------------------
(* The barrier between mutations (shared) and frozen views (alone).        *)

\* Mutant: a search for sources does not keep writes out.
FrozenByOpens == opening # {}
Frozen == opening # {} \/ \E q \in search : q.fenced

\* Mutant: a PIT is opened beside a write in flight.
WritesIgnored == ~Frozen
MutationsExcluded == write = {} /\ ~Frozen

(* The PIT registry.                                                       *)

Open == {p \in PitIds : pits[p] # {}}
Due(p) == CHOOSE e \in pits[p] : TRUE

\* reap_expired: what has passed its deadline.
Expired == {p \in Open : Due(p).due < clock}
Reaped == [p \in PitIds |-> IF p \in Expired THEN {} ELSE pits[p]]

Unpinned(st, g, ps) ==
  [st EXCEPT ![g] = [s \in Positions |->
     [@[s] EXCEPT !.pins = [p \in PitIds |-> IF p \in ps THEN NoPin ELSE @[p]]]]]

\* In ticks of the model's clock: an entry lasts to the end of its tick.
KeepAlive == 0

\* PitRegistry::open and entry_deadline, after the reap: rejects at the cap.
CanOpen == Cardinality(Open \ Expired) < OpenLimit

\* PitRegistry::touch: a live entry is renewed.
Touched(p) == [Reaped EXCEPT ![p] = {[Due(p) EXCEPT !.due = clock + KeepAlive]}]

\* check_pit_in: the entry is there and is of this layout.
PitServes(p, g) == p \in Open \ Expired /\ Due(p).gen = g

\* The registry after check_pit_in.
Checked(p, g) ==
  IF PitServes(p, g) THEN Touched(p) ELSE [Reaped EXCEPT ![p] = {}]

Tick ==
  /\ client = "pages" /\ clock < MaxClock
  /\ clock' = clock + 1
  /\ UNCHANGED <<mode, client, gen, store, pits, nextPit, opening, write, writes, moves, search,
                 stream, cut>>

\* open_pit_under_barrier, up to the shards: the registry entry comes first.
OpenPit ==
  /\ client = "pages" /\ mode # "local"
  /\ MutationsExcluded /\ (CanOpen => nextPit < MaxPits)
  /\ store' = Unpinned(store, gen, Expired)
  /\ IF CanOpen
     THEN /\ pits' = [Reaped EXCEPT ![nextPit] = {[gen |-> gen, due |-> clock + KeepAlive]}]
          /\ nextPit' = nextPit + 1
          /\ opening' = {[pit |-> nextPit, left |-> Positions]}
     ELSE pits' = Reaped /\ UNCHANGED <<nextPit, opening>>
  /\ UNCHANGED <<mode, client, gen, clock, write, writes, moves, search, stream, cut>>

NewStream(p) ==
  IF stream = {} THEN {[pit |-> p, title |-> {}, after |-> NoBoundary, got |-> <<>>,
                        totals |-> {}, done |-> FALSE]}
  ELSE stream

\* One shard's open_pit; a remote shard refuses, and the entry goes again.
PinShard ==
  \E o \in opening :
    LET s == CHOOSE s \in o.left : \A t \in o.left : s <= t
        last == o.left = {s}
    IN  /\ IF mode = "wire"
           THEN /\ pits' = [pits EXCEPT ![o.pit] = {}]
                /\ opening' = {}
                /\ UNCHANGED <<store, cut, stream>>
           ELSE /\ store' = [store EXCEPT ![gen][s].pins[o.pit] = store[gen][s].rows]
                /\ cut' = IF o.left = Positions
                          THEN [cut EXCEPT ![o.pit] = RowsOf(gen)] ELSE cut
                /\ opening' = IF last THEN {} ELSE {[o EXCEPT !.left = @ \ {s}]}
                /\ stream' = IF last THEN NewStream(o.pit) ELSE stream
                /\ UNCHANGED pits
        /\ UNCHANGED <<mode, client, gen, nextPit, clock, write, writes, moves, search>>

\* open_pit_inner of the single-node server: the snapshot is the PIT.
OpenLocal ==
  /\ client = "pages" /\ mode = "local" /\ (CanOpen => nextPit < MaxPits)
  /\ IF CanOpen
     THEN /\ pits' = [Reaped EXCEPT ![nextPit] = {[gen |-> gen, due |-> clock + KeepAlive]}]
          /\ store' = [Unpinned(store, gen, Expired)
                         EXCEPT ![gen][1].pins[nextPit] = store[gen][1].rows]
          /\ cut' = [cut EXCEPT ![nextPit] = RowsOf(gen)]
          /\ stream' = NewStream(nextPit)
          /\ nextPit' = nextPit + 1
     ELSE /\ pits' = Reaped
          /\ store' = Unpinned(store, gen, Expired)
          /\ UNCHANGED <<cut, stream, nextPit>>
  /\ UNCHANGED <<mode, client, gen, clock, opening, write, writes, moves, search>>

\* close_pit, also of a PIT whose page is being collected.
ClosePit(p) ==
  /\ \E st \in stream : st.pit = p
  /\ store' = Unpinned(store, gen, Expired \cup {p})
  /\ pits' = [Reaped EXCEPT ![p] = {}]
  /\ stream' = IF search = {} THEN {} ELSE stream
  /\ UNCHANGED <<mode, client, gen, nextPit, clock, opening, write, writes, moves, search, cut>>

-----------------------------------------------------------------------------
(* Writes and layout changes.                                              *)

Rowless(rows, id) == {h \in rows : h[2] # id}

\* A write that stays on one shard, or the first that a query gets.
StoreRow(h, s) ==
  /\ write = {} /\ ~Frozen
  /\ writes < MaxWrites
  /\ Home(h[2]) \subseteq {s}
  /\ store' = [store EXCEPT ![gen][s].rows = Rowless(@, h[2]) \cup {h}]
  /\ writes' = writes + 1
  /\ UNCHANGED <<mode, client, gen, pits, nextPit, clock, opening, write, moves, search, stream, cut>>

Delete1(id) ==
  /\ write = {} /\ ~Frozen
  /\ writes < MaxWrites
  /\ Home(id) # {}
  /\ store' = [store EXCEPT ![gen] = [s \in Positions |->
                 [@[s] EXCEPT !.rows = Rowless(@, id)]]]
  /\ writes' = writes + 1
  /\ UNCHANGED <<mode, client, gen, pits, nextPit, clock, opening, write, moves, search, stream, cut>>

\* An upsert that changes the shard: the new row, then the old one's removal.
MoveBegins(h, s) ==
  /\ write = {} /\ ~Frozen
  /\ writes < MaxWrites
  /\ Home(h[2]) # {} /\ s \notin Home(h[2])
  /\ store' = [store EXCEPT ![gen][s].rows = @ \cup {h}]
  /\ write' = {[id |-> h[2], from |-> Home(h[2])]}
  /\ writes' = writes + 1 /\ moves' = moves + 1
  /\ UNCHANGED <<mode, client, gen, pits, nextPit, clock, opening, search, stream, cut>>

MoveEnds ==
  \E w \in write :
    /\ store' = [store EXCEPT ![gen] = [s \in Positions |->
                   IF s \in w.from THEN [@[s] EXCEPT !.rows = Rowless(@, w.id)] ELSE @[s]]]
    /\ write' = {} /\ moves' = moves + 1
    /\ UNCHANGED <<mode, client, gen, pits, nextPit, clock, opening, writes, search, stream, cut>>

\* LayoutChange::publish: a rebuilt placement, and no PIT of the old one.
PublishLayout(place) ==
  /\ mode = "cluster" /\ gen < MaxGen
  /\ MutationsExcluded
  /\ gen' = gen + 1
  /\ store' = [store EXCEPT ![gen + 1] = [s \in Positions |->
                 [Empty EXCEPT !.rows = {h \in RowsOf(gen) : place[h[2]] = s}]]]
  /\ pits' = [p \in PitIds |-> {}]
  /\ UNCHANGED <<mode, client, nextPit, clock, opening, write, writes, moves, search, stream, cut>>

-----------------------------------------------------------------------------
(* The request: page of a stream, current view, or batch of titles.        *)

\* What a client may send; prepare and prepare_batch refuse the others.
Requests1 ==
  [kind : {"page", "live", "batch"}, cursor : BOOLEAN, from : BOOLEAN, twice : BOOLEAN,
   size : Sizes, sources : BOOLEAN]

\* prepare: one document, `pit` or `cursor` but not both, no `from`, and
\* no control given in two places.
Prepare(r) == r.kind # "batch" /\ ~r.from /\ ~r.twice /\ (r.cursor => r.kind = "page")

\* prepare_batch: documents only, neither `pit` nor `cursor` nor `from`.
PrepareBatch(r) == r.kind = "batch" /\ ~r.from /\ ~r.twice /\ ~r.cursor

\* admit_batch_len and the row budget of top_k_batch_pass.
MaxBatch == 2
MaxBatchRows == 8
BatchAdmitted(r) ==
  Cardinality(SearchTitles) <= MaxBatch /\ r.size * Cardinality(SearchTitles) <= MaxBatchRows

NewSearch(r, t, st) ==
  [kind |-> r.kind, titles |-> IF r.kind = "batch" THEN SearchTitles ELSE {t},
   size |-> r.size, sources |-> r.sources, phase |-> "admitted", fenced |-> FALSE,
   pit |-> st.pit, after |-> st.after, gen |-> gen, at |-> moves,
   snap |-> {}, parts |-> <<>>, hits |-> <<>>, totals |-> <<>>, texts |-> {}]

NoPage == [pit |-> MaxPits, after |-> NoBoundary]

\* The current view and the batch; in local mode the snapshot is loaded here.
Ask(r, t) ==
  /\ client = "reads" /\ search = {}
  /\ \/ Prepare(r) /\ r.kind = "live"
     \/ PrepareBatch(r) /\ BatchAdmitted(r)
  /\ search' = {[NewSearch(r, t, NoPage) EXCEPT
                   !.snap = IF mode = "local" THEN RowsOf(gen) ELSE {}]}
  /\ UNCHANGED <<mode, client, gen, store, pits, nextPit, clock, opening, write, writes, moves,
                 stream, cut>>

\* resolve_local and cursor_fingerprint: the PIT is touched, and a cursor
\* must come back with the request it was minted for.
AskPage(r, t) ==
  /\ search = {}
  /\ Prepare(r) /\ r.kind = "page"
  /\ \E st \in stream :
       /\ ~st.done
       /\ r.cursor <=> st.after # NoBoundary
       /\ pits' = Checked(st.pit, gen)
       /\ store' = Unpinned(store, gen, Expired)
       /\ CASE ~PitServes(st.pit, gen) ->
                 search' = {} /\ stream' = {}
            [] PitServes(st.pit, gen) /\ r.cursor /\ st.title # {t} ->
                 search' = {} /\ UNCHANGED stream
            [] OTHER ->
                 /\ search' = {[NewSearch(r, t, st) EXCEPT
                                  !.snap = IF mode = "local" THEN store[gen][1].pins[st.pit]
                                           ELSE {}]}
                 /\ stream' = {[st EXCEPT !.title = {t}]}
  /\ UNCHANGED <<mode, client, gen, nextPit, clock, opening, write, writes, moves, cut>>

\* The worker: a request for sources takes the frozen view first; a page
\* checks its PIT again, in the layout it will collect from.
EnterSearch ==
  \E q \in search :
    /\ q.phase = "admitted"
    /\ (mode # "local" /\ q.sources) => MutationsExcluded
    /\ IF mode = "local" \/ q.kind # "page" \/ PitServes(q.pit, gen)
       THEN /\ search' = {[q EXCEPT !.phase = "collect", !.gen = gen, !.at = moves,
                                    !.fenced = mode # "local" /\ q.sources]}
            /\ UNCHANGED stream
       ELSE search' = {} /\ stream' = {}
    /\ IF mode # "local" /\ q.kind = "page"
       THEN pits' = Checked(q.pit, gen) /\ store' = Unpinned(store, gen, Expired)
       ELSE UNCHANGED <<pits, store>>
    /\ UNCHANGED <<mode, client, gen, nextPit, clock, opening, write, writes, moves, cut>>

Part(rows, q) ==
  [t \in q.titles |->
     TopK(SetToSeq({h \in rows : h[2] \in MatchOf[t]}), q.size, UpTo, q.after)]

\* percolate_top_k_owned(_pit) of one shard, in any order of the shards; a
\* pin that has gone is a stale PIT.
Collect(s) ==
  \E q \in search :
    /\ q.phase = "collect" /\ s \in Used \ DOMAIN q.parts
    /\ LET shard == store[q.gen][s]
           rows == CASE mode = "local" -> q.snap
                     [] mode # "local" /\ q.kind = "page" -> shard.pins[q.pit]
                     [] OTHER -> shard.rows
       IN  IF rows = NoPin
           THEN search' = {} /\ stream' = {}
           ELSE search' = {[q EXCEPT !.parts = @ @@ (s :> Part(rows, q))]}
                /\ UNCHANGED stream
    /\ UNCHANGED <<mode, client, gen, store, pits, nextPit, clock, opening, write, writes, moves, cut>>

PartsOf(q, t) == LET order == SetToSeq(Used) IN [i \in DOMAIN order |-> q.parts[order[i]][t]]

\* The move fence's contract: a current-view pass beside a move is redone.
Redo(q) == mode # "local" /\ q.kind # "page" /\ (q.at # moves \/ write # {})

\* top_k_core after the fan, and top_k_batch_pass for each title.
Merge ==
  \E q \in search :
    /\ q.phase = "collect" /\ DOMAIN q.parts = Used
    /\ IF Redo(q)
       THEN /\ write = {}
            /\ search' = {[q EXCEPT !.parts = <<>>, !.at = moves]}
       ELSE IF \A t \in q.titles :
                 /\ OwnedOnce(PartsOf(q, t))
                 /\ \A s \in Used : ValidPart(q.parts[s][t], q.size, UpTo, q.after)
            THEN LET merged == [t \in q.titles |-> MergeTitleRows(PartsOf(q, t), q.size, UpTo)]
                 IN  search' = {[q EXCEPT !.phase = IF q.sources THEN "fetch" ELSE "done",
                                          !.hits = [t \in q.titles |-> merged[t].hits],
                                          !.totals = [t \in q.titles |-> merged[t].total]]}
            ELSE search' = {}
    /\ UNCHANGED <<mode, client, gen, store, pits, nextPit, clock, opening, write, writes, moves,
                   stream, cut>>

Winners(q) == UNION {ToSet(q.hits[t]) : t \in q.titles}

\* The row a winner's owner has now; a snapshot asks for its own version.
Text(q, h) ==
  IF mode = "local" THEN RowsOf(gen) \cap {h}
  ELSE LET owner == {s \in Used : \E t \in q.titles : h \in ToSet(q.parts[s][t].hits)}
       IN  UNION {{r \in store[gen][s].rows : r[2] = h[2]} : s \in owner}

\* fetch_ranked_sources_inner and the batch's form of it: the layout is
\* still the one collected from, and every winner has its source.
FetchSources ==
  \E q \in search :
    /\ q.phase = "fetch"
    /\ IF (mode = "local" \/ gen = q.gen) /\ \A h \in Winners(q) : Text(q, h) # {}
       THEN search' = {[q EXCEPT !.phase = "done",
                                 !.texts = {<<h, CHOOSE r \in Text(q, h) : TRUE>> : h \in Winners(q)}]}
       ELSE search' = {}
    /\ UNCHANGED <<mode, client, gen, store, pits, nextPit, clock, opening, write, writes, moves,
                   stream, cut>>

\* A deadline at any point answers 408 and shows nothing.
SearchTimesOut ==
  /\ search # {}
  /\ search' = {}
  /\ UNCHANGED <<mode, client, gen, store, pits, nextPit, clock, opening, write, writes, moves,
                 stream, cut>>

\* attach_next_cursor: a full page has a cursor, a short one ends the stream.
AnswerSearch ==
  \E q \in search :
    /\ q.phase = "done"
    /\ search' = {}
    /\ IF q.kind = "page"
       THEN \E st \in stream, t \in q.titles :
              LET page == q.hits[t]
                  full == q.size > 0 /\ Len(page) = q.size
              IN  stream' = {[st EXCEPT !.got = @ \o page,
                                        !.totals = @ \cup {q.totals[t]},
                                        !.after = IF full THEN Last(page) ELSE @,
                                        !.done = ~full]}
       ELSE UNCHANGED stream
    /\ UNCHANGED <<mode, client, gen, store, pits, nextPit, clock, opening, write, writes, moves, cut>>

-----------------------------------------------------------------------------
SearchNext ==
  \/ Tick \/ OpenPit \/ PinShard \/ OpenLocal
  \/ \E p \in PitIds : ClosePit(p)
  \/ \E h \in Hits, s \in Used : StoreRow(h, s) \/ MoveBegins(h, s)
  \/ \E id \in Queries : Delete1(id)
  \/ MoveEnds
  \/ \E place \in Placements : PublishLayout(place)
  \/ \E r \in Requests1, t \in SearchTitles : Ask(r, t) \/ AskPage(r, t)
  \/ EnterSearch
  \/ \E s \in Positions : Collect(s)
  \/ Merge \/ FetchSources \/ SearchTimesOut \/ AnswerSearch

SearchSpec == SearchInit /\ [][SearchNext]_searchVars

-----------------------------------------------------------------------------
\* The pages of one PIT are, in order and without a gap or a repeat, the
\* ranked matches of one instant at which no write was half done, whatever
\* was written, closed or rebuilt between them; every page claims that
\* instant's total (open_pit_under_barrier, search_after, check_pit_in).
PagesAreOneInstant ==
  \A st \in stream : st.title # {} =>
    LET all == {h \in cut[st.pit] : \E t \in st.title : h[2] \in MatchOf[t]}
        total == IF Cardinality(all) <= UpTo THEN Exact(Cardinality(all)) ELSE AtLeast(UpTo)
    IN  /\ Cardinality(HitIds(all)) = Cardinality(all)
        /\ IsPrefix(st.got, Ranked(all))
        /\ st.done => st.got = Ranked(all)
        /\ st.totals \subseteq {total}

\* The source in an answer is of the version that matched, never of one that
\* replaced it between the match and the fetch (run_with_stable_view; a local
\* snapshot reads by source generation).  A page's matches are older than its
\* sources by design.
SourceIsOfTheMatch ==
  \A q \in search : (q.phase = "done" /\ q.kind # "page") => \A x \in q.texts : x[1] = x[2]
=============================================================================
