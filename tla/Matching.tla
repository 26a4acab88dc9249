------------------------------ MODULE Matching ------------------------------
(***************************************************************************)
(* Segments of compiled queries and the matcher that reads them            *)
(* (engine/src/segment).  Queries are compiled against a dictionary that   *)
(* goes on counting, so that the anchors of a row depend on when it was    *)
(* stored; equal bodies share the postings of one leader; segments are     *)
(* sealed, merged and re-anchored.  Whatever the history, a title must     *)
(* find what its text says it finds, through each lane and each way of     *)
(* evaluating a batch.                                                     *)
(*                                                                         *)
(* A row is [q, id, body, class, alive, tags, shown, leader], where shown    *)
(* remembers that it was stored to answer by default; a segment is         *)
(* [rows, main, broad, hot, filter, summary]: postings are pairs           *)
(* <<anchor, local>>; filter and summary are {} until the segment is       *)
(* sealed, then the singleton of its keys and of its tags.                 *)
(***************************************************************************)
EXTENDS Compile

CONSTANTS Cases,         \* vocabularies, each with queries and titles: see Profile
          TagsOf,        \* for each logical id, the tag sets its query may carry
          Settings,      \* pairs: whether equal bodies are shared, and class D accepted
          Thetas,        \* settings of the hot-anchor threshold
          MaxAdds,       \* bound on stored queries
          MaxMerges,     \* bound on compactions
          MaxMoves       \* lane moves a compaction may make

VARIABLES profile,       \* the vocabulary, queries and titles in use
          dict, segs, mem,
          theta, dedup, acceptD,   \* settings
          adds, merges

matchVars == <<profile, dict, segs, mem, theta, dedup, acceptD, adds, merges>>

Ids == DOMAIN TagsOf

Tags == UNION UNION {TagsOf[id] : id \in Ids}

(***************************************************************************)
(* What the text of a query says of a title                                *)
(***************************************************************************)

Holds(v, t, f) == ClassOf(v, f) \cap t.pos # {}

SaysText(v, t, text) == \A f \in CompileFeatures(v, text) : Holds(v, t, f)

Denies(v, t, text) ==
  CompileFeatures(v, text) # {} /\ CompileFeatures(v, text) \subseteq t.neg

WidenedGraph(v, g) ==
  [g EXCEPT !.arcs = {[a EXCEPT !.alts = Widen(v, a.alts)] : a \in g.arcs}]

AstMatches(v, ast, t) ==
  /\ \A text \in PositiveRuns(ast) : SaysText(v, t, text)
  /\ \A k \in DOMAIN ast :
       LET c == ast[k]
           said == {m \in DOMAIN c.texts : CompileFeatures(v, c.texts[m]) # {}}
       IN  CASE c.kind = "any" /\ ~c.neg -> said = {} \/ \E m \in said : SaysText(v, t, c.texts[m])
             [] c.kind \in {"any", "term"} /\ c.neg -> ~\E m \in DOMAIN c.texts : Denies(v, t, c.texts[m])
             [] c.kind = "phrase" /\ ~c.neg ->
                  LET g == WidenedGraph(v, CompilePhrase(v, c.texts[1]))
                  IN  g.arcs = {} \/ GraphMatches(g, t.len, t.posArcs)
             [] c.kind = "phrase" /\ c.neg ->
                  ~GraphMatches(CompilePhrase(v, c.texts[1]), t.len, t.negArcs)
             [] OTHER -> TRUE

\* A vocabulary with the queries and titles considered under it: the titles as it
\* reads them, and which query which title satisfies.
Profile(c, v, views) ==
  [name |-> c.name, vocab |-> v, queries |-> c.queries, titles |-> views,
   truth |-> {p \in (DOMAIN c.queries) \X c.texts :
                \E t \in views : t.text = p[2] /\ AstMatches(v, c.queries[p[1]], t)}]

ProfileUnder(c, v) == Profile(c, v, {TitleView(v, t) : t \in c.texts})

Profiles == {ProfileUnder(c, Build(c.phrases, c.synonyms, c.groups)) : c \in Cases}

V == profile.vocab

titles == profile.titles

EmptySegment ==
  [rows |-> <<>>, main |-> {}, broad |-> {}, hot |-> {}, filter |-> {}, summary |-> {}]

(***************************************************************************)
(* Writing                                                                 *)
(***************************************************************************)

Least(s) == CHOOSE n \in s : \A m \in s : n <= m

\* The leader a row may share: an equal body on the same side of the opt-in line.
Leaders(seg, body, optIn) ==
  {l \in DOMAIN seg.rows :
     /\ seg.rows[l].leader = l
     /\ OptIn(seg.rows[l].class) = optIn
     /\ seg.rows[l].body = body}

\* A row that joins a leader takes its class and no postings of its own.
PushMember(seg, row, leader) ==
  [seg EXCEPT !.rows = Append(@, [row EXCEPT !.leader = leader, !.class = seg.rows[leader].class])]

PushLeader(seg, row, plan) ==
  LET local == Len(seg.rows) + 1
      at(anchors) == {<<a, local>> : a \in anchors}
  IN  [seg EXCEPT !.rows = Append(@, [row EXCEPT !.leader = local, !.class = plan.class]),
                  !.main = @ \cup at(plan.main),
                  !.broad = @ \cup at(plan.broad),
                  !.hot = @ \cup at(plan.hot)]

Push(seg, row, plan, dedupBodies) ==
  LET found == Leaders(seg, row.body, OptIn(plan.class))
  IN  IF dedupBodies /\ found # {} THEN PushMember(seg, row, Least(found))
      ELSE PushLeader(seg, row, plan)

\* A sealed segment answers for its keys and its tags without being probed.
Seal(seg) ==
  [seg EXCEPT !.filter = {{p[1] : p \in seg.main \cup seg.broad \cup seg.hot}},
              !.summary = {UNION {seg.rows[l].tags : l \in DOMAIN seg.rows}}]

Tombstone(seg, id) ==
  [seg EXCEPT !.rows = [l \in DOMAIN seg.rows |->
     IF seg.rows[l].id = id THEN [seg.rows[l] EXCEPT !.alive = FALSE] ELSE seg.rows[l]]]

(***************************************************************************)
(* Merging                                                                 *)
(***************************************************************************)

\* The live rows of the sources, in order.
LiveRows(sources) ==
  FlattenSeq([s \in DOMAIN sources |->
    SelectSeq([l \in DOMAIN sources[s].rows |-> <<s, l>>],
              LAMBDA p : sources[p[1]].rows[p[2]].alive)])

HasDupGroups(seg) == \E l \in DOMAIN seg.rows : seg.rows[l].leader # l

\* Its own postings only, as if every row were a leader.
OldPlanOfRow(seg, local) ==
  LET of(lane) == {p[1] : p \in {q \in lane : q[2] = local}}
  IN  Plan(of(seg.main), of(seg.broad), of(seg.hot), seg.rows[local].class)

\* The postings a row had: those of its leader, which may be dead.
OldPlan(seg, local) ==
  LET leader == seg.rows[local].leader
      of(lane) == {p[1] : p \in {q \in lane : q[2] = leader}}
  IN  Plan(of(seg.main), of(seg.broad), of(seg.hot), seg.rows[local].class)

\* Keys are carried over; bodies are grouped again when some source had groups.
CompactFrom(sources) ==
  LET grouped == \E s \in DOMAIN sources : HasDupGroups(sources[s])
      copy(dest, p) == Push(dest, sources[p[1]].rows[p[2]], OldPlan(sources[p[1]], p[2]), grouped)
  IN  Seal(FoldLeft(copy, EmptySegment, LiveRows(sources)))

RefusesVisibilityMove(old, plan) ==
  \/ ~OptIn(old) /\ OptIn(plan)
  \/ old = "C" /\ plan = "H"

OptInAfterReanchor(old, replanned) ==
  IF replanned # {} /\ ~\E c \in replanned : RefusesVisibilityMove(old, c)
    THEN \E c \in replanned : OptIn(c)
    ELSE OptIn(old)

\* Leaving the hot lane asks for half the threshold, so that a row does not flap.
DemotionHasMargin(d, plan, th) ==
  th = 0 \/ \A f \in UNION plan.main : 2 * d.freq[f] <= th

\* Whether a row keeps the postings it had, given the lane moves already made.
KeepsPlan(d, old, plan, th, moves) ==
  LET promotes == old \in {"A", "B"} /\ plan.class = "H"
      demotes == old = "H" /\ plan.class \in {"A", "B"}
  IN  \/ RefusesVisibilityMove(old, plan.class)
      \/ (promotes \/ demotes)
           /\ ~((demotes => DemotionHasMargin(d, plan, th)) /\ moves < MaxMoves)

Reanchor(d, th, acc, src, local) ==
  LET row == src.rows[local]
      old == OldPlan(src, local)
      plan == AnchorPlan(d, AnchoringInputs(row.body, d), th)
      joins == {l \in DOMAIN acc.dest.rows :
                  /\ acc.dest.rows[l].leader = l
                  /\ OptIn(acc.dest.rows[l].class) = OptInAfterReanchor(row.class, acc.replanned[l])
                  /\ acc.dest.rows[l].body = row.body}
      kept == RowHasPhrases(row.body) \/ KeepsPlan(d, row.class, plan, th, acc.moves)
      moved == ~kept /\ "H" \in {row.class, plan.class} /\ row.class # plan.class
  IN  IF joins # {}
        THEN [acc EXCEPT !.dest = PushMember(acc.dest, row, Least(joins)),
                         !.replanned = Append(@, {})]
        ELSE [dest |-> PushLeader(acc.dest, row, IF kept THEN old ELSE plan),
              replanned |-> Append(acc.replanned, IF RowHasPhrases(row.body) THEN {} ELSE {plan.class}),
              moves |-> IF moved THEN acc.moves + 1 ELSE acc.moves]

CompactReanchored(sources, d, th) ==
  LET step(acc, p) == Reanchor(d, th, acc, sources[p[1]], p[2])
      start == [dest |-> EmptySegment, replanned |-> <<>>, moves |-> 0]
  IN  Seal(FoldLeft(step, start, LiveRows(sources)).dest)

(***************************************************************************)
(* Reading one title                                                       *)
(***************************************************************************)

MayContain(seg, key) == \A keys \in seg.filter : key \in keys

SummaryMayMatch(seg, pred) == \A tags \in seg.summary : \A g \in pred : g \cap tags # {}

PassesTags(row, pred) == \A g \in pred : g \cap row.tags # {}

Probe(seg, lane, keys) ==
  {p[2] : p \in {q \in lane : q[1] \in keys /\ MayContain(seg, q[1])}}

\* A pair is probed when one of the two has a mask bit.
Pairs(d, feats) == {{h, o} : h \in feats \cap d.hot, o \in feats} \ Singles(feats)

\* The locals a title's features reach, lane by lane.
Candidates(seg, d, t, lanes) ==
  Probe(seg, seg.main, Singles(t.probe))
    \cup Probe(seg, seg.main, Pairs(d, t.pos))
    \cup (IF lanes.hot THEN Probe(seg, seg.hot, Singles(t.pos)) ELSE {})
    \cup (IF lanes.broad THEN Probe(seg, seg.broad, Singles(t.pos) \cup {{}}) ELSE {})

\* A candidate stands for every row that shares its body.
Group(seg, local) == {l \in DOMAIN seg.rows : seg.rows[l].leader = local}

Emit1(seg, locals, pred) ==
  {seg.rows[l].id : l \in {k \in UNION {Group(seg, c) : c \in locals} :
                             seg.rows[k].alive /\ PassesTags(seg.rows[k], pred)}}

MatchCollect(seg, d, t, lanes, pred) ==
  Emit1(seg, {c \in Candidates(seg, d, t, lanes) : Verify(seg.rows[c].body, t, d)}, pred)

AllSegments == Append(segs, mem)

Positioned ==
  \E s \in DOMAIN AllSegments : \E l \in DOMAIN AllSegments[s].rows :
    AllSegments[s].rows[l].alive /\ RowHasPhrases(AllSegments[s].rows[l].body)

\* Without a live phrase the probe is the positive view.
ViewOf(t) == IF Positioned THEN t ELSE [t EXCEPT !.probe = t.pos]

Read(pred) == {s \in DOMAIN AllSegments : SummaryMayMatch(AllSegments[s], pred)}

MatchTitle(t, lanes, pred) ==
  LET view == ViewOf(t)
  IN  UNION {MatchCollect(AllSegments[s], dict, view, lanes, pred) : s \in Read(pred)}

(***************************************************************************)
(* Reading a batch of titles                                               *)
(***************************************************************************)

\* One lane of one segment against a whole batch: <<title, id>> pairs.
EvalLane(seg, lane, isBroad, d, batch, pred, opts) ==
  LET distinct == UNION {t.neg : t \in batch}
      reached == Probe(seg, lane, Singles(distinct) \cup (IF isBroad THEN {{}} ELSE {}))
      live == {c \in reached : \E l \in Group(seg, c) : seg.rows[l].alive}
      via(c) == {f \in distinct : <<{f}, c>> \in lane}
      vacuous(c) == /\ opts.materialize
                    /\ \E f \in via(c) : IF isBroad THEN IsPureAnchor(seg.rows[c].body)
                                         ELSE PureTailAnchor(seg.rows[c].body, f)
      evaluated == {c \in live : ~vacuous(c) /\ (opts.prefilter => CanMatchBatch(seg.rows[c].body, distinct))}
  IN  UNION {{<<t.text, id>> : id \in
                Emit1(seg, {c \in live : vacuous(c) /\ via(c) \cap t.neg # {}}
                             \cup {c \in evaluated : t \in EvalBatch(seg.rows[c].body, batch, d)}, pred)} :
             t \in batch}

\* Title by title: what the columnar pass leaves.
InlinePass(batch, lanes, pred) ==
  UNION {{<<t.text, id>> : id \in MatchTitle(t, lanes, pred)} : t \in batch}

\* Segment by segment, the whole batch at once.
ColumnarPass(batch, broad, hot, opts, pred) ==
  LET lane(s, on, posts, isBroad) ==
        IF on THEN EvalLane(AllSegments[s], posts, isBroad, dict, batch, pred, opts) ELSE {}
  IN  UNION {lane(s, broad, AllSegments[s].broad, TRUE)
               \cup lane(s, hot, AllSegments[s].hot, FALSE) : s \in Read(pred)}

\* The columnar pass reads one view of a title, so two views send every lane inline.
MatchBatch(batch, opts, pred) ==
  LET dual == HasAliases(V) \/ Positioned
      broad == opts.broad /\ ~dual /\ opts.columnar
      hot == ~dual /\ opts.columnar
  IN  InlinePass(batch, [broad |-> opts.broad /\ ~broad, hot |-> ~hot], pred)
        \cup ColumnarPass(batch, broad, hot, opts, pred)

(***************************************************************************)
(* The engine's steps                                                      *)
(***************************************************************************)

MatchInit ==
  /\ profile \in Profiles
  /\ dict = EmptyDict
  /\ segs = <<>> /\ mem = EmptySegment
  /\ theta \in Thetas
  /\ \E s \in Settings : dedup = s[1] /\ acceptD = s[2]
  /\ adds = 0 /\ merges = 0

TombstoneAll(id) ==
  segs' = [s \in DOMAIN segs |-> Tombstone(segs[s], id)]

\* A query compiled against a dictionary, as a row and the postings it should have.
Planned(q, id, tags, ex, d, plan) ==
  [plan |-> plan,
   rejected |-> RejectsClassD(plan.class, ex, acceptD),
   row |-> [q |-> q, id |-> id, body |-> Encode(ex, d), class |-> plan.class, alive |-> TRUE,
            tags |-> tags, shown |-> ~OptIn(plan.class), leader |-> 0]]

Compiled(q, id, tags, ex, d, keepVisible) ==
  LET plan == AnchorPlan(d, ex, theta)
  IN  Planned(q, id, tags, ex, d, IF keepVisible THEN PinVisible(plan) ELSE plan)

\* The new row is pushed before the rows it replaces are retired.
Store(c) ==
  IF c.rejected THEN UNCHANGED <<segs, mem>>
  ELSE /\ mem' = Push(Tombstone(mem, c.row.id), c.row, c.plan, dedup)
       /\ TombstoneAll(c.row.id)

\* A live write: the dictionary counts the query, whether or not it is then refused.
Upsert(q, id, tags) ==
  /\ adds < MaxAdds
  /\ adds' = adds + 1
  /\ \E raw \in {RawExtract(V, dict, profile.queries[q])} :
       /\ dict' = BumpFreq(dict, raw)
       /\ Store(Compiled(q, id, tags, ExpandEquivalences(V, raw), dict', FALSE))
  /\ UNCHANGED <<profile, theta, dedup, acceptD, merges>>

\* A write placed by a coordinator: its dictionary is frozen, and a query that every
\* shard holds is kept visible.
ReplacePlaced(q, id, tags, keepVisible) ==
  /\ adds < MaxAdds /\ dict.final
  /\ adds' = adds + 1
  /\ Store(Compiled(q, id, tags, Extract(V, dict, profile.queries[q]), dict, keepVisible))
  /\ UNCHANGED <<profile, dict, theta, dedup, acceptD, merges>>

\* A bulk load: the first one gives out the mask bits, and the memtable compiled
\* without them is sealed before it.  It replaces nothing.
BulkIngest(q, id, tags) ==
  LET sealed == IF ~dict.final /\ mem.rows # <<>> THEN Append(segs, Seal(mem)) ELSE segs
  IN  /\ adds < MaxAdds
      /\ adds' = adds + 1
      /\ \E raw \in {RawExtract(V, dict, profile.queries[q])} :
           /\ dict' = FinalizeMask(BumpFreq(dict, raw))
           /\ \E c \in {Compiled(q, id, tags, ExpandEquivalences(V, raw), dict', FALSE)} :
                segs' = IF c.rejected THEN sealed
                        ELSE Append(sealed, Seal(Push(EmptySegment, c.row, c.plan, dedup)))
      /\ mem' = IF dict.final THEN mem ELSE EmptySegment
      /\ UNCHANGED <<profile, theta, dedup, acceptD, merges>>

Delete(id) ==
  /\ \E s \in DOMAIN AllSegments : \E l \in DOMAIN AllSegments[s].rows :
       AllSegments[s].rows[l].id = id /\ AllSegments[s].rows[l].alive
  /\ mem' = Tombstone(mem, id)
  /\ TombstoneAll(id)
  /\ UNCHANGED <<profile, dict, theta, dedup, acceptD, adds, merges>>

Flush ==
  /\ mem.rows # <<>>
  /\ segs' = Append(segs, Seal(mem))
  /\ mem' = EmptySegment
  /\ UNCHANGED <<profile, dict, theta, dedup, acceptD, adds, merges>>

\* A run of neighbouring segments becomes one.
CompactRange(lo, hi, reanchor) ==
  LET sources == SubSeq(segs, lo, hi)
      merged == IF reanchor THEN CompactReanchored(sources, dict, theta) ELSE CompactFrom(sources)
  IN  /\ merges < MaxMerges
      /\ segs' = SubSeq(segs, 1, lo - 1) \o <<merged>> \o SubSeq(segs, hi + 1, Len(segs))
      /\ merges' = merges + 1
      /\ UNCHANGED <<profile, dict, mem, theta, dedup, acceptD, adds>>

HasHoles(seg) == \E l \in DOMAIN seg.rows : ~seg.rows[l].alive

\* Every segment with dead rows is written anew without them.
Reseal ==
  /\ \E s \in DOMAIN segs : HasHoles(segs[s])
  /\ segs' = SelectSeq([s \in DOMAIN segs |-> IF HasHoles(segs[s]) THEN CompactFrom(<<segs[s]>>) ELSE segs[s]],
                       LAMBDA seg : seg.rows # <<>>)
  /\ UNCHANGED <<profile, dict, mem, theta, dedup, acceptD, adds, merges>>

SetTheta(th) ==
  /\ th # theta
  /\ theta' = th
  /\ UNCHANGED <<profile, dict, segs, mem, dedup, acceptD, adds, merges>>

MatchNext ==
  \/ \E q \in DOMAIN profile.queries, id \in Ids : \E tags \in TagsOf[id] :
       \/ Upsert(q, id, tags)
       \/ \E keepVisible \in BOOLEAN : ReplacePlaced(q, id, tags, keepVisible)
       \/ BulkIngest(q, id, tags)
  \/ \E id \in Ids : Delete(id)
  \/ Flush
  \/ \E lo, hi \in DOMAIN segs, reanchor \in BOOLEAN : lo < hi /\ CompactRange(lo, hi, reanchor)
  \/ Reseal
  \/ \E th \in Thetas : SetTheta(th)

LiveRowSet ==
  {<<s, l>> \in UNION {{s} \X (DOMAIN AllSegments[s].rows) : s \in DOMAIN AllSegments} :
     AllSegments[s].rows[l].alive}

\* The ids a title should find, from the stored text alone.
Expected(t, broad, pred) ==
  {AllSegments[p[1]].rows[p[2]].id :
     p \in {r \in LiveRowSet :
              LET row == AllSegments[r[1]].rows[r[2]]
              IN  /\ broad \/ ~OptIn(row.class)
                  /\ PassesTags(row, pred)
                  /\ <<row.q, t.text>> \in profile.truth}}

Predicates == {{}} \cup {{{tag}} : tag \in Tags}

\* A title finds exactly the live queries whose text it satisfies: no order of
\* stores, deletes, flushes, merges and re-anchorings, and no change of the hot
\* threshold, hides a match or adds one (MatchView::match_title_collect,
\* snapshot/view.rs:356).
ScalarIsExact ==
  \A t \in titles, broad \in BOOLEAN, pred \in Predicates :
    MatchTitle(t, [broad |-> broad, hot |-> TRUE], pred) = Expected(t, broad, pred)

\* A batch of titles finds what each of its titles should find, whether the columnar
\* pass runs with its prefilter and its acceptance of pure anchors or without
\* (match_batch_chunk, broad_batch/driver/chunk.rs:16).
BatchIsExact ==
  \A broad \in BOOLEAN, pred \in Predicates :
    LET expected == UNION {{<<t.text, id>> : id \in Expected(t, broad, pred)} : t \in titles}
    IN  \A shortcuts \in BOOLEAN :
          expected = MatchBatch(titles, [broad |-> broad, columnar |-> TRUE,
                                         materialize |-> shortcuts, prefilter |-> shortcuts], pred)

\* A query that answered by default when it was stored still does: not the leader it
\* shares, not a merge, and not a dictionary that has since learned its anchor is
\* common moves it among the queries one must ask for (refuses_visibility_move and
\* opt_in_after_reanchor, merge.rs:37; add_compiled, seg/write.rs:217).
VisibleStaysVisible ==
  \A p \in LiveRowSet :
    LET row == AllSegments[p[1]].rows[p[2]] IN row.shown => ~OptIn(row.class)

(* Either matcher answers exactly the visible queries that match a title,   *)
(* and what was visible stays so through flushes, merges and moves.         *)
AnswersAreExact == ScalarIsExact /\ BatchIsExact /\ VisibleStaysVisible
=============================================================================
