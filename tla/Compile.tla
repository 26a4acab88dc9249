------------------------------ MODULE Compile ------------------------------
(***************************************************************************)
(* From a parsed query to its predicate and its anchors                    *)
(* (engine/src/compile.rs, compile/extract.rs, compile/plan.rs).           *)
(*                                                                         *)
(* A query is a sequence of clauses [kind, neg, texts]: a "term" and a     *)
(* "phrase" have one text, an "any" group one per member.  A dictionary is *)
(* [freq, hot, final]: how many stored queries require a feature, the      *)
(* features that have a mask bit, and whether the bits were given out.     *)
(* Sets stand for the sorted, deduplicated vectors of the code.            *)
(***************************************************************************)
EXTENDS Normalizing

CONSTANTS Features,   \* every feature of the instance
          HotSlots,   \* how many mask bits there are (64 in the code)
          MaxFreq     \* bound on a frequency

EmptyDict == [freq |-> [f \in Features |-> 0], hot |-> {}, final |-> FALSE]

\* Positive terms that stand next to each other are normalized as one text.
PositiveRuns(ast) ==
  LET plain(k) == ast[k].kind = "term" /\ ~ast[k].neg
      runs == {<<i, j>> \in (DOMAIN ast) \X (DOMAIN ast) :
                 /\ i <= j /\ \A k \in i..j : plain(k)
                 /\ (i = 1 \/ ~plain(i - 1)) /\ (j = Len(ast) \/ ~plain(j + 1))}
  IN  {FlattenSeq([k \in 1..(r[2] - r[1] + 1) |-> ast[r[1] + k - 1].texts[1]]) : r \in runs}

Clauses(ast, kind, neg) == {k \in DOMAIN ast : ast[k].kind = kind /\ ast[k].neg = neg}

\* The members of an any-of group, each a set of requirements (sets of alternatives).
Members(v, clause) ==
  {{{f} : f \in CompileFeatures(v, clause.texts[m])} : m \in DOMAIN clause.texts} \ {{}}

Graphs(v, ast, neg) ==
  {g \in {CompilePhrase(v, ast[k].texts[1]) : k \in Clauses(ast, "phrase", neg)} : g.arcs # {}}

\* The feature that stands for a member in the candidate index: its rarest.
Proxy(d, member) ==
  CHOOSE f \in UNION member : \A g \in UNION member : d.freq[f] <= d.freq[g]

RawExtract(v, d, ast) ==
  LET groups == {Members(v, ast[k]) : k \in Clauses(ast, "any", FALSE)}
      single == {g \in groups : Cardinality(g) = 1}
      several == {g \in groups : Cardinality(g) > 1}
      forbidden == {CompileFeatures(v, ast[k].texts[1]) : k \in Clauses(ast, "term", TRUE)}
                     \cup UNION {{CompileFeatures(v, ast[k].texts[m]) : m \in DOMAIN ast[k].texts} :
                                   k \in Clauses(ast, "any", TRUE)}
  IN  [req   |-> UNION {CompileFeatures(v, t) : t \in PositiveRuns(ast)} \cup UNION UNION UNION single,
       forb  |-> UNION {s \in forbidden : Cardinality(s) = 1},
       fconj |-> {s \in forbidden : Cardinality(s) > 1},
       anyof |-> {{Proxy(d, m) : m \in g} : g \in several},
       preds |-> {g \in several : \E m \in g : Cardinality(m) > 1},
       phr   |-> Graphs(v, ast, FALSE),
       fphr  |-> Graphs(v, ast, TRUE)]

PhraseProxy(graph) == UNION {a.alts : a \in graph.arcs}

\* Each feature a query is counted under, once: before the equivalences widen it.
CountedFeatures(ex) == ex.req \cup UNION ex.anyof \cup UNION {PhraseProxy(g) : g \in ex.phr}

BumpFreq(d, ex) ==
  LET bump(f, freq) == IF freq[f] < MaxFreq THEN [freq EXCEPT ![f] = @ + 1] ELSE freq
  IN  [d EXCEPT !.freq = FoldSet(bump, d.freq, CountedFeatures(ex))]

\* Required features, any-of groups and required phrases are widened; forbidden ones
\* are not.
ExpandEquivalences(v, ex) ==
  LET has(f) == ClassOf(v, f) # {f}
      arc(a) == [a EXCEPT !.alts = Widen(v, a.alts)]
  IN  [ex EXCEPT
         !.req = {f \in ex.req : ~has(f)},
         !.anyof = {Widen(v, g) : g \in ex.anyof} \cup {ClassOf(v, f) : f \in {g \in ex.req : has(g)}},
         !.preds = {{{Widen(v, r) : r \in m} : m \in p} : p \in ex.preds},
         !.phr = {[g EXCEPT !.arcs = {arc(a) : a \in g.arcs}] : g \in ex.phr}]

Extract(v, d, ast) == ExpandEquivalences(v, RawExtract(v, d, ast))

HasNegative(ex) == ex.forb # {} \/ ex.fconj # {} \/ ex.fphr # {}

HasPhrases(ex) == ex.phr # {} \/ ex.fphr # {}

\* The most frequent features get the mask bits, once.
FinalizeMask(d) ==
  LET known == {f \in Features : d.freq[f] > 0}
      size == IF Cardinality(known) < HotSlots THEN Cardinality(known) ELSE HotSlots
      top == CHOOSE s \in kSubset(size, known) :
               \A f \in s, g \in known \ s : d.freq[g] <= d.freq[f]
  IN  IF d.final THEN d ELSE [d EXCEPT !.hot = top, !.final = TRUE]

(***************************************************************************)
(* Anchors                                                                 *)
(***************************************************************************)

Singles(group) == {{f} : f \in group}

Plan(main, broad, hot, class) ==
  [main |-> main, broad |-> broad, hot |-> hot, class |-> class]

OptIn(class) == class \in {"C", "D"}

WorstFreq(d, group) ==
  CHOOSE n \in {d.freq[f] : f \in group} : \A f \in group : d.freq[f] <= n

\* The group whose worst member is rarest.
BestGroup(d, groups) ==
  CHOOSE g \in groups : \A h \in groups : WorstFreq(d, g) <= WorstFreq(d, h)

PhraseProxyPlan(d, ex) ==
  Plan(Singles(BestGroup(d, {PhraseProxy(g) : g \in ex.phr})), {}, {}, "B")

CoverGroups(d, ex) == {g \in ex.anyof : g \cap d.hot = {}}

AnyofCover(d, ex, theta) ==
  LET best == BestGroup(d, CoverGroups(d, ex))
  IN  IF theta # 0 /\ WorstFreq(d, best) >= theta
        THEN Plan({}, {}, Singles(best), "H")
        ELSE Plan(Singles(best), {}, {}, "B")

RequiredPlan(d, ex, theta) ==
  LET r1 == CHOOSE f \in ex.req : \A g \in ex.req : d.freq[f] <= d.freq[g]
      rest == ex.req \ {r1}
      r2 == CHOOSE f \in rest : \A g \in rest : d.freq[f] <= d.freq[g]
  IN  IF r1 \in d.hot
        THEN IF rest # {} THEN Plan({{r1, r2}}, {}, {}, "B")
             ELSE IF ex.phr # {} THEN PhraseProxyPlan(d, ex)
             ELSE IF CoverGroups(d, ex) # {} THEN AnyofCover(d, ex, theta)
             ELSE Plan({}, {{r1}}, {}, "C")
        ELSE IF theta # 0 /\ d.freq[r1] >= theta THEN Plan({}, {}, {{r1}}, "H")
        ELSE Plan({{r1}}, {}, {}, "A")

\* The anchors a title must hold before the query is looked at.
AnchorPlan(d, ex, theta) ==
  IF ex.req # {} THEN RequiredPlan(d, ex, theta)
  ELSE IF ex.phr # {} THEN PhraseProxyPlan(d, ex)
  ELSE IF ex.anyof = {} THEN Plan({}, {{}}, {}, "D")
  ELSE IF CoverGroups(d, ex) # {} THEN AnyofCover(d, ex, theta)
  ELSE Plan({}, Singles(BestGroup(d, ex.anyof)), {}, "C")

\* A query kept visible takes its broad anchors to the main lane.
PinVisible(plan) ==
  IF plan.class = "C" THEN Plan(plan.main \cup plan.broad, {}, plan.hot, "B") ELSE plan

RejectsClassD(class, ex, accept) == class = "D" /\ (~accept \/ ~HasNegative(ex))

\* The two views, and the features the main lane is probed with.
TitleView(v, text) ==
  [text |-> text, len |-> Len(text), neg |-> NegativeView(v, text), pos |-> PositiveView(v, text),
   probe |-> ProbeView(v, text), posArcs |-> TitleArcs(v, text), negArcs |-> NegativeArcs(v, text)]

-----------------------------------------------------------------------------
(***************************************************************************)
(* The encoded form of a stored query and its two evaluators               *)
(* (engine/src/exact).  Features with a mask bit are kept in a mask, the   *)
(* others in a list; what a conjunction of alternatives cannot say is kept *)
(* in a program.  One evaluator reads one title; the other reads a batch,  *)
(* a feature being the set of the titles that hold it.                     *)
(*                                                                         *)
(* The program also carries two counts for ranking, which are left out     *)
(* here.                                                                   *)
(***************************************************************************)

(***************************************************************************)
(* Encoding                                                                *)
(***************************************************************************)

HasProgram(ex) == ex.preds # {} \/ ex.fconj # {} \/ HasPhrases(ex)

EncodePredicate(ex) ==
  IF HasProgram(ex)
    THEN {[preds |-> ex.preds, fconj |-> ex.fconj, phr |-> ex.phr, fphr |-> ex.fphr]}
    ELSE {}

Encode(ex, d) ==
  [reqMask |-> ex.req \cap d.hot, reqTail |-> ex.req \ d.hot,
   forbMask |-> ex.forb \cap d.hot, forbTail |-> ex.forb \ d.hot,
   groups |-> ex.anyof,
   program |-> EncodePredicate(ex)]

RowHasPhrases(enc) == \E p \in enc.program : p.phr # {} \/ p.fphr # {}

IsPureAnchor(enc) ==
  /\ Cardinality(enc.reqMask) = 1 /\ enc.reqTail = {}
  /\ enc.forbMask = {} /\ enc.forbTail = {} /\ enc.groups = {} /\ enc.program = {}

PureTailAnchor(enc, f) ==
  /\ enc.reqMask = {} /\ enc.reqTail = {f}
  /\ enc.forbMask = {} /\ enc.forbTail = {} /\ enc.groups = {} /\ enc.program = {}

\* What the planner can be told of a stored row: neither negations, nor compound
\* members, nor phrases come back.
AnchoringInputs(enc, d) ==
  [req |-> (enc.reqMask \cap d.hot) \cup enc.reqTail, anyof |-> enc.groups,
   forb |-> {}, fconj |-> {}, preds |-> {}, phr |-> {}, fphr |-> {}]

(***************************************************************************)
(* One title                                                               *)
(***************************************************************************)

VerifyPredicate(p, t) ==
  /\ \A g \in p.preds : \E m \in g : \A r \in m : r \cap t.pos # {}
  /\ \A c \in p.fconj : ~(c \subseteq t.neg)
  /\ \A g \in p.phr : GraphMatches(g, t.len, t.posArcs)
  /\ \A g \in p.fphr : ~GraphMatches(g, t.len, t.negArcs)

Verify(enc, t, d) ==
  /\ enc.reqMask \subseteq (t.pos \cap d.hot)
  /\ enc.forbMask \cap (t.neg \cap d.hot) = {}
  /\ enc.reqTail \subseteq t.pos
  /\ enc.forbTail \cap t.neg = {}
  /\ \A g \in enc.groups : g \cap t.pos # {}
  /\ \A p \in enc.program : VerifyPredicate(p, t)

(***************************************************************************)
(* A batch of titles, of one view each                                     *)
(***************************************************************************)

Holding(batch, f) == {t \in batch : f \in t.neg}

HoldingAny(batch, fs) == UNION {Holding(batch, f) : f \in fs}

HoldingAll(batch, fs) == {t \in batch : \A f \in fs : t \in Holding(batch, f)}

EvalPredicateBatch(p, batch, acc) ==
  LET members(g) == UNION {{t \in batch : \A r \in m : t \in HoldingAny(batch, r)} : m \in g}
      chosen == {t \in acc : \A g \in p.preds : t \in members(g)}
  IN  chosen \ UNION {HoldingAll(batch, c) : c \in p.fconj}

EvalBatch(enc, batch, d) ==
  LET masked == {t \in batch : /\ enc.reqMask \subseteq (t.neg \cap d.hot)
                               /\ enc.forbMask \cap t.neg \cap d.hot = {}}
      acc == {t \in (masked \cap HoldingAll(batch, enc.reqTail)) \ HoldingAny(batch, enc.forbTail) :
                \A g \in enc.groups : t \in HoldingAny(batch, g)}
  IN  IF RowHasPhrases(enc) THEN {}
      ELSE IF enc.program = {} THEN acc
      ELSE UNION {EvalPredicateBatch(p, batch, acc) : p \in enc.program}

\* Whether a batch that holds these features could match at all.
CanMatchBatch(enc, present) ==
  /\ enc.reqMask \cup enc.reqTail \subseteq present
  /\ \A g \in enc.groups : g \cap present # {}
=============================================================================
