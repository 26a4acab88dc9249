---------------------------- MODULE Normalizing ----------------------------
(***************************************************************************)
(* The normalizer shared by stored queries and titles                      *)
(* (engine/src/normalize) and the vocabulary it is built from              *)
(* (engine/src/vocab).  A text is a sequence of cleaned tokens.  A feature *)
(* is a tuple: its kind and its tokens.  A vocabulary is a record          *)
(*   phrases : a sequence of [toks, feature, mode], in order of entry      *)
(*   syn     : token -> canonical feature                                  *)
(*   classes : the equivalence classes of features                         *)
(*   units, keys : for each alias phrase, its pieces and its key           *)
(* Everything here is an operator of the vocabulary and the text; the      *)
(* completion of a title by alias forms is an algorithm with a work list   *)
(* and has its steps in AliasCompletion.                                   *)
(***************************************************************************)
EXTENDS Integers, Sequences, FiniteSets, SequencesExt, FiniteSetsExt

CONSTANTS Numbers,        \* tokens parse_number accepts
          Years,          \* the ones as_year accepts
          NumberContext   \* the number_context words

Markers == {"#", "/"}

Term(tok) == <<"term", tok>>
YearOf(tok) == <<"year", tok>>
EntityOf(toks) == <<"entity">> \o toks

(***************************************************************************)
(* Phrases in a text                                                       *)
(***************************************************************************)

\* The entries the automata were built from: the first of each pattern.
Entries(v) ==
  {i \in DOMAIN v.phrases :
     \A j \in 1..(i - 1) : v.phrases[j].toks # v.phrases[i].toks}

\* Every boundary-aligned occurrence of a phrase; token positions count from 0.
Occurrences(v, text) ==
  {o \in [from : 0..Len(text), to : 0..Len(text), entry : Entries(v)] :
     /\ o.to = o.from + Len(v.phrases[o.entry].toks)
     /\ SubSeq(text, o.from + 1, o.to) = v.phrases[o.entry].toks}

\* Leftmost first, the longest of those, and nothing that overlaps a chosen one.
SelectPhrases(v, text) ==
  LET occ == Occurrences(v, text)
      chosen[k \in 0..Len(text)] ==
        LET here == {o \in occ : o.from = k}
            best == CHOOSE o \in here : \A p \in here : p.to <= o.to
        IN  IF k = Len(text) THEN {}
            ELSE IF here = {} THEN chosen[k + 1]
            ELSE {best} \cup chosen[best.to]
  IN  chosen[0]

Arc(feature, start, end) == [feature |-> feature, start |-> start, end |-> end]

\* The feature a token that no phrase consumed stands for, at its place in the text.
TokenFeature(v, text, i) ==
  LET tok == text[i]
      prev == IF i > 1 THEN text[i - 1] ELSE ""
      next == IF i < Len(text) THEN text[i + 1] ELSE ""
      plain == prev = "#" \/ prev = "/" \/ next = "/" \/ prev \in NumberContext
  IN  IF tok \in Numbers
        THEN IF ~plain /\ tok \in Years THEN YearOf(tok) ELSE Term(tok)
        ELSE IF tok \in DOMAIN v.syn THEN v.syn[tok] ELSE Term(tok)

Consumes(mode, side) ==
  \/ mode = "collapse"
  \/ mode = "alias" /\ side = "query"

Emit(v, text, side, forceAdditive) ==
  LET phrases == SelectPhrases(v, text)
      consumed == {i \in 1..Len(text) :
                     \E o \in phrases :
                       /\ o.from < i /\ i <= o.to
                       /\ ~forceAdditive
                       /\ Consumes(v.phrases[o.entry].mode, side)}
  IN  {Arc(v.phrases[o.entry].feature, o.from, o.to) : o \in phrases}
        \cup {Arc(TokenFeature(v, text, i), i - 1, i) :
                i \in {j \in 1..Len(text) : text[j] \notin Markers} \ consumed}

Labels(arcs) == {a.feature : a \in arcs}

CompileFeatures(v, text) == Labels(Emit(v, text, "query", FALSE))

\* The canonical view, which negation reads.
NegativeView(v, text) == Labels(Emit(v, text, "title", FALSE))

HasAliases(v) == \E i \in DOMAIN v.phrases : v.phrases[i].mode = "alias"

(***************************************************************************)
(* The vocabulary: alias forms and equivalences                            *)
(***************************************************************************)

\* A form of two or more tokens becomes an alias phrase; an existing phrase of the
\* same tokens is upgraded and keeps its feature.
RegisterAlias(phrases, form) ==
  LET at == {i \in DOMAIN phrases : phrases[i].toks = form}
      first == CHOOSE i \in at : \A j \in at : i <= j
  IN  IF Len(form) < 2 THEN phrases
      ELSE IF at = {}
        THEN Append(phrases, [toks |-> form, feature |-> EntityOf(form), mode |-> "alias"])
        ELSE [phrases EXCEPT ![first].mode = "alias"]

RegisterAliases(phrases, forms) ==
  FoldLeft(RegisterAlias, phrases, forms)

\* A group keeps the forms that compile to a single feature; one form is no group.
ResolvedGroups(v, groups) ==
  {g \in {{f \in UNION {CompileFeatures(v, form) : form \in group} :
             \E form \in group : CompileFeatures(v, form) = {f}} : group \in groups} :
     Cardinality(g) >= 2}

\* Overlapping groups become one.
MergeOverlapping(groups) ==
  LET join(g, merged) ==
        LET meets == {m \in merged : m \cap g # {}}
        IN  (merged \ meets) \cup {g \cup UNION meets}
  IN  FoldSet(join, {}, groups)

ClassOf(v, f) == {f} \cup UNION {c \in v.classes : f \in c}

Widen(v, names) == UNION {ClassOf(v, f) : f \in names}

(***************************************************************************)
(* Alias forms, as the parses of their text                                *)
(***************************************************************************)

\* The pieces a query could have asked for before the form existed: each word, under
\* its own name and what it compiles to alone, and each shorter phrase inside the form.
Units(v, form) ==
  {[from |-> i - 1, to |-> i,
    names |-> {Term(form[i])} \cup NegativeView(v, <<form[i]>>)] : i \in 1..Len(form)}
    \cup
  {[from |-> o.from, to |-> o.to, names |-> {v.phrases[o.entry].feature}] :
     o \in {p \in Occurrences(v, form) : 2 <= p.to - p.from /\ p.to - p.from < Len(form)}}

Forms(v) == {i \in DOMAIN v.phrases : v.phrases[i].mode = "alias"}

FormLen(v, i) == Len(v.phrases[i].toks)

\* The cost of a gap of a form is how many forms share the names of the units over it;
\* a form is keyed on the names over the first gap of least cost.
KeyNames(v, units, i) ==
  LET over(gap) == {u \in units[i] : u.from <= gap /\ gap < u.to}
      shared(n) == Cardinality({j \in Forms(v) : \E u \in units[j] : n \in u.names})
      cost(gap) == MapThenSumSet(LAMBDA u : MapThenSumSet(shared, u.names), over(gap))
      gaps == 0..(FormLen(v, i) - 1)
      key == CHOOSE g \in gaps :
               \A h \in gaps : cost(g) < cost(h) \/ (cost(g) = cost(h) /\ g <= h)
  IN  UNION {u.names : u \in over(key)}

\* NormalizerBuilder::build, with the equivalences resolved through the result.
Build(phrases, syn, groups) ==
  LET all == RegisterAliases(phrases, SetToSeq(UNION groups))
      v == [phrases |-> all, syn |-> syn]
      units == [i \in Forms(v) |-> Units(v, all[i].toks)]
  IN  [phrases |-> all, syn |-> syn,
       classes |-> MergeOverlapping(ResolvedGroups(v, groups)),
       units |-> units,
       keys |-> [i \in Forms(v) |-> KeyNames(v, units, i)]]

\* How far into a form a view reads.
Reached(v, i, view) ==
  LET at[k \in 0..FormLen(v, i)] ==
        \/ k = 0
        \/ \E u \in v.units[i] : u.to = k /\ at[u.from] /\ u.names \cap view # {}
  IN  {k \in 0..FormLen(v, i) : at[k]}

Carried(v, i, view) == FormLen(v, i) \in Reached(v, i, view)

\* What a title carries: a form's entity, and the names a query takes for it, to a
\* fixed point.
Completed(v, names) ==
  LET entities(s) == {v.phrases[i].feature : i \in {j \in Forms(v) : Carried(v, j, s)}}
      view[n \in 0..Cardinality(Forms(v))] ==
        IF n = 0 THEN Widen(v, names)
        ELSE LET s == view[n - 1] IN s \cup Widen(v, entities(s))
      last == view[Cardinality(Forms(v))]
  IN  entities(last)

\* The positive view without the completion: every parse of the title itself.
ParseUnion(v, text) ==
  NegativeView(v, text)
    \cup (IF HasAliases(v)
            THEN Labels(Emit(v, text, "title", TRUE))
                   \cup {Term(text[i]) : i \in {j \in 1..Len(text) : text[j] \notin Markers}}
                   \cup {v.phrases[o.entry].feature : o \in Occurrences(v, text)}
            ELSE {})

PositiveView(v, text) ==
  ParseUnion(v, text)
    \cup (IF HasAliases(v) THEN Completed(v, ParseUnion(v, text)) ELSE {})

(***************************************************************************)
(* Quoted phrases: token graphs                                            *)
(***************************************************************************)

\* A position no arc covers keeps its token.
CoverBare(text, arcs) ==
  arcs \cup {Arc(Term(text[i + 1]), i, i + 1) :
               i \in {j \in 0..(Len(text) - 1) : ~\E a \in arcs : a.start <= j /\ j < a.end}}

PositionArcs(v, text, side, forceAdditive) == CoverBare(text, Emit(v, text, side, forceAdditive))

\* The arcs between two positions become one, with their features as alternatives.
GraphOf(positions, arcs) ==
  [positions |-> positions,
   arcs |-> {[start |-> e[1], end |-> e[2],
              alts |-> {a.feature : a \in {b \in arcs : <<b.start, b.end>> = e}}] :
               e \in {<<a.start, a.end>> : a \in arcs}}]

CompilePhrase(v, text) == GraphOf(Len(text), PositionArcs(v, text, "query", FALSE))

TitleArcs(v, text) ==
  PositionArcs(v, text, "title", TRUE)
    \cup PositionArcs(v, text, "title", FALSE)
    \cup {Arc(Term(text[i]), i - 1, i) : i \in {j \in 1..Len(text) : text[j] \notin Markers}}
    \cup {Arc(v.phrases[o.entry].feature, o.from, o.to) : o \in Occurrences(v, text)}

ProbeView(v, text) == PositiveView(v, text) \cup Labels(TitleArcs(v, text))

NegativeArcs(v, text) == PositionArcs(v, text, "title", FALSE)

\* The states (query node, title node) reached from the start of the phrase at any
\* title position.
GraphStates(graph, positions, titleArcs) ==
  LET nodes == (0..graph.positions) \X (0..positions)
      step(s) == s \cup {n \in nodes :
                   \E p \in s, qa \in graph.arcs, ta \in titleArcs :
                     /\ qa.start = p[1] /\ ta.start = p[2]
                     /\ ta.feature \in qa.alts
                     /\ n = <<qa.end, ta.end>>}
      reach[k \in 0..graph.positions] ==
        IF k = 0 THEN {<<0, t>> : t \in 0..(positions - 1)} ELSE step(reach[k - 1])
  IN  reach[graph.positions]

GraphMatches(graph, positions, titleArcs) ==
  /\ graph.positions > 0 /\ graph.arcs # {}
  /\ \E s \in GraphStates(graph, positions, titleArcs) : s[1] = graph.positions

=============================================================================
