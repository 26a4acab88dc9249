-------------------------- MODULE AliasCompletion --------------------------
(***************************************************************************)
(* How a title gets the entities of the alias forms it carries             *)
(* (normalize/core/alias_words.rs, AliasWords::complete_into).  A form is  *)
(* filed under the names of the pieces over one gap of its text, and is    *)
(* looked at only when one of them is in the view; when the view does not  *)
(* yet hold the form, the form waits on the missing pieces a later         *)
(* completion could supply.  The order in which names enter is the order   *)
(* of their hashes, so the model takes any.                                *)
(***************************************************************************)
EXTENDS Normalizing

CONSTANTS Vocabularies,   \* pairs: a vocabulary before and after aliases are activated
          Titles          \* the titles considered

VARIABLES before,    \* the vocabulary without the aliases
          vocab, title,
          names,     \* the title's, and every name a query treats as one of them
          todo,      \* names of the title that have not entered the view
          view       \* what the completion has found:
                     \*   entered  names it has put in the view
                     \*   queue    the same, in order, not yet visited
                     \*   done     forms whose entity is in the view
                     \*   noted    (form, unit) pairs that wait
                     \*   waiting  <<name, form>>: the form waits on the name

completionVars == <<before, vocab, title, names, todo, view>>

EmptyView == [entered |-> {}, queue |-> <<>>, done |-> {}, noted |-> {}, waiting |-> {}]

Entity(i) == vocab.phrases[i].feature

HasClass(name) == ClassOf(vocab, name) # {name}

Keyed(name) == {i \in Forms(vocab) : name \in vocab.keys[i]}

\* A completion that supplies a form's entity under its own name only.
CanSupplyOwnName(name) == \E i \in Forms(vocab) : Entity(i) = name

CanSupply(name) == \E i \in Forms(vocab) : Entity(i) \in ClassOf(vocab, name)

ListOf(forms) == SetToSortSeq(forms, LAMBDA a, b : a < b)

CompletionInit ==
  /\ \E pair \in Vocabularies : before = pair[1] /\ vocab = pair[2]
  /\ title \in Titles
  /\ HasAliases(vocab)
  /\ names = Widen(vocab, ParseUnion(vocab, title))
  /\ todo = names
  /\ view = EmptyView

\* The form is carried: its entity enters, with every name a query takes for it, once.
Complete(vw, i) ==
  LET members == ClassOf(vocab, Entity(i))
      known == members \cap (names \cup vw.entered) # {}
      fresh == IF HasClass(Entity(i)) /\ known THEN {} ELSE members \ (names \cup vw.entered)
  IN  [vw EXCEPT !.done = @ \cup {i}, !.entered = @ \cup fresh, !.queue = @ \o SetToSeq(fresh)]

\* It is not: it waits on each piece within reach that the completion could supply.
Wait(vw, i) ==
  LET reach == Reached(vocab, i, names \cup vw.entered)
      furthest == CHOOSE k \in reach : \A l \in reach : l <= k
      missing == {u \in vocab.units[i] :
                    /\ u.from <= furthest /\ u.to \notin reach
                    /\ <<i, u>> \notin vw.noted
                    /\ \E n \in u.names : CanSupply(n)}
  IN  [vw EXCEPT !.noted = @ \cup {<<i, u>> : u \in missing},
                 !.waiting = @ \cup {<<n, i>> : n \in {m \in UNION {u.names : u \in missing} : CanSupply(m)}}]

Examine(vw, i) ==
  IF i \in vw.done THEN vw
  ELSE IF Carried(vocab, i, names \cup vw.entered) THEN Complete(vw, i) ELSE Wait(vw, i)

\* A name enters the view: the forms keyed on it are examined, then the forms an
\* earlier look found waiting on it.
Enter(vw, name) ==
  LET keyed == FoldLeft(Examine, vw, ListOf(Keyed(name)))
      woken == {i \in Forms(vocab) : <<name, i>> \in keyed.waiting}
  IN  FoldLeft(Examine, [keyed EXCEPT !.waiting = {w \in @ : w[1] # name}], ListOf(woken))

\* The title's own names come in any order ...
EnterTitleName ==
  \E name \in todo :
    /\ todo' = todo \ {name}
    /\ view' = Enter(view, name)
    /\ UNCHANGED <<before, vocab, title, names>>

\* ... then those the completion added, first in first out.
EnterFoundName ==
  /\ todo = {} /\ view.queue # <<>>
  /\ view' = Enter([view EXCEPT !.queue = Tail(@)], Head(view.queue))
  /\ UNCHANGED <<before, vocab, title, names, todo>>

CompletionNext == EnterTitleName \/ EnterFoundName

Finished == todo = {} /\ view.queue = <<>>

\* Whatever the order of the names, the work list ends with the entity of every form
\* the title carries: filing a form under one gap, and waiting only on pieces that can
\* still come, loses none (complete_into, alias_words.rs:205).
CompletionFindsEveryForm ==
  names # {} /\ Finished => {Entity(i) : i \in view.done} = Completed(vocab, ParseUnion(vocab, title))

SaysAll(v, query, text) ==
  \A f \in CompileFeatures(v, query) : ClassOf(v, f) \cap PositiveView(v, text) # {}

\* Activating alias groups never loses a positive match: a text a title matched under
\* the vocabulary before them, it matches under the vocabulary with them, though both
\* sides are parsed anew (the promise of alias_words.rs:1-12).
AliasesKeepMatches ==
  names # {} /\ todo = names =>
    \A query \in Titles : SaysAll(before, query, title) => SaysAll(vocab, query, title)

(* The completion finds every form of the title's names, and an alias takes *)
(* no match away.                                                           *)
CompletionIsExact == CompletionFindsEveryForm /\ AliasesKeepMatches
=============================================================================
