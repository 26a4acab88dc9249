---------------------------- MODULE HandoffProofs ----------------------------
(***************************************************************************)
(* Proofs about the move of a shard position for any nodes, writers,       *)
(* mutations and number of moves.  What makes it work: every entry of a    *)
(* copy is followed only by entries that follow it in the source, so that  *)
(* replaying the tail again over the rows already copied ends where the    *)
(* source is, and requests behind the route meet a fence.                  *)
(***************************************************************************)
EXTENDS Handoff, SequenceTheorems, WellFoundedInduction, TLAPS

-----------------------------------------------------------------------------
(* Sequences.                                                               *)

(* The entries of a log are entries, one for each mutation.                 *)
LEMMA WholeProperties ==
  ASSUME NEW s \in Seq(Nat \ {0})
  PROVE  /\ Whole(s) \in Seq(Entry) /\ Len(Whole(s)) = Len(s)
         /\ \A i \in 1 .. Len(s) : Whole(s)[i] = [op |-> s[i], bare |-> FALSE]
<1>1. Len(s) \in Nat /\ DOMAIN s = 1 .. Len(s) /\ s \in [1 .. Len(s) -> Nat \ {0}]
  BY Zenon, LenProperties
<1>2. Whole(s) \in [1 .. Len(s) -> Entry]
  BY Zenon, <1>1 DEF Whole, Entry
<1>3. Whole(s) \in Seq(Entry)
  BY <1>1, <1>2, SeqDef
<1>4. DOMAIN Whole(s) = 1 .. Len(Whole(s)) /\ Len(Whole(s)) \in Nat
  BY Zenon, <1>3, LenProperties
<1>5. Len(Whole(s)) = Len(s)
  BY <1>1, <1>2, <1>4
<1> QED
  BY Zenon, <1>1, <1>3, <1>5 DEF Whole

(* The entries of rows that arrived in a file alone.                        *)
LEMMA BareProperties ==
  ASSUME NEW s \in Seq(Nat \ {0})
  PROVE  /\ Bare(s) \in Seq(Entry) /\ Len(Bare(s)) = Len(s)
         /\ \A i \in 1 .. Len(s) : Bare(s)[i] = [op |-> s[i], bare |-> TRUE]
<1>1. Len(s) \in Nat /\ DOMAIN s = 1 .. Len(s) /\ s \in [1 .. Len(s) -> Nat \ {0}]
  BY Zenon, LenProperties
<1>2. Bare(s) \in [1 .. Len(s) -> Entry]
  BY Zenon, <1>1 DEF Bare, Entry
<1>3. Bare(s) \in Seq(Entry)
  BY <1>1, <1>2, SeqDef
<1>4. DOMAIN Bare(s) = 1 .. Len(Bare(s)) /\ Len(Bare(s)) \in Nat
  BY Zenon, <1>3, LenProperties
<1>5. Len(Bare(s)) = Len(s)
  BY <1>1, <1>2, <1>4
<1> QED
  BY Zenon, <1>1, <1>3, <1>5 DEF Bare

(* The content of a node, position by position: what it was installed with, *)
(* then its log.                                                            *)
LEMMA ContentProperties ==
  ASSUME NEW r, r.base \in Seq(Entry), r.log \in Seq(Nat \ {0})
  PROVE  /\ ContentOf(r) \in Seq(Entry) /\ Len(ContentOf(r)) = Len(r.base) + Len(r.log)
         /\ Len(r.base) \in Nat /\ Len(r.log) \in Nat
         /\ DOMAIN ContentOf(r) = 1 .. Len(r.base) + Len(r.log)
         /\ \A k \in 1 .. Len(r.base) : ContentOf(r)[k] = r.base[k]
         /\ \A k \in 1 .. Len(r.log) :
              ContentOf(r)[Len(r.base) + k] = [op |-> r.log[k], bare |-> FALSE]
<1>1. /\ Whole(r.log) \in Seq(Entry) /\ Len(Whole(r.log)) = Len(r.log)
      /\ \A i \in 1 .. Len(r.log) : Whole(r.log)[i] = [op |-> r.log[i], bare |-> FALSE]
  BY Zenon, WholeProperties
<1>2. Len(r.base) \in Nat /\ Len(r.log) \in Nat
  BY Zenon, LenProperties
<1> DEFINE c == ContentOf(r)
           w == Whole(r.log)
           b == r.base
<1>3. /\ c \in Seq(Entry) /\ Len(c) = Len(b) + Len(w)
      /\ \A i \in 1 .. Len(b) + Len(w) : c[i] = IF i <= Len(b) THEN b[i] ELSE w[i - Len(b)]
  BY Zenon, <1>1, ConcatProperties DEF ContentOf
<1>4. DOMAIN c = 1 .. Len(b) + Len(r.log)
  BY Zenon, <1>1, <1>3, LenProperties
<1>n. Len(b) \in Nat /\ Len(w) \in Nat /\ Len(w) = Len(r.log)
  BY Zenon, <1>1, <1>2
<1> HIDE DEF c, w, b
<1>5. \A k \in 1 .. Len(b) : c[k] = b[k]
  BY SMTT(30), <1>3, <1>n
<1>6. \A k \in 1 .. Len(r.log) : c[Len(b) + k] = [op |-> r.log[k], bare |-> FALSE]
  <2> SUFFICES ASSUME NEW k \in 1 .. Len(r.log)
               PROVE  c[Len(b) + k] = [op |-> r.log[k], bare |-> FALSE]
    BY Zenon
  <2>1. /\ Len(b) + k \in 1 .. Len(b) + Len(w)
        /\ ~ (Len(b) + k <= Len(b)) /\ (Len(b) + k) - Len(b) = k
    BY <1>n
  <2>2. c[Len(b) + k] = w[k]
    BY Zenon, <1>3, <2>1
  <2> QED
    BY Zenon, <1>1, <2>2 DEF w
<1> QED
  BY Zenon, <1>1, <1>2, <1>3, <1>4, <1>5, <1>6 DEF c, w, b

-----------------------------------------------------------------------------
(* Contents in order, and copies that follow.                               *)

(* A content in order leaves live what the mutations leave live.            *)
LEMMA InOrderIsExact ==
  ASSUME ops \in Seq([id : Ids, kind : Kinds]), NEW c \in Seq(Entry), InOrder(c)
  PROVE  Live(c) = Live(Whole([i \in DOMAIN ops |-> i]))
<1> DEFINE all == [i \in DOMAIN ops |-> i]
           w == Whole(all)
           n == Len(ops)
<1>1. n \in Nat /\ DOMAIN ops = 1 .. n
  BY Zenon, LenProperties
<1>2. all \in [1 .. n -> Nat \ {0}]
  BY <1>1
<1>3. all \in Seq(Nat \ {0}) /\ DOMAIN all = 1 .. n
  BY <1>1, <1>2, SeqDef
<1>4. Len(all) = n
  BY <1>1, <1>3, LenProperties
<1> HIDE DEF n, all
<1>5. w \in Seq(Entry) /\ Len(w) = n /\ \A i \in 1 .. n : w[i] = [op |-> all[i], bare |-> FALSE]
  BY Zenon, <1>3, <1>4, WholeProperties
<1>6. \A i \in 1 .. n : w[i] = [op |-> i, bare |-> FALSE]
  BY Zenon, <1>1, <1>5 DEF all
<1>7. DOMAIN w = 1 .. n
  BY Zenon, <1>5, LenProperties
<1> HIDE DEF w
<1>o. ASSUME NEW i \in 1 .. n PROVE w[i].op = i
  <2>1. w[i] = [op |-> i, bare |-> FALSE]
    BY Zenon, <1>6
  <2> QED
    BY <2>1
<1>8. DOMAIN c = 1 .. Len(c) /\ Len(c) \in Nat
  BY Zenon, LenProperties
<1>9. ASSUME NEW x \in Live(c) PROVE x \in Live(w)
  <2>1. PICK k \in LiveRows(c) : x = c[k].op
    BY Zenon DEF Live
  <2>2. /\ k \in 1 .. Len(c) /\ x \in 1 .. n /\ ops[x].kind # "remove"
        /\ \A j \in k + 1 .. Len(c) : ops[c[j].op].id = ops[x].id => ~ Replaces(c[j])
    BY Zenon, <1>1, <1>8, <2>1 DEF LiveRows, InOrder
  <2>3. ASSUME NEW j \in x + 1 .. n, ops[w[j].op].id = ops[w[x].op].id PROVE ~ Replaces(w[j])
    <3>1. j \in 1 .. n /\ j > x
      BY <1>1, <2>2
    <3>2. PICK p \in 1 .. Len(c) : /\ c[p] = [op |-> j, bare |-> FALSE]
                                   /\ \A q \in p + 1 .. Len(c) : c[q].op > j
      BY Zenon, <1>1, <1>8, <3>1 DEF InOrder
    <3>3. ~ (k > p) /\ k # p
      BY <1>1, <1>8, <2>1, <2>2, <3>1, <3>2
    <3>4. p \in k + 1 .. Len(c)
      BY <1>8, <2>2, <3>2, <3>3
    <3>5. c[p] = w[j] /\ w[j].op = j /\ w[x].op = x
      BY Zenon, <1>6, <1>o, <2>2, <3>1, <3>2
    <3> QED
      BY Zenon, <2>2, <2>3, <3>4, <3>5
  <2>4. x \in LiveRows(w)
    <3>1. w[x].op = x
      BY Zenon, <1>o, <2>2
    <3> QED
      BY Zenon, <1>5, <1>7, <2>2, <2>3, <3>1 DEF LiveRows
  <2> QED
    BY Zenon, <1>o, <2>2, <2>4 DEF Live
<1>10. ASSUME NEW x \in Live(w) PROVE x \in Live(c)
  <2>1. PICK k \in LiveRows(w) : x = w[k].op
    BY Zenon DEF Live
  <2>2. k \in 1 .. n /\ x = k
    BY <1>6, <1>7, <2>1 DEF LiveRows
  <2>3. /\ ops[x].kind # "remove"
        /\ \A j \in x + 1 .. n : ops[w[j].op].id = ops[x].id => ~ Replaces(w[j])
    BY Zenon, <1>5, <2>1, <2>2 DEF LiveRows
  <2>4. PICK p \in 1 .. Len(c) : /\ c[p] = [op |-> x, bare |-> FALSE]
                                 /\ \A q \in p + 1 .. Len(c) : c[q].op > x
    BY Zenon, <1>1, <1>8, <2>2 DEF InOrder
  <2>5. ASSUME NEW q \in p + 1 .. Len(c), ops[c[q].op].id = ops[c[p].op].id
        PROVE  ~ Replaces(c[q])
    <3>1. q \in 1 .. Len(c) /\ c[q].op > x
      BY <1>8, <2>4
    <3>2. c[q].op \in 1 .. n
      BY Zenon, <1>1, <1>8, <3>1 DEF InOrder
    <3>3. c[q].op \in x + 1 .. n
      BY <1>1, <2>2, <3>1, <3>2
    <3>4. PICK y \in x + 1 .. n : y = c[q].op /\ y \in 1 .. n
      BY Zenon, <3>2, <3>3
    <3>5. w[y].op = y /\ ops[y].id = ops[x].id /\ w[y] = [op |-> y, bare |-> FALSE]
      BY <1>6, <1>o, <2>4, <2>5, <3>4
    <3>6. ~ Replaces(w[y])
      BY Zenon, <2>3, <3>4, <3>5
    <3> QED
      BY <3>4, <3>5, <3>6 DEF Replaces
  <2>6. p \in LiveRows(c)
    BY <1>8, <2>3, <2>4, <2>5 DEF LiveRows
  <2> QED
    BY <2>4, <2>6 DEF Live
<1> QED
  BY Zenon, <1>9, <1>10 DEF w, all

(* A node that logs mutations has them after what it had.                   *)
LEMMA LoggedProperties ==
  ASSUME NEW r, IsCopy(r), NEW m \in Seq(Nat \ {0})
  PROVE  /\ IsCopy(Logged(r, m)) /\ Logged(r, m).fence = r.fence
         /\ Logged(r, m).base = r.base /\ Logged(r, m).log = r.log \o m
         /\ Logged(r, m).leases = r.leases /\ Logged(r, m).stale = r.stale
         /\ Logged(r, m).trimmed = r.trimmed /\ Logged(r, m).sealed = r.sealed
         /\ Len(Logged(r, m).log) = Len(r.log) + Len(m)
         /\ ContentOf(Logged(r, m)) \in Seq(Entry) /\ ContentOf(r) \in Seq(Entry)
         /\ Len(ContentOf(Logged(r, m))) = Len(ContentOf(r)) + Len(m)
         /\ \A k \in 1 .. Len(ContentOf(r)) : ContentOf(Logged(r, m))[k] = ContentOf(r)[k]
         /\ \A k \in 1 .. Len(m) :
              ContentOf(Logged(r, m))[Len(ContentOf(r)) + k] = [op |-> m[k], bare |-> FALSE]
<1> DEFINE l == Logged(r, m)
<1>1. r.base \in Seq(Entry) /\ r.log \in Seq(Nat \ {0}) /\ r.log \o m \in Seq(Nat \ {0})
  BY Zenon, ConcatProperties DEF IsCopy
<1>2. /\ l.base = r.base /\ l.log = r.log \o m /\ l.flushed = r.flushed /\ l.sealed = r.sealed
      /\ l.trimmed = r.trimmed /\ l.fence = r.fence /\ l.leases = r.leases
      /\ l.stale = r.stale /\ l.nextLease = r.nextLease
      /\ l \in [base : Seq(Entry), log : Seq(Nat \ {0}), flushed : Nat, sealed : Nat,
               trimmed : Nat, fence : Nat, leases : {r.leases}, stale : {r.stale},
               nextLease : Nat]
  BY Zenon, <1>1 DEF Logged, IsCopy
<1> HIDE DEF l
<1>3. r.base \in Seq(Entry) /\ r.log \in Seq(Nat \ {0}) /\ Len(m) \in Nat /\ Len(r.log) \in Nat
  BY Zenon, LenProperties DEF IsCopy
<1>4. /\ l.log \in Seq(Nat \ {0}) /\ Len(l.log) = Len(r.log) + Len(m)
      /\ \A i \in 1 .. Len(r.log) + Len(m) :
           l.log[i] = IF i <= Len(r.log) THEN r.log[i] ELSE m[i - Len(r.log)]
  <2>1. /\ r.log \o m \in Seq(Nat \ {0}) /\ Len(r.log \o m) = Len(r.log) + Len(m)
        /\ \A i \in 1 .. Len(r.log) + Len(m) :
             (r.log \o m)[i] = IF i <= Len(r.log) THEN r.log[i] ELSE m[i - Len(r.log)]
    BY Zenon, <1>3, ConcatProperties
  <2> QED
    BY Zenon, <1>2, <2>1
<1>5. IsCopy(l)
  <2>1. /\ r.trimmed <= r.sealed /\ r.sealed <= r.flushed /\ r.flushed <= Len(r.log)
        /\ r.trimmed \in Nat /\ r.sealed \in Nat /\ r.flushed \in Nat
        /\ r.leases = [x \in DOMAIN r.leases |-> r.leases[x]] /\ r.stale \subseteq DOMAIN r.leases
        /\ \A x \in DOMAIN r.leases :
             x \in Nat /\ x < r.nextLease /\ r.leases[x] \in 0 .. Len(r.log)
    BY Zenon DEF IsCopy
  <2>2. r.flushed <= Len(l.log) /\ \A x \in DOMAIN r.leases : r.leases[x] \in 0 .. Len(l.log)
    BY <1>3, <1>4, <2>1
  <2> QED
    BY Zenon, <1>2, <2>1, <2>2 DEF IsCopy
<1> DEFINE b == Len(r.base)
           n == Len(r.log)
           c == ContentOf(r)
           d == ContentOf(l)
<1>6. /\ c \in Seq(Entry) /\ Len(c) = b + n /\ b \in Nat /\ n \in Nat
      /\ \A k \in 1 .. b : c[k] = r.base[k]
      /\ \A k \in 1 .. n : c[b + k] = [op |-> r.log[k], bare |-> FALSE]
  BY Zenon, <1>3, ContentProperties
<1>7. /\ d \in Seq(Entry) /\ Len(d) = b + Len(l.log)
      /\ \A k \in 1 .. b : d[k] = r.base[k]
      /\ \A k \in 1 .. Len(l.log) : d[b + k] = [op |-> l.log[k], bare |-> FALSE]
  <2>1. l.base \in Seq(Entry) /\ l.log \in Seq(Nat \ {0}) /\ Len(l.base) = b
    BY Zenon, <1>2, <1>3, <1>4
  <2>2. /\ d \in Seq(Entry) /\ Len(d) = Len(l.base) + Len(l.log)
        /\ \A k \in 1 .. Len(l.base) : d[k] = l.base[k]
        /\ \A k \in 1 .. Len(l.log) : d[Len(l.base) + k] = [op |-> l.log[k], bare |-> FALSE]
    BY Zenon, <2>1, ContentProperties
  <2> QED
    BY Zenon, <1>2, <2>1, <2>2
<1> HIDE DEF b, n, c, d
<1>8. Len(l.log) = n + Len(m) /\ Len(d) = Len(c) + Len(m)
  BY <1>3, <1>4, <1>6, <1>7 DEF n
<1>9. ASSUME NEW k \in 1 .. Len(c) PROVE d[k] = c[k]
  <2>1. CASE k <= b
    BY <1>6, <1>7, <2>1
  <2>2. CASE k > b
    <3>1. PICK x \in 1 .. n : k = b + x
      <4>1. k - b \in 1 .. n /\ k = b + (k - b)
        BY <1>6, <2>2
      <4> QED
        BY Zenon, <4>1
    <3>2. x \in 1 .. Len(l.log) /\ l.log[x] = r.log[x]
      <4>1. x <= Len(r.log) /\ x \in 1 .. Len(r.log) + Len(m)
        BY <1>3 DEF n
      <4> QED
        BY Zenon, <1>4, <4>1
    <3> QED
      BY Zenon, <1>6, <1>7, <3>1, <3>2
  <2> QED
    BY <1>6, <2>1, <2>2
<1>10. ASSUME NEW k \in 1 .. Len(m) PROVE d[Len(c) + k] = [op |-> m[k], bare |-> FALSE]
  <2>1. PICK y \in 1 .. Len(l.log) : y = n + k /\ y - n = k /\ ~ (y <= n)
    BY <1>3, <1>6, <1>8
  <2>2. l.log[y] = m[k]
    BY Zenon, <1>4, <1>8, <2>1 DEF n
  <2>3. d[b + y] = [op |-> m[k], bare |-> FALSE]
    BY Zenon, <1>7, <2>2
  <2>4. b + y = Len(c) + k
    BY <1>3, <1>6, <2>1
  <2> QED
    BY Zenon, <2>3, <2>4
<1> QED
  BY Zenon, <1>2, <1>4, <1>5, <1>6, <1>7, <1>8, <1>9, <1>10 DEF l, c, d

(* A copy still follows when its source grows.                              *)
LEMMA FollowsGrows ==
  ASSUME NEW t \in Seq(Entry), NEW s \in Seq(Entry), NEW u \in Seq(Entry), NEW m \in 0 .. Len(s),
         Len(s) <= Len(u), \A k \in 1 .. Len(s) : u[k] = s[k], Follows(t, s, m)
  PROVE  Follows(t, u, m)
<1>1. /\ DOMAIN t = 1 .. Len(t) /\ DOMAIN s = 1 .. Len(s) /\ DOMAIN u = 1 .. Len(u)
      /\ Len(t) \in Nat /\ Len(s) \in Nat /\ Len(u) \in Nat
  BY Zenon, LenProperties
<1>2. \A q \in DOMAIN t : \E j \in DOMAIN u : u[j].op = t[q].op
  <2> SUFFICES ASSUME NEW q \in DOMAIN t PROVE \E j \in DOMAIN u : u[j].op = t[q].op
    BY Zenon
  <2>1. PICK j \in 1 .. Len(s) : s[j].op = t[q].op
    BY Zenon, <1>1 DEF Follows
  <2>2. j \in 1 .. Len(u) /\ u[j] = s[j]
    BY <1>1
  <2> QED
    BY Zenon, <1>1, <2>1, <2>2
<1>3. ASSUME NEW k \in 1 .. m, ~ u[k].bare
      PROVE  \E p \in DOMAIN t :
               /\ t[p] = u[k]
               /\ \A q \in p + 1 .. Len(t) : \E j \in k + 1 .. Len(u) : u[j].op = t[q].op
  <2>1. k \in 1 .. Len(s) /\ u[k] = s[k]
    BY <1>1
  <2>2. PICK p \in DOMAIN t :
          /\ t[p] = s[k]
          /\ \A q \in p + 1 .. Len(t) : \E j \in k + 1 .. Len(s) : s[j].op = t[q].op
    BY Zenon, <1>3, <2>1 DEF Follows
  <2>3. ASSUME NEW q \in p + 1 .. Len(t) PROVE \E j \in k + 1 .. Len(u) : u[j].op = t[q].op
    <3>1. PICK j \in k + 1 .. Len(s) : s[j].op = t[q].op
      BY Zenon, <2>2
    <3>2. j \in k + 1 .. Len(u) /\ j \in 1 .. Len(s)
      BY <1>1, <2>1
    <3> QED
      BY Zenon, <3>1, <3>2
  <2> QED
    BY Zenon, <2>1, <2>2, <2>3
<1> QED
  BY Zenon, <1>2, <1>3 DEF Follows

(* A copy that follows its source to the end is in order when the source is.*)
LEMMA FollowerIsInOrder ==
  ASSUME NEW t \in Seq(Entry), NEW s \in Seq(Entry), Follows(t, s, Len(s)), InOrder(s)
  PROVE  InOrder(t)
<1>1. /\ DOMAIN t = 1 .. Len(t) /\ DOMAIN s = 1 .. Len(s) /\ Len(t) \in Nat /\ Len(s) \in Nat
  BY Zenon, LenProperties
<1>2. \A q \in DOMAIN t : t[q].op \in DOMAIN ops
  <2> SUFFICES ASSUME NEW q \in DOMAIN t PROVE t[q].op \in DOMAIN ops
    BY Zenon
  <2>1. PICK j \in DOMAIN s : s[j].op = t[q].op
    BY Zenon DEF Follows
  <2> QED
    BY Zenon, <2>1 DEF InOrder
<1>3. ASSUME NEW i \in DOMAIN ops
      PROVE  \E p \in DOMAIN t : /\ t[p] = [op |-> i, bare |-> FALSE]
                                 /\ \A q \in p + 1 .. Len(t) : t[q].op > i
  <2>1. PICK k \in DOMAIN s : /\ s[k] = [op |-> i, bare |-> FALSE]
                              /\ \A q \in k + 1 .. Len(s) : s[q].op > i
    BY Zenon DEF InOrder
  <2>2. ~ s[k].bare /\ k \in 1 .. Len(s)
    BY <1>1, <2>1
  <2>3. PICK p \in DOMAIN t :
          /\ t[p] = s[k]
          /\ \A q \in p + 1 .. Len(t) : \E j \in k + 1 .. Len(s) : s[j].op = t[q].op
    BY Zenon, <2>2 DEF Follows
  <2>4. ASSUME NEW q \in p + 1 .. Len(t) PROVE t[q].op > i
    <3>1. PICK j \in k + 1 .. Len(s) : s[j].op = t[q].op
      BY Zenon, <2>3
    <3> QED
      BY Zenon, <2>1, <3>1
  <2> QED
    BY Zenon, <2>1, <2>3, <2>4
<1> QED
  BY Zenon, <1>2, <1>3 DEF InOrder

(* A part of a translog.                                                    *)
LEMMA PartOfLog ==
  ASSUME NEW s \in Seq(Nat \ {0}), NEW m \in Nat, NEW n \in Nat, m <= n, n <= Len(s)
  PROVE  /\ SubSeq(s, m + 1, n) \in Seq(Nat \ {0}) /\ Len(SubSeq(s, m + 1, n)) = n - m
         /\ \A i \in 1 .. n - m : SubSeq(s, m + 1, n)[i] = s[m + i]
<1>1. PICK k \in Int : k = m + 1
  OBVIOUS
<1>2. \A i \in k .. n : s[i] \in Nat \ {0}
  <2>1. Len(s) \in Nat /\ \A i \in 1 .. Len(s) : s[i] \in Nat \ {0}
    BY Zenon, ElementOfSeq, LenProperties
  <2>2. \A i \in k .. n : i \in 1 .. Len(s)
    BY <1>1, <2>1
  <2> QED
    BY Zenon, <2>1, <2>2
<1>3. n \in Int
  OBVIOUS
<1>4. /\ SubSeq(s, k, n) \in Seq(Nat \ {0})
      /\ Len(SubSeq(s, k, n)) = IF k <= n THEN n - k + 1 ELSE 0
      /\ \A i \in 1 .. n - k + 1 : SubSeq(s, k, n)[i] = s[k + i - 1]
  BY <1>2, <1>3, SubSeqProperties
<1> DEFINE t == SubSeq(s, k, n)
<1>5. SubSeq(s, m + 1, n) = t
  BY Zenon, <1>1
<1> HIDE DEF t
<1>6. t \in Seq(Nat \ {0}) /\ Len(t) = n - m
  BY <1>1, <1>4 DEF t
<1>7. ASSUME NEW i \in 1 .. n - m PROVE t[i] = s[m + i]
  <2>1. i \in 1 .. n - k + 1 /\ k + i - 1 = m + i
    BY <1>1
  <2> QED
    BY Zenon, <1>4, <2>1 DEF t
<1> QED
  BY Zenon, <1>5, <1>6, <1>7

(* The files of a node sealed at h or later follow its content up to h.     *)
LEMMA SegmentsFollow ==
  ASSUME NEW r, IsCopy(r), NEW h \in 0 .. r.sealed
  PROVE  Segments(r) \in Seq(Entry) /\ Follows(Segments(r), ContentOf(r), Len(r.base) + h)
<1> DEFINE b == Len(r.base)
           n == Len(r.log)
           c == ContentOf(r)
           t == Segments(r)
           one == SubSeq(r.log, 1, r.sealed)
           two == SubSeq(r.log, r.sealed + 1, r.flushed)
<1>1. /\ r.base \in Seq(Entry) /\ r.log \in Seq(Nat \ {0}) /\ b \in Nat /\ n \in Nat
      /\ r.sealed \in Nat /\ r.flushed \in Nat /\ r.sealed <= r.flushed /\ r.flushed <= n
  BY Zenon, LenProperties DEF IsCopy
<1>3. /\ one \in Seq(Nat \ {0}) /\ Len(one) = r.sealed
      /\ \A i \in 1 .. r.sealed : one[i] = r.log[i]
  <2>1. PICK z \in Nat : z = 0
    BY Zenon
  <2>2. z <= r.sealed /\ r.sealed <= Len(r.log)
    BY <1>1, <2>1
  <2>3. /\ SubSeq(r.log, z + 1, r.sealed) \in Seq(Nat \ {0})
        /\ Len(SubSeq(r.log, z + 1, r.sealed)) = r.sealed - z
        /\ \A i \in 1 .. r.sealed - z : SubSeq(r.log, z + 1, r.sealed)[i] = r.log[z + i]
    BY Zenon, <1>1, <2>2, PartOfLog
  <2>4. z + 1 = 1 /\ r.sealed - z = r.sealed
    BY <1>1, <2>1
  <2>5. \A i \in 1 .. r.sealed : z + i = i
    BY <1>1, <2>1
  <2>6. one = SubSeq(r.log, z + 1, r.sealed)
    BY Zenon, <2>4
  <2> HIDE DEF one
  <2>7. ASSUME NEW i \in 1 .. r.sealed PROVE one[i] = r.log[i]
    <3>1. i \in 1 .. r.sealed - z /\ z + i = i
      BY Zenon, <2>4, <2>5
    <3> QED
      BY Zenon, <2>3, <2>6, <3>1
  <2> QED
    BY Zenon, <2>3, <2>4, <2>6, <2>7
<1>4. /\ two \in Seq(Nat \ {0}) /\ Len(two) = r.flushed - r.sealed
      /\ \A i \in 1 .. r.flushed - r.sealed : two[i] = r.log[r.sealed + i]
  BY Zenon, <1>1, PartOfLog
<1> DEFINE w == Whole(one)
           v == Bare(two)
<1> HIDE DEF one, two
<1>5. /\ w \in Seq(Entry) /\ Len(w) = r.sealed
      /\ \A i \in 1 .. r.sealed : w[i] = [op |-> r.log[i], bare |-> FALSE]
  BY <1>3, WholeProperties
<1>6. /\ v \in Seq(Entry) /\ Len(v) = r.flushed - r.sealed
      /\ \A i \in 1 .. r.flushed - r.sealed : v[i] = [op |-> r.log[r.sealed + i], bare |-> TRUE]
  BY <1>4, BareProperties
<1>7. t = (r.base \o w) \o v
  BY Zenon DEF Segments, one, two
<1> HIDE DEF w, v, t
<1>8. /\ r.base \o w \in Seq(Entry) /\ Len(r.base \o w) = b + r.sealed
      /\ \A i \in 1 .. b + r.sealed : (r.base \o w)[i] = IF i <= b THEN r.base[i] ELSE w[i - b]
  <2>1. PICK a \in Seq(Entry) : a = r.base
    BY Zenon, <1>1
  <2>2. /\ a \o w \in Seq(Entry) /\ Len(a \o w) = Len(a) + Len(w)
        /\ \A i \in 1 .. Len(a) + Len(w) :
             (a \o w)[i] = IF i <= Len(a) THEN a[i] ELSE w[i - Len(a)]
    BY Zenon, <1>5, ConcatProperties
  <2> QED
    BY Zenon, <1>5, <2>1, <2>2
<1> DEFINE f == r.base \o w
<1> HIDE DEF f
<1>9. /\ t \in Seq(Entry) /\ Len(t) = Len(f) + Len(v)
      /\ \A i \in 1 .. Len(f) + Len(v) : t[i] = IF i <= Len(f) THEN f[i] ELSE v[i - Len(f)]
  BY Zenon, <1>6, <1>7, <1>8, ConcatProperties DEF f
<1>10. /\ Len(f) = b + r.sealed /\ Len(v) = r.flushed - r.sealed /\ Len(t) = b + r.flushed
  BY <1>1, <1>6, <1>8, <1>9 DEF f
<1>11. /\ c \in Seq(Entry) /\ Len(c) = b + n /\ DOMAIN c = 1 .. b + n
       /\ \A k \in 1 .. b : c[k] = r.base[k]
       /\ \A k \in 1 .. n : c[b + k] = [op |-> r.log[k], bare |-> FALSE]
  BY Zenon, <1>1, ContentProperties
<1>12. DOMAIN t = 1 .. b + r.flushed
  BY Zenon, <1>9, <1>10, LenProperties
<1> HIDE DEF b, n, c
<1>13. ASSUME NEW q \in 1 .. b + r.sealed PROVE t[q] = c[q]
  <2>1. q \in 1 .. Len(f) + Len(v) /\ q <= Len(f)
    BY <1>1, <1>10
  <2>2. t[q] = f[q]
    BY Zenon, <1>9, <2>1
  <2>3. f[q] = IF q <= b THEN r.base[q] ELSE w[q - b]
    BY Zenon, <1>8 DEF f
  <2>4. CASE q <= b
    BY <1>1, <1>11, <2>2, <2>3, <2>4
  <2>5. CASE ~ (q <= b)
    <3>1. PICK x \in 1 .. r.sealed : q = b + x /\ q - b = x /\ x \in 1 .. n
      <4>1. q - b \in 1 .. r.sealed /\ q = b + (q - b) /\ q - b \in 1 .. n
        BY <1>1, <2>5
      <4> QED
        BY Zenon, <4>1
    <3>2. c[b + x] = [op |-> r.log[x], bare |-> FALSE] /\ w[x] = [op |-> r.log[x], bare |-> FALSE]
      BY Zenon, <1>5, <1>11, <3>1
    <3> QED
      BY Zenon, <2>2, <2>3, <2>5, <3>1, <3>2
  <2> QED
    BY Zenon, <2>4, <2>5
<1>14. ASSUME NEW q \in 1 .. b + r.flushed PROVE t[q].op = c[q].op /\ q \in DOMAIN c
  <2>0. q \in DOMAIN c
    BY <1>1, <1>11
  <2>1. CASE q <= b + r.sealed
    <3>1. q \in 1 .. b + r.sealed
      BY <1>1, <2>1
    <3> QED
      BY Zenon, <1>13, <2>0, <3>1
  <2>2. CASE q > b + r.sealed
    <3>1. PICK x \in 1 .. r.flushed - r.sealed :
            q = Len(f) + x /\ q - Len(f) = x /\ ~ (q <= Len(f)) /\ q \in 1 .. Len(f) + Len(v)
      <4>1. /\ q - Len(f) \in 1 .. r.flushed - r.sealed /\ q = Len(f) + (q - Len(f))
            /\ ~ (q <= Len(f)) /\ q \in 1 .. Len(f) + Len(v)
        <5> DEFINE g == Len(f)
        <5>1. g = b + r.sealed /\ Len(v) = r.flushed - r.sealed
          BY Zenon, <1>10
        <5> HIDE DEF g
        <5>2. g \in Nat /\ q \in Nat /\ b \in Nat
          BY <1>1, <5>1
        <5>3. g < q /\ q <= b + r.flushed /\ r.flushed - r.sealed \in Nat
          BY <1>1, <2>2, <5>1
        <5>4. g + Len(v) = b + r.flushed
          BY <1>1, <5>1, <5>2
        <5>5. /\ q - g \in 1 .. r.flushed - r.sealed /\ q = g + (q - g)
              /\ ~ (q <= g) /\ q \in 1 .. g + Len(v)
          <6>1. PICK d \in Nat : d = r.flushed - r.sealed
            BY Zenon, <5>3
          <6>2. q <= g + d /\ Len(v) = d
            BY Zenon, <5>1, <5>3, <5>4, <6>1
          <6>3. q - g \in 1 .. d /\ q = g + (q - g) /\ ~ (q <= g) /\ q \in 1 .. g + d
            BY <5>2, <5>3, <6>2
          <6> QED
            BY Zenon, <6>1, <6>2, <6>3
        <5> QED
          BY Zenon, <5>5 DEF g
      <4> QED
        BY Zenon, <4>1
    <3>2. t[q] = [op |-> r.log[r.sealed + x], bare |-> TRUE]
      BY Zenon, <1>6, <1>9, <3>1
    <3>3. PICK y \in 1 .. n : y = r.sealed + x /\ q = b + y
      <4>1. r.sealed + x \in 1 .. n
        BY <1>1
      <4>2. q = b + (r.sealed + x)
        BY <1>1, <1>10, <3>1
      <4> QED
        BY Zenon, <4>1, <4>2
    <3>4. c[q] = [op |-> r.log[y], bare |-> FALSE]
      BY Zenon, <1>11, <3>3
    <3> QED
      BY <2>0, <3>2, <3>3, <3>4
  <2> QED
    BY <1>1, <2>1, <2>2
<1>15. ASSUME NEW k \in 1 .. b + h
       PROVE  \E p \in DOMAIN t :
                /\ t[p] = c[k]
                /\ \A q \in p + 1 .. Len(t) : \E j \in k + 1 .. Len(c) : c[j].op = t[q].op
  <2>1. k \in 1 .. b + r.sealed /\ k \in DOMAIN t
    BY <1>1, <1>12
  <2>2. ASSUME NEW q \in k + 1 .. Len(t) PROVE \E j \in k + 1 .. Len(c) : c[j].op = t[q].op
    <3>1. q \in 1 .. b + r.flushed /\ q \in k + 1 .. Len(c)
      BY <1>1, <1>10, <1>11, <2>1
    <3> QED
      BY Zenon, <1>14, <3>1
  <2> QED
    BY Zenon, <1>13, <2>1, <2>2
<1>16. Follows(t, c, b + h)
  BY Zenon, <1>12, <1>14, <1>15 DEF Follows
<1> QED
  BY Zenon, <1>9, <1>16 DEF t, c, b

(* A copy d of s that follows it up to m and then has all that is left of   *)
(* s follows it to the end, although d may have parts of that twice.        *)
LEMMA ReplayFollows ==
  ASSUME NEW t \in Seq(Entry), NEW d \in Seq(Entry), NEW s \in Seq(Entry), NEW e \in Nat,
         NEW m \in Nat, m + e = Len(s), Follows(t, s, m), Len(d) = Len(t) + e,
         \A k \in 1 .. Len(t) : d[k] = t[k], \A k \in 1 .. e : d[Len(t) + k] = s[m + k]
  PROVE  Follows(d, s, Len(s))
<1>1. /\ DOMAIN t = 1 .. Len(t) /\ DOMAIN s = 1 .. Len(s) /\ DOMAIN d = 1 .. Len(d)
      /\ Len(t) \in Nat /\ Len(s) \in Nat /\ Len(d) \in Nat
  BY Zenon, LenProperties
<1> DEFINE n == Len(t)
<1> HIDE DEF n
<1>2. n \in Nat /\ Len(d) = n + e
  BY Zenon, <1>1 DEF n
<1>3. ASSUME NEW q \in 1 .. Len(d), q > n
      PROVE  \E x \in 1 .. e : q = n + x /\ d[q] = s[m + x] /\ m + x \in 1 .. Len(s)
  <2>1. q - n \in 1 .. e /\ q = n + (q - n)
    BY <1>2, <1>3
  <2>2. PICK x \in 1 .. e : q = n + x
    BY Zenon, <2>1
  <2>3. m + x \in 1 .. Len(s)
    BY <1>1
  <2> QED
    BY Zenon, <2>2, <2>3 DEF n
<1>4. ASSUME NEW q \in DOMAIN d PROVE \E j \in DOMAIN s : s[j].op = d[q].op
  <2>1. CASE q <= n
    <3>1. q \in DOMAIN t /\ d[q] = t[q]
      BY <1>1, <2>1 DEF n
    <3> QED
      BY Zenon, <3>1 DEF Follows
  <2>2. CASE q > n
    BY Zenon, <1>1, <1>3, <2>2
  <2> QED
    BY <1>1, <1>2, <2>1, <2>2
<1>5. ASSUME NEW k \in 1 .. Len(s), ~ s[k].bare
      PROVE  \E p \in DOMAIN d :
               /\ d[p] = s[k]
               /\ \A q \in p + 1 .. Len(d) : \E j \in k + 1 .. Len(s) : s[j].op = d[q].op
  <2>1. CASE k <= m
    <3>1. k \in 1 .. m
      BY <2>1
    <3>2. PICK p \in DOMAIN t :
            /\ t[p] = s[k]
            /\ \A q \in p + 1 .. Len(t) : \E j \in k + 1 .. Len(s) : s[j].op = t[q].op
      BY Zenon, <1>5, <3>1 DEF Follows
    <3>3. p \in 1 .. n /\ p \in DOMAIN d /\ d[p] = t[p]
      BY <1>1 DEF n
    <3>4. ASSUME NEW q \in p + 1 .. Len(d) PROVE \E j \in k + 1 .. Len(s) : s[j].op = d[q].op
      <4>1. CASE q <= n
        <5>1. q \in p + 1 .. Len(t) /\ d[q] = t[q]
          BY <1>1, <3>3, <4>1 DEF n
        <5> QED
          BY Zenon, <3>2, <5>1
      <4>2. CASE q > n
        <5>1. q \in 1 .. Len(d)
          BY <1>1, <3>3
        <5>2. PICK x \in 1 .. e : q = n + x /\ d[q] = s[m + x] /\ m + x \in 1 .. Len(s)
          BY Zenon, <1>3, <4>2, <5>1
        <5>3. m + x \in k + 1 .. Len(s)
          BY <3>1, <5>2
        <5> QED
          BY Zenon, <5>2, <5>3
      <4> QED
        BY <1>2, <3>3, <4>1, <4>2
    <3> QED
      BY Zenon, <3>2, <3>3, <3>4
  <2>2. CASE k > m
    <3>1. PICK x \in 1 .. e : k = m + x
      <4>1. k - m \in 1 .. e /\ k = m + (k - m)
        BY <1>1, <2>2
      <4> QED
        BY Zenon, <4>1
    <3>2. n + x \in DOMAIN d /\ d[n + x] = s[k]
      BY <1>1, <1>2, <3>1 DEF n
    <3>3. ASSUME NEW q \in (n + x) + 1 .. Len(d)
          PROVE  \E j \in k + 1 .. Len(s) : s[j].op = d[q].op
      <4>1. q \in 1 .. Len(d) /\ q > n
        BY <1>1, <1>2
      <4>2. PICK y \in 1 .. e : q = n + y /\ d[q] = s[m + y] /\ m + y \in 1 .. Len(s)
        BY Zenon, <1>3, <4>1
      <4>3. y > x
        BY <1>2, <4>2
      <4>4. m + y \in k + 1 .. Len(s)
        BY <3>1, <4>2, <4>3
      <4> QED
        BY Zenon, <4>2, <4>4
    <3> QED
      BY Zenon, <3>2, <3>3
  <2> QED
    BY <1>1, <2>1, <2>2
<1> QED
  BY Zenon, <1>4, <1>5 DEF Follows

(* catch_up_replica: when nothing above the mark h was trimmed, the tail is *)
(* what the source has above it, and the target then follows to the end.    *)
LEMMA CaughtUpFollows ==
  ASSUME NEW r, IsCopy(r), NEW g, IsCopy(g), NEW h \in Nat, r.trimmed <= h, h <= Len(r.log),
         Follows(ContentOf(g), ContentOf(r), Len(r.base) + h)
  PROVE  /\ Tail_(r, h) \in Seq(Nat \ {0})
         /\ Tail_(r, h) = <<>> => h = Len(r.log)
         /\ Follows(ContentOf(Logged(g, Tail_(r, h))), ContentOf(r), Len(r.base) + Len(r.log))
<1> DEFINE n == Len(r.log)
           e == n - h
           tail == Tail_(r, h)
           t == ContentOf(g)
           d == ContentOf(Logged(g, tail))
           s == ContentOf(r)
           b == Len(r.base)
           m == b + h
<1>1. r.log \in Seq(Nat \ {0}) /\ r.base \in Seq(Entry) /\ r.trimmed \in Nat
  BY Zenon DEF IsCopy
<1>2. n \in Nat /\ b \in Nat
  BY Zenon, <1>1, LenProperties
<1>3. /\ SubSeq(r.log, h + 1, n) \in Seq(Nat \ {0}) /\ Len(SubSeq(r.log, h + 1, n)) = n - h
      /\ \A i \in 1 .. n - h : SubSeq(r.log, h + 1, n)[i] = r.log[h + i]
  <2>1. n <= Len(r.log)
    BY <1>2
  <2> QED
    BY Zenon, <1>1, <1>2, <2>1, PartOfLog
<1>4. (IF h > r.trimmed THEN h ELSE r.trimmed) = h
  BY <1>1
<1>5. tail = SubSeq(r.log, h + 1, n)
  BY Zenon, <1>4 DEF Tail_
<1> HIDE DEF tail
<1>6. tail \in Seq(Nat \ {0}) /\ Len(tail) = e /\ \A i \in 1 .. e : tail[i] = r.log[h + i]
  BY Zenon, <1>3, <1>5
<1>7. tail = <<>> => h = n
  <2>1. tail = <<>> => Len(tail) = 0
    OBVIOUS
  <2> QED
    BY <1>2, <1>6, <2>1
<1>8. /\ t \in Seq(Entry) /\ d \in Seq(Entry) /\ Len(d) = Len(t) + Len(tail)
      /\ \A k \in 1 .. Len(t) : d[k] = t[k]
      /\ \A k \in 1 .. Len(tail) : d[Len(t) + k] = [op |-> tail[k], bare |-> FALSE]
  BY Zenon, <1>6, LoggedProperties
<1>9. /\ s \in Seq(Entry) /\ Len(s) = b + n
      /\ \A k \in 1 .. n : s[b + k] = [op |-> r.log[k], bare |-> FALSE]
  BY Zenon, <1>1, ContentProperties
<1>10. Follows(t, s, m)
  BY Zenon
<1> HIDE DEF n, b, s, t, d
<1>0. h <= n
  BY Zenon DEF n
<1>11. e \in Nat /\ m \in Nat /\ m + e = Len(s)
  BY <1>0, <1>2, <1>9
<1>12. Len(d) = Len(t) + e
  BY Zenon, <1>6, <1>8
<1>13. ASSUME NEW k \in 1 .. e PROVE d[Len(t) + k] = s[m + k]
  <2>1. k \in 1 .. Len(tail) /\ tail[k] = r.log[h + k]
    BY Zenon, <1>6
  <2>2. PICK x \in 1 .. n : x = h + k
    <3>1. h + k \in 1 .. n
      BY <1>0, <1>2
    <3> QED
      BY Zenon, <3>1
  <2>3. m + k = b + x
    BY <1>2, <2>2
  <2>4. s[m + k] = [op |-> r.log[x], bare |-> FALSE]
    BY Zenon, <1>9, <2>3
  <2>5. d[Len(t) + k] = [op |-> r.log[x], bare |-> FALSE]
    BY Zenon, <1>8, <2>1, <2>2
  <2> QED
    BY Zenon, <2>4, <2>5
<1> HIDE DEF e, m
<1>14. Follows(d, s, Len(s))
  BY Zenon, <1>8, <1>9, <1>10, <1>11, <1>12, <1>13, ReplayFollows
<1> QED
  BY Zenon, <1>6, <1>7, <1>9, <1>14 DEF d, s, tail, b, n

(* A mutation accepted by a node that is in order leaves it in order.       *)
LEMMA AppliedInOrder ==
  ASSUME ops \in Seq([id : Ids, kind : Kinds]), NEW o \in [id : Ids, kind : Kinds],
         NEW r, IsCopy(r), InOrder(ContentOf(r)), ops' = Append(ops, o),
         NEW d, d = ContentOf(Logged(r, <<Len(ops) + 1>>))
  PROVE  /\ \A k \in DOMAIN d : d[k].op \in DOMAIN ops'
         /\ \A i \in DOMAIN ops' : \E p \in DOMAIN d :
              /\ d[p] = [op |-> i, bare |-> FALSE]
              /\ \A q \in p + 1 .. Len(d) : d[q].op > i
<1> DEFINE n == Len(ops)
           one == <<n + 1>>
           c == ContentOf(r)
<1>1. n \in Nat /\ DOMAIN ops = 1 .. n /\ DOMAIN ops' = 1 .. n + 1
  <2>1. n \in Nat /\ DOMAIN ops = 1 .. n
    BY Zenon, LenProperties
  <2>2. ops' \in Seq([id : Ids, kind : Kinds]) /\ Len(ops') = n + 1
    BY Zenon, AppendProperties
  <2> QED
    BY Zenon, <2>1, <2>2, LenProperties
<1>2. one \in Seq(Nat \ {0}) /\ Len(one) = 1 /\ one[1] = n + 1
  BY <1>1
<1> HIDE DEF n
<1>3. d = ContentOf(Logged(r, one))
  BY Zenon DEF n
<1> HIDE DEF one
<1>4. /\ d \in Seq(Entry) /\ c \in Seq(Entry) /\ Len(d) = Len(c) + Len(one)
      /\ \A k \in 1 .. Len(c) : d[k] = c[k]
      /\ \A k \in 1 .. Len(one) : d[Len(c) + k] = [op |-> one[k], bare |-> FALSE]
  <2> DEFINE g == ContentOf(Logged(r, one))
  <2>1. /\ g \in Seq(Entry) /\ c \in Seq(Entry) /\ Len(g) = Len(c) + Len(one)
        /\ \A k \in 1 .. Len(c) : g[k] = c[k]
        /\ \A k \in 1 .. Len(one) : g[Len(c) + k] = [op |-> one[k], bare |-> FALSE]
    BY Zenon, <1>2, LoggedProperties
  <2>2. d = g
    BY Zenon, <1>3
  <2> HIDE DEF g, c
  <2> QED
    BY Zenon, <2>1, <2>2
<1>5. InOrder(c)
  BY Zenon
<1> HIDE DEF c
<1>6. /\ Len(c) \in Nat /\ DOMAIN c = 1 .. Len(c) /\ DOMAIN d = 1 .. Len(d)
  BY Zenon, <1>4, LenProperties
<1>7. Len(d) = Len(c) + 1 /\ d[Len(c) + 1] = [op |-> n + 1, bare |-> FALSE]
  <2>1. 1 \in 1 .. Len(one)
    BY <1>2
  <2> QED
    BY Zenon, <1>2, <1>4, <2>1
<1>8. ASSUME NEW k \in DOMAIN d PROVE d[k].op \in DOMAIN ops'
  <2>1. CASE k \in 1 .. Len(c)
    <3>1. c[k].op \in DOMAIN ops /\ d[k] = c[k]
      BY Zenon, <1>4, <1>5, <1>6, <2>1 DEF InOrder
    <3> QED
      BY <1>1, <3>1
  <2>2. CASE k = Len(c) + 1
    BY <1>1, <1>7, <2>2
  <2> QED
    BY <1>6, <1>7, <2>1, <2>2
<1>9. ASSUME NEW i \in DOMAIN ops'
      PROVE  \E p \in DOMAIN d : /\ d[p] = [op |-> i, bare |-> FALSE]
                                 /\ \A q \in p + 1 .. Len(d) : d[q].op > i
  <2>1. CASE i = n + 1
    <3>1. Len(c) + 1 \in DOMAIN d /\ (Len(c) + 1) + 1 .. Len(d) = {}
      BY <1>6, <1>7
    <3> QED
      BY Zenon, <1>7, <2>1, <3>1
  <2>2. CASE i \in 1 .. n
    <3>1. PICK p \in DOMAIN c : /\ c[p] = [op |-> i, bare |-> FALSE]
                               /\ \A q \in p + 1 .. Len(c) : c[q].op > i
      BY Zenon, <1>1, <1>5, <2>2 DEF InOrder
    <3>2. p \in DOMAIN d /\ d[p] = [op |-> i, bare |-> FALSE]
      <4>1. p \in 1 .. Len(c) /\ p \in 1 .. Len(d)
        BY <1>6, <1>7
      <4> QED
        BY Zenon, <1>4, <1>6, <3>1, <4>1
    <3>3. ASSUME NEW q \in p + 1 .. Len(d) PROVE d[q].op > i
      <4>1. CASE q = Len(c) + 1
        BY <1>1, <1>7, <2>2, <4>1
      <4>2. CASE q \in p + 1 .. Len(c)
        <5>1. q \in 1 .. Len(c)
          BY <1>6, <4>2
        <5> QED
          BY Zenon, <1>4, <3>1, <4>2, <5>1
      <4> QED
        BY <1>6, <1>7, <4>1, <4>2
    <3> QED
      BY Zenon, <3>2, <3>3
  <2>3. i \in 1 .. n \/ i = n + 1
    BY <1>1
  <2> QED
    BY Zenon, <2>1, <2>2, <2>3
<1> QED
  BY Zenon, <1>8, <1>9

-----------------------------------------------------------------------------
(* What the steps of a node leave as it is.                                 *)

(* A set of naturals that is not empty has a least member.                  *)
LEMMA MinProperties ==
  ASSUME NEW S \in SUBSET Nat, S # {}
  PROVE  Min(S) \in S /\ \A y \in S : Min(S) <= y
<1> DEFINE R == OpToRel(<, Nat)
<1>1. IsWellFoundedOn(R, Nat)
  BY Zenon, NatLessThanWellFounded
<1>2. \A x, y \in Nat : y < x => <<y, x>> \in R
  BY Zenon DEF OpToRel
<1> HIDE DEF R
<1>3. S \subseteq Nat
  BY Zenon
<1>4. PICK x \in S : \A y \in S : ~ (<<y, x>> \in R)
  BY Zenon, <1>1, <1>3, WFMin
<1>5. ASSUME NEW y \in S PROVE x <= y
  <2>1. x \in Nat /\ y \in Nat /\ ~ (y < x)
    BY Zenon, <1>2, <1>3, <1>4
  <2> QED
    BY <2>1
<1> QED
  BY Zenon, <1>5 DEF Min

(* The trim goes no further than the log, nor than any lease that is held.  *)
LEMMA FloorProperties ==
  ASSUME NEW r, IsCopy(r)
  PROVE  /\ Floor(r) \in Nat /\ Floor(r) <= Len(r.log)
         /\ \A l \in DOMAIN r.leases \ r.stale : Floor(r) <= r.leases[l]
<1> DEFINE S == {Len(r.log)} \cup {r.leases[l] : l \in DOMAIN r.leases \ r.stale}
<1>1. Len(r.log) \in Nat /\ \A l \in DOMAIN r.leases : r.leases[l] \in Nat
  BY LenProperties DEF IsCopy
<1>2. S \in SUBSET Nat /\ S # {} /\ Len(r.log) \in S
  BY Zenon, <1>1
<1>3. \A l \in DOMAIN r.leases \ r.stale : r.leases[l] \in S
  BY Zenon
<1>4. Floor(r) = Min(S)
  BY Zenon DEF Floor
<1> HIDE DEF S
<1>5. Min(S) \in S /\ \A y \in S : Min(S) <= y
  BY Zenon, <1>2, MinProperties
<1> QED
  BY Zenon, <1>2, <1>3, <1>4, <1>5

(* seal_for_checkpoint_at.                                                  *)
LEMMA SealedProperties ==
  ASSUME NEW r, IsCopy(r)
  PROVE  /\ IsCopy(Sealed(r)) /\ ContentOf(Sealed(r)) = ContentOf(r)
         /\ Sealed(r).base = r.base /\ Sealed(r).log = r.log /\ Sealed(r).fence = r.fence
         /\ Sealed(r).sealed = Len(r.log)
         /\ \A l \in DOMAIN r.leases \ r.stale :
              /\ l \in DOMAIN Sealed(r).leases \ Sealed(r).stale
              /\ Sealed(r).leases[l] = r.leases[l]
              /\ Sealed(r).trimmed = r.trimmed \/ Sealed(r).trimmed <= r.leases[l]
         /\ Sealed(r).trimmed <= Len(r.log)
<1> DEFINE s == Sealed(r)
           f == Floor(r)
<1>1. /\ f \in Nat /\ f <= Len(r.log) /\ \A l \in DOMAIN r.leases \ r.stale : f <= r.leases[l]
  BY Zenon, FloorProperties
<1>2. /\ r.base \in Seq(Entry) /\ r.log \in Seq(Nat \ {0}) /\ r.fence \in Nat
      /\ r.nextLease \in Nat /\ r.trimmed \in Nat /\ r.sealed \in Nat /\ r.flushed \in Nat
      /\ r.trimmed <= r.sealed /\ r.sealed <= r.flushed /\ r.flushed <= Len(r.log)
      /\ \A l \in DOMAIN r.leases :
           l \in Nat /\ l < r.nextLease /\ r.leases[l] \in 0 .. Len(r.log)
  BY Zenon DEF IsCopy
<1>3. Len(r.log) \in Nat
  BY Zenon, <1>2, LenProperties
<1> DEFINE t == IF f > r.trimmed THEN f ELSE r.trimmed
           k == [l \in DOMAIN r.leases \ r.stale |-> r.leases[l]]
<1>4. s = [base |-> r.base, log |-> r.log, flushed |-> Len(r.log), sealed |-> Len(r.log),
           trimmed |-> t, fence |-> r.fence, leases |-> k, stale |-> {},
           nextLease |-> r.nextLease]
  BY Zenon DEF Sealed
<1>5. t \in Nat /\ t <= Len(r.log) /\ (t = r.trimmed \/ t = f)
  BY <1>1, <1>2, <1>3
<1>6. /\ DOMAIN k = DOMAIN r.leases \ r.stale /\ \A l \in DOMAIN k : k[l] = r.leases[l]
      /\ k = [l \in DOMAIN k |-> k[l]]
  BY Zenon
<1> HIDE DEF s, t, k, f
<1>7. /\ s.base = r.base /\ s.log = r.log /\ s.fence = r.fence /\ s.flushed = Len(r.log)
      /\ s.sealed = Len(r.log) /\ s.trimmed = t /\ s.leases = k /\ s.stale = {}
      /\ s.nextLease = r.nextLease
  BY Zenon, <1>4
<1>8. s \in [base : Seq(Entry), log : Seq(Nat \ {0}), flushed : Nat, sealed : Nat,
             trimmed : Nat, fence : Nat, leases : {s.leases}, stale : {s.stale},
             nextLease : Nat]
  BY Zenon, <1>2, <1>3, <1>4, <1>5, <1>7
<1>9. IsCopy(s)
  BY <1>2, <1>3, <1>5, <1>6, <1>7, <1>8 DEF IsCopy
<1>10. ContentOf(s) = ContentOf(r)
  BY Zenon, <1>7 DEF ContentOf
<1> QED
  BY Zenon, <1>1, <1>5, <1>6, <1>7, <1>9, <1>10 DEF s

(* Other leases on positions of the log leave the rest of a node alone.     *)
LEMMA WithLeasesProperties ==
  ASSUME NEW r, IsCopy(r), NEW k, NEW st, NEW x \in Nat,
         k = [l \in DOMAIN k |-> k[l]], st \subseteq DOMAIN k,
         \A l \in DOMAIN k : l \in Nat /\ l < x /\ k[l] \in 0 .. Len(r.log)
  PROVE  LET s == WithLeases(r, k, st, x)
         IN  /\ IsCopy(s) /\ ContentOf(s) = ContentOf(r) /\ s.base = r.base /\ s.log = r.log
             /\ s.fence = r.fence /\ s.sealed = r.sealed /\ s.trimmed = r.trimmed
             /\ s.leases = k /\ s.stale = st
<1> DEFINE s == WithLeases(r, k, st, x)
<1>1. /\ r.base \in Seq(Entry) /\ r.log \in Seq(Nat \ {0}) /\ r.fence \in Nat
      /\ r.trimmed \in Nat /\ r.sealed \in Nat /\ r.flushed \in Nat
      /\ r.trimmed <= r.sealed /\ r.sealed <= r.flushed /\ r.flushed <= Len(r.log)
  BY Zenon DEF IsCopy
<1>2. /\ s.base = r.base /\ s.log = r.log /\ s.fence = r.fence /\ s.flushed = r.flushed
      /\ s.sealed = r.sealed /\ s.trimmed = r.trimmed /\ s.leases = k /\ s.stale = st
      /\ s.nextLease = x
      /\ s \in [base : Seq(Entry), log : Seq(Nat \ {0}), flushed : Nat, sealed : Nat,
               trimmed : Nat, fence : Nat, leases : {k}, stale : {st}, nextLease : Nat]
  BY Zenon, <1>1 DEF WithLeases
<1> HIDE DEF s
<1>3. IsCopy(s)
  BY Zenon, <1>1, <1>2 DEF IsCopy
<1>4. ContentOf(s) = ContentOf(r)
  BY Zenon, <1>2 DEF ContentOf
<1> QED
  BY Zenon, <1>2, <1>3, <1>4 DEF s

(* A fence leaves the rest of a node alone.                                 *)
LEMMA WithFenceProperties ==
  ASSUME NEW r, IsCopy(r), NEW f \in Nat
  PROVE  LET s == WithFence(r, f)
         IN  /\ IsCopy(s) /\ ContentOf(s) = ContentOf(r) /\ s.base = r.base /\ s.log = r.log
             /\ s.fence = f /\ s.sealed = r.sealed /\ s.trimmed = r.trimmed
             /\ s.leases = r.leases /\ s.stale = r.stale
<1> DEFINE s == WithFence(r, f)
<1>1. /\ s.base = r.base /\ s.log = r.log /\ s.fence = f /\ s.flushed = r.flushed
      /\ s.sealed = r.sealed /\ s.trimmed = r.trimmed /\ s.leases = r.leases
      /\ s.stale = r.stale /\ s.nextLease = r.nextLease
      /\ s \in [base : Seq(Entry), log : Seq(Nat \ {0}), flushed : Nat, sealed : Nat,
               trimmed : Nat, fence : Nat, leases : {r.leases}, stale : {r.stale},
               nextLease : Nat]
  BY Zenon DEF WithFence, IsCopy
<1> HIDE DEF s
<1>2. IsCopy(s)
  BY Zenon, <1>1 DEF IsCopy
<1>3. ContentOf(s) = ContentOf(r)
  BY Zenon, <1>1 DEF ContentOf
<1> QED
  BY Zenon, <1>1, <1>2, <1>3 DEF s

(* A flush leaves the rest of a node alone.                                 *)
LEMMA FlushedProperties ==
  ASSUME NEW r, IsCopy(r)
  PROVE  LET s == Flushed(r)
         IN  /\ IsCopy(s) /\ ContentOf(s) = ContentOf(r) /\ s.base = r.base /\ s.log = r.log
             /\ s.fence = r.fence /\ s.sealed = r.sealed /\ s.trimmed = r.trimmed
             /\ s.leases = r.leases /\ s.stale = r.stale
<1> DEFINE s == Flushed(r)
<1>0. Len(r.log) \in Nat
  BY Zenon, LenProperties DEF IsCopy
<1>1. /\ s.base = r.base /\ s.log = r.log /\ s.fence = r.fence /\ s.flushed = Len(r.log)
      /\ s.sealed = r.sealed /\ s.trimmed = r.trimmed /\ s.leases = r.leases
      /\ s.stale = r.stale /\ s.nextLease = r.nextLease
      /\ s \in [base : Seq(Entry), log : Seq(Nat \ {0}), flushed : Nat, sealed : Nat,
               trimmed : Nat, fence : Nat, leases : {r.leases}, stale : {r.stale},
               nextLease : Nat]
  BY Zenon, <1>0 DEF Flushed, IsCopy
<1> HIDE DEF s
<1>2. IsCopy(s)
  <2>1. r.sealed \in Nat /\ r.flushed \in Nat /\ r.sealed <= r.flushed /\ r.flushed <= Len(r.log)
    BY Zenon DEF IsCopy
  <2>2. r.sealed <= Len(r.log) /\ Len(r.log) <= Len(r.log)
    BY <1>0, <2>1
  <2> QED
    BY Zenon, <1>1, <2>2 DEF IsCopy
<1>3. ContentOf(s) = ContentOf(r)
  BY Zenon, <1>1 DEF ContentOf
<1> QED
  BY Zenon, <1>1, <1>2, <1>3 DEF s

(* A new slot holds the files it was given.                                 *)
LEMMA FreshProperties ==
  ASSUME NEW b \in Seq(Entry), NEW f \in Nat
  PROVE  IsCopy(Fresh(b, f)) /\ ContentOf(Fresh(b, f)) = b /\ Fresh(b, f).fence = f
<1> DEFINE s == Fresh(b, f)
<1>1. /\ s.base = b /\ s.log = <<>> /\ s.fence = f /\ s.flushed = 0
      /\ s.sealed = 0 /\ s.trimmed = 0 /\ s.leases = NoLeases
      /\ s.stale = {} /\ s.nextLease = 0
      /\ s \in [base : Seq(Entry), log : Seq(Nat \ {0}), flushed : Nat, sealed : Nat,
               trimmed : Nat, fence : Nat, leases : {NoLeases}, stale : {{}},
               nextLease : Nat]
  BY DEF Fresh
<1>2. DOMAIN NoLeases = {} /\ NoLeases = [l \in DOMAIN NoLeases |-> NoLeases[l]]
  BY Zenon DEF NoLeases
<1> HIDE DEF s
<1>3. IsCopy(s)
  BY <1>1, <1>2 DEF IsCopy
<1>4. Whole(<<>>) = <<>>
  <2>1. Whole(<<>>) \in Seq(Entry) /\ Len(Whole(<<>>)) = Len(<<>>)
    BY Zenon, WholeProperties, EmptySeq
  <2> QED
    BY <2>1
<1>5. ContentOf(s) = b
  <2>1. ContentOf(s) = b \o <<>>
    BY Zenon, <1>1, <1>4 DEF ContentOf
  <2> QED
    BY Zenon, <2>1, ConcatEmptySeq
<1> QED
  BY Zenon, <1>1, <1>3, <1>5 DEF s

(* A restart keeps the content and forgets the fence.                       *)
LEMMA RestartedProperties ==
  ASSUME NEW r, IsCopy(r)
  PROVE  IsCopy(Restarted(r)) /\ ContentOf(Restarted(r)) = ContentOf(r) /\ Restarted(r).fence = 0
<1> DEFINE a == WithLeases(r, NoLeases, {}, 0)
           c == WithFence(a, 0)
           s == Restarted(r)
<1>1. /\ DOMAIN NoLeases = {} /\ NoLeases = [l \in DOMAIN NoLeases |-> NoLeases[l]] /\ 0 \in Nat
      /\ {} \subseteq DOMAIN NoLeases
  BY Zenon DEF NoLeases
<1>2. /\ IsCopy(a) /\ ContentOf(a) = ContentOf(r) /\ a.base = r.base /\ a.log = r.log
      /\ a.sealed = r.sealed
  <2>1. PICK k, e, z : k = NoLeases /\ e = {} /\ z = 0
    BY Zenon
  <2>2. /\ k = [l \in DOMAIN k |-> k[l]] /\ e \subseteq DOMAIN k /\ z \in Nat
        /\ \A l \in DOMAIN k : l \in Nat /\ l < z /\ k[l] \in 0 .. Len(r.log)
    BY Zenon, <1>1, <2>1
  <2>3. LET y == WithLeases(r, k, e, z)
        IN  /\ IsCopy(y) /\ ContentOf(y) = ContentOf(r) /\ y.base = r.base /\ y.log = r.log
            /\ y.sealed = r.sealed
    BY <2>2, WithLeasesProperties
  <2>4. a = WithLeases(r, k, e, z)
    BY Zenon, <2>1
  <2> HIDE DEF a
  <2> QED
    BY Zenon, <2>3, <2>4
<1> HIDE DEF a
<1>3. /\ IsCopy(c) /\ ContentOf(c) = ContentOf(a) /\ c.fence = 0 /\ c.sealed = a.sealed
  BY Zenon, <1>1, <1>2, WithFenceProperties
<1>4. s = [c EXCEPT !.flushed = r.sealed]
  BY Zenon DEF Restarted, a
<1> HIDE DEF c, s
<1>5. r.sealed \in Nat /\ c.sealed = r.sealed
  BY Zenon, <1>2, <1>3 DEF IsCopy
<1>6. /\ s.base = c.base /\ s.log = c.log /\ s.fence = c.fence /\ s.flushed = r.sealed
      /\ s.sealed = c.sealed /\ s.trimmed = c.trimmed /\ s.leases = c.leases
      /\ s.stale = c.stale /\ s.nextLease = c.nextLease
      /\ s \in [base : Seq(Entry), log : Seq(Nat \ {0}), flushed : Nat, sealed : Nat,
               trimmed : Nat, fence : Nat, leases : {c.leases}, stale : {c.stale},
               nextLease : Nat]
  BY Zenon, <1>3, <1>4, <1>5 DEF IsCopy
<1>7. IsCopy(s)
  <2>1. c.sealed \in Nat /\ c.flushed \in Nat /\ c.sealed <= c.flushed /\ c.flushed <= Len(c.log)
    BY Zenon, <1>3 DEF IsCopy
  <2>2. Len(c.log) \in Nat
    BY Zenon, <1>3, LenProperties DEF IsCopy
  <2>3. c.sealed <= Len(c.log) /\ c.sealed <= c.sealed
    BY <2>1, <2>2
  <2> QED
    BY Zenon, <1>3, <1>5, <1>6, <2>3 DEF IsCopy
<1>8. ContentOf(s) = ContentOf(r)
  BY Zenon, <1>2, <1>3, <1>6 DEF ContentOf
<1> QED
  BY Zenon, <1>3, <1>6, <1>7, <1>8 DEF s

-----------------------------------------------------------------------------
(* The steps.                                                               *)

(* The change of one node.                                                  *)
LEMMA NodeUpdate ==
  ASSUME TypeOK, NEW x \in Nodes, NEW v, IsCopy(v), node' = [node EXCEPT ![x] = v]
  PROVE  /\ node' = [n \in Nodes |-> node'[n]] /\ \A n \in Nodes : IsCopy(node'[n])
         /\ node'[x] = v /\ \A n \in Nodes \ {x} : node'[n] = node[n]
<1>1. node = [n \in Nodes |-> node[n]] /\ \A n \in Nodes : IsCopy(node[n])
  BY Zenon DEF TypeOK
<1>2. /\ node' = [n \in Nodes |-> node'[n]] /\ node'[x] = v
      /\ \A n \in Nodes \ {x} : node'[n] = node[n]
  BY Zenon, <1>1
<1> QED
  BY Zenon, <1>1, <1>2

(* The move goes on.                                                        *)
LEMMA AtProperties ==
  ASSUME move \in Progress,
         NEW pc \in Copying \cup {"idle", "lease", "seal", "list", "release"}
  PROVE  /\ At(pc) \in Progress /\ At(pc).pc = pc
         /\ At(pc).from = move.from /\ At(pc).to = move.to /\ At(pc).gen = move.gen
         /\ At(pc).lease = move.lease /\ At(pc).at = move.at /\ At(pc).hwm = move.hwm
         /\ At(pc).fetched = move.fetched /\ At(pc).advanced = move.advanced
BY Zenon DEF At, Progress

(* A step that changes no content and accepts no mutation.                  *)
LEMMA InOrderKept ==
  ASSUME ServesInOrder, ops' = ops, serving' = serving,
         ContentOf(node'[serving]) = ContentOf(node[serving])
  PROVE  ServesInOrder'
BY Zenon DEF ServesInOrder, InOrder, Content

(* No move is under way.                                                    *)
LEMMA NoMoveProperties == NoMove \in Progress /\ NoMove.pc = "idle"
BY DEF NoMove, Progress

(* The first node serves an empty position.                                 *)
LEMMA HandoffInitInv == Init => HandoffInv
<1> SUFFICES ASSUME Init PROVE HandoffInv
  BY Zenon
<1>1. <<>> \in Seq(Entry) /\ 0 \in Nat
  OBVIOUS
<1>2. /\ IsCopy(Fresh(<<>>, 0)) /\ ContentOf(Fresh(<<>>, 0)) = <<>> /\ Fresh(<<>>, 0).fence = 0
  <2>1. PICK e \in Seq(Entry), z \in Nat : e = <<>> /\ z = 0
    BY Zenon, <1>1
  <2>2. IsCopy(Fresh(e, z)) /\ ContentOf(Fresh(e, z)) = e /\ Fresh(e, z).fence = z
    BY Zenon, FreshProperties
  <2> QED
    BY Zenon, <2>1, <2>2
<1>3. /\ node = [n \in Nodes |-> node[n]] /\ \A n \in Nodes : node[n] = Fresh(<<>>, 0)
  BY Zenon DEF Init
<1>4. serving \in Nodes /\ serving = First /\ generation = 0 /\ stranded = FALSE /\ moves = 0
  BY Zenon, NodesAssumption DEF Init
<1>5. move \in Progress /\ move.pc = "idle"
  BY Zenon, NoMoveProperties DEF Init
<1>6. writer \in [Writers -> {None} \cup [node : Nodes, admitted : BOOLEAN]]
      /\ \A w \in Writers : writer[w] = None
  BY Zenon DEF Init
<1>7. ops = <<>> /\ ops \in Seq([id : Ids, kind : Kinds])
  BY DEF Init
<1>8. TypeOK
  BY Zenon, <1>2, <1>3, <1>4, <1>5, <1>6, <1>7 DEF TypeOK
<1>9. SourceServes
  BY Zenon, <1>5 DEF SourceServes, Copying
<1>10. LeaseHolds
  BY Zenon, <1>5 DEF LeaseHolds, Copying
<1>11. FencesAreOfMoves
  BY Zenon, <1>2, <1>3, <1>4, <1>5 DEF FencesAreOfMoves, Copying
<1>12. StragglersAreFenced
  BY Zenon, <1>6 DEF StragglersAreFenced
<1>13. CopyFollows
  BY Zenon, <1>5 DEF CopyFollows, Copying
<1>14. ServesInOrder
  <2>1. Content(serving) = <<>>
    BY Zenon, <1>2, <1>3, <1>4 DEF Content
  <2> QED
    BY <1>7, <2>1 DEF ServesInOrder, InOrder
<1> QED
  BY Zenon, <1>8, <1>9, <1>10, <1>11, <1>12, <1>13, <1>14 DEF HandoffInv

(* A step of the serving node that leaves its content and its fence alone   *)
(* and keeps what the lease of the move holds, while the move stays where   *)
(* it is or renews that lease.                                              *)
LEMMA SourceStep ==
  ASSUME HandoffInv, UNCHANGED <<ops, serving, generation, writer, moves, stranded>>,
         NEW v, IsCopy(v), ContentOf(v) = Content(serving), v.base = node[serving].base,
         v.log = node[serving].log, v.fence = node[serving].fence,
         node' = [node EXCEPT ![serving] = v],
         move.pc = "list" => move.hwm <= v.sealed,
         move.pc \in Copying \cup {"seal", "list"} => move.lease \in DOMAIN v.leases \ v.stale,
         move.pc \in Copying \cup {"list"} =>
           v.leases[move.lease] <= move.hwm /\ v.trimmed <= move.hwm,
         move' \in Progress, move'.from = move.from, move'.to = move.to, move'.gen = move.gen,
         move'.lease = move.lease, move'.at = move.at, move'.hwm = move.hwm,
         move'.fetched = move.fetched,
         \/ move'.pc = move.pc
         \/ move.pc = "renew" /\ move'.pc \in {"fence", "drain"}
         \/ move.pc = "converge" /\ move'.pc \in {"final", "flip"}
  PROVE  HandoffInv'
<1>1. /\ TypeOK /\ SourceServes /\ LeaseHolds /\ FencesAreOfMoves /\ StragglersAreFenced
      /\ CopyFollows /\ ServesInOrder
  BY Zenon DEF HandoffInv
<1>2. serving \in Nodes
  BY Zenon, <1>1 DEF TypeOK
<1>3. /\ node' = [n \in Nodes |-> node'[n]] /\ \A n \in Nodes : IsCopy(node'[n])
      /\ node'[serving] = v /\ \A n \in Nodes \ {serving} : node'[n] = node[n]
  BY Zenon, <1>1, <1>2, NodeUpdate
<1>4. TypeOK'
  BY Zenon, <1>1, <1>3 DEF TypeOK
<1>5. SourceServes'
  BY SMTT(30), <1>1, <1>3 DEF SourceServes, Copying
<1>6. LeaseHolds'
  <2>1. move'.pc \in Copying \cup {"seal", "list"} =>
          /\ move.pc \in Copying \cup {"seal", "list"} /\ move.from = serving
          /\ node'[move'.from] = v /\ Len(v.log) = Len(node[move.from].log)
    BY Zenon, <1>1, <1>3 DEF SourceServes, Copying
  <2> QED
    BY Zenon, <1>1, <2>1 DEF LeaseHolds, Copying
<1>7. FencesAreOfMoves'
  <2>1. \A n \in Nodes : node'[n].fence = node[n].fence
    BY Zenon, <1>3
  <2>2. move'.pc \in Copying \ {"install", "clear"} =>
          move.pc \in Copying \ {"install", "clear"} /\ move.to \in Nodes
    BY Zenon, <1>1 DEF SourceServes, Copying
  <2>3. move'.pc \in {"final", "converge", "flip"} <=> move.pc \in {"final", "converge", "flip"}
    BY Zenon
  <2> QED
    BY Zenon, <1>1, <1>2, <2>1, <2>2, <2>3 DEF FencesAreOfMoves
<1>8. StragglersAreFenced'
  <2>1. \A n \in Nodes : node'[n].fence = node[n].fence
    BY Zenon, <1>3
  <2>2. \A w \in Writers : writer[w] # None => writer[w].node \in Nodes
    BY Zenon, <1>1 DEF TypeOK
  <2>3. move'.pc \in {"converge", "flip"} => move.pc \in {"converge", "flip"}
    BY Zenon
  <2> QED
    BY Zenon, <1>1, <2>1, <2>2, <2>3 DEF StragglersAreFenced
<1>9. \A n \in Nodes : ContentOf(node'[n]) = ContentOf(node[n]) /\ node'[n].base = node[n].base
  BY Zenon, <1>3 DEF Content
<1>10. CopyFollows'
  <2>1. move'.pc \in Copying =>
          /\ move.pc \in Copying /\ move.from \in Nodes /\ move.to \in Nodes
          /\ (move'.pc = "install" <=> move.pc = "install")
    BY Zenon, <1>1, <1>2 DEF SourceServes, Copying
  <2> DEFINE src == ContentOf(node[move.from])
             upTo == Len(node[move.from].base) + move.hwm
  <2>2. ASSUME move'.pc \in Copying
        PROVE  /\ ContentOf(node'[move'.from]) = src
               /\ Len(node'[move'.from].base) + move'.hwm = upTo
               /\ ContentOf(node'[move'.to]) = ContentOf(node[move.to])
    BY Zenon, <1>9, <2>1, <2>2
  <2>3. /\ move.pc = "install" => Follows(move.fetched, src, upTo)
        /\ move.pc \in Copying \ {"install"} => Follows(ContentOf(node[move.to]), src, upTo)
    BY Zenon, <1>1 DEF CopyFollows, Content
  <2> HIDE DEF src, upTo
  <2>4. ASSUME move'.pc = "install"
        PROVE  Follows(move'.fetched, ContentOf(node'[move'.from]),
                       Len(node'[move'.from].base) + move'.hwm)
    BY SMTT(30), <2>1, <2>2, <2>3, <2>4 DEF Copying
  <2>5. ASSUME move'.pc \in Copying \ {"install"}
        PROVE  Follows(ContentOf(node'[move'.to]), ContentOf(node'[move'.from]),
                       Len(node'[move'.from].base) + move'.hwm)
    BY SMTT(30), <2>1, <2>2, <2>3, <2>5
  <2> QED
    BY Zenon, <2>4, <2>5 DEF CopyFollows, Content
<1>11. ServesInOrder'
  BY <1>1, <1>2, <1>9 DEF ServesInOrder, InOrder, Content
<1> QED
  BY Zenon, <1>4, <1>5, <1>6, <1>7, <1>8, <1>10, <1>11 DEF HandoffInv

(* A step that ends the move, or finds none, and leaves every content       *)
(* alone; a fence that stays on the serving node is reported.               *)
LEMMA MoveOver ==
  ASSUME HandoffInv, UNCHANGED <<ops, serving, generation, writer, moves>>, stranded' \in BOOLEAN,
         move' \in Progress, move'.pc \in {"release", "idle"},
         move'.pc = "release" => move'.from \in Nodes,
         NEW x \in Nodes, NEW v, IsCopy(v), ContentOf(v) = Content(x),
         node' = [node EXCEPT ![x] = v],
         x # serving => v.fence = node[x].fence,
         x = serving => v.fence \in {0, generation + 1},
         ~ stranded' => node'[serving].fence = 0
  PROVE  HandoffInv'
<1>1. /\ TypeOK /\ FencesAreOfMoves /\ StragglersAreFenced /\ ServesInOrder
  BY Zenon DEF HandoffInv
<1>2. serving \in Nodes
  BY Zenon, <1>1 DEF TypeOK
<1>3. /\ node' = [n \in Nodes |-> node'[n]] /\ \A n \in Nodes : IsCopy(node'[n])
      /\ node'[x] = v /\ \A n \in Nodes \ {x} : node'[n] = node[n]
  BY Zenon, <1>1, NodeUpdate
<1>4. TypeOK'
  BY Zenon, <1>1, <1>3 DEF TypeOK
<1>5. SourceServes' /\ LeaseHolds' /\ CopyFollows'
  BY Zenon DEF SourceServes, LeaseHolds, CopyFollows, Copying
<1>6. FencesAreOfMoves'
  <2>1. node'[serving].fence \in {0, generation + 1}
    BY Zenon, <1>1, <1>2, <1>3 DEF FencesAreOfMoves
  <2> QED
    BY Zenon, <2>1 DEF FencesAreOfMoves, Copying
<1>7. StragglersAreFenced'
  <2>1. \A n \in Nodes \ {serving} : node'[n].fence = node[n].fence
    BY Zenon, <1>3
  <2>2. \A w \in Writers : writer[w] # None => writer[w].node \in Nodes
    BY Zenon, <1>1 DEF TypeOK
  <2> QED
    BY Zenon, <1>1, <2>1, <2>2 DEF StragglersAreFenced
<1>8. ContentOf(node'[serving]) = ContentOf(node[serving])
  BY Zenon, <1>2, <1>3 DEF Content
<1>9. ServesInOrder'
  BY Zenon, <1>1, <1>8 DEF ServesInOrder, InOrder, Content
<1> QED
  BY Zenon, <1>4, <1>5, <1>6, <1>7, <1>9 DEF HandoffInv

(* A request is sent to the node that serves.                               *)
LEMMA SendInv == ASSUME HandoffInv, NEW w \in Writers, Send(w) PROVE HandoffInv'
<1>1. /\ TypeOK /\ SourceServes /\ LeaseHolds /\ FencesAreOfMoves /\ StragglersAreFenced
      /\ CopyFollows /\ ServesInOrder
  BY Zenon DEF HandoffInv
<1>2. /\ writer' = [writer EXCEPT ![w] = [node |-> serving, admitted |-> FALSE]]
      /\ UNCHANGED <<ops, node, serving, generation, move, moves, stranded>>
  BY Zenon DEF Send
<1>3. TypeOK'
  BY Zenon, <1>1, <1>2 DEF TypeOK
<1>4. SourceServes' /\ LeaseHolds' /\ FencesAreOfMoves'
  BY Zenon, <1>1, <1>2 DEF SourceServes, LeaseHolds, FencesAreOfMoves
<1>5. CopyFollows'
  BY Zenon, <1>1, <1>2 DEF CopyFollows, Content
<1>6. ServesInOrder'
  BY Zenon, <1>1, <1>2 DEF ServesInOrder, InOrder, Content
<1>7. StragglersAreFenced'
  <2>1. \A y \in Writers :
          writer'[y] = IF y = w THEN [node |-> serving, admitted |-> FALSE] ELSE writer[y]
    BY Zenon, <1>1, <1>2 DEF TypeOK
  <2> QED
    BY <1>1, <1>2, <2>1 DEF StragglersAreFenced
<1> QED
  BY Zenon, <1>3, <1>4, <1>5, <1>6, <1>7 DEF HandoffInv

(* check_not_fenced: a node behind the route refuses, and so does the       *)
(* source from its fence on.                                                *)
LEMMA AdmitInv == ASSUME HandoffInv, NEW w \in Writers, Admit(w) PROVE HandoffInv'
<1>1. /\ TypeOK /\ SourceServes /\ LeaseHolds /\ FencesAreOfMoves /\ StragglersAreFenced
      /\ CopyFollows /\ ServesInOrder
  BY Zenon DEF HandoffInv
<1> DEFINE a == IF node[writer[w].node].fence = 0
                THEN [node |-> writer[w].node, admitted |-> TRUE] ELSE None
<1>2. /\ writer[w] # None /\ writer' = [writer EXCEPT ![w] = a]
      /\ UNCHANGED <<ops, node, serving, generation, move, moves, stranded>>
  BY Zenon DEF Admit
<1>3. writer[w].node \in Nodes /\ a \in {None} \cup [node : Nodes, admitted : BOOLEAN]
  BY Zenon, <1>1, <1>2 DEF TypeOK
<1>4. /\ writer' \in [Writers -> {None} \cup [node : Nodes, admitted : BOOLEAN]]
      /\ \A y \in Writers : writer'[y] = IF y = w THEN a ELSE writer[y]
  BY Zenon, <1>1, <1>2, <1>3 DEF TypeOK
<1>5. TypeOK'
  BY Zenon, <1>1, <1>2, <1>4 DEF TypeOK
<1>6. SourceServes' /\ LeaseHolds' /\ FencesAreOfMoves'
  BY Zenon, <1>1, <1>2 DEF SourceServes, LeaseHolds, FencesAreOfMoves
<1>7. CopyFollows'
  BY Zenon, <1>1, <1>2 DEF CopyFollows, Content
<1>8. ServesInOrder'
  BY Zenon, <1>1, <1>2 DEF ServesInOrder, InOrder, Content
<1>9. a # None => /\ node[writer[w].node].fence = 0 /\ a.node = writer[w].node
                  /\ writer[w].node = serving /\ move.pc \notin {"converge", "flip"}
  <2>1. a # None => node[writer[w].node].fence = 0 /\ a.node = writer[w].node
    BY Zenon
  <2> QED
    BY Zenon, <1>1, <1>2, <2>1 DEF StragglersAreFenced, FencesAreOfMoves
<1>10. StragglersAreFenced'
  <2> HIDE DEF a
  <2> QED
    BY Zenon, <1>1, <1>2, <1>4, <1>9 DEF StragglersAreFenced
<1> QED
  BY Zenon, <1>5, <1>6, <1>7, <1>8, <1>10 DEF HandoffInv

(* A mutation is accepted by the serving node only, and not after the last  *)
(* pass over its log.                                                       *)
LEMMA ApplyInv ==
  ASSUME HandoffInv, NEW w \in Writers, NEW id \in Ids, NEW kind \in Kinds, Apply(w, id, kind)
  PROVE  HandoffInv'
<1>1. /\ TypeOK /\ SourceServes /\ LeaseHolds /\ FencesAreOfMoves /\ StragglersAreFenced
      /\ CopyFollows /\ ServesInOrder
  BY Zenon DEF HandoffInv
<1> DEFINE r == node[serving]
           one == <<Len(ops) + 1>>
           v == Logged(r, one)
<1>2. /\ writer[w] # None /\ writer[w].admitted /\ ops' = Append(ops, [id |-> id, kind |-> kind])
      /\ writer' = [writer EXCEPT ![w] = None]
      /\ UNCHANGED <<serving, generation, move, moves, stranded>>
  BY Zenon DEF Apply
<1>3. writer[w].node = serving /\ move.pc \notin {"converge", "flip"}
  BY Zenon, <1>1, <1>2 DEF StragglersAreFenced
<1>4. node' = [node EXCEPT ![serving] = v]
  BY Zenon, <1>3 DEF Apply
<1>5. serving \in Nodes /\ IsCopy(r) /\ ops \in Seq([id : Ids, kind : Kinds])
  BY Zenon, <1>1 DEF TypeOK
<1>6. one \in Seq(Nat \ {0}) /\ Len(one) = 1
  BY <1>5, LenProperties
<1> HIDE DEF one
<1>7. /\ IsCopy(v) /\ v.fence = r.fence /\ v.base = r.base /\ Len(v.log) = Len(r.log) + 1
      /\ v.leases = r.leases /\ v.stale = r.stale /\ v.trimmed = r.trimmed /\ v.sealed = r.sealed
      /\ ContentOf(v) \in Seq(Entry) /\ ContentOf(r) \in Seq(Entry)
      /\ Len(ContentOf(v)) = Len(ContentOf(r)) + 1
      /\ \A k \in 1 .. Len(ContentOf(r)) : ContentOf(v)[k] = ContentOf(r)[k]
  <2> HIDE DEF r
  <2>1. /\ IsCopy(v) /\ v.fence = r.fence /\ v.base = r.base
        /\ Len(v.log) = Len(r.log) + Len(one)
        /\ v.leases = r.leases /\ v.stale = r.stale /\ v.trimmed = r.trimmed
        /\ v.sealed = r.sealed /\ ContentOf(v) \in Seq(Entry) /\ ContentOf(r) \in Seq(Entry)
        /\ Len(ContentOf(v)) = Len(ContentOf(r)) + Len(one)
        /\ \A k \in 1 .. Len(ContentOf(r)) : ContentOf(v)[k] = ContentOf(r)[k]
    BY Zenon, <1>5, <1>6, LoggedProperties
  <2> HIDE DEF v
  <2> QED
    BY Zenon, <1>6, <2>1
<1>8. ops' \in Seq([id : Ids, kind : Kinds])
  BY Zenon, <1>2, <1>5, AppendProperties
<1>9. ServesInOrder'
  <2>1. PICK o \in [id : Ids, kind : Kinds] : ops' = Append(ops, o)
    BY Zenon, <1>2
  <2>2. PICK d : d = ContentOf(v)
    BY Zenon
  <2>3. d = ContentOf(Logged(r, <<Len(ops) + 1>>)) /\ InOrder(ContentOf(r))
    BY Zenon, <1>1, <2>2 DEF one, ServesInOrder, Content
  <2>4. /\ \A k \in DOMAIN d : d[k].op \in DOMAIN ops'
        /\ \A i \in DOMAIN ops' : \E p \in DOMAIN d :
             /\ d[p] = [op |-> i, bare |-> FALSE]
             /\ \A q \in p + 1 .. Len(d) : d[q].op > i
    <3> HIDE DEF r, v
    <3> QED
      BY Zenon, <1>5, <2>1, <2>3, AppliedInOrder
  <2>5. ContentOf(node'[serving']) = d
    <3>1. node'[serving] = v
      BY Zenon, <1>1, <1>4, <1>5, <1>7, NodeUpdate
    <3> QED
      BY Zenon, <1>2, <2>2, <3>1
  <2> HIDE DEF v, r
  <2> QED
    BY Zenon, <2>4, <2>5 DEF ServesInOrder, InOrder, Content
<1> HIDE DEF v
<1>10. /\ node' = [n \in Nodes |-> node'[n]] /\ \A n \in Nodes : IsCopy(node'[n])
       /\ node'[serving] = v /\ \A n \in Nodes \ {serving} : node'[n] = node[n]
  BY Zenon, <1>1, <1>4, <1>5, <1>7, NodeUpdate
<1>11. /\ writer' \in [Writers -> {None} \cup [node : Nodes, admitted : BOOLEAN]]
       /\ \A y \in Writers : writer'[y] = IF y = w THEN None ELSE writer[y]
  BY Zenon, <1>1, <1>2 DEF TypeOK
<1>12. TypeOK'
  BY Zenon, <1>1, <1>2, <1>8, <1>10, <1>11 DEF TypeOK
<1>13. Len(r.log) \in Nat /\ Len(r.base) \in Nat
  BY Zenon, <1>5, LenProperties DEF IsCopy
<1>14. SourceServes'
  <2>1. move.pc = "lease" => move.from = serving /\ move.at <= Len(r.log) /\ move.at \in Nat
    BY Zenon, <1>1 DEF SourceServes, TypeOK, Progress
  <2>2. move.pc = "lease" => move.at <= Len(v.log)
    BY <1>7, <1>13, <2>1
  <2> QED
    BY Zenon, <1>1, <1>2, <1>10, <2>1, <2>2 DEF SourceServes
<1>15. LeaseHolds'
  <2>1. move.pc \in Copying \cup {"seal", "list"} => move.from = serving
    BY Zenon, <1>1 DEF SourceServes
  <2>2. move.hwm \in Nat
    BY Zenon, <1>1 DEF TypeOK, Progress
  <2>3. move.pc \in Copying \cup {"list"} => move.hwm <= Len(v.log)
    BY <1>1, <1>7, <1>13, <2>1, <2>2 DEF LeaseHolds
  <2> QED
    BY <1>1, <1>2, <1>3, <1>7, <1>10, <2>1, <2>3 DEF LeaseHolds
<1>16. \A n \in Nodes : node'[n].fence = node[n].fence /\ node'[n].base = node[n].base
  BY Zenon, <1>7, <1>10
<1>17. FencesAreOfMoves'
  <2>1. move.pc \in Copying \ {"install", "clear"} => move.to \in Nodes
    BY Zenon, <1>1 DEF SourceServes
  <2> QED
    BY Zenon, <1>1, <1>2, <1>5, <1>16, <2>1 DEF FencesAreOfMoves
<1>18. StragglersAreFenced'
  <2>1. \A y \in Writers : writer[y] # None => writer[y].node \in Nodes
    BY Zenon, <1>1 DEF TypeOK
  <2> QED
    BY Zenon, <1>1, <1>2, <1>11, <1>16, <2>1 DEF StragglersAreFenced
<1>19. CopyFollows'
  <2>1. SUFFICES ASSUME move.pc \in Copying PROVE CopyFollows'
    BY Zenon, <1>2 DEF CopyFollows, Copying
  <2>2. /\ move.from = serving /\ move.to \in Nodes /\ move.to # serving
    BY Zenon, <1>1, <2>1 DEF SourceServes
  <2> DEFINE upTo == Len(r.base) + move.hwm
  <2>3. upTo \in 0 .. Len(ContentOf(r)) /\ Len(ContentOf(r)) <= Len(ContentOf(v))
    <3>1. Len(ContentOf(r)) = Len(r.base) + Len(r.log)
      BY Zenon, <1>5, ContentProperties DEF IsCopy
    <3>2. move.hwm \in Nat /\ move.hwm <= Len(r.log)
      BY Zenon, <1>1, <2>1, <2>2 DEF TypeOK, Progress, LeaseHolds
    <3>3. PICK c, d, b, n \in Nat :
            /\ c = Len(ContentOf(r)) /\ d = Len(ContentOf(v)) /\ b = Len(r.base)
            /\ n = Len(r.log)
      BY Zenon, <1>7, <1>13, LenProperties
    <3>4. c = b + n /\ d = c + 1 /\ move.hwm <= n
      BY Zenon, <1>7, <3>1, <3>2, <3>3
    <3>5. b + move.hwm \in 0 .. c /\ c <= d
      BY <3>2, <3>4
    <3> QED
      BY Zenon, <3>3, <3>5
  <2>4. ASSUME NEW t \in Seq(Entry), Follows(t, ContentOf(r), upTo)
        PROVE  Follows(t, ContentOf(v), upTo)
    <3> DEFINE c == ContentOf(r)
               d == ContentOf(v)
    <3> HIDE DEF upTo, c, d
    <3>1. /\ c \in Seq(Entry) /\ d \in Seq(Entry) /\ Len(c) <= Len(d) /\ upTo \in 0 .. Len(c)
          /\ \A k \in 1 .. Len(c) : d[k] = c[k]
      BY Zenon, <1>7, <2>3 DEF c, d
    <3>2. Follows(t, c, upTo)
      BY Zenon, <2>4 DEF c
    <3>3. Follows(t, d, upTo)
      BY Zenon, <3>1, <3>2, FollowsGrows
    <3> QED
      BY Zenon, <3>3 DEF d
  <2>5. move.fetched \in Seq(Entry) /\ ContentOf(node[move.to]) \in Seq(Entry)
    BY Zenon, <1>1, <2>2, ContentProperties DEF TypeOK, Progress, IsCopy
  <2>6. /\ move.pc = "install" => Follows(move.fetched, ContentOf(r), upTo)
        /\ move.pc \in Copying \ {"install"} => Follows(ContentOf(node[move.to]), ContentOf(r), upTo)
    BY Zenon, <1>1, <2>2 DEF CopyFollows, Content
  <2>7. /\ move.pc = "install" => Follows(move.fetched, ContentOf(v), upTo)
        /\ move.pc \in Copying \ {"install"} => Follows(ContentOf(node[move.to]), ContentOf(v), upTo)
    BY Zenon, <2>4, <2>5, <2>6
  <2>8. /\ node'[move'.from] = v /\ node'[move'.to] = node[move.to] /\ v.base = r.base
    BY Zenon, <1>2, <1>7, <1>10, <2>2
  <2> HIDE DEF r
  <2> QED
    BY Zenon, <1>2, <2>7, <2>8 DEF CopyFollows, Content
<1> QED
  BY Zenon, <1>9, <1>12, <1>14, <1>15, <1>17, <1>18, <1>19 DEF HandoffInv

(* The move stays where it is.                                              *)
LEMMA FlushInv == ASSUME HandoffInv, Flush PROVE HandoffInv'
<1> DEFINE r == node[serving]
           v == Flushed(r)
<1>1. TypeOK /\ SourceServes /\ LeaseHolds
  BY Zenon DEF HandoffInv
<1>2. /\ node' = [node EXCEPT ![serving] = v]
      /\ UNCHANGED <<ops, serving, generation, writer, moves, stranded>> /\ move' = move
  BY Zenon DEF Flush
<1>3. serving \in Nodes /\ IsCopy(r) /\ move \in Progress
  BY Zenon, <1>1 DEF TypeOK
<1>4. /\ IsCopy(v) /\ ContentOf(v) = ContentOf(r) /\ v.base = r.base /\ v.log = r.log
      /\ v.fence = r.fence /\ v.sealed = r.sealed /\ v.trimmed = r.trimmed
      /\ v.leases = r.leases /\ v.stale = r.stale
  BY Zenon, <1>3, FlushedProperties
<1> HIDE DEF v
<1>5. /\ move.pc = "list" => move.hwm <= v.sealed
      /\ move.pc \in Copying \cup {"seal", "list"} => move.lease \in DOMAIN v.leases \ v.stale
      /\ move.pc \in Copying \cup {"list"} =>
           v.leases[move.lease] <= move.hwm /\ v.trimmed <= move.hwm
  BY Zenon, <1>1, <1>4 DEF SourceServes, LeaseHolds
<1> QED
  BY Zenon, <1>2, <1>3, <1>4, <1>5, SourceStep DEF Content

(* What the lease of the move holds is not trimmed.                         *)
LEMMA SealInv == ASSUME HandoffInv, Seal PROVE HandoffInv'
<1> DEFINE r == node[serving]
           v == Sealed(r)
<1>1. TypeOK /\ SourceServes /\ LeaseHolds
  BY Zenon DEF HandoffInv
<1>2. /\ node' = [node EXCEPT ![serving] = v]
      /\ UNCHANGED <<ops, serving, generation, writer, moves, stranded>> /\ move' = move
  BY Zenon DEF Seal
<1>3. serving \in Nodes /\ IsCopy(r) /\ move \in Progress
  BY Zenon, <1>1 DEF TypeOK
<1>4. /\ IsCopy(v) /\ ContentOf(v) = ContentOf(r) /\ v.base = r.base /\ v.log = r.log
      /\ v.fence = r.fence /\ v.sealed = Len(r.log)
      /\ \A l \in DOMAIN r.leases \ r.stale :
           /\ l \in DOMAIN v.leases \ v.stale /\ v.leases[l] = r.leases[l]
           /\ v.trimmed = r.trimmed \/ v.trimmed <= r.leases[l]
  BY Zenon, <1>3, SealedProperties
<1> HIDE DEF v
<1>5. /\ move.pc = "list" => move.hwm <= v.sealed
      /\ move.pc \in Copying \cup {"seal", "list"} => move.lease \in DOMAIN v.leases \ v.stale
  BY Zenon, <1>1, <1>4 DEF SourceServes, LeaseHolds
<1>6. ASSUME move.pc \in Copying \cup {"list"}
      PROVE  v.leases[move.lease] <= move.hwm /\ v.trimmed <= move.hwm
  <2>1. /\ move.lease \in DOMAIN r.leases \ r.stale /\ r.leases[move.lease] <= move.hwm
        /\ r.trimmed <= move.hwm
    BY Zenon, <1>1, <1>6 DEF SourceServes, LeaseHolds
  <2>2. v.leases[move.lease] = r.leases[move.lease] /\
        (v.trimmed = r.trimmed \/ v.trimmed <= r.leases[move.lease])
    BY Zenon, <1>4, <2>1
  <2>3. v.trimmed \in Nat /\ r.leases[move.lease] \in Nat /\ move.hwm \in Nat
    <3>1. r.leases[move.lease] \in 0 .. Len(r.log)
      BY Zenon, <1>3, <2>1 DEF IsCopy
    <3>2. Len(r.log) \in Nat
      BY Zenon, <1>3, LenProperties DEF IsCopy
    <3> QED
      BY <1>3, <1>4, <3>1, <3>2 DEF IsCopy, Progress
  <2> QED
    BY <2>1, <2>2, <2>3
<1> QED
  BY Zenon, <1>2, <1>3, <1>4, <1>5, <1>6, SourceStep DEF Content

(* Only a lease that no move renews goes stale.                             *)
LEMMA LeaseExpiresInv ==
  ASSUME HandoffInv, ~ LiveLeaseExpires, NEW l \in DOMAIN node[serving].leases, LeaseExpires(l)
  PROVE  HandoffInv'
<1> DEFINE r == node[serving]
           st == r.stale \cup {l}
           v == WithLeases(r, r.leases, st, r.nextLease)
<1>1. TypeOK /\ SourceServes /\ LeaseHolds
  BY Zenon DEF HandoffInv
<1>2. /\ node' = [node EXCEPT ![serving] = v] /\ (move.pc = "idle" \/ l # move.lease)
      /\ UNCHANGED <<ops, serving, generation, writer, moves, stranded>> /\ move' = move
  BY Zenon DEF LeaseExpires
<1>3. serving \in Nodes /\ IsCopy(r) /\ move \in Progress
  BY Zenon, <1>1 DEF TypeOK
<1>4. /\ IsCopy(v) /\ ContentOf(v) = ContentOf(r) /\ v.base = r.base /\ v.log = r.log
      /\ v.fence = r.fence /\ v.sealed = r.sealed /\ v.trimmed = r.trimmed
      /\ v.leases = r.leases /\ v.stale = st
  <2>1. /\ r.leases = [x \in DOMAIN r.leases |-> r.leases[x]] /\ st \subseteq DOMAIN r.leases
        /\ r.nextLease \in Nat
        /\ \A x \in DOMAIN r.leases :
             x \in Nat /\ x < r.nextLease /\ r.leases[x] \in 0 .. Len(r.log)
    BY Zenon, <1>3 DEF IsCopy
  <2> HIDE DEF st, r
  <2> QED
    BY <1>3, <2>1, WithLeasesProperties
<1> HIDE DEF v
<1>5. /\ move.pc = "list" => move.hwm <= v.sealed
      /\ move.pc \in Copying \cup {"seal", "list"} => move.lease \in DOMAIN v.leases \ v.stale
      /\ move.pc \in Copying \cup {"list"} =>
           v.leases[move.lease] <= move.hwm /\ v.trimmed <= move.hwm
  BY Zenon, <1>1, <1>2, <1>4 DEF SourceServes, LeaseHolds, Copying
<1> QED
  BY Zenon, <1>2, <1>3, <1>4, <1>5, SourceStep DEF Content

(* Between moves a restart may drop the leases and the fence.               *)
LEMMA RestartInv == ASSUME HandoffInv, ~ RestartsMidMove, Restart PROVE HandoffInv'
<1> DEFINE r == node[serving]
           v == Restarted(r)
<1>1. TypeOK /\ FencesAreOfMoves /\ StragglersAreFenced /\ ServesInOrder
  BY Zenon DEF HandoffInv
<1>2. /\ node' = [node EXCEPT ![serving] = v] /\ move.pc = "idle" /\ move' = move
      /\ writer' = [w \in Writers |-> IF writer[w] # None /\ writer[w].node = serving
                                      THEN None ELSE writer[w]]
      /\ stranded' = FALSE /\ UNCHANGED <<ops, serving, generation, moves>>
  BY Zenon DEF Restart
<1>3. serving \in Nodes /\ IsCopy(r) /\ move \in Progress
  BY Zenon, <1>1 DEF TypeOK
<1>4. IsCopy(v) /\ ContentOf(v) = ContentOf(r) /\ v.fence = 0
  BY Zenon, <1>3, RestartedProperties
<1> HIDE DEF v
<1>5. /\ node' = [n \in Nodes |-> node'[n]] /\ \A n \in Nodes : IsCopy(node'[n])
      /\ node'[serving] = v /\ \A n \in Nodes \ {serving} : node'[n] = node[n]
  BY Zenon, <1>1, <1>2, <1>3, <1>4, NodeUpdate
<1>6. /\ writer' \in [Writers -> {None} \cup [node : Nodes, admitted : BOOLEAN]]
      /\ \A w \in Writers : writer'[w] \in {None, writer[w]}
  BY Zenon, <1>1, <1>2 DEF TypeOK
<1>7. TypeOK'
  BY Zenon, <1>1, <1>2, <1>5, <1>6 DEF TypeOK
<1>8. SourceServes' /\ LeaseHolds' /\ CopyFollows'
  BY Zenon, <1>2 DEF SourceServes, LeaseHolds, CopyFollows, Copying
<1>9. FencesAreOfMoves'
  BY Zenon, <1>2, <1>4, <1>5 DEF FencesAreOfMoves, Copying
<1>10. StragglersAreFenced'
  <2>1. \A w \in Writers : writer[w] # None => writer[w].node \in Nodes
    BY Zenon, <1>1 DEF TypeOK
  <2> QED
    BY Zenon, <1>1, <1>2, <1>5, <1>6, <2>1 DEF StragglersAreFenced
<1>11. ServesInOrder'
  BY <1>1, <1>2, <1>4, <1>5 DEF ServesInOrder, InOrder, Content
<1> QED
  BY Zenon, <1>7, <1>8, <1>9, <1>10, <1>11 DEF HandoffInv

(* A move begins with the serving node as its source.                       *)
LEMMA BeginInv == ASSUME HandoffInv, NEW to \in Nodes, Begin(to) PROVE HandoffInv'
<1>1. TypeOK /\ FencesAreOfMoves /\ StragglersAreFenced /\ ServesInOrder
  BY Zenon DEF HandoffInv
<1> DEFINE a == Len(node[serving].log)
<1>2. /\ move.pc = "idle" /\ to # serving /\ moves' = moves + 1
      /\ move' = [pc |-> "lease", from |-> serving, to |-> to, gen |-> generation + 1,
                  lease |-> 0, at |-> a, hwm |-> 0, fetched |-> <<>>, advanced |-> FALSE]
      /\ UNCHANGED <<ops, node, serving, generation, writer, stranded>>
  BY Zenon DEF Begin
<1>3. serving \in Nodes /\ generation \in Nat /\ moves \in Nat /\ IsCopy(node[serving])
  BY Zenon, <1>1 DEF TypeOK
<1>4. a \in Nat
  BY Zenon, <1>3, LenProperties DEF IsCopy
<1> HIDE DEF a
<1>5. /\ move'.pc = "lease" /\ move'.from = serving /\ move'.to = to
      /\ move'.gen = generation + 1 /\ move'.at = a
  BY Zenon, <1>2
<1>6. move' \in Progress
  BY <1>2, <1>3, <1>4 DEF Progress
<1>7. TypeOK'
  BY <1>1, <1>2, <1>3, <1>6 DEF TypeOK
<1>8. SourceServes'
  <2>1. a <= Len(node'[move'.from].log)
    BY <1>2, <1>4, <1>5 DEF a
  <2> QED
    BY Zenon, <1>2, <1>5, <2>1 DEF SourceServes, Copying
<1>9. LeaseHolds' /\ CopyFollows'
  BY Zenon, <1>5 DEF LeaseHolds, CopyFollows, Copying
<1>10. FencesAreOfMoves'
  BY Zenon, <1>1, <1>2, <1>5 DEF FencesAreOfMoves, Copying
<1>11. StragglersAreFenced'
  BY Zenon, <1>1, <1>2, <1>5 DEF StragglersAreFenced
<1>12. ServesInOrder'
  BY Zenon, <1>1, <1>2 DEF ServesInOrder, InOrder, Content
<1> QED
  BY Zenon, <1>7, <1>8, <1>9, <1>10, <1>11, <1>12 DEF HandoffInv

(* The lease registered is a new one, at the position read before.          *)
LEMMA LeasedProperties ==
  ASSUME NEW r, IsCopy(r), move.at \in Nat, move.at <= Len(r.log)
  PROVE  /\ IsCopy(Leased(r)) /\ ContentOf(Leased(r)) = ContentOf(r)
         /\ Leased(r).base = r.base /\ Leased(r).log = r.log /\ Leased(r).fence = r.fence
         /\ r.nextLease \in DOMAIN Leased(r).leases \ Leased(r).stale /\ r.nextLease \in Nat
<1> DEFINE y == r.nextLease
           k == [l \in DOMAIN r.leases \cup {y} |-> IF l = y THEN move.at ELSE r.leases[l]]
<1>1. /\ y \in Nat /\ r.stale \subseteq DOMAIN r.leases
      /\ \A l \in DOMAIN r.leases : l \in Nat /\ l < y /\ r.leases[l] \in 0 .. Len(r.log)
  BY Zenon DEF IsCopy
<1>2. Len(r.log) \in Nat
  BY Zenon, LenProperties DEF IsCopy
<1>3. PICK x \in Nat : x = y + 1
  BY <1>1
<1>4. /\ k = [l \in DOMAIN k |-> k[l]] /\ r.stale \subseteq DOMAIN k
      /\ \A l \in DOMAIN k : l \in Nat /\ l < x /\ k[l] \in 0 .. Len(r.log)
  BY <1>1, <1>2, <1>3
<1>5. y \in DOMAIN k \ r.stale
  BY <1>1
<1>6. Leased(r) = WithLeases(r, k, r.stale, x)
  BY Zenon, <1>3 DEF Leased
<1> HIDE DEF k
<1>7. LET s == WithLeases(r, k, r.stale, x)
      IN  /\ IsCopy(s) /\ ContentOf(s) = ContentOf(r) /\ s.base = r.base /\ s.log = r.log
          /\ s.fence = r.fence /\ s.leases = k /\ s.stale = r.stale
  BY <1>4, WithLeasesProperties
<1> QED
  BY Zenon, <1>1, <1>5, <1>6, <1>7

(* acquire_retention_lease.                                                 *)
LEMMA AcquireLeaseInv == ASSUME HandoffInv, AcquireLease PROVE HandoffInv'
<1> DEFINE r == node[serving]
           v == Leased(r)
<1>1. /\ TypeOK /\ SourceServes /\ FencesAreOfMoves /\ StragglersAreFenced /\ ServesInOrder
  BY Zenon DEF HandoffInv
<1>2. /\ move.pc = "lease" /\ move.from = serving /\ move.to \in Nodes \ {serving}
      /\ move.gen = generation + 1 /\ move.at <= Len(r.log)
      /\ UNCHANGED <<ops, serving, generation, writer, moves, stranded>>
  BY Zenon, <1>1 DEF AcquireLease, SourceServes
<1>3. serving \in Nodes /\ IsCopy(r) /\ move \in Progress /\ move.at \in Nat
  BY Zenon, <1>1 DEF TypeOK, Progress
<1>4. /\ IsCopy(v) /\ ContentOf(v) = ContentOf(r) /\ v.base = r.base /\ v.log = r.log
      /\ v.fence = r.fence /\ r.nextLease \in DOMAIN v.leases \ v.stale /\ r.nextLease \in Nat
  BY Zenon, <1>2, <1>3, LeasedProperties
<1>5. /\ node' = [node EXCEPT ![serving] = v] /\ move' = [At("seal") EXCEPT !.lease = r.nextLease]
  BY Zenon, <1>2 DEF AcquireLease
<1> HIDE DEF v
<1>6. /\ node' = [n \in Nodes |-> node'[n]] /\ \A n \in Nodes : IsCopy(node'[n])
      /\ node'[serving] = v /\ \A n \in Nodes \ {serving} : node'[n] = node[n]
  BY Zenon, <1>1, <1>3, <1>4, <1>5, NodeUpdate
<1>7. /\ move' \in Progress /\ move'.pc = "seal" /\ move'.from = serving /\ move'.to = move.to
      /\ move'.gen = move.gen /\ move'.lease = r.nextLease
  <2>1. PICK a : a = At("seal")
    BY Zenon
  <2>2. /\ a \in Progress /\ a.pc = "seal" /\ a.from = serving /\ a.to = move.to
        /\ a.gen = move.gen
    BY Zenon, <1>2, <1>3, <2>1, AtProperties
  <2> QED
    BY Zenon, <1>4, <1>5, <2>1, <2>2 DEF Progress
<1>8. TypeOK'
  BY Zenon, <1>1, <1>2, <1>6, <1>7 DEF TypeOK
<1>9. SourceServes'
  BY Zenon, <1>2, <1>7 DEF SourceServes, Copying
<1>10. LeaseHolds'
  BY Zenon, <1>4, <1>6, <1>7 DEF LeaseHolds, Copying
<1>11. FencesAreOfMoves'
  BY Zenon, <1>1, <1>2, <1>4, <1>6, <1>7 DEF FencesAreOfMoves, Copying
<1>12. StragglersAreFenced'
  <2>1. \A w \in Writers : writer[w] # None => writer[w].node \in Nodes
    BY Zenon, <1>1 DEF TypeOK
  <2> QED
    BY Zenon, <1>1, <1>2, <1>6, <1>7, <2>1 DEF StragglersAreFenced
<1>13. CopyFollows'
  BY Zenon, <1>7 DEF CopyFollows, Copying
<1>14. ServesInOrder'
  <2>1. ContentOf(node'[serving]) = ContentOf(node[serving])
    BY Zenon, <1>4, <1>6
  <2> QED
    BY Zenon, <1>1, <1>2, <2>1, InOrderKept
<1> QED
  BY Zenon, <1>8, <1>9, <1>10, <1>11, <1>12, <1>13, <1>14 DEF HandoffInv

(* A lease that no move knows of is left behind.                            *)
LEMMA AcquireFailsInv ==
  ASSUME HandoffInv, NEW registered \in BOOLEAN, AcquireFails(registered)
  PROVE  HandoffInv'
<1> DEFINE r == node[serving]
           v == IF registered THEN Leased(r) ELSE r
<1>1. /\ TypeOK /\ SourceServes /\ FencesAreOfMoves
  BY Zenon DEF HandoffInv
<1>2. /\ move.pc = "lease" /\ move.from = serving /\ move.at <= Len(r.log)
      /\ UNCHANGED <<ops, serving, generation, writer, moves, stranded>> /\ move' = NoMove
  BY Zenon, <1>1 DEF AcquireFails, SourceServes
<1>3. serving \in Nodes /\ IsCopy(r) /\ move.at \in Nat /\ stranded' \in BOOLEAN
  BY Zenon, <1>1, <1>2 DEF TypeOK, Progress
<1>4. /\ IsCopy(v) /\ ContentOf(v) = ContentOf(r) /\ v.fence = r.fence
  BY Zenon, <1>2, <1>3, LeasedProperties
<1>5. node' = [node EXCEPT ![serving] = v]
  BY Zenon, <1>2 DEF AcquireFails
<1> HIDE DEF v
<1>6. move' \in Progress /\ move'.pc = "idle"
  BY Zenon, <1>2, NoMoveProperties
<1>7. v.fence \in {0, generation + 1} /\ (~ stranded' => v.fence = 0)
  BY Zenon, <1>1, <1>2, <1>4 DEF FencesAreOfMoves
<1>8. node'[serving] = v
  BY Zenon, <1>1, <1>3, <1>4, <1>5, NodeUpdate
<1> QED
  BY Zenon, <1>2, <1>3, <1>4, <1>5, <1>6, <1>7, <1>8, MoveOver DEF Content

(* The mark of the copy is the end of the log at the seal.                  *)
LEMMA SealForCopyInv == ASSUME HandoffInv, SealForCopy PROVE HandoffInv'
<1> DEFINE r == node[serving]
           v == Sealed(r)
<1>1. /\ TypeOK /\ SourceServes /\ LeaseHolds /\ FencesAreOfMoves /\ StragglersAreFenced
      /\ ServesInOrder
  BY Zenon DEF HandoffInv
<1>2. /\ move.pc = "seal" /\ move.from = serving /\ move.to \in Nodes \ {serving}
      /\ move.gen = generation + 1 /\ move.lease \in DOMAIN r.leases \ r.stale
      /\ UNCHANGED <<ops, serving, generation, writer, moves, stranded>>
  BY Zenon, <1>1 DEF SealForCopy, SourceServes, LeaseHolds
<1>3. serving \in Nodes /\ IsCopy(r) /\ move \in Progress
  BY Zenon, <1>1 DEF TypeOK
<1>4. /\ IsCopy(v) /\ ContentOf(v) = ContentOf(r) /\ v.base = r.base /\ v.log = r.log
      /\ v.fence = r.fence /\ v.sealed = Len(r.log) /\ v.trimmed <= Len(r.log)
      /\ move.lease \in DOMAIN v.leases \ v.stale /\ v.leases[move.lease] = r.leases[move.lease]
  BY <1>2, <1>3, SealedProperties
<1>5. /\ node' = [node EXCEPT ![serving] = v] /\ move' = [At("list") EXCEPT !.hwm = Len(r.log)]
  BY Zenon, <1>2 DEF SealForCopy
<1> HIDE DEF v
<1>6. /\ node' = [n \in Nodes |-> node'[n]] /\ \A n \in Nodes : IsCopy(node'[n])
      /\ node'[serving] = v /\ \A n \in Nodes \ {serving} : node'[n] = node[n]
  BY Zenon, <1>1, <1>3, <1>4, <1>5, NodeUpdate
<1>7. Len(r.log) \in Nat /\ r.leases[move.lease] \in 0 .. Len(r.log)
  BY Zenon, <1>2, <1>3, LenProperties DEF IsCopy
<1>8. /\ move' \in Progress /\ move'.pc = "list" /\ move'.from = serving /\ move'.to = move.to
      /\ move'.gen = move.gen /\ move'.lease = move.lease /\ move'.hwm = Len(r.log)
  <2>1. PICK a : a = At("list")
    BY Zenon
  <2>2. /\ a \in Progress /\ a.pc = "list" /\ a.from = serving /\ a.to = move.to
        /\ a.gen = move.gen /\ a.lease = move.lease
    BY Zenon, <1>2, <1>3, <2>1, AtProperties
  <2> QED
    BY Zenon, <1>5, <1>7, <2>1, <2>2 DEF Progress
<1>9. TypeOK'
  BY Zenon, <1>1, <1>2, <1>6, <1>8 DEF TypeOK
<1>10. SourceServes'
  BY Zenon, <1>2, <1>8 DEF SourceServes, Copying
<1>11. LeaseHolds'
  <2>1. /\ v.leases[move.lease] <= move'.hwm /\ v.trimmed <= move'.hwm
        /\ move'.hwm <= Len(v.log) /\ move'.hwm <= v.sealed
    BY <1>4, <1>7, <1>8
  <2> QED
    BY Zenon, <1>4, <1>6, <1>8, <2>1 DEF LeaseHolds, Copying
<1>12. FencesAreOfMoves'
  BY Zenon, <1>1, <1>2, <1>4, <1>6, <1>8 DEF FencesAreOfMoves, Copying
<1>13. StragglersAreFenced'
  <2>1. \A w \in Writers : writer[w] # None => writer[w].node \in Nodes
    BY Zenon, <1>1 DEF TypeOK
  <2> QED
    BY Zenon, <1>1, <1>2, <1>6, <1>8, <2>1 DEF StragglersAreFenced
<1>14. CopyFollows'
  BY Zenon, <1>8 DEF CopyFollows, Copying
<1>15. ServesInOrder'
  <2>1. ContentOf(node'[serving]) = ContentOf(node[serving])
    BY Zenon, <1>4, <1>6
  <2> QED
    BY Zenon, <1>1, <1>2, <2>1, InOrderKept
<1> QED
  BY Zenon, <1>9, <1>10, <1>11, <1>12, <1>13, <1>14, <1>15 DEF HandoffInv

(* The files listed may hold rows written after the mark; they follow.      *)
LEMMA ListSegmentsInv == ASSUME HandoffInv, ListSegments PROVE HandoffInv'
<1> DEFINE r == node[serving]
<1>1. /\ TypeOK /\ SourceServes /\ LeaseHolds /\ FencesAreOfMoves /\ StragglersAreFenced
      /\ ServesInOrder
  BY Zenon DEF HandoffInv
<1>2. /\ move.pc = "list" /\ move.from = serving /\ move.to \in Nodes \ {serving}
      /\ move.gen = generation + 1 /\ move.lease \in DOMAIN r.leases \ r.stale
      /\ r.leases[move.lease] <= move.hwm /\ r.trimmed <= move.hwm
      /\ move.hwm <= Len(r.log) /\ move.hwm <= r.sealed
      /\ UNCHANGED <<ops, node, serving, generation, writer, moves, stranded>>
  BY Zenon, <1>1 DEF ListSegments, SourceServes, LeaseHolds
<1>3. serving \in Nodes /\ IsCopy(r) /\ move \in Progress
  BY Zenon, <1>1 DEF TypeOK
<1>4. move.hwm \in 0 .. r.sealed
  BY <1>2, <1>3 DEF Progress, IsCopy
<1>5. /\ Segments(r) \in Seq(Entry)
      /\ Follows(Segments(r), ContentOf(r), Len(r.base) + move.hwm)
  BY Zenon, <1>3, <1>4, SegmentsFollow
<1>6. move' = [At("install") EXCEPT !.fetched = Segments(r)]
  BY Zenon, <1>2 DEF ListSegments
<1>7. /\ move' \in Progress /\ move'.pc = "install" /\ move'.from = serving /\ move'.to = move.to
      /\ move'.gen = move.gen /\ move'.lease = move.lease /\ move'.hwm = move.hwm
      /\ move'.fetched = Segments(r)
  <2>1. PICK a, s : a = At("install") /\ s = Segments(r)
    BY Zenon
  <2>2. /\ a \in Progress /\ a.pc = "install" /\ a.from = serving /\ a.to = move.to
        /\ a.gen = move.gen /\ a.lease = move.lease /\ a.hwm = move.hwm
    BY Zenon, <1>2, <1>3, <2>1, AtProperties DEF Copying
  <2>3. s \in Seq(Entry) /\ move' = [a EXCEPT !.fetched = s]
    BY Zenon, <1>5, <1>6, <2>1
  <2>4. /\ move' \in Progress /\ move'.pc = a.pc /\ move'.from = a.from /\ move'.to = a.to
        /\ move'.gen = a.gen /\ move'.lease = a.lease /\ move'.hwm = a.hwm /\ move'.fetched = s
    BY Zenon, <2>2, <2>3 DEF Progress
  <2> QED
    BY Zenon, <2>1, <2>2, <2>4
<1>8. TypeOK'
  BY Zenon, <1>1, <1>2, <1>7 DEF TypeOK
<1>9. SourceServes'
  BY Zenon, <1>2, <1>7 DEF SourceServes, Copying
<1>10. LeaseHolds'
  BY Zenon, <1>2, <1>7 DEF LeaseHolds, Copying
<1>11. FencesAreOfMoves'
  BY Zenon, <1>1, <1>2, <1>7 DEF FencesAreOfMoves, Copying
<1>12. StragglersAreFenced'
  BY Zenon, <1>1, <1>2, <1>7 DEF StragglersAreFenced
<1>13. CopyFollows'
  <2>1. Follows(move'.fetched, ContentOf(node'[move'.from]),
                Len(node'[move'.from].base) + move'.hwm)
    BY Zenon, <1>2, <1>5, <1>7
  <2> QED
    BY Zenon, <1>7, <2>1 DEF CopyFollows, Content
<1>14. ServesInOrder'
  BY <1>1, <1>2 DEF ServesInOrder, InOrder, Content
<1> QED
  BY Zenon, <1>8, <1>9, <1>10, <1>11, <1>12, <1>13, <1>14 DEF HandoffInv

(* recover_from: the target holds the files it fetched.                     *)
LEMMA InstallInv == ASSUME HandoffInv, Install PROVE HandoffInv'
<1> DEFINE r == node[serving]
           x == move.to
           v == Fresh(move.fetched, node[x].fence)
<1>1. /\ TypeOK /\ SourceServes /\ LeaseHolds /\ FencesAreOfMoves /\ StragglersAreFenced
      /\ CopyFollows /\ ServesInOrder
  BY Zenon DEF HandoffInv
<1>2. /\ move.pc = "install" /\ move.from = serving /\ x \in Nodes \ {serving}
      /\ move.gen = generation + 1
      /\ UNCHANGED <<ops, serving, generation, writer, moves, stranded>>
  BY Zenon, <1>1 DEF Install, SourceServes, Copying
<1>3. serving \in Nodes /\ IsCopy(r) /\ move \in Progress /\ IsCopy(node[x])
  BY Zenon, <1>1, <1>2 DEF TypeOK
<1>4. move.fetched \in Seq(Entry) /\ node[x].fence \in Nat
  BY Zenon, <1>3 DEF Progress, IsCopy
<1>5. IsCopy(v) /\ ContentOf(v) = move.fetched /\ v.fence = node[x].fence
  BY Zenon, <1>4, FreshProperties
<1>6. /\ node' = [node EXCEPT ![x] = v] /\ move' = [At("clear") EXCEPT !.fetched = <<>>]
  BY Zenon DEF Install
<1> HIDE DEF v, x
<1>7. /\ node' = [n \in Nodes |-> node'[n]] /\ \A n \in Nodes : IsCopy(node'[n])
      /\ node'[x] = v /\ \A n \in Nodes \ {x} : node'[n] = node[n]
  BY Zenon, <1>1, <1>2, <1>5, <1>6, NodeUpdate
<1>8. /\ move' \in Progress /\ move'.pc = "clear" /\ move'.from = serving /\ move'.to = x
      /\ move'.gen = move.gen /\ move'.lease = move.lease /\ move'.hwm = move.hwm
  <2>1. PICK a, s : a = At("clear") /\ s = <<>>
    BY Zenon
  <2>2. /\ a \in Progress /\ a.pc = "clear" /\ a.from = serving /\ a.to = x
        /\ a.gen = move.gen /\ a.lease = move.lease /\ a.hwm = move.hwm
    BY Zenon, <1>2, <1>3, <2>1, AtProperties DEF Copying, x
  <2>3. s \in Seq(Entry) /\ move' = [a EXCEPT !.fetched = s]
    BY <1>6, <2>1
  <2>4. /\ move' \in Progress /\ move'.pc = a.pc /\ move'.from = a.from /\ move'.to = a.to
        /\ move'.gen = a.gen /\ move'.lease = a.lease /\ move'.hwm = a.hwm
    BY Zenon, <2>2, <2>3 DEF Progress
  <2> QED
    BY Zenon, <2>2, <2>4
<1>9. node'[serving] = r
  BY Zenon, <1>2, <1>3, <1>7
<1>10. TypeOK'
  BY Zenon, <1>1, <1>2, <1>7, <1>8 DEF TypeOK
<1>11. SourceServes'
  BY Zenon, <1>2, <1>8 DEF SourceServes, Copying
<1>12. LeaseHolds'
  BY Zenon, <1>1, <1>2, <1>8, <1>9 DEF LeaseHolds, Copying
<1>13. FencesAreOfMoves'
  BY Zenon, <1>1, <1>2, <1>8, <1>9 DEF FencesAreOfMoves, Copying
<1>14. StragglersAreFenced'
  <2>1. \A n \in Nodes : node'[n].fence = node[n].fence
    BY Zenon, <1>5, <1>7
  <2>2. \A w \in Writers : writer[w] # None => writer[w].node \in Nodes
    BY Zenon, <1>1 DEF TypeOK
  <2> QED
    BY Zenon, <1>1, <1>2, <1>8, <2>1, <2>2 DEF StragglersAreFenced
<1>15. CopyFollows'
  <2>1. Follows(move.fetched, ContentOf(r), Len(r.base) + move.hwm)
    BY Zenon, <1>1, <1>2 DEF CopyFollows, Content
  <2>2. Follows(ContentOf(node'[move'.to]), ContentOf(node'[move'.from]),
                Len(node'[move'.from].base) + move'.hwm)
    BY Zenon, <1>5, <1>7, <1>8, <1>9, <2>1
  <2> QED
    BY Zenon, <1>8, <2>2 DEF CopyFollows, Content
<1>16. ServesInOrder'
  BY Zenon, <1>1, <1>2, <1>9, InOrderKept
<1> QED
  BY Zenon, <1>10, <1>11, <1>12, <1>13, <1>14, <1>15, <1>16 DEF HandoffInv

(* clear_stale_fence: no request to the target is still under way.          *)
LEMMA ClearStaleFenceInv == ASSUME HandoffInv, ~ Straggle, ClearStaleFence PROVE HandoffInv'
<1> DEFINE r == node[serving]
           x == move.to
           v == WithFence(node[x], 0)
<1>1. /\ TypeOK /\ SourceServes /\ LeaseHolds /\ FencesAreOfMoves /\ StragglersAreFenced
      /\ CopyFollows /\ ServesInOrder
  BY Zenon DEF HandoffInv
<1>2. /\ move.pc = "clear" /\ move.from = serving /\ x \in Nodes \ {serving}
      /\ move.gen = generation + 1 /\ \A w \in InFlight : writer[w].node # x
      /\ UNCHANGED <<ops, serving, generation, writer, moves, stranded>>
  BY Zenon, <1>1 DEF ClearStaleFence, SourceServes, Copying
<1>3. serving \in Nodes /\ move \in Progress /\ IsCopy(node[x])
  BY Zenon, <1>1, <1>2 DEF TypeOK
<1>4. IsCopy(v) /\ ContentOf(v) = ContentOf(node[x]) /\ v.fence = 0
  BY <1>3, WithFenceProperties
<1>5. node' = [node EXCEPT ![x] = v] /\ move' = At("drain")
  BY Zenon DEF ClearStaleFence, Goto
<1> HIDE DEF v, x
<1>6. /\ node' = [n \in Nodes |-> node'[n]] /\ \A n \in Nodes : IsCopy(node'[n])
      /\ node'[x] = v /\ \A n \in Nodes \ {x} : node'[n] = node[n]
  BY Zenon, <1>1, <1>2, <1>4, <1>5, NodeUpdate
<1>7. /\ move' \in Progress /\ move'.pc = "drain" /\ move'.from = serving /\ move'.to = x
      /\ move'.gen = move.gen /\ move'.lease = move.lease /\ move'.hwm = move.hwm
  BY Zenon, <1>2, <1>3, <1>5, AtProperties DEF Copying, x
<1>8. node'[serving] = r
  BY Zenon, <1>2, <1>3, <1>6
<1>9. TypeOK'
  BY Zenon, <1>1, <1>2, <1>6, <1>7 DEF TypeOK
<1>10. SourceServes'
  BY Zenon, <1>2, <1>7 DEF SourceServes, Copying
<1>11. LeaseHolds'
  BY Zenon, <1>1, <1>2, <1>7, <1>8 DEF LeaseHolds, Copying
<1>12. FencesAreOfMoves'
  BY Zenon, <1>1, <1>2, <1>4, <1>6, <1>7, <1>8 DEF FencesAreOfMoves, Copying
<1>13. StragglersAreFenced'
  <2>1. \A w \in Writers : writer[w] # None => writer[w].node \in Nodes \ {x}
    BY Zenon, <1>1, <1>2 DEF TypeOK, InFlight
  <2> QED
    BY Zenon, <1>1, <1>2, <1>6, <1>7, <2>1 DEF StragglersAreFenced
<1>14. CopyFollows'
  <2>1. Follows(ContentOf(node[x]), ContentOf(r), Len(r.base) + move.hwm)
    BY Zenon, <1>1, <1>2 DEF CopyFollows, Content, Copying, x
  <2>2. Follows(ContentOf(node'[move'.to]), ContentOf(node'[move'.from]),
                Len(node'[move'.from].base) + move'.hwm)
    BY Zenon, <1>4, <1>6, <1>7, <1>8, <2>1
  <2> QED
    BY Zenon, <1>7, <2>2 DEF CopyFollows, Content
<1>15. ServesInOrder'
  BY Zenon, <1>1, <1>2, <1>8, InOrderKept
<1> QED
  BY Zenon, <1>9, <1>10, <1>11, <1>12, <1>13, <1>14, <1>15 DEF HandoffInv

(* A pass over the tail, before the fence or after it.                      *)
LEMMA CatchUpInv ==
  ASSUME HandoffInv, NEW pc, NEW next, CatchUp(pc, next),
         \/ pc = "drain" /\ next = "renew"
         \/ /\ pc = "final" /\ next = "converge"
            /\ \A w \in InFlight : ~ (writer[w].node = move.from /\ writer[w].admitted)
  PROVE  HandoffInv'
<1> DEFINE r == node[serving]
           x == move.to
           n == Len(r.log)
           tail == Tail_(r, move.hwm)
           v == Logged(node[x], tail)
<1>1. /\ TypeOK /\ SourceServes /\ LeaseHolds /\ FencesAreOfMoves /\ StragglersAreFenced
      /\ CopyFollows /\ ServesInOrder
  BY Zenon DEF HandoffInv
<1>2. /\ move.pc = pc /\ pc \in {"drain", "final"} /\ next \in {"renew", "converge"}
      /\ UNCHANGED <<ops, serving, generation, writer, moves, stranded>>
  BY Zenon DEF CatchUp
<1>3. /\ move.from = serving /\ x \in Nodes \ {serving} /\ move.gen = generation + 1
      /\ r.trimmed <= move.hwm /\ move.hwm <= n
      /\ move.lease \in DOMAIN r.leases \ r.stale /\ r.leases[move.lease] <= move.hwm
  BY Zenon, <1>1, <1>2 DEF SourceServes, LeaseHolds, Copying
<1>4. serving \in Nodes /\ move \in Progress /\ IsCopy(node[x]) /\ IsCopy(r)
  BY Zenon, <1>1, <1>3 DEF TypeOK
<1>5. move.hwm \in Nat /\ n \in Nat
  BY Zenon, <1>4, LenProperties DEF IsCopy, Progress
<1>6. Follows(ContentOf(node[x]), ContentOf(r), Len(r.base) + move.hwm)
  BY Zenon, <1>1, <1>2, <1>3 DEF CopyFollows, Content, Copying
<1>7. /\ tail \in Seq(Nat \ {0}) /\ (tail = <<>> => move.hwm = n)
      /\ Follows(ContentOf(v), ContentOf(r), Len(r.base) + n)
  BY Zenon, <1>3, <1>4, <1>5, <1>6, CaughtUpFollows
<1>8. /\ node' = [node EXCEPT ![x] = v]
      /\ move' = [[At(next) EXCEPT !.advanced = (tail # <<>>)]
                    EXCEPT !.hwm = IF tail = <<>> THEN @ ELSE n]
  BY Zenon, <1>3 DEF CatchUp
<1> HIDE DEF tail
<1>9. IsCopy(v) /\ v.fence = node[x].fence
  BY Zenon, <1>4, <1>7, LoggedProperties
<1> HIDE DEF v, x, n
<1>10. /\ node' = [k \in Nodes |-> node'[k]] /\ \A k \in Nodes : IsCopy(node'[k])
       /\ node'[x] = v /\ \A k \in Nodes \ {x} : node'[k] = node[k]
  BY Zenon, <1>1, <1>3, <1>8, <1>9, NodeUpdate
<1>11. /\ move' \in Progress /\ move'.pc = next /\ move'.from = serving /\ move'.to = x
       /\ move'.gen = move.gen /\ move'.lease = move.lease /\ move'.hwm = n
  <2>1. PICK a, f, h : /\ a = At(next) /\ f = (tail # <<>>)
                       /\ h = IF tail = <<>> THEN move.hwm ELSE n
    BY Zenon
  <2>2. /\ a \in Progress /\ a.pc = next /\ a.from = serving /\ a.to = x
        /\ a.gen = move.gen /\ a.lease = move.lease /\ a.hwm = move.hwm
    BY Zenon, <1>2, <1>3, <1>4, <2>1, AtProperties DEF Copying, x
  <2>3. f \in BOOLEAN
    BY Zenon, <2>1
  <2>4. PICK c : c = [a EXCEPT !.advanced = f]
    BY Zenon
  <2>5. /\ c \in Progress /\ c.pc = a.pc /\ c.from = a.from /\ c.to = a.to
        /\ c.gen = a.gen /\ c.lease = a.lease /\ c.hwm = a.hwm
    BY Zenon, <2>2, <2>3, <2>4 DEF Progress
  <2>6. h = n
    BY Zenon, <1>7, <2>1
  <2>7. move' = [c EXCEPT !.hwm = h]
    BY Zenon, <1>8, <2>1, <2>2, <2>4, <2>5
  <2>8. /\ move' \in Progress /\ move'.pc = c.pc /\ move'.from = c.from /\ move'.to = c.to
        /\ move'.gen = c.gen /\ move'.lease = c.lease /\ move'.hwm = h
    BY Zenon, <1>5, <2>5, <2>6, <2>7 DEF Progress
  <2> QED
    BY Zenon, <2>2, <2>5, <2>6, <2>8
<1>12. node'[serving] = r
  BY Zenon, <1>3, <1>4, <1>10
<1>13. TypeOK'
  BY Zenon, <1>1, <1>2, <1>10, <1>11 DEF TypeOK
<1>14. SourceServes'
  BY Zenon, <1>2, <1>3, <1>11 DEF SourceServes, Copying
<1>15. LeaseHolds'
  <2>1. r.leases[move.lease] \in Nat /\ r.trimmed \in Nat
    <3>1. r.leases[move.lease] \in 0 .. Len(r.log)
      BY Zenon, <1>3, <1>4 DEF IsCopy
    <3> QED
      BY <1>4, <1>5, <3>1 DEF IsCopy, n
  <2>2. r.leases[move.lease] <= n /\ r.trimmed <= n /\ n <= n
    BY <1>3, <1>5, <2>1
  <2>3. n = Len(r.log)
    BY Zenon DEF n
  <2> QED
    BY Zenon, <1>2, <1>3, <1>11, <1>12, <2>2, <2>3 DEF LeaseHolds, Copying
<1>16. \A k \in Nodes : node'[k].fence = node[k].fence
  BY Zenon, <1>9, <1>10
<1>17. FencesAreOfMoves'
  <2>1. node[x].fence = 0
    BY Zenon, <1>1, <1>2 DEF FencesAreOfMoves, Copying, x
  <2>2. move'.pc \in {"final", "converge", "flip"} <=> move.pc \in {"final", "converge", "flip"}
    BY Zenon, <1>2, <1>11
  <2> QED
    BY Zenon, <1>1, <1>2, <1>3, <1>4, <1>11, <1>16, <2>1, <2>2 DEF FencesAreOfMoves
<1>18. StragglersAreFenced'
  <2>1. \A w \in Writers : writer[w] # None => writer[w].node \in Nodes
    BY Zenon, <1>1 DEF TypeOK
  <2>2. next = "converge" =>
          \A w \in Writers : writer[w] # None => ~ (writer[w].node = serving /\ writer[w].admitted)
    BY Zenon, <1>3 DEF InFlight
  <2> QED
    BY Zenon, <1>1, <1>2, <1>11, <1>16, <2>1, <2>2 DEF StragglersAreFenced
<1>19. CopyFollows'
  <2>1. Follows(ContentOf(node'[move'.to]), ContentOf(node'[move'.from]),
                Len(node'[move'.from].base) + move'.hwm)
    BY Zenon, <1>7, <1>10, <1>11, <1>12
  <2> QED
    BY Zenon, <1>2, <1>11, <2>1 DEF CopyFollows, Content
<1>20. ServesInOrder'
  BY Zenon, <1>1, <1>2, <1>12, InOrderKept
<1> QED
  BY Zenon, <1>13, <1>14, <1>15, <1>17, <1>18, <1>19, <1>20 DEF HandoffInv

(* renew: the lease of the move follows its mark.                           *)
LEMMA RenewedStep ==
  ASSUME HandoffInv, UNCHANGED <<ops, serving, generation, writer, moves, stranded>>,
         node' = [node EXCEPT ![move.from] = Renewed(@)],
         \/ move.pc = "renew" /\ (move' = At("fence") \/ move' = At("drain"))
         \/ move.pc = "converge" /\ (move' = At("final") \/ move' = At("flip"))
  PROVE  HandoffInv'
<1> DEFINE r == node[serving]
           v == Renewed(r)
           h == move.hwm
           y == move.lease
           k == [r.leases EXCEPT ![y] = IF h > @ THEN h ELSE @]
           st == r.stale \ {y}
<1>1. TypeOK /\ SourceServes /\ LeaseHolds
  BY Zenon DEF HandoffInv
<1>2. /\ move.from = serving /\ y \in DOMAIN r.leases \ r.stale /\ r.leases[y] <= h
      /\ r.trimmed <= h /\ h <= Len(r.log)
  BY Zenon, <1>1 DEF SourceServes, LeaseHolds, Copying
<1>3. serving \in Nodes /\ IsCopy(r) /\ move \in Progress /\ h \in Nat
  BY Zenon, <1>1 DEF TypeOK, Progress
<1>4. /\ Len(r.log) \in Nat /\ r.nextLease \in Nat /\ r.stale \subseteq DOMAIN r.leases
      /\ r.leases = [l \in DOMAIN r.leases |-> r.leases[l]]
      /\ \A l \in DOMAIN r.leases :
           l \in Nat /\ l < r.nextLease /\ r.leases[l] \in 0 .. Len(r.log)
  BY Zenon, <1>3, LenProperties DEF IsCopy
<1>5. /\ DOMAIN k = DOMAIN r.leases /\ k = [l \in DOMAIN k |-> k[l]] /\ st \subseteq DOMAIN k
      /\ k[y] = h /\ \A l \in DOMAIN k \ {y} : k[l] = r.leases[l]
  <2>1. r.leases[y] \in Nat
    BY <1>2, <1>4
  <2>2. (IF h > r.leases[y] THEN h ELSE r.leases[y]) = h
    BY <1>2, <1>3, <2>1
  <2> QED
    BY Zenon, <1>2, <1>4, <2>2
<1>6. v = WithLeases(r, k, st, r.nextLease)
  BY Zenon, <1>2 DEF Renewed
<1>7. \A l \in DOMAIN k : l \in Nat /\ l < r.nextLease /\ k[l] \in 0 .. Len(r.log)
  <2>1. h \in 0 .. Len(r.log)
    BY <1>2, <1>3, <1>4
  <2> HIDE DEF k, h
  <2> QED
    BY Zenon, <1>4, <1>5, <2>1
<1>8. node' = [node EXCEPT ![serving] = v]
  BY Zenon, <1>2
<1> HIDE DEF k, st, v
<1>9. /\ IsCopy(v) /\ ContentOf(v) = ContentOf(r) /\ v.base = r.base /\ v.log = r.log
      /\ v.fence = r.fence /\ v.sealed = r.sealed /\ v.trimmed = r.trimmed
      /\ v.leases = k /\ v.stale = st
  <2> HIDE DEF r
  <2>1. LET s == WithLeases(r, k, st, r.nextLease)
        IN  /\ IsCopy(s) /\ ContentOf(s) = ContentOf(r) /\ s.base = r.base /\ s.log = r.log
            /\ s.fence = r.fence /\ s.sealed = r.sealed /\ s.trimmed = r.trimmed
            /\ s.leases = k /\ s.stale = st
    BY <1>3, <1>4, <1>5, <1>7, WithLeasesProperties
  <2> QED
    BY Zenon, <1>6, <2>1
<1>10. y \in DOMAIN v.leases \ v.stale /\ v.leases[y] <= h /\ v.trimmed <= h
  BY <1>2, <1>3, <1>5, <1>9 DEF st
<1>11. /\ move' \in Progress /\ move'.from = move.from /\ move'.to = move.to
       /\ move'.gen = move.gen /\ move'.lease = move.lease /\ move'.at = move.at
       /\ move'.hwm = move.hwm /\ move'.fetched = move.fetched
       /\ \/ move.pc = "renew" /\ move'.pc \in {"fence", "drain"}
          \/ move.pc = "converge" /\ move'.pc \in {"final", "flip"}
  BY <1>3, AtProperties DEF Copying
<1>12. move.pc # "list"
  BY Zenon
<1> QED
  BY Zenon, <1>3, <1>8, <1>9, <1>10, <1>11, <1>12, SourceStep DEF Content

(* The renewal before the fence.                                            *)
LEMMA RenewInv == ASSUME HandoffInv, Renew PROVE HandoffInv'
BY Zenon, RenewedStep DEF Renew, Goto

(* The renewal after the fence.                                             *)
LEMMA ConvergeInv == ASSUME HandoffInv, Converge PROVE HandoffInv'
<1>1. /\ UNCHANGED <<ops, serving, generation, writer, moves, stranded>>
      /\ node' = [node EXCEPT ![move.from] = Renewed(@)]
      /\ move.pc = "converge" /\ (move' = At("final") \/ move' = At("flip"))
  BY Zenon DEF Converge, Goto
<1> QED
  BY Zenon, <1>1, RenewedStep

(* The fence of the move is newer than any the source has.                  *)
LEMMA FencedProperties ==
  ASSUME NEW r, IsCopy(r), move.gen \in Nat, r.fence \in {0, move.gen}, move.gen # 0
  PROVE  /\ IsCopy(Fenced(r)) /\ ContentOf(Fenced(r)) = ContentOf(r)
         /\ Fenced(r).base = r.base /\ Fenced(r).log = r.log /\ Fenced(r).fence = move.gen
         /\ Fenced(r).sealed = r.sealed /\ Fenced(r).trimmed = r.trimmed
         /\ Fenced(r).leases = r.leases /\ Fenced(r).stale = r.stale
<1>1. CASE r.fence = 0
  <2>1. Fenced(r) = WithFence(r, move.gen)
    BY <1>1 DEF Fenced
  <2> QED
    BY <2>1, WithFenceProperties
<1>2. CASE r.fence = move.gen
  <2>1. Fenced(r) = r
    BY <1>2 DEF Fenced
  <2> QED
    BY Zenon, <1>2, <2>1
<1> QED
  BY Zenon, <1>1, <1>2

(* The fence of the move, if it is there, is lifted.                        *)
LEMMA UnfencedProperties ==
  ASSUME NEW r, IsCopy(r), r.fence \in {0, move.gen}
  PROVE  /\ IsCopy(Unfenced(r)) /\ ContentOf(Unfenced(r)) = ContentOf(r)
         /\ Unfenced(r).fence = 0
<1>1. CASE r.fence = move.gen
  <2>1. Unfenced(r) = WithFence(r, 0)
    BY Zenon, <1>1 DEF Unfenced
  <2>2. PICK z \in Nat : z = 0
    BY Zenon
  <2>3. LET s == WithFence(r, z) IN IsCopy(s) /\ ContentOf(s) = ContentOf(r) /\ s.fence = z
    BY Zenon, WithFenceProperties
  <2> QED
    BY Zenon, <2>1, <2>2, <2>3
<1>2. CASE r.fence # move.gen
  BY Zenon, <1>2 DEF Unfenced
<1> QED
  BY Zenon, <1>1, <1>2

(* fence: the source refuses from here on.                                  *)
LEMMA FenceInv == ASSUME HandoffInv, Fence PROVE HandoffInv'
<1> DEFINE r == node[serving]
           v == Fenced(r)
<1>1. /\ TypeOK /\ SourceServes /\ LeaseHolds /\ FencesAreOfMoves /\ StragglersAreFenced
      /\ CopyFollows /\ ServesInOrder
  BY Zenon DEF HandoffInv
<1>2. /\ move.pc = "fence" /\ move.from = serving /\ move.to \in Nodes \ {serving}
      /\ move.gen = generation + 1
      /\ UNCHANGED <<ops, serving, generation, writer, moves, stranded>>
  BY Zenon, <1>1 DEF Fence, SourceServes, Copying
<1>3. serving \in Nodes /\ move \in Progress /\ IsCopy(r) /\ generation \in Nat
  BY Zenon, <1>1 DEF TypeOK
<1>4. move.gen \in Nat /\ move.gen # 0 /\ r.fence \in {0, move.gen}
  BY <1>1, <1>2, <1>3 DEF FencesAreOfMoves
<1>5. /\ IsCopy(v) /\ ContentOf(v) = ContentOf(r) /\ v.base = r.base /\ v.log = r.log
      /\ v.fence = move.gen /\ v.sealed = r.sealed /\ v.trimmed = r.trimmed
      /\ v.leases = r.leases /\ v.stale = r.stale
  BY Zenon, <1>3, <1>4, FencedProperties
<1>6. node' = [node EXCEPT ![serving] = v] /\ move' = At("final")
  BY Zenon, <1>2 DEF Fence, Goto
<1> HIDE DEF v
<1>7. /\ node' = [n \in Nodes |-> node'[n]] /\ \A n \in Nodes : IsCopy(node'[n])
      /\ node'[serving] = v /\ \A n \in Nodes \ {serving} : node'[n] = node[n]
  BY Zenon, <1>1, <1>3, <1>5, <1>6, NodeUpdate
<1>8. /\ move' \in Progress /\ move'.pc = "final" /\ move'.from = serving /\ move'.to = move.to
      /\ move'.gen = move.gen /\ move'.lease = move.lease /\ move'.hwm = move.hwm
  BY Zenon, <1>2, <1>3, <1>6, AtProperties DEF Copying
<1>9. TypeOK'
  BY Zenon, <1>1, <1>2, <1>7, <1>8 DEF TypeOK
<1>10. SourceServes'
  BY Zenon, <1>2, <1>8 DEF SourceServes, Copying
<1>11. LeaseHolds'
  BY Zenon, <1>1, <1>2, <1>5, <1>7, <1>8 DEF LeaseHolds, Copying
<1>12. FencesAreOfMoves'
  <2>1. node[move.to].fence = 0 /\ node'[move.to] = node[move.to]
    BY Zenon, <1>1, <1>2, <1>7 DEF FencesAreOfMoves, Copying
  <2> QED
    BY Zenon, <1>2, <1>4, <1>5, <1>7, <1>8, <2>1 DEF FencesAreOfMoves
<1>13. StragglersAreFenced'
  <2>1. \A w \in Writers : writer[w] # None => writer[w].node \in Nodes
    BY Zenon, <1>1 DEF TypeOK
  <2> QED
    BY Zenon, <1>1, <1>2, <1>7, <1>8, <2>1 DEF StragglersAreFenced
<1>14. CopyFollows'
  <2>1. Follows(ContentOf(node[move.to]), ContentOf(r), Len(r.base) + move.hwm)
    BY Zenon, <1>1, <1>2 DEF CopyFollows, Content, Copying
  <2>2. Follows(ContentOf(node'[move'.to]), ContentOf(node'[move'.from]),
                Len(node'[move'.from].base) + move'.hwm)
    BY Zenon, <1>2, <1>5, <1>7, <1>8, <2>1
  <2> QED
    BY Zenon, <1>8, <2>2 DEF CopyFollows, Content
<1>15. ServesInOrder'
  <2>1. ContentOf(node'[serving]) = ContentOf(node[serving])
    BY Zenon, <1>5, <1>7
  <2> QED
    BY Zenon, <1>1, <1>2, <2>1, InOrderKept
<1> QED
  BY <1>9, <1>10, <1>11, <1>12, <1>13, <1>14, <1>15 DEF HandoffInv

(* The fence that may have been applied is lifted or reported.              *)
LEMMA FenceFailsInv ==
  ASSUME HandoffInv, NEW applied \in BOOLEAN, NEW lifted \in BOOLEAN, FenceFails(applied, lifted)
  PROVE  HandoffInv'
<1> DEFINE r == node[serving]
           s == IF applied THEN Fenced(r) ELSE r
           v == IF lifted THEN Unfenced(s) ELSE s
<1>1. /\ TypeOK /\ SourceServes /\ FencesAreOfMoves
  BY Zenon DEF HandoffInv
<1>2. /\ move.pc = "fence" /\ move.from = serving /\ move.gen = generation + 1
      /\ stranded' = ~ lifted /\ move' = At("release")
      /\ UNCHANGED <<ops, serving, generation, writer, moves>>
  BY Zenon, <1>1 DEF FenceFails, SourceServes, Copying, Goto
<1>3. serving \in Nodes /\ move \in Progress /\ IsCopy(r) /\ generation \in Nat
  BY Zenon, <1>1 DEF TypeOK
<1>4. move.gen \in Nat /\ move.gen # 0 /\ r.fence \in {0, move.gen}
  BY <1>1, <1>2, <1>3 DEF FencesAreOfMoves
<1>5. node' = [node EXCEPT ![serving] = v]
  BY Zenon, <1>2 DEF FenceFails
<1>6. IsCopy(s) /\ ContentOf(s) = ContentOf(r) /\ s.fence \in {0, move.gen}
  BY Zenon, <1>3, <1>4, FencedProperties
<1> HIDE DEF s
<1>7. /\ IsCopy(v) /\ ContentOf(v) = ContentOf(r) /\ v.fence \in {0, move.gen}
      /\ (lifted => v.fence = 0)
  BY Zenon, <1>6, UnfencedProperties
<1> HIDE DEF v
<1>8. move' \in Progress /\ move'.pc = "release" /\ move'.from = serving
  BY Zenon, <1>2, <1>3, AtProperties
<1>9. node'[serving] = v
  BY Zenon, <1>1, <1>3, <1>5, <1>7, NodeUpdate
<1>10. stranded' \in BOOLEAN /\ (~ stranded' => node'[serving].fence = 0)
  BY Zenon, <1>2, <1>7, <1>9
<1> QED
  BY Zenon, <1>2, <1>3, <1>5, <1>7, <1>8, <1>10, MoveOver DEF Content

(* The fence of a move that gives up is lifted or reported.                 *)
LEMMA AbortInv == ASSUME HandoffInv, NEW lifted \in BOOLEAN, Abort(lifted) PROVE HandoffInv'
<1> DEFINE r == node[serving]
           v == IF lifted THEN Unfenced(r) ELSE r
<1>1. /\ TypeOK /\ SourceServes /\ FencesAreOfMoves
  BY Zenon DEF HandoffInv
<1>2. /\ move.from = serving /\ move.gen = generation + 1
      /\ stranded' = ~ lifted /\ move' = At("release")
      /\ UNCHANGED <<ops, serving, generation, writer, moves>>
  BY Zenon, <1>1 DEF Abort, SourceServes, Copying, Goto
<1>3. serving \in Nodes /\ move \in Progress /\ IsCopy(r) /\ r.fence \in {0, move.gen}
  BY Zenon, <1>1, <1>2 DEF TypeOK, FencesAreOfMoves
<1>4. node' = [node EXCEPT ![serving] = v]
  BY Zenon, <1>2 DEF Abort
<1>5. /\ IsCopy(v) /\ ContentOf(v) = ContentOf(r) /\ v.fence \in {0, move.gen}
      /\ (lifted => v.fence = 0)
  BY Zenon, <1>3, UnfencedProperties
<1> HIDE DEF v
<1>6. move' \in Progress /\ move'.pc = "release" /\ move'.from = serving
  BY Zenon, <1>2, <1>3, AtProperties
<1>7. node'[serving] = v
  BY Zenon, <1>1, <1>3, <1>4, <1>5, NodeUpdate
<1>8. stranded' \in BOOLEAN /\ (~ stranded' => node'[serving].fence = 0)
  BY Zenon, <1>2, <1>5, <1>7
<1> QED
  BY Zenon, <1>2, <1>3, <1>4, <1>5, <1>6, <1>8, MoveOver DEF Content

(* A move that gives up before the fence left none.                         *)
LEMMA AbortEarlyInv == ASSUME HandoffInv, AbortEarly PROVE HandoffInv'
<1> DEFINE v == node[serving]
<1>1. /\ TypeOK /\ SourceServes /\ FencesAreOfMoves
  BY Zenon DEF HandoffInv
<1>2. /\ move.from = serving /\ move' = At("release") /\ node' = node
      /\ move.pc \notin {"final", "converge", "flip"}
      /\ UNCHANGED <<ops, serving, generation, writer, moves, stranded>>
  BY Zenon, <1>1 DEF AbortEarly, SourceServes, Copying, Goto
<1>3. /\ serving \in Nodes /\ move \in Progress /\ IsCopy(v) /\ stranded' \in BOOLEAN
      /\ node = [n \in Nodes |-> node[n]]
  BY Zenon, <1>1, <1>2 DEF TypeOK
<1>4. node' = [node EXCEPT ![serving] = v]
  BY Zenon, <1>2, <1>3
<1>5. move' \in Progress /\ move'.pc = "release" /\ move'.from = serving
  BY Zenon, <1>2, <1>3, AtProperties
<1>6. v.fence \in {0, generation + 1} /\ (~ stranded' => node'[serving].fence = 0)
  BY Zenon, <1>1, <1>2 DEF FencesAreOfMoves
<1>7. ContentOf(v) = Content(serving)
  BY Zenon DEF Content
<1> HIDE DEF v
<1> QED
  BY Zenon, <1>2, <1>3, <1>4, <1>5, <1>6, <1>7, MoveOver

(* swap_backing: the target follows to the end, so it is in order too.      *)
LEMMA FlipInv == ASSUME HandoffInv, Flip PROVE HandoffInv'
<1> DEFINE r == node[serving]
           x == move.to
<1>1. /\ TypeOK /\ SourceServes /\ LeaseHolds /\ FencesAreOfMoves /\ StragglersAreFenced
      /\ CopyFollows /\ ServesInOrder
  BY Zenon DEF HandoffInv
<1>2. /\ move.pc = "flip" /\ move.from = serving /\ x \in Nodes \ {serving}
      /\ move.gen = generation + 1 /\ move.hwm = Len(r.log) /\ move' = At("release")
      /\ serving' = x /\ generation' = move.gen /\ stranded' = FALSE
      /\ UNCHANGED <<ops, node, writer, moves>>
  BY Zenon, <1>1 DEF Flip, SourceServes, LeaseHolds, Copying, Goto
<1>3. serving \in Nodes /\ move \in Progress /\ IsCopy(r) /\ IsCopy(node[x]) /\ move.gen \in Nat
  BY Zenon, <1>1, <1>2 DEF TypeOK, Progress
<1>4. move' \in Progress /\ move'.pc = "release" /\ move'.from = serving
  BY Zenon, <1>2, <1>3, AtProperties
<1>5. TypeOK'
  BY Zenon, <1>1, <1>2, <1>3, <1>4 DEF TypeOK
<1>6. SourceServes' /\ LeaseHolds' /\ CopyFollows'
  BY Zenon, <1>3, <1>4 DEF SourceServes, LeaseHolds, CopyFollows, Copying
<1>7. node[x].fence = 0 /\ node[serving].fence # 0
  BY Zenon, <1>1, <1>2 DEF FencesAreOfMoves, Copying
<1>8. FencesAreOfMoves'
  BY Zenon, <1>2, <1>4, <1>7 DEF FencesAreOfMoves, Copying
<1>9. StragglersAreFenced'
  BY Zenon, <1>1, <1>2, <1>4, <1>7 DEF StragglersAreFenced
<1>10. ServesInOrder'
  <2> DEFINE t == ContentOf(node[x])
             c == ContentOf(r)
  <2>1. t \in Seq(Entry) /\ c \in Seq(Entry) /\ Len(c) = Len(r.base) + Len(r.log)
    BY Zenon, <1>3, ContentProperties DEF IsCopy
  <2>2. Follows(t, c, Len(c)) /\ InOrder(c)
    BY Zenon, <1>1, <1>2, <2>1 DEF CopyFollows, ServesInOrder, Content, Copying
  <2> HIDE DEF t, c
  <2>3. InOrder(t)
    BY Zenon, <2>1, <2>2, FollowerIsInOrder
  <2>4. ContentOf(node'[serving']) = t
    BY Zenon, <1>2 DEF t
  <2> QED
    BY <1>2, <2>3, <2>4 DEF ServesInOrder, InOrder, Content
<1> QED
  BY Zenon, <1>5, <1>6, <1>8, <1>9, <1>10 DEF HandoffInv

(* release: the lease goes, the fence of a flipped source stays.            *)
LEMMA ReleaseInv == ASSUME HandoffInv, NEW done \in BOOLEAN, Release(done) PROVE HandoffInv'
<1> DEFINE x == move.from
           r == node[x]
           k == [l \in DOMAIN r.leases \ {move.lease} |-> r.leases[l]]
           st == r.stale \ {move.lease}
           s == WithLeases(r, k, st, r.nextLease)
           v == IF done THEN s ELSE r
<1>1. /\ TypeOK /\ SourceServes /\ FencesAreOfMoves
  BY Zenon DEF HandoffInv
<1>2. /\ move.pc = "release" /\ x \in Nodes /\ node' = [node EXCEPT ![x] = v] /\ move' = NoMove
      /\ UNCHANGED <<ops, serving, generation, writer, moves, stranded>>
  BY Zenon, <1>1 DEF Release, SourceServes
<1>3. IsCopy(r) /\ stranded' \in BOOLEAN /\ serving \in Nodes
  BY Zenon, <1>1, <1>2 DEF TypeOK
<1>4. /\ k = [l \in DOMAIN k |-> k[l]] /\ st \subseteq DOMAIN k /\ r.nextLease \in Nat
      /\ \A l \in DOMAIN k : l \in Nat /\ l < r.nextLease /\ k[l] \in 0 .. Len(r.log)
  BY Zenon, <1>3 DEF IsCopy
<1> HIDE DEF x, r, k, st
<1>5. IsCopy(s) /\ ContentOf(s) = ContentOf(r) /\ s.fence = r.fence
  BY <1>3, <1>4, WithLeasesProperties
<1> HIDE DEF s
<1>6. IsCopy(v) /\ ContentOf(v) = ContentOf(r) /\ v.fence = r.fence
  BY Zenon, <1>3, <1>5
<1> HIDE DEF v
<1>7. move' \in Progress /\ move'.pc = "idle"
  BY Zenon, <1>2, NoMoveProperties
<1>8. ContentOf(v) = Content(x) /\ v.fence = node[x].fence
  BY Zenon, <1>6 DEF r, Content
<1>9. /\ node'[x] = v /\ \A n \in Nodes \ {x} : node'[n] = node[n]
  BY Zenon, <1>1, <1>2, <1>6, NodeUpdate
<1>10. node'[serving].fence = node[serving].fence
  BY Zenon, <1>3, <1>8, <1>9
<1>11. /\ x = serving => v.fence \in {0, generation + 1}
       /\ ~ stranded' => node'[serving].fence = 0
  BY Zenon, <1>1, <1>2, <1>8, <1>10 DEF FencesAreOfMoves
<1> QED
  BY Zenon, <1>2, <1>3, <1>6, <1>7, <1>8, <1>11, MoveOver

(* Nothing happens.                                                         *)
LEMMA HandoffStutter == ASSUME HandoffInv, UNCHANGED vars PROVE HandoffInv'
<1>1. UNCHANGED <<ops, node, serving, generation, writer, move, moves, stranded>>
  BY Zenon DEF vars
<1>2. /\ TypeOK /\ SourceServes /\ LeaseHolds /\ FencesAreOfMoves /\ StragglersAreFenced
      /\ CopyFollows /\ ServesInOrder
  BY Zenon DEF HandoffInv
<1>3. TypeOK' /\ SourceServes' /\ LeaseHolds' /\ FencesAreOfMoves' /\ StragglersAreFenced'
  BY Zenon, <1>1, <1>2 DEF TypeOK, SourceServes, LeaseHolds, FencesAreOfMoves, StragglersAreFenced
<1>4. CopyFollows'
  BY Zenon, <1>1, <1>2 DEF CopyFollows, Content
<1>5. ServesInOrder'
  BY Zenon, <1>1, <1>2, InOrderKept
<1> QED
  BY Zenon, <1>3, <1>4, <1>5 DEF HandoffInv

(* What the move is trusted with: requests to a node end within its drain,  *)
(* the heartbeat keeps the lease of a running move, and the serving node    *)
(* does not restart under one.                                              *)
MoveUndisturbed == ~ Straggle /\ ~ LiveLeaseExpires /\ ~ RestartsMidMove

(* Every step of a move, and of the writes and the maintenance beside it,   *)
(* keeps the invariant.                                                     *)
LEMMA HandoffStep ==
  ASSUME HandoffInv, MoveUndisturbed, [Next]_vars PROVE HandoffInv'
<1>0. ~ Straggle /\ ~ LiveLeaseExpires /\ ~ RestartsMidMove
  BY Zenon DEF MoveUndisturbed
<1>1. ASSUME NEW w \in Writers, Send(w) \/ Admit(w) PROVE HandoffInv'
  BY Zenon, <1>1, SendInv, AdmitInv
<1>2. ASSUME NEW w \in Writers, NEW id \in Ids, NEW kind \in Kinds, Apply(w, id, kind)
      PROVE  HandoffInv'
  BY Zenon, <1>2, ApplyInv
<1>3. CASE Flush \/ Seal \/ Restart
  BY Zenon, <1>0, <1>3, FlushInv, SealInv, RestartInv
<1>4. ASSUME NEW l \in DOMAIN node[serving].leases, LeaseExpires(l) PROVE HandoffInv'
  BY Zenon, <1>0, <1>4, LeaseExpiresInv
<1>5. ASSUME NEW to \in Nodes, Begin(to) PROVE HandoffInv'
  BY Zenon, <1>5, BeginInv
<1>6. CASE MoveStep
  <2>1. CASE AcquireLease \/ SealForCopy \/ ListSegments \/ Install \/ ClearStaleFence
    BY Zenon, <1>0, <2>1, AcquireLeaseInv, SealForCopyInv, ListSegmentsInv, InstallInv,
       ClearStaleFenceInv
  <2>2. CASE Drain
    <3>1. CatchUp("drain", "renew")
      BY Zenon, <2>2 DEF Drain
    <3> QED
      BY Zenon, <3>1, CatchUpInv
  <2>3. CASE FinalDrain
    <3>1. /\ CatchUp("final", "converge")
          /\ \A w \in InFlight : ~ (writer[w].node = move.from /\ writer[w].admitted)
      BY Zenon, <1>0, <2>3 DEF FinalDrain
    <3> QED
      BY Zenon, <3>1, CatchUpInv
  <2>4. CASE Renew \/ Fence \/ Converge \/ Flip
    BY Zenon, <2>4, RenewInv, FenceInv, ConvergeInv, FlipInv
  <2>5. ASSUME NEW done \in BOOLEAN, Release(done) PROVE HandoffInv'
    BY Zenon, <2>5, ReleaseInv
  <2> QED
    BY Zenon, <1>6, <2>1, <2>2, <2>3, <2>4, <2>5 DEF MoveStep
<1>7. ASSUME NEW applied \in BOOLEAN, NEW lifted \in BOOLEAN, FenceFails(applied, lifted)
      PROVE  HandoffInv'
  BY Zenon, <1>7, FenceFailsInv
<1>8. ASSUME NEW lifted \in BOOLEAN, Abort(lifted) PROVE HandoffInv'
  BY Zenon, <1>8, AbortInv
<1>9. ASSUME NEW registered \in BOOLEAN, AcquireFails(registered) PROVE HandoffInv'
  BY Zenon, <1>9, AcquireFailsInv
<1>10. CASE AbortEarly
  BY Zenon, <1>10, AbortEarlyInv
<1>11. CASE UNCHANGED vars
  BY Zenon, <1>11, HandoffStutter
<1> QED
  BY <1>1, <1>2, <1>3, <1>4, <1>5, <1>6, <1>7, <1>8, <1>9, <1>10, <1>11 DEF Next

(* While moves are undisturbed, HandoffInv holds in every state of          *)
(* execute_handoff, the writes and the checkpoints beside it.               *)
THEOREM CopiesFollow == ASSUME MoveUndisturbed PROVE Spec => []HandoffInv
<1>1. Init => HandoffInv
  BY Zenon, HandoffInitInv
<1>2. HandoffInv /\ [Next]_vars => HandoffInv'
  BY Zenon, HandoffStep
<1> QED
  BY <1>1, <1>2, PTL DEF Spec

(* While moves are undisturbed, the node the route leads to has every       *)
(* accepted write in its order, no tail a move needs is trimmed, and a      *)
(* position that is not moving takes writes, for any nodes, writers and     *)
(* number of moves.                                                         *)
THEOREM MoveSafe == ASSUME MoveUndisturbed PROVE Spec => []MoveIsSafe
<1>1. ASSUME HandoffInv PROVE MoveIsSafe
  <2>1. TypeOK /\ LeaseHolds /\ FencesAreOfMoves /\ ServesInOrder
    BY Zenon, <1>1 DEF HandoffInv
  <2>2. ServesEveryWrite
    <3>1. Content(serving) \in Seq(Entry)
      BY Zenon, <2>1, ContentProperties DEF TypeOK, IsCopy, Content
    <3> QED
      BY Zenon, <2>1, <3>1, InOrderIsExact DEF TypeOK, ServesInOrder, ServesEveryWrite
  <2>3. TailIsRetained
    BY Zenon, <2>1 DEF LeaseHolds, TailIsRetained
  <2>4. WritableBetweenMoves
    BY Zenon, <2>1 DEF FencesAreOfMoves, WritableBetweenMoves
  <2> QED
    BY Zenon, <2>2, <2>3, <2>4 DEF MoveIsSafe
<1>2. Spec => []HandoffInv
  BY Zenon, CopiesFollow
<1> QED
  BY <1>1, <1>2, PTL
=============================================================================
