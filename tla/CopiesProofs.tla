---------------------------- MODULE CopiesProofs ----------------------------
(***************************************************************************)
(* Proofs about a shard position with replicas, for any copies, queries,   *)
(* writes, reads, seals, recoveries and restarts: a read that is answered  *)
(* was answered by one copy, with every query once, each with a text the   *)
(* query could have while the read was under way. GroupInv says that the   *)
(* copies a read may reach hold no other texts, where a write has got to   *)
(* and which copies have it, and that a copy being recovered differs from  *)
(* the primary only in what is still to be drained, which the lease        *)
(* retains.                                                                *)
(***************************************************************************)
EXTENDS ReplicaGroup, WellFoundedInduction, TLAPS

(* What the sequence operators return.                                      *)
LEMMA ConcatEntries ==
  ASSUME NEW S, NEW s \in Seq(S), NEW t \in Seq(S)
  PROVE  /\ s \o t \in Seq(S) /\ Len(s \o t) = Len(s) + Len(t)
         /\ \A k \in 1 .. (Len(s) + Len(t)) : (s \o t)[k] = IF k <= Len(s) THEN s[k] ELSE t[k - Len(s)]
  OBVIOUS

(* Sequences with the same entries are equal.                               *)
LEMMA SameEntries ==
  ASSUME NEW S, NEW s \in Seq(S), NEW t \in Seq(S), Len(s) = Len(t),
         \A k \in 1 .. Len(s) : s[k] = t[k]
  PROVE  s = t
  OBVIOUS

Entry == [id : SUBSET QueryIds, val : Nat]

CopyRecord == [base : Seq(Entry), log : Seq(Entry), ckpt : Nat, trimmed : Nat, leases : SUBSET Nat]

(* What a copy has stored, and the end of its translog.                     *)
Content(r) == r.base \o r.log
End(r) == Len(r.log)

(* What a copy holds for a query, and for all of them.                      *)
Held(cp, c, id) == Last(Content(cp[c]), id)
Contents(cp, c) == [id \in QueryIds |-> Held(cp, c, id)]

(* The translog has an entry of the query past a position.                  *)
Later(r, from, id) == \E k \in (from + 1) .. End(r) : r.log[k].id = {id}

CopyOK(r) == r \in CopyRecord /\ r.trimmed <= r.ckpt /\ r.ckpt <= End(r)

Members == {replicas[k] : k \in DOMAIN replicas}

(* The copies a read may be sent to.                                        *)
Current == {PrimaryCopy} \cup inSync

WriteRecord == [id : QueryIds, how : Hows, val : Nat, next : Nat]

ReadRecord ==
  [at : Copies, others : Seq(Copies), streams : BOOLEAN,
   state : {"asked", "open", "done", "failed"}, view : [QueryIds -> Nat],
   chunks : SUBSET [id : QueryIds, from : Copies, val : Nat], allowed : [QueryIds -> SUBSET Nat]]

RecoveryRecord ==
  [pc : {"lease", "seal", "copy", "drain", "promote"}, to : Copies, from : Nat, passes : Nat]

ConnectRecord == [next : Nat, proven : SUBSET Copies, primary : SUBSET [QueryIds -> Nat]]

AtMostOne(S) == \A x, y \in S : x = y

GroupTypeOK ==
  /\ place \in {"local", "remote"}
  /\ left \in [writes : Nat, reads : Nat, seals : Nat, stops : Nat, recoveries : Nat]
  /\ copy \in [Copies -> CopyRecord] /\ \A c \in Copies : CopyOK(copy[c])
  /\ replicas \in Seq(Copies \ {PrimaryCopy})
  /\ \A j, k \in DOMAIN replicas : replicas[j] = replicas[k] => j = k
  /\ inSync \subseteq Members
  /\ writing \subseteq WriteRecord /\ AtMostOne(writing)
  /\ pending \in [QueryIds -> SUBSET Nat] /\ may \in [QueryIds -> SUBSET Nat]
  /\ reading \subseteq ReadRecord /\ AtMostOne(reading)
  /\ recovery \subseteq RecoveryRecord /\ AtMostOne(recovery)
  /\ connecting \subseteq ConnectRecord /\ AtMostOne(connecting)
  /\ connecting # {} => place = "remote" /\ writing = {} /\ reading = {}
  /\ recovery # {} => place = "local"

(* A copy in sync holds what its queries may hold, and no write that is     *)
(* still to come has been stored.                                           *)
HeldOK ==
  \A c \in Current, id \in QueryIds :
    Held(copy, c, id) \in may[id] /\ (Held(copy, c, id) = 0 \/ Held(copy, c, id) > left.writes)

(* A write that the primary has applied is on the primary and on the        *)
(* replicas in sync it was sent to; a conditional one that it has not       *)
(* applied is nowhere.                                                      *)
WriteOK(w) ==
  /\ w.val \in may[w.id] /\ (w.val = 0 \/ w.val > left.writes)
  /\ w.next >= 1 =>
       /\ Held(copy, PrimaryCopy, w.id) = w.val
       /\ \A k \in DOMAIN replicas :
            k < w.next /\ replicas[k] \in inSync => Held(copy, replicas[k], w.id) = w.val
  /\ w.how = "conditional" /\ w.next = 0 => \A c \in Current : Held(copy, c, w.id) # w.val

PendingOK == \A id \in QueryIds : \A val \in pending[id] : val = 0 \/ val > left.writes

(* A read may give whatever a query may hold since it began, and its copy   *)
(* holds no other.                                                          *)
ReadOK(r) ==
  /\ r.at \in {PrimaryCopy} \cup Members /\ \A k \in DOMAIN r.others : r.others[k] \in Members
  /\ \A id \in QueryIds : may[id] \subseteq r.allowed[id]
  /\ r.state = "asked" => r.chunks = {} /\ \A id \in QueryIds : Held(copy, r.at, id) \in r.allowed[id]
  /\ r.state \in {"open", "done"} =>
       /\ r.chunks \subseteq {Chunk(r, id) : id \in QueryIds}
       /\ \A id \in QueryIds : r.view[id] \in r.allowed[id]
  /\ r.state = "done" => r.chunks = {Chunk(r, id) : id \in QueryIds}

(* What is to be drained is retained, and a copy that is recovered differs  *)
(* from the primary only in what is still to be drained.                    *)
RecoveryOK(v) ==
  LET source == copy[PrimaryCopy]
  IN  /\ v.to # PrimaryCopy /\ v.to \notin Members /\ v.from <= End(source)
      /\ v.pc # "lease" => source.leases # {} /\ \A l \in source.leases : l <= v.from
      /\ v.pc \in {"copy", "drain", "promote"} => source.trimmed <= v.from
      /\ v.pc \in {"drain", "promote"} =>
           \A id \in QueryIds :
             \/ Held(copy, v.to, id) = Held(copy, PrimaryCopy, id)
             \/ Later(source, v.from, id)

(* A replica that was proven holds what the primary holds.                  *)
ConnectOK(c) ==
  /\ c.next >= 1 /\ c.primary \subseteq {Contents(copy, PrimaryCopy)}
  /\ \A r \in c.proven :
       /\ \E k \in DOMAIN replicas : k < c.next /\ replicas[k] = r
       /\ \A id \in QueryIds : Held(copy, r, id) = Held(copy, PrimaryCopy, id)

GroupInv ==
  /\ GroupTypeOK /\ HeldOK /\ PendingOK
  /\ (\A w \in writing : WriteOK(w)) /\ (\A r \in reading : ReadOK(r))
  /\ (\A v \in recovery : RecoveryOK(v)) /\ (\A c \in connecting : ConnectOK(c))

(* The least and the greatest of some numbers.                              *)
LEMMA LeastIsThere ==
  ASSUME NEW S \in SUBSET Nat, S # {}
  PROVE  Min(S) \in S /\ \A y \in S : Min(S) <= y
<1> DEFINE R == OpToRel(<, Nat)
<1>1. IsWellFoundedOn(R, Nat)
  BY Zenon, NatLessThanWellFounded
<1>2. \A x, y \in Nat : y < x => <<y, x>> \in R
  BY Zenon DEF OpToRel
<1> HIDE DEF R
<1>4. PICK x \in S : \A y \in S : ~ (<<y, x>> \in R)
  BY Zenon, <1>1, WFMin
<1>5. ASSUME NEW y \in S PROVE x <= y
  <2>1. x \in Nat /\ y \in Nat /\ ~ (y < x)
    BY Zenon, <1>2, <1>4
  <2> QED
    BY <2>1
<1> QED
  BY Zenon, <1>5 DEF Min

(* A non-empty set of numbers below a bound has a greatest one.             *)
LEMMA GreatestIsThere ==
  ASSUME NEW n \in Nat, NEW S \in SUBSET (0 .. n), S # {}
  PROVE  Max(S) \in S /\ \A y \in S : y <= Max(S)
<1> DEFINE D == {n - x : x \in S}
<1>1. D \in SUBSET Nat /\ D # {}
  <2>2. PICK x \in S : TRUE
    BY Zenon
  <2> QED
    OBVIOUS
<1>2. Min(D) \in D /\ \A y \in D : Min(D) <= y
  BY Zenon, <1>1, LeastIsThere
<1>3. PICK m \in S : Min(D) = n - m
  BY Zenon, <1>2
<1>4. ASSUME NEW y \in S PROVE y <= m
  <2>1. n - y \in D
    BY Zenon
  <2>2. n - m <= n - y
    BY Zenon, <1>2, <1>3, <2>1
  <2> QED
    BY <2>2
<1>5. \E x \in S : \A y \in S : x >= y
  <2>1. \A y \in S : m >= y
    BY Zenon, <1>4
  <2> QED
    BY Zenon, <2>1
<1>6. Max(S) \in S /\ \A y \in S : Max(S) >= y
  BY Zenon, <1>5 DEF Max
<1> QED
  BY Zenon, <1>6

(* A sequence of entries has one for a query.                               *)
Mentions(s, id) == \E k \in DOMAIN s : s[k].id = {id}

(* What Last finds in a sequence of entries.                                *)
LEMMA LastIsFound ==
  ASSUME NEW s \in Seq(Entry), NEW id, NEW k \in DOMAIN s, s[k].id = {id},
         \A j \in DOMAIN s : s[j].id = {id} => j <= k
  PROVE  Last(s, id) = s[k].val
<1> DEFINE at == {j \in DOMAIN s : s[j].id = {id}}
<1>1. k \in at /\ at \in SUBSET (0 .. Len(s)) /\ Len(s) \in Nat
  OBVIOUS
<1>2. Max(at) \in at /\ \A y \in at : y <= Max(at)
  BY Zenon, <1>1, GreatestIsThere
<1>3. Max(at) = k
  <2>1. Max(at) \in DOMAIN s /\ s[Max(at)].id = {id} /\ k <= Max(at)
    BY Zenon, <1>2
  <2> HIDE DEF at
  <2> QED
    BY <2>1
<1> QED
  BY Zenon, <1>3 DEF Last

(* A query no entry names is not held.                                      *)
LEMMA LastOfNone ==
  ASSUME NEW s \in Seq(Entry), NEW id, \A k \in DOMAIN s : s[k].id # {id}
  PROVE  Last(s, id) = 0
  BY Zenon DEF Last

(* A query some entry names has the text of the last such entry.            *)
LEMMA LastIs ==
  ASSUME NEW s \in Seq(Entry), NEW id, \E k \in DOMAIN s : s[k].id = {id}
  PROVE  \E k \in DOMAIN s : /\ s[k].id = {id} /\ Last(s, id) = s[k].val
                             /\ \A j \in DOMAIN s : s[j].id = {id} => j <= k
<1> DEFINE at == {j \in DOMAIN s : s[j].id = {id}}
<1>1. at # {} /\ at \in SUBSET (0 .. Len(s)) /\ Len(s) \in Nat
  OBVIOUS
<1>2. Max(at) \in at /\ \A y \in at : y <= Max(at)
  BY Zenon, <1>1, GreatestIsThere
<1>3. Last(s, id) = s[Max(at)].val
  BY Zenon DEF Last
<1> QED
  BY Zenon, <1>2, <1>3

(* What is held is the number of a write, or 0.                             *)
LEMMA LastType == ASSUME NEW s \in Seq(Entry), NEW id PROVE Last(s, id) \in Nat
<1>1. CASE \A k \in DOMAIN s : s[k].id # {id}
  <2>1. Last(s, id) = 0
    BY Zenon, <1>1, LastOfNone
  <2> QED
    BY <2>1
<1>2. CASE ~ \A k \in DOMAIN s : s[k].id # {id}
  <2>1. PICK k \in DOMAIN s : Last(s, id) = s[k].val
    BY Zenon, <1>2, LastIs
  <2>2. s[k] \in Entry
    OBVIOUS
  <2> QED
    BY Zenon, <2>1, <2>2 DEF Entry
<1> QED
  BY Zenon, <1>1, <1>2

(* A later sequence of entries decides the queries it mentions.             *)
LEMMA LastConcat ==
  ASSUME NEW s \in Seq(Entry), NEW t \in Seq(Entry), NEW id
  PROVE  /\ Mentions(t, id) => Last(s \o t, id) = Last(t, id)
         /\ ~ Mentions(t, id) => Last(s \o t, id) = Last(s, id)
<1> USE DEF Mentions
<1> DEFINE u == s \o t
<1>1. /\ u \in Seq(Entry) /\ Len(s) \in Nat /\ Len(t) \in Nat
      /\ DOMAIN s = 1 .. Len(s) /\ DOMAIN t = 1 .. Len(t) /\ DOMAIN u = 1 .. (Len(s) + Len(t))
      /\ \A k \in DOMAIN s : k \in DOMAIN u /\ u[k] = s[k]
      /\ \A k \in DOMAIN t : Len(s) + k \in DOMAIN u /\ u[Len(s) + k] = t[k]
      /\ \A k \in DOMAIN u : k \in DOMAIN s \/ (k - Len(s) \in DOMAIN t /\ u[k] = t[k - Len(s)])
  OBVIOUS
<1> HIDE DEF u
<1>2. CASE \E k \in DOMAIN t : t[k].id = {id}
  <2>1. PICK k \in DOMAIN t : /\ t[k].id = {id} /\ Last(t, id) = t[k].val
                              /\ \A j \in DOMAIN t : t[j].id = {id} => j <= k
    BY Zenon, <1>2, LastIs
  <2>2. Len(s) + k \in DOMAIN u /\ u[Len(s) + k] = t[k]
    BY Zenon, <1>1
  <2>3. ASSUME NEW j \in DOMAIN u, u[j].id = {id} PROVE j <= Len(s) + k
    <3>2. CASE j - Len(s) \in DOMAIN t /\ u[j] = t[j - Len(s)]
      <4>1. j - Len(s) <= k
        BY Zenon, <2>1, <2>3, <3>2
      <4> QED
        BY <4>1
    <3> QED
      BY <1>1, <3>2
  <2>4. Last(u, id) = u[Len(s) + k].val
    <3> DEFINE n == Len(s) + k
    <3>1. n \in DOMAIN u /\ u[n].id = {id} /\ \A j \in DOMAIN u : u[j].id = {id} => j <= n
      BY Zenon, <2>1, <2>2, <2>3
    <3> HIDE DEF n
    <3>2. Last(u, id) = u[n].val
      BY Zenon, <1>1, <3>1, LastIsFound
    <3> QED
      BY Zenon, <3>2 DEF n
  <2> QED
    BY <2>1, <2>4 DEF u
<1>3. CASE ~ \E k \in DOMAIN t : t[k].id = {id}
  <2>1. CASE \E k \in DOMAIN s : s[k].id = {id}
    <3>1. PICK k \in DOMAIN s : /\ s[k].id = {id} /\ Last(s, id) = s[k].val
                                /\ \A j \in DOMAIN s : s[j].id = {id} => j <= k
      BY Zenon, <2>1, LastIs
    <3>2. \A j \in DOMAIN u : u[j].id = {id} => j <= k
      BY Zenon, <1>1, <1>3, <3>1
    <3>3. k \in DOMAIN u /\ u[k].id = {id} /\ u[k].val = s[k].val
      BY Zenon, <1>1, <3>1
    <3>4. Last(u, id) = u[k].val
      BY Zenon, <1>1, <3>2, <3>3, LastIsFound
    <3> QED
      BY <1>3, <3>1, <3>4 DEF u
  <2>2. CASE ~ \E k \in DOMAIN s : s[k].id = {id}
    <3>1. \A k \in DOMAIN u : u[k].id # {id}
      BY Zenon, <1>1, <1>3, <2>2
    <3>2. Last(u, id) = 0 /\ Last(s, id) = 0
      BY Zenon, <1>1, <3>1, LastOfNone
    <3> QED
      BY Zenon, <1>3, <3>2 DEF u
  <2> QED
    BY Zenon, <2>1, <2>2
<1> QED
  BY Zenon, <1>2, <1>3

(* A concatenation mentions what its parts mention.                         *)
LEMMA ConcatMentions ==
  ASSUME NEW s \in Seq(Entry), NEW t \in Seq(Entry), NEW id
  PROVE  Mentions(s \o t, id) <=> Mentions(s, id) \/ Mentions(t, id)
<1> DEFINE u == s \o t
<1>1. /\ \A k \in DOMAIN s : k \in DOMAIN u /\ u[k] = s[k]
      /\ \A k \in DOMAIN t : Len(s) + k \in DOMAIN u /\ u[Len(s) + k] = t[k]
      /\ \A k \in DOMAIN u : k \in DOMAIN s \/ (k - Len(s) \in DOMAIN t /\ u[k] = t[k - Len(s)])
  OBVIOUS
<1> HIDE DEF u
<1>2. Mentions(u, id) => Mentions(s, id) \/ Mentions(t, id)
  BY Zenon, <1>1 DEF Mentions
<1>3. Mentions(s, id) => Mentions(u, id)
  BY Zenon, <1>1 DEF Mentions
<1>4. Mentions(t, id) => Mentions(u, id)
  BY Zenon, <1>1 DEF Mentions
<1> QED
  BY Zenon, <1>2, <1>3, <1>4 DEF u

(* The same for three sequences: the last one that mentions a query         *)
(* decides.                                                                 *)
LEMMA Spliced ==
  ASSUME NEW s \in Seq(Entry), NEW t \in Seq(Entry), NEW u \in Seq(Entry), NEW id
  PROVE  /\ Mentions(u, id) => Last(s \o (t \o u), id) = Last(u, id)
         /\ ~ Mentions(u, id) => Last(s \o (t \o u), id) = Last(s \o t, id)
<1> DEFINE tu == t \o u
<1>1. tu \in Seq(Entry)
  OBVIOUS
<1>2. Mentions(tu, id) <=> Mentions(t, id) \/ Mentions(u, id)
  BY Zenon, ConcatMentions
<1>3. /\ Mentions(u, id) => Last(tu, id) = Last(u, id)
      /\ ~ Mentions(u, id) => Last(tu, id) = Last(t, id)
  BY Zenon, LastConcat
<1> HIDE DEF tu
<1>4. /\ Mentions(tu, id) => Last(s \o tu, id) = Last(tu, id)
      /\ ~ Mentions(tu, id) => Last(s \o tu, id) = Last(s, id)
  BY <1>1, LastConcat
<1>5. /\ Mentions(t, id) => Last(s \o t, id) = Last(t, id)
      /\ ~ Mentions(t, id) => Last(s \o t, id) = Last(s, id)
  BY LastConcat
<1> QED
  BY Zenon, <1>2, <1>3, <1>4, <1>5 DEF tu

(* The fields of a sound copy.                                              *)
LEMMA CopyFacts ==
  ASSUME NEW r, CopyOK(r)
  PROVE  /\ r.base \in Seq(Entry) /\ r.log \in Seq(Entry) /\ r.ckpt \in Nat /\ r.trimmed \in Nat
         /\ r.leases \in SUBSET Nat /\ End(r) \in Nat /\ End(r) = Len(r.log) /\ r \in CopyRecord
         /\ r.trimmed <= r.ckpt /\ r.ckpt <= End(r) /\ Content(r) \in Seq(Entry)
         /\ DOMAIN r.log = 1 .. End(r)
<1>1. /\ r.base \in Seq(Entry) /\ r.log \in Seq(Entry) /\ r.ckpt \in Nat /\ r.trimmed \in Nat
      /\ r.leases \in SUBSET Nat /\ r \in CopyRecord /\ r.trimmed <= r.ckpt /\ r.ckpt <= End(r)
  BY Zenon DEF CopyOK, CopyRecord
<1>2. End(r) = Len(r.log) /\ End(r) \in Nat /\ DOMAIN r.log = 1 .. End(r)
  BY DEF End
<1>3. Content(r) \in Seq(Entry)
  BY <1>1 DEF Content
<1> QED
  BY Zenon, <1>1, <1>2, <1>3

(* An entry is appended.                                                    *)
LEMMA LastAppended ==
  ASSUME NEW b \in Seq(Entry), NEW l \in Seq(Entry), NEW e \in Entry,
         NEW id \in QueryIds, NEW i \in QueryIds, e.id = {id}
  PROVE  /\ i = id => Last(b \o Append(l, e), i) = e.val
         /\ i # id => Last(b \o Append(l, e), i) = Last(b \o l, i)
<1> DEFINE one == <<e>>
<1>1. one \in Seq(Entry) /\ Len(one) = 1 /\ DOMAIN one = {1} /\ one[1] = e
  OBVIOUS
<1>2. Append(l, e) = l \o one
  OBVIOUS
<1> HIDE DEF one
<1>3. /\ Mentions(one, i) => Last(b \o (l \o one), i) = Last(one, i)
      /\ ~ Mentions(one, i) => Last(b \o (l \o one), i) = Last(b \o l, i)
  BY <1>1, Spliced
<1>4. Mentions(one, i) <=> i = id
  BY Zenon, <1>1 DEF Mentions
<1>5. Last(one, id) = e.val
  <2>1. \A j \in DOMAIN one : one[j].id = {id} => j <= 1
    BY <1>1
  <2>2. Last(one, id) = one[1].val
    BY <1>1, <2>1, LastIsFound
  <2> QED
    BY Zenon, <1>1, <2>2
<1> QED
  BY Zenon, <1>2, <1>3, <1>4, <1>5

Appended(log, id, val) == Append(log, Stored(id, val))

(* A copy that stores a write holds its text, and what it held of the       *)
(* others.                                                                  *)
LEMMA PutContent ==
  ASSUME NEW r, CopyOK(r), NEW id \in QueryIds, NEW val \in Nat,
         NEW q \in CopyRecord, q.base = r.base, q.log = Appended(r.log, id, val),
         q.trimmed = r.trimmed, q.ckpt = r.ckpt
  PROVE  /\ CopyOK(q) /\ End(q) = End(r) + 1
         /\ \A k \in 1 .. End(r) : q.log[k] = r.log[k]
         /\ q.log[End(q)].id = {id}
         /\ Last(Content(q), id) = val
         /\ \A i \in QueryIds \ {id} : Last(Content(q), i) = Last(Content(r), i)
<1> DEFINE e == Stored(id, val)
           b == r.base
           l == r.log
<1>1. /\ b \in Seq(Entry) /\ l \in Seq(Entry) /\ End(r) \in Nat /\ End(r) = Len(l)
      /\ r.trimmed <= r.ckpt /\ r.ckpt <= End(r) /\ r.ckpt \in Nat /\ r.trimmed \in Nat
  BY Zenon, CopyFacts
<1>2. e \in Entry /\ e.id = {id} /\ e.val = val
  BY Zenon DEF Stored, Entry
<1>3. q.log = Append(l, e) /\ Content(q) = b \o Append(l, e) /\ Content(r) = b \o l
  BY Zenon DEF Content, Appended
<1> HIDE DEF e, b, l
<1>5. End(q) = End(r) + 1
  BY <1>1, <1>3 DEF End
<1>6. /\ \A k \in 1 .. End(r) : q.log[k] = l[k]
      /\ q.log[End(r) + 1] = e
  BY <1>1, <1>3
<1>7. CopyOK(q)
  BY <1>1, <1>5 DEF CopyOK
<1>8. ASSUME NEW i \in QueryIds
      PROVE  /\ i = id => Last(b \o Append(l, e), i) = e.val
             /\ i # id => Last(b \o Append(l, e), i) = Last(b \o l, i)
  BY <1>1, <1>2, LastAppended
<1> QED
  BY Zenon, <1>2, <1>3, <1>5, <1>6, <1>7, <1>8 DEF l

(* A new copy made of some entries holds those and has an empty translog.   *)
LEMMA NewCopyContent ==
  ASSUME NEW s \in Seq(Entry)
  PROVE  /\ CopyOK(NewCopy(s)) /\ NewCopy(s).log = <<>> /\ NewCopy(s).trimmed = 0
         /\ \A id \in QueryIds : Last(Content(NewCopy(s)), id) = Last(s, id)
<1>1. /\ NewCopy(s).base = s /\ NewCopy(s).log = <<>> /\ NewCopy(s).ckpt = 0
      /\ NewCopy(s).trimmed = 0 /\ NewCopy(s).leases = {}
  BY Zenon DEF NewCopy
<1>3. NewCopy(s) \in CopyRecord
  BY DEF NewCopy, CopyRecord
<1>4. CopyOK(NewCopy(s))
  BY <1>1, <1>3 DEF CopyOK, End
<1> QED
  BY <1>1, <1>4 DEF Content

(* A translog is what comes up to a position, and what comes after it.      *)
LEMMA Halves ==
  ASSUME NEW log \in Seq(Entry), NEW from \in 0 .. Len(log)
  PROVE  /\ SubSeq(log, 1, from) \in Seq(Entry) /\ SubSeq(log, from + 1, Len(log)) \in Seq(Entry)
         /\ log = SubSeq(log, 1, from) \o SubSeq(log, from + 1, Len(log))
         /\ \A id : Mentions(SubSeq(log, from + 1, Len(log)), id)
                    <=> \E k \in (from + 1) .. Len(log) : log[k].id = {id}
<1> DEFINE h == SubSeq(log, 1, from)
           t == SubSeq(log, from + 1, Len(log))
           n == Len(log)
<1>1. n \in Nat /\ DOMAIN log = 1 .. n /\ \A k \in 1 .. n : log[k] \in Entry
  OBVIOUS
<1>2. /\ h \in Seq(Entry) /\ Len(h) = from /\ \A k \in 1 .. from : h[k] = log[k]
  OBVIOUS
<1>3. /\ t \in Seq(Entry) /\ Len(t) = n - from /\ \A k \in 1 .. (n - from) : t[k] = log[from + k]
  <2> DEFINE m == from + 1
  <2>0. from \in Nat /\ from <= n /\ n \in Nat
    OBVIOUS
  <2>1. m \in Int /\ n \in Int /\ \A i \in m .. n : log[i] \in Entry
    OBVIOUS
  <2>2. t = SubSeq(log, m, n)
    BY Zenon
  <2> HIDE DEF m, n, t
  <2>3. /\ t \in Seq(Entry) /\ Len(t) = (IF m <= n THEN n - m + 1 ELSE 0)
        /\ \A i \in 1 .. n - m + 1 : t[i] = log[m + i - 1]
    BY <2>1, <2>2
  <2>4. \A i \in 1 .. n - from : m + i - 1 = from + i /\ i \in 1 .. n - m + 1
    BY <2>0 DEF m
  <2>5. (IF m <= n THEN n - m + 1 ELSE 0) = n - from
    BY <2>0 DEF m
  <2> QED
    BY Zenon, <2>3, <2>4, <2>5
<1>4. log = h \o t
  <2> HIDE DEF h, t
  <2>1. /\ h \o t \in Seq(Entry) /\ Len(h \o t) = Len(h) + Len(t)
        /\ \A k \in 1 .. Len(h) + Len(t) : (h \o t)[k] = IF k <= Len(h) THEN h[k] ELSE t[k - Len(h)]
    BY Zenon, <1>2, <1>3, ConcatEntries
  <2>2. Len(h \o t) = Len(log) /\ from \in Nat /\ from <= n
    BY <1>2, <1>3, <2>1
  <2>3. ASSUME NEW k \in 1 .. Len(log) PROVE log[k] = (h \o t)[k]
    <3>1. k \in 1 .. Len(h) + Len(t)
      BY <1>2, <1>3
    <3>2. CASE k <= from
      BY <1>2, <3>2
    <3>3. CASE ~ (k <= from)
      <4>1. k - from \in 1 .. (n - from) /\ from + (k - from) = k
        BY <3>3
      <4>2. (h \o t)[k] = t[k - from]
        BY <1>2, <3>1, <3>3
      <4> QED
        BY Zenon, <1>3, <4>1, <4>2
    <3> QED
      BY Zenon, <3>2, <3>3
  <2> QED
    BY Zenon, <2>1, <2>2, <2>3, SameEntries
<1>5. ASSUME NEW id
      PROVE  Mentions(t, id) <=> \E k \in (from + 1) .. n : log[k].id = {id}
  <2> HIDE DEF t, h, n
  <2>1. DOMAIN t = 1 .. (n - from)
    BY <1>3
  <2>2. ASSUME NEW k \in DOMAIN t, t[k].id = {id} PROVE \E j \in (from + 1) .. n : log[j].id = {id}
    <3>1. from + k \in (from + 1) .. n /\ log[from + k].id = {id}
      BY <1>1, <1>3, <2>2
    <3> QED
      BY Zenon, <3>1
  <2>3. ASSUME NEW j \in (from + 1) .. n, log[j].id = {id} PROVE \E k \in DOMAIN t : t[k].id = {id}
    <3>1. j - from \in DOMAIN t /\ from + (j - from) = j
      BY <1>1, <2>1
    <3>2. t[j - from] = log[j]
      BY <1>1, <1>3
    <3> QED
      BY Zenon, <2>3, <3>1, <3>2
  <2> QED
    BY Zenon, <2>2, <2>3 DEF Mentions
<1> QED
  BY Zenon, <1>2, <1>3, <1>4, <1>5

(* What is drained makes the copy equal to its source.                      *)
LEMMA DrainContent ==
  ASSUME NEW p, CopyOK(p), NEW r, CopyOK(r), NEW from \in 0 .. End(p),
         NEW q \in CopyRecord, q.base = r.base,
         q.log = r.log \o SubSeq(p.log, from + 1, Len(p.log)),
         q.trimmed = r.trimmed, q.ckpt = r.ckpt,
         \A id \in QueryIds : \/ Last(Content(r), id) = Last(Content(p), id)
                              \/ Later(p, from, id)
  PROVE  CopyOK(q) /\ \A id \in QueryIds : Last(Content(q), id) = Last(Content(p), id)
<1> DEFINE pb == p.base
           pl == p.log
           rb == r.base
           rl == r.log
           h == SubSeq(pl, 1, from)
           t == SubSeq(pl, from + 1, Len(pl))
<1>1. /\ pb \in Seq(Entry) /\ pl \in Seq(Entry) /\ rb \in Seq(Entry) /\ rl \in Seq(Entry)
      /\ End(p) = Len(pl) /\ End(r) = Len(rl) /\ Len(pl) \in Nat /\ Len(rl) \in Nat
      /\ r.trimmed <= r.ckpt /\ r.ckpt <= End(r) /\ r.ckpt \in Nat /\ r.trimmed \in Nat
  BY Zenon, CopyFacts
<1>2. /\ q.log = rl \o t /\ Content(q) = rb \o (rl \o t) /\ Content(p) = pb \o pl /\ Content(r) = rb \o rl
  BY Zenon DEF Content
<1>3. /\ \A id \in QueryIds : \/ Last(rb \o rl, id) = Last(pb \o pl, id)
                              \/ \E k \in (from + 1) .. Len(pl) : pl[k].id = {id}
  BY Zenon, <1>1 DEF Content, Later
<1> HIDE DEF pb, pl, rb, rl
<1>4. /\ h \in Seq(Entry) /\ t \in Seq(Entry) /\ pl = h \o t
      /\ \A id : Mentions(t, id) <=> \E k \in (from + 1) .. Len(pl) : pl[k].id = {id}
  BY Zenon, <1>1, Halves
<1> HIDE DEF h, t
<1>5. CopyOK(q)
  <2>1. Len(rl \o t) = Len(rl) + Len(t) /\ Len(t) \in Nat
    OBVIOUS
  <2>2. End(q) = Len(rl) + Len(t)
    BY Zenon, <1>2, <2>1 DEF End
  <2> QED
    BY <1>1, <2>2 DEF CopyOK
<1>6. ASSUME NEW id \in QueryIds PROVE Last(rb \o (rl \o t), id) = Last(pb \o pl, id)
  <2>1. /\ Mentions(t, id) => Last(rb \o (rl \o t), id) = Last(t, id)
        /\ ~ Mentions(t, id) => Last(rb \o (rl \o t), id) = Last(rb \o rl, id)
    BY <1>1, <1>4, Spliced
  <2>2. /\ Mentions(t, id) => Last(pb \o (h \o t), id) = Last(t, id)
    BY <1>1, <1>4, Spliced
  <2> QED
    BY Zenon, <1>3, <1>4, <2>1, <2>2
<1> QED
  BY Zenon, <1>2, <1>5, <1>6

(* What is copied differs from the source only in queries stored later.     *)
LEMMA CopiedContent ==
  ASSUME NEW p, CopyOK(p), NEW from \in 0 .. End(p), NEW to \in from .. End(p), NEW s,
         s = p.base \o SubSeq(p.log, 1, from) \o Rows(p.log, from, to)
  PROVE  /\ s \in Seq(Entry)
         /\ \A id \in QueryIds : \/ Last(s, id) = Last(Content(p), id)
                                 \/ Later(p, from, id)
<1> DEFINE pb == p.base
           pl == p.log
           h == SubSeq(pl, 1, from)
           t == SubSeq(pl, from + 1, Len(pl))
           rows == Rows(pl, from, to)
<1>1. /\ pb \in Seq(Entry) /\ pl \in Seq(Entry) /\ End(p) = Len(pl) /\ Len(pl) \in Nat
  BY Zenon, CopyFacts
<1>2. Content(p) = pb \o pl /\ s = (pb \o h) \o rows
  BY Zenon DEF Content
<1> HIDE DEF pb, pl
<1>3. /\ h \in Seq(Entry) /\ t \in Seq(Entry) /\ pl = h \o t
      /\ \A id : Mentions(t, id) <=> \E k \in (from + 1) .. Len(pl) : pl[k].id = {id}
  BY Zenon, <1>1, Halves
<1>4. Hole \in Entry /\ \A id : Hole.id # {id}
  BY Zenon DEF Hole, Entry
<1>5. to - from \in Nat /\ \A k \in 1 .. (to - from) : from + k \in (from + 1) .. Len(pl) /\ from + k \in 1 .. Len(pl)
  BY <1>1
<1>6. rows = [k \in 1 .. (to - from) |-> IF pl[from + k].val = 0 THEN Hole ELSE pl[from + k]]
  BY Zenon DEF Rows
<1> HIDE DEF h, t, rows
<1>7. \A k \in 1 .. Len(pl) : pl[k] \in Entry
  BY <1>1
<1>8. rows \in Seq(Entry) /\ DOMAIN rows = 1 .. (to - from)
  <2>1. \A k \in 1 .. (to - from) : rows[k] \in Entry
    BY Zenon, <1>4, <1>5, <1>6, <1>7
  <2>2. rows \in [1 .. (to - from) -> Entry]
    BY Zenon, <1>6, <2>1
  <2> QED
    BY <2>2
<1>9. ASSUME NEW id, Mentions(rows, id) PROVE \E k \in (from + 1) .. Len(pl) : pl[k].id = {id}
  <2>1. PICK k \in 1 .. (to - from) : rows[k].id = {id}
    BY Zenon, <1>8, <1>9 DEF Mentions
  <2>2. pl[from + k].id = {id}
    BY Zenon, <1>4, <1>6, <2>1
  <2> QED
    BY Zenon, <1>5, <2>2
<1>10. pb \o h \in Seq(Entry) /\ (pb \o h) \o rows \in Seq(Entry)
  BY <1>1, <1>3, <1>8
<1>11. ASSUME NEW id \in QueryIds, ~ \E k \in (from + 1) .. Len(pl) : pl[k].id = {id}
       PROVE  Last((pb \o h) \o rows, id) = Last(pb \o pl, id)
  <2>1. ~ Mentions(rows, id) /\ ~ Mentions(t, id)
    BY Zenon, <1>3, <1>9, <1>11
  <2>2. Last((pb \o h) \o rows, id) = Last(pb \o h, id)
    BY Zenon, <1>8, <1>10, <2>1, LastConcat
  <2>3. Last(pb \o (h \o t), id) = Last(pb \o h, id)
    BY <1>1, <1>3, <2>1, Spliced
  <2> QED
    BY Zenon, <1>3, <2>2, <2>3
<1> QED
  BY Zenon, <1>1, <1>2, <1>10, <1>11 DEF pl, Later

(* The model's own words for what a copy holds.                             *)
LEMMA ValueIsHeld ==
  /\ \A c, id : Value(c, id) = Held(copy, c, id)
  /\ \A c : Fingerprint(c) = Contents(copy, c)
  BY Zenon DEF Value, Held, Content, Fingerprint, Contents

(* What a copy holds for a query is a number.                               *)
LEMMA HeldType ==
  ASSUME NEW cp, NEW c, CopyOK(cp[c]), NEW id PROVE Held(cp, c, id) \in Nat
  BY Zenon, CopyFacts, LastType DEF Held

(* Two copies have the same contents if they hold the same for every query. *)
LEMMA ContentsEqual ==
  ASSUME NEW cp, NEW c, NEW d
  PROVE  Contents(cp, c) = Contents(cp, d) <=> \A id \in QueryIds : Held(cp, c, id) = Held(cp, d, id)
<1>1. ASSUME Contents(cp, c) = Contents(cp, d), NEW id \in QueryIds PROVE Held(cp, c, id) = Held(cp, d, id)
  <2>1. Contents(cp, c)[id] = Held(cp, c, id) /\ Contents(cp, d)[id] = Held(cp, d, id)
    BY Zenon DEF Contents
  <2> QED
    BY Zenon, <1>1, <2>1
<1>2. ASSUME \A id \in QueryIds : Held(cp, c, id) = Held(cp, d, id) PROVE Contents(cp, c) = Contents(cp, d)
  BY <1>2, Zenon DEF Contents
<1> QED
  BY Zenon, <1>1, <1>2

(* The contents of a copy, query by query.                                  *)
LEMMA ContentsType ==
  ASSUME NEW cp, NEW c, CopyOK(cp[c])
  PROVE  Contents(cp, c) \in [QueryIds -> Nat] /\ \A id \in QueryIds : Contents(cp, c)[id] = Held(cp, c, id)
  BY Zenon, HeldType DEF Contents

(* Contents stay when what is held stays.                                   *)
LEMMA SameContents ==
  ASSUME NEW cp, NEW cq, NEW c, \A id \in QueryIds : Held(cq, c, id) = Held(cp, c, id)
  PROVE  Contents(cq, c) = Contents(cp, c)
  BY Zenon DEF Contents

(* What is past a position depends on the translog alone.                   *)
LEMMA SameLater ==
  ASSUME NEW r, NEW q, q.log = r.log, NEW from, NEW id PROVE Later(q, from, id) <=> Later(r, from, id)
  BY Zenon DEF Later, End

(* A step that stores nothing.                                              *)
LEMMA HeldFrame ==
  ASSUME GroupTypeOK, HeldOK, Current' \subseteq Current, left'.writes \in Nat, left'.writes <= left.writes,
         \A id \in QueryIds : may[id] \subseteq may'[id],
         \A c \in Current, id \in QueryIds : Held(copy', c, id) = Held(copy, c, id)
  PROVE  HeldOK'
<1>1. left.writes \in Nat
  BY Zenon DEF GroupTypeOK
<1>2. \A c \in Current, id \in QueryIds : Held(copy, c, id) \in Nat
  BY HeldType, PrimaryAssumption DEF GroupTypeOK, Current, Members
<1> QED
  BY <1>1, <1>2 DEF HeldOK

(* Frame: writes still to be redriven stay those of the past.               *)
LEMMA PendingFrame ==
  ASSUME GroupTypeOK, PendingOK, left'.writes \in Nat, left'.writes <= left.writes,
         \A id \in QueryIds : pending'[id] \subseteq pending[id]
  PROVE  PendingOK'
<1>1. left.writes \in Nat /\ \A id \in QueryIds : pending[id] \subseteq Nat
  BY Zenon DEF GroupTypeOK
<1> QED
  BY <1>1 DEF PendingOK

(* Frame: a write keeps its facts while the copies a read may reach keep    *)
(* what they hold.                                                          *)
LEMMA WriteFrame ==
  ASSUME GroupTypeOK, left'.writes = left.writes, may' = may, replicas' = replicas, inSync' \subseteq inSync,
         \A c \in Current, id \in QueryIds : Held(copy', c, id) = Held(copy, c, id),
         NEW w \in writing, WriteOK(w)
  PROVE  WriteOK(w)'
<1>1. w.id \in QueryIds
  BY Zenon DEF GroupTypeOK, WriteRecord
<1>2. Current' \subseteq Current /\ PrimaryCopy \in Current
  BY Zenon DEF Current
<1>3. \A k \in DOMAIN replicas : replicas[k] \in inSync => replicas[k] \in Current
  BY Zenon DEF Current
<1> QED
  BY Zenon, <1>1, <1>2, <1>3 DEF WriteOK

(* Frame: a read keeps its facts while its copy keeps what it holds and no  *)
(* query gains a text.                                                      *)
LEMMA ReadFrame ==
  ASSUME NEW r, ReadOK(r), Members \subseteq Members',
         \A id \in QueryIds : may'[id] \subseteq may[id],
         \A c \in {PrimaryCopy} \cup Members, id \in QueryIds :
           Held(copy', c, id) = Held(copy, c, id) \/ Held(copy', c, id) \in may[id]
  PROVE  ReadOK(r)'
  BY Zenon DEF ReadOK, Chunk

(* Frame: a recovery keeps its facts while the translog it drains and the   *)
(* copy it fills stay.                                                      *)
LEMMA RecoveryFrame ==
  ASSUME NEW v \in RecoveryRecord, RecoveryOK(v), replicas' = replicas,
         copy'[PrimaryCopy].log = copy[PrimaryCopy].log,
         copy'[PrimaryCopy].leases = copy[PrimaryCopy].leases,
         copy'[PrimaryCopy].trimmed = copy[PrimaryCopy].trimmed,
         \A id \in QueryIds : /\ Held(copy', PrimaryCopy, id) = Held(copy, PrimaryCopy, id)
                              /\ Held(copy', v.to, id) = Held(copy, v.to, id)
  PROVE  RecoveryOK(v)'
<1> DEFINE p == copy[PrimaryCopy]
           q == copy'[PrimaryCopy]
<1>1. End(q) = End(p) /\ Members' = Members
  BY Zenon DEF End, Members
<1>2. \A id : Later(q, v.from, id) <=> Later(p, v.from, id)
  BY Zenon, SameLater
<1> QED
  BY Zenon, <1>1, <1>2 DEF RecoveryOK

(* Frame: a replica stays proven while it and the primary hold what they    *)
(* held.                                                                    *)
LEMMA ConnectFrame ==
  ASSUME NEW c, ConnectOK(c), replicas' = replicas,
         \A d \in {PrimaryCopy} \cup c.proven, id \in QueryIds : Held(copy', d, id) = Held(copy, d, id)
  PROVE  ConnectOK(c)'
<1>1. Contents(copy', PrimaryCopy) = Contents(copy, PrimaryCopy)
  BY Zenon, SameContents
<1> QED
  BY Zenon, <1>1 DEF ConnectOK

(* One copy is replaced by a sound one.                                     *)
LEMMA OneCopyChanges ==
  ASSUME GroupTypeOK, NEW c \in Copies, NEW q, CopyOK(q), copy' = [copy EXCEPT ![c] = q]
  PROVE  /\ copy' \in [Copies -> CopyRecord] /\ \A d \in Copies : CopyOK(copy'[d])
         /\ copy'[c] = q /\ \A d \in Copies \ {c} : copy'[d] = copy[d]
<1>1. q \in CopyRecord
  BY Zenon DEF CopyOK
<1>2. copy \in [Copies -> CopyRecord] /\ \A d \in Copies : CopyOK(copy[d])
  BY Zenon DEF GroupTypeOK
<1>3. /\ copy' \in [Copies -> CopyRecord] /\ copy'[c] = q
      /\ \A d \in Copies \ {c} : copy'[d] = copy[d]
  BY Zenon, <1>1, <1>2
<1> QED
  BY Zenon, <1>2, <1>3

(* A seal, a trim, a restart and a change of leases leave what is stored.   *)
LEMMA Sealed ==
  ASSUME NEW r, CopyOK(r), NEW q, q = [r EXCEPT !.ckpt = End(r)]
  PROVE  CopyOK(q) /\ q.base = r.base /\ q.log = r.log /\ q.leases = r.leases /\ q.trimmed = r.trimmed
<1>0. r \in CopyRecord /\ End(r) \in Nat
  BY Zenon, CopyFacts
<1>1. q \in CopyRecord /\ q.base = r.base /\ q.log = r.log /\ q.leases = r.leases
      /\ q.trimmed = r.trimmed /\ q.ckpt = End(r)
  BY Zenon, <1>0 DEF CopyRecord
<1> QED
  BY <1>1, CopyFacts DEF CopyOK, End

(* A copy whose translog is trimmed no further than its checkpoint is       *)
(* sound.                                                                   *)
LEMMA TrimmedTo ==
  ASSUME NEW r, CopyOK(r), NEW q, NEW n \in Nat, n <= r.ckpt, q = [r EXCEPT !.trimmed = n]
  PROVE  CopyOK(q) /\ q.base = r.base /\ q.log = r.log /\ q.leases = r.leases /\ q.trimmed = n
<1>0. r \in CopyRecord
  BY Zenon, CopyFacts
<1>1. q \in CopyRecord /\ q.base = r.base /\ q.log = r.log /\ q.leases = r.leases
      /\ q.ckpt = r.ckpt /\ q.trimmed = n
  BY Zenon, <1>0 DEF CopyRecord
<1> QED
  BY Zenon, <1>1 DEF CopyOK, End

(* A copy that takes or drops leases is sound and stores the same.          *)
LEMMA Leased ==
  ASSUME NEW r, CopyOK(r), NEW q, NEW L \in SUBSET Nat, q = [r EXCEPT !.leases = L]
  PROVE  CopyOK(q) /\ q.base = r.base /\ q.log = r.log /\ q.leases = L /\ q.trimmed = r.trimmed
<1>0. r \in CopyRecord
  BY Zenon, CopyFacts
<1>1. q \in CopyRecord /\ q.base = r.base /\ q.log = r.log /\ q.leases = L
      /\ q.ckpt = r.ckpt /\ q.trimmed = r.trimmed
  BY Zenon, <1>0 DEF CopyRecord
<1> QED
  BY Zenon, <1>1 DEF CopyOK, End

(* What a checkpoint record does not hold is still in the translog.         *)
LEMMA ReopenedHoldsAll ==
  ASSUME NEW c, CopyOK(copy[c])
  PROVE  CopyOK(Reopened(c)) /\ Reopened(c).base = copy[c].base /\ Reopened(c).log = copy[c].log
<1> DEFINE r == copy[c]
           l == r.log
           again == [k \in DOMAIN l |-> IF k > r.ckpt /\ k <= r.trimmed THEN Hole ELSE l[k]]
           q == Reopened(c)
<1>1. /\ l \in Seq(Entry) /\ DOMAIN l = 1 .. End(r) /\ End(r) \in Nat /\ r.ckpt \in Nat
      /\ r.trimmed \in Nat /\ r.trimmed <= r.ckpt /\ r \in CopyRecord
  BY Zenon, CopyFacts
<1>2. again = l
  <2>1. \A k \in DOMAIN l : again[k] = l[k]
    BY <1>1
  <2>2. again = [k \in DOMAIN l |-> l[k]]
    BY Zenon, <2>1
  <2>3. l = [k \in DOMAIN l |-> l[k]]
    <3>1. l \in [1 .. End(r) -> Entry]
      <4> HIDE DEF l
      <4> QED
        BY <1>1
    <3> HIDE DEF l
    <3> QED
      BY Zenon, <3>1
  <2> QED
    BY Zenon, <2>2, <2>3
<1>3. q = [r EXCEPT !.leases = {}, !.log = again]
  BY Zenon DEF Reopened
<1> HIDE DEF again, q
<1>4. q.base = r.base /\ q.log = l /\ q.leases = {} /\ q.ckpt = r.ckpt /\ q.trimmed = r.trimmed /\ q \in CopyRecord
  BY Zenon, <1>1, <1>2, <1>3 DEF CopyRecord
<1>5. End(q) = End(r)
  BY Zenon, <1>4 DEF End
<1>6. CopyOK(q)
  BY Zenon, <1>4, <1>5 DEF CopyOK
<1> QED
  BY Zenon, <1>4, <1>6 DEF q

(* A step that stores nothing in the group's copies, the recovery apart.    *)
LEMMA QuietStep ==
  ASSUME GroupInv,
         copy' \in [Copies -> CopyRecord], \A c \in Copies : CopyOK(copy'[c]),
         \A c \in {PrimaryCopy} \cup Members, id \in QueryIds : Held(copy', c, id) = Held(copy, c, id),
         left' \in [writes : Nat, reads : Nat, seals : Nat, stops : Nat, recoveries : Nat],
         left'.writes = left.writes,
         UNCHANGED <<place, replicas, inSync, writing, pending, may, reading, connecting>>,
         recovery' \subseteq RecoveryRecord, AtMostOne(recovery'),
         recovery' # {} => place = "local",
         \A v \in recovery' : RecoveryOK(v)'
  PROVE  GroupInv'
<1>1. /\ GroupTypeOK /\ HeldOK /\ PendingOK
      /\ (\A w \in writing : WriteOK(w)) /\ (\A r \in reading : ReadOK(r))
      /\ \A c \in connecting : ConnectOK(c)
  BY Zenon DEF GroupInv
<1>2. Members' = Members /\ Current' = Current /\ Current \subseteq {PrimaryCopy} \cup Members
  BY Zenon, <1>1 DEF Members, Current, GroupTypeOK
<1>3. GroupTypeOK'
  BY Zenon, <1>1, <1>2 DEF GroupTypeOK, AtMostOne
<1>5. HeldOK'
  BY <1>1, <1>2, HeldFrame
<1>6. PendingOK'
  BY <1>1, PendingFrame
<1>7. ASSUME NEW w \in writing' PROVE WriteOK(w)'
  BY Zenon, <1>1, <1>2, WriteFrame
<1>8. ASSUME NEW r \in reading' PROVE ReadOK(r)'
  BY Zenon, <1>1, <1>2, ReadFrame
<1>9. ASSUME NEW c \in connecting' PROVE ConnectOK(c)'
  <2>1. ConnectOK(c)
    BY Zenon, <1>1
  <2>2. c.proven \subseteq Members
    BY Zenon, <2>1 DEF ConnectOK, Members
  <2> QED
    BY Zenon, <2>1, <2>2, ConnectFrame
<1> QED
  BY Zenon, <1>3, <1>5, <1>6, <1>7, <1>8, <1>9 DEF GroupInv

(* One copy changes, not in what it stores: every copy holds what it held.  *)
LEMMA OnlyThat ==
  ASSUME GroupTypeOK, NEW c \in Copies, NEW q, CopyOK(q), copy' = [copy EXCEPT ![c] = q],
         q.base = copy[c].base, q.log = copy[c].log
  PROVE  /\ copy' \in [Copies -> CopyRecord] /\ \A d \in Copies : CopyOK(copy'[d])
         /\ copy'[c] = q /\ \A d \in Copies \ {c} : copy'[d] = copy[d]
         /\ \A d \in Copies, id \in QueryIds : Held(copy', d, id) = Held(copy, d, id)
         /\ copy'[PrimaryCopy].log = copy[PrimaryCopy].log
<1>1. /\ copy' \in [Copies -> CopyRecord] /\ \A d \in Copies : CopyOK(copy'[d])
      /\ copy'[c] = q /\ \A d \in Copies \ {c} : copy'[d] = copy[d]
  BY Zenon, OneCopyChanges
<1>3. \A d \in Copies, id \in QueryIds : Held(copy', d, id) = Held(copy, d, id)
  <2> SUFFICES ASSUME NEW d \in Copies, NEW id \in QueryIds PROVE Held(copy', d, id) = Held(copy, d, id)
    BY Zenon
  <2> QED
    BY DEF Held, Content
<1> QED
  BY Zenon, <1>1, <1>3, PrimaryAssumption

(* The members of the group are copies, and the primary is not a replica.   *)
LEMMA GroupCopies ==
  ASSUME GroupTypeOK
  PROVE  /\ {PrimaryCopy} \cup Members \subseteq Copies /\ PrimaryCopy \in Copies /\ PrimaryCopy \notin Members
         /\ copy \in [Copies -> CopyRecord] /\ \A c \in Copies : CopyOK(copy[c])
         /\ Current \subseteq {PrimaryCopy} \cup Members
  BY PrimaryAssumption DEF GroupTypeOK, Members, Current

(* A seal that writes its checkpoint record stores nothing.                 *)
LEMMA SealRecordsKeeps == ASSUME GroupInv, NEW c \in Copies, SealRecords(c) PROVE GroupInv'
<1> DEFINE q == [copy[c] EXCEPT !.ckpt = End(copy[c])]
<1>1. GroupTypeOK /\ (\A v \in recovery : RecoveryOK(v) /\ v \in RecoveryRecord)
  BY Zenon DEF GroupInv, GroupTypeOK
<1>2. CopyOK(copy[c])
  BY Zenon, <1>1 DEF GroupTypeOK
<1>3. /\ CopyOK(q) /\ q.base = copy[c].base /\ q.log = copy[c].log /\ q.leases = copy[c].leases
      /\ q.trimmed = copy[c].trimmed
  BY Zenon, <1>2, Sealed
<1>4. copy' = [copy EXCEPT ![c] = q]
  BY Zenon DEF SealRecords, End
<1> HIDE DEF q
<1>5. /\ copy' \in [Copies -> CopyRecord] /\ \A d \in Copies : CopyOK(copy'[d])
      /\ \A d \in Copies, id \in QueryIds : Held(copy', d, id) = Held(copy, d, id)
      /\ copy'[c] = q /\ \A d \in Copies \ {c} : copy'[d] = copy[d]
      /\ copy'[PrimaryCopy].log = copy[PrimaryCopy].log
  BY Zenon, <1>1, <1>3, <1>4, OnlyThat
<1>6. /\ copy'[PrimaryCopy].leases = copy[PrimaryCopy].leases
      /\ copy'[PrimaryCopy].trimmed = copy[PrimaryCopy].trimmed
  BY Zenon, <1>3, <1>5, PrimaryAssumption
<1>7. UNCHANGED <<place, replicas, inSync, writing, pending, may, reading, recovery, connecting>>
  BY Zenon DEF SealRecords
<1>8. ASSUME NEW v \in recovery' PROVE RecoveryOK(v)'
  <2>1. RecoveryOK(v) /\ v \in RecoveryRecord /\ v.to \in Copies
    BY Zenon, <1>1, <1>7 DEF RecoveryRecord
  <2> QED
    BY Zenon, <1>5, <1>6, <1>7, <2>1, PrimaryAssumption, RecoveryFrame
<1>9. /\ left' \in [writes : Nat, reads : Nat, seals : Nat, stops : Nat, recoveries : Nat]
      /\ left'.writes = left.writes
  BY <1>1 DEF GroupTypeOK, SealRecords
<1>10. recovery' \subseteq RecoveryRecord /\ AtMostOne(recovery') /\ (recovery' # {} => place = "local")
  BY Zenon, <1>1, <1>7 DEF GroupTypeOK
<1> QED
  BY Zenon, <1>1, <1>5, <1>7, <1>8, <1>9, <1>10, GroupCopies, QuietStep

(* A seal that trims the translog keeps what a recovery's lease retains.    *)
LEMMA SealTrimsKeeps == ASSUME GroupInv, NEW c \in Copies, SealTrims(c) PROVE GroupInv'
<1> DEFINE n == Trimmed(c)
           q == [copy[c] EXCEPT !.trimmed = n]
           S == {copy[c].ckpt} \cup copy[c].leases
<1>1. GroupTypeOK /\ (\A v \in recovery : RecoveryOK(v) /\ v \in RecoveryRecord)
  BY Zenon DEF GroupInv, GroupTypeOK
<1>2. CopyOK(copy[c])
  BY Zenon, <1>1 DEF GroupTypeOK
<1>a. n \in Nat /\ n <= copy[c].ckpt /\ \A l \in copy[c].leases : n <= l
  <2>1. S \in SUBSET Nat /\ S # {}
    BY Zenon, <1>2, CopyFacts
  <2>2. n = Min(S)
    BY Zenon DEF Trimmed
  <2>3. Min(S) \in S /\ \A y \in S : Min(S) <= y
    BY Zenon, <2>1, LeastIsThere
  <2> HIDE DEF n
  <2> QED
    BY Zenon, <2>1, <2>2, <2>3
<1>4. copy' = [copy EXCEPT ![c] = q]
  BY Zenon DEF SealTrims
<1> HIDE DEF n
<1>3. /\ CopyOK(q) /\ q.base = copy[c].base /\ q.log = copy[c].log /\ q.leases = copy[c].leases /\ q.trimmed = n
  BY Zenon, <1>2, <1>a, TrimmedTo
<1> HIDE DEF q
<1>5. /\ copy' \in [Copies -> CopyRecord] /\ \A d \in Copies : CopyOK(copy'[d])
      /\ \A d \in Copies, id \in QueryIds : Held(copy', d, id) = Held(copy, d, id)
      /\ copy'[c] = q /\ \A d \in Copies \ {c} : copy'[d] = copy[d]
      /\ copy'[PrimaryCopy].log = copy[PrimaryCopy].log
  BY Zenon, <1>1, <1>3, <1>4, OnlyThat
<1>6. /\ copy'[PrimaryCopy].leases = copy[PrimaryCopy].leases
      /\ copy'[PrimaryCopy].trimmed = IF c = PrimaryCopy THEN n ELSE copy[PrimaryCopy].trimmed
  BY Zenon, <1>3, <1>5, PrimaryAssumption
<1>7. UNCHANGED <<place, left, replicas, inSync, writing, pending, may, reading, recovery, connecting>>
  BY Zenon DEF SealTrims
<1>8. ASSUME NEW v \in recovery' PROVE RecoveryOK(v)'
  <2> DEFINE p1 == copy[PrimaryCopy]
             p2 == copy'[PrimaryCopy]
  <2>1. RecoveryOK(v) /\ v \in RecoveryRecord /\ v.to \in Copies
    BY Zenon, <1>1, <1>7 DEF RecoveryRecord
  <2>2. Members' = Members /\ End(p2) = End(p1) /\ p2.leases = p1.leases
    BY Zenon, <1>5, <1>6, <1>7 DEF Members, End
  <2>3. \A id : Later(p2, v.from, id) <=> Later(p1, v.from, id)
    BY Zenon, <1>5, SameLater
  <2>4. v.pc \in {"copy", "drain", "promote"} => p2.trimmed <= v.from
    <3> SUFFICES ASSUME v.pc \in {"copy", "drain", "promote"} PROVE p2.trimmed <= v.from
      BY Zenon
    <3>1. CASE c # PrimaryCopy
      BY Zenon, <1>6, <2>1, <3>1 DEF RecoveryOK
    <3>2. CASE c = PrimaryCopy
      <4>1. PICK l \in p1.leases : l <= v.from
        BY Zenon, <2>1 DEF RecoveryOK
      <4>2. n <= l /\ l \in Nat /\ v.from \in Nat
        BY Zenon, <1>2, <1>a, <2>1, <3>2, CopyFacts DEF RecoveryRecord
      <4> QED
        BY <1>6, <1>a, <3>2, <4>1, <4>2
    <3> QED
      BY Zenon, <3>1, <3>2
  <2>5. \A id \in QueryIds : /\ Held(copy', PrimaryCopy, id) = Held(copy, PrimaryCopy, id)
                             /\ Held(copy', v.to, id) = Held(copy, v.to, id)
    BY Zenon, <1>5, <2>1, PrimaryAssumption
  <2> HIDE DEF p1, p2
  <2> QED
    BY Zenon, <2>1, <2>2, <2>3, <2>4, <2>5 DEF RecoveryOK, p1, p2
<1>9. /\ left' \in [writes : Nat, reads : Nat, seals : Nat, stops : Nat, recoveries : Nat]
      /\ left'.writes = left.writes
  BY Zenon, <1>1, <1>7 DEF GroupTypeOK
<1>10. recovery' \subseteq RecoveryRecord /\ AtMostOne(recovery') /\ (recovery' # {} => place = "local")
  BY Zenon, <1>1, <1>7 DEF GroupTypeOK
<1> QED
  BY Zenon, <1>1, <1>5, <1>7, <1>8, <1>9, <1>10, GroupCopies, QuietStep

(* A copy that restarts replays what its checkpoint does not cover.         *)
LEMMA CopyRestartsKeeps == ASSUME GroupInv, NEW c \in Copies, CopyRestarts(c) PROVE GroupInv'
<1> DEFINE q == Reopened(c)
<1>1. GroupTypeOK
  BY Zenon DEF GroupInv
<1>2. CopyOK(copy[c])
  BY Zenon, <1>1 DEF GroupTypeOK
<1>3. CopyOK(q) /\ q.base = copy[c].base /\ q.log = copy[c].log
  BY Zenon, <1>2, ReopenedHoldsAll
<1>4. copy' = [copy EXCEPT ![c] = q]
  BY Zenon DEF CopyRestarts
<1> HIDE DEF q
<1>5. /\ copy' \in [Copies -> CopyRecord] /\ \A d \in Copies : CopyOK(copy'[d])
      /\ \A d \in Copies, id \in QueryIds : Held(copy', d, id) = Held(copy, d, id)
  BY Zenon, <1>1, <1>3, <1>4, OnlyThat
<1>7. UNCHANGED <<place, replicas, inSync, writing, pending, may, reading, recovery, connecting>>
  BY Zenon DEF CopyRestarts
<1>8. recovery = {} /\ recovery' = {}
  BY Zenon, <1>1 DEF GroupTypeOK, CopyRestarts
<1>9. /\ left' \in [writes : Nat, reads : Nat, seals : Nat, stops : Nat, recoveries : Nat]
      /\ left'.writes = left.writes
  BY <1>1 DEF GroupTypeOK, CopyRestarts
<1>10. recovery' \subseteq RecoveryRecord /\ AtMostOne(recovery')
  BY Zenon, <1>8 DEF AtMostOne
<1> QED
  BY Zenon, <1>1, <1>5, <1>7, <1>8, <1>9, <1>10, GroupCopies, QuietStep

(* What is known while a recovery is under way.                             *)
LEMMA RecoveryFacts ==
  ASSUME GroupInv, NEW v \in recovery
  PROVE  /\ GroupTypeOK /\ RecoveryOK(v) /\ v \in RecoveryRecord /\ recovery = {v} /\ place = "local"
         /\ v.to \in Copies /\ v.from \in Nat /\ v.passes \in Nat
         /\ v.to # PrimaryCopy /\ v.to \notin Members /\ v.from <= End(copy[PrimaryCopy])
         /\ CopyOK(copy[PrimaryCopy]) /\ CopyOK(copy[v.to])
<1>1. GroupTypeOK /\ RecoveryOK(v)
  BY Zenon DEF GroupInv
<1>2. v \in RecoveryRecord /\ recovery = {v} /\ place = "local" /\ \A c \in Copies : CopyOK(copy[c])
  BY Zenon, <1>1 DEF GroupTypeOK, AtMostOne
<1>3. v.to \in Copies /\ v.from \in Nat /\ v.passes \in Nat
  BY Zenon, <1>2 DEF RecoveryRecord
<1> QED
  BY Zenon, <1>1, <1>2, <1>3, PrimaryAssumption DEF RecoveryOK

(* A recovery begins at the end of the primary's translog.                  *)
LEMMA RecoveryBeginsKeeps == ASSUME GroupInv, NEW r \in Copies, RecoveryBegins(r) PROVE GroupInv'
<1> DEFINE p == copy[PrimaryCopy]
<1>0. PICK v : v = [pc |-> "lease", to |-> r, from |-> End(p), passes |-> 0]
  BY Zenon
<1>1. GroupTypeOK /\ CopyOK(p) /\ End(p) \in Nat
  BY Zenon, GroupCopies, CopyFacts DEF GroupInv
<1>2. /\ UNCHANGED <<place, copy, replicas, inSync, writing, pending, may, reading, connecting>>
      /\ recovery' = {v} /\ place = "local" /\ r # PrimaryCopy /\ r \notin Members
  BY Zenon, <1>0 DEF RecoveryBegins, End, Members
<1>3. /\ left' \in [writes : Nat, reads : Nat, seals : Nat, stops : Nat, recoveries : Nat]
      /\ left'.writes = left.writes
  BY <1>1 DEF GroupTypeOK, RecoveryBegins
<1>4. v \in RecoveryRecord
  BY Zenon, <1>0, <1>1 DEF RecoveryRecord
<1>5. RecoveryOK(v)'
  <2>1. v.to = r /\ v.from = End(p) /\ v.pc = "lease"
    BY Zenon, <1>0
  <2>2. Members' = Members /\ copy'[PrimaryCopy] = p
    BY Zenon, <1>2 DEF Members
  <2> HIDE DEF p
  <2> QED
    BY <1>1, <1>2, <2>1, <2>2 DEF RecoveryOK
<1> HIDE DEF p
<1>6. recovery' \subseteq RecoveryRecord /\ AtMostOne(recovery') /\ \A u \in recovery' : RecoveryOK(u)'
  <2>1. ASSUME NEW u \in recovery' PROVE RecoveryOK(u)'
    <3>1. u = v
      BY Zenon, <1>2
    <3> QED
      BY Zenon, <1>5, <3>1
  <2> QED
    BY Zenon, <1>2, <1>4, <2>1 DEF AtMostOne
<1>7. /\ copy' \in [Copies -> CopyRecord] /\ \A c \in Copies : CopyOK(copy'[c])
      /\ \A c \in {PrimaryCopy} \cup Members, id \in QueryIds : Held(copy', c, id) = Held(copy, c, id)
  BY Zenon, <1>1, <1>2, GroupCopies
<1> QED
  BY Zenon, <1>2, <1>3, <1>6, <1>7, QuietStep

(* One step of a recovery: what it needs for the rest to stay.              *)
LEMMA RecoveryStep ==
  ASSUME GroupInv, NEW v \in recovery,
         copy' \in [Copies -> CopyRecord], \A c \in Copies : CopyOK(copy'[c]),
         \A c \in {PrimaryCopy} \cup Members, id \in QueryIds : Held(copy', c, id) = Held(copy, c, id),
         UNCHANGED <<place, left, replicas, inSync, writing, pending, may, reading, connecting>>,
         NEW u \in RecoveryRecord, recovery' = {u}, RecoveryOK(u)'
  PROVE  GroupInv'
<1>1. GroupTypeOK /\ place = "local"
  BY Zenon, RecoveryFacts
<1>2. /\ left' \in [writes : Nat, reads : Nat, seals : Nat, stops : Nat, recoveries : Nat]
      /\ left'.writes = left.writes
  BY Zenon, <1>1 DEF GroupTypeOK
<1>3. recovery' \subseteq RecoveryRecord /\ AtMostOne(recovery') /\ \A x \in recovery' : RecoveryOK(x)'
  BY Zenon DEF AtMostOne
<1> QED
  BY Zenon, <1>1, <1>2, <1>3, QuietStep

(* The recovery takes the lease that retains what it will drain.            *)
LEMMA RecoveryLeasesKeeps == ASSUME GroupInv, RecoveryLeases PROVE GroupInv'
<1>1. PICK v \in recovery :
        /\ v.pc = "lease" /\ copy' = [copy EXCEPT ![PrimaryCopy].leases = {v.from}]
        /\ recovery' = {[v EXCEPT !.pc = "seal"]}
  BY Zenon DEF RecoveryLeases
<1> DEFINE p == copy[PrimaryCopy]
           q == [p EXCEPT !.leases = {v.from}]
           u == [v EXCEPT !.pc = "seal"]
<1>2. /\ GroupTypeOK /\ RecoveryOK(v) /\ v \in RecoveryRecord
      /\ v.to \in Copies /\ v.from \in Nat /\ CopyOK(p)
  BY Zenon, RecoveryFacts
<1>3. CopyOK(q) /\ q.base = p.base /\ q.log = p.log /\ q.leases = {v.from} /\ q.trimmed = p.trimmed
  <2>1. {v.from} \in SUBSET Nat
    BY Zenon, <1>2
  <2> QED
    BY Zenon, <1>2, <2>1, Leased
<1>4. copy' = [copy EXCEPT ![PrimaryCopy] = q]
  BY Zenon, <1>1
<1>5. u \in RecoveryRecord /\ u.pc = "seal" /\ u.to = v.to /\ u.from = v.from
  BY Zenon, <1>2 DEF RecoveryRecord
<1> HIDE DEF q, u, p
<1>6. /\ copy' \in [Copies -> CopyRecord] /\ \A d \in Copies : CopyOK(copy'[d])
      /\ \A d \in Copies, id \in QueryIds : Held(copy', d, id) = Held(copy, d, id)
      /\ copy'[PrimaryCopy] = q
  BY Zenon, <1>2, <1>3, <1>4, OnlyThat, PrimaryAssumption DEF p
<1>7. UNCHANGED <<place, left, replicas, inSync, writing, pending, may, reading, connecting>> /\ recovery' = {u}
  BY Zenon, <1>1 DEF RecoveryLeases, u
<1>8. RecoveryOK(u)'
  <2>1. Members' = Members /\ End(q) = End(p)
    BY Zenon, <1>3, <1>7 DEF Members, End
  <2>2. v.to # PrimaryCopy /\ v.to \notin Members /\ v.from <= End(p)
    BY Zenon, <1>2 DEF RecoveryOK, p
  <2> QED
    BY <1>2, <1>3, <1>5, <1>6, <2>1, <2>2 DEF RecoveryOK
<1> QED
  BY Zenon, <1>2, <1>5, <1>6, <1>7, <1>8, GroupCopies, RecoveryStep

(* The primary is sealed for the recovery.                                  *)
LEMMA RecoverySealsKeeps == ASSUME GroupInv, RecoverySeals PROVE GroupInv'
<1> DEFINE p == copy[PrimaryCopy]
           q == [p EXCEPT !.ckpt = End(p)]
<1>1. PICK v \in recovery :
        /\ v.pc = "seal" /\ copy' = [copy EXCEPT ![PrimaryCopy] = q]
        /\ recovery' = {[v EXCEPT !.pc = "copy", !.from = End(p)]}
  BY Zenon DEF RecoverySeals, End
<1>0. PICK u : u = [v EXCEPT !.pc = "copy", !.from = End(p)]
  BY Zenon
<1>2. /\ GroupTypeOK /\ RecoveryOK(v) /\ v \in RecoveryRecord
      /\ v.to \in Copies /\ v.from \in Nat /\ CopyOK(p) /\ End(p) \in Nat /\ p.leases \in SUBSET Nat
      /\ p.trimmed <= p.ckpt /\ p.ckpt <= End(p) /\ p.trimmed \in Nat /\ p.ckpt \in Nat
  BY Zenon, RecoveryFacts, CopyFacts
<1>3. CopyOK(q) /\ q.base = p.base /\ q.log = p.log /\ q.leases = p.leases /\ q.trimmed = p.trimmed
  BY Zenon, <1>2, Sealed
<1>5. u \in RecoveryRecord /\ u.pc = "copy" /\ u.to = v.to /\ u.from = End(p)
  BY Zenon, <1>0, <1>2 DEF RecoveryRecord
<1> HIDE DEF q, p
<1>6. /\ copy' \in [Copies -> CopyRecord] /\ \A d \in Copies : CopyOK(copy'[d])
      /\ \A d \in Copies, id \in QueryIds : Held(copy', d, id) = Held(copy, d, id)
      /\ copy'[PrimaryCopy] = q
  BY Zenon, <1>1, <1>2, <1>3, OnlyThat, PrimaryAssumption DEF p
<1>7. UNCHANGED <<place, left, replicas, inSync, writing, pending, may, reading, connecting>> /\ recovery' = {u}
  BY Zenon, <1>0, <1>1 DEF RecoverySeals
<1>8. RecoveryOK(u)'
  <2>1. Members' = Members /\ End(q) = End(p)
    BY Zenon, <1>3, <1>7 DEF Members, End
  <2>2. v.to # PrimaryCopy /\ v.to \notin Members /\ v.from <= End(p) /\ p.leases # {} /\ \A l \in p.leases : l <= v.from
    BY Zenon, <1>1, <1>2 DEF RecoveryOK, p
  <2> QED
    BY <1>2, <1>3, <1>5, <1>6, <2>1, <2>2 DEF RecoveryOK
<1> QED
  BY Zenon, <1>2, <1>5, <1>6, <1>7, <1>8, GroupCopies, RecoveryStep

(* A recovery that fails drops its lease and the copy it filled.            *)
LEMMA RecoveryFailsKeeps == ASSUME GroupInv, RecoveryFails PROVE GroupInv'
<1> DEFINE p == copy[PrimaryCopy]
           q == [p EXCEPT !.leases = {}]
<1>1. GroupTypeOK /\ CopyOK(p)
  BY Zenon, GroupCopies DEF GroupInv
<1>2. CopyOK(q) /\ q.base = p.base /\ q.log = p.log
  <2>1. {} \in SUBSET Nat
    BY Zenon
  <2> QED
    BY Zenon, <1>1, <2>1, Leased
<1>3. copy' = [copy EXCEPT ![PrimaryCopy] = q]
  BY Zenon DEF RecoveryFails
<1> HIDE DEF q
<1>4. /\ copy' \in [Copies -> CopyRecord] /\ \A d \in Copies : CopyOK(copy'[d])
      /\ \A d \in Copies, id \in QueryIds : Held(copy', d, id) = Held(copy, d, id)
  BY Zenon, <1>1, <1>2, <1>3, OnlyThat, PrimaryAssumption
<1>5. UNCHANGED <<place, left, replicas, inSync, writing, pending, may, reading, connecting>> /\ recovery' = {}
  BY Zenon DEF RecoveryFails
<1>6. /\ left' \in [writes : Nat, reads : Nat, seals : Nat, stops : Nat, recoveries : Nat]
      /\ left'.writes = left.writes
  BY Zenon, <1>1, <1>5 DEF GroupTypeOK
<1>7. recovery' \subseteq RecoveryRecord /\ AtMostOne(recovery')
  BY Zenon, <1>5 DEF AtMostOne
<1> QED
  BY Zenon, <1>1, <1>4, <1>5, <1>6, <1>7, GroupCopies, QuietStep

(* The files of the primary are copied, with the writes flushed by then.    *)
LEMMA RecoveryCopiesKeeps ==
  ASSUME GroupInv, NEW flushed \in 0 .. Len(copy[PrimaryCopy].log), RecoveryCopies(flushed) PROVE GroupInv'
<1> DEFINE p == copy[PrimaryCopy]
           S(from) == p.base \o SubSeq(p.log, 1, from) \o Rows(p.log, from, flushed)
<1>1. PICK v \in recovery :
        /\ v.pc = "copy" /\ flushed \in v.from .. Len(p.log)
        /\ copy' = [copy EXCEPT ![v.to] = NewCopy(S(v.from))] /\ recovery' = {[v EXCEPT !.pc = "drain"]}
  BY Zenon DEF RecoveryCopies
<1> DEFINE s == S(v.from)
           q == NewCopy(s)
           u == [v EXCEPT !.pc = "drain"]
<1>2. /\ GroupTypeOK /\ RecoveryOK(v) /\ v \in RecoveryRecord /\ v.from \in 0 .. End(p)
      /\ v.to \in Copies /\ v.from \in Nat /\ CopyOK(p) /\ v.to # PrimaryCopy /\ v.to \notin Members
  BY RecoveryFacts
<1>3. flushed \in v.from .. End(p)
  BY Zenon, <1>1 DEF End
<1>4. /\ s \in Seq(Entry)
      /\ \A id \in QueryIds : Last(s, id) = Last(Content(p), id) \/ Later(p, v.from, id)
  <2> HIDE DEF p
  <2> QED
    BY Zenon, <1>2, <1>3, CopiedContent
<1>5. copy' = [copy EXCEPT ![v.to] = q] /\ recovery' = {u}
  BY Zenon, <1>1
<1> HIDE DEF S, s
<1>6. CopyOK(q) /\ \A id \in QueryIds : Last(Content(q), id) = Last(s, id)
  BY Zenon, <1>4, NewCopyContent
<1>7. u \in RecoveryRecord /\ u.pc = "drain" /\ u.to = v.to /\ u.from = v.from
  BY Zenon, <1>2 DEF RecoveryRecord
<1> HIDE DEF q, u, p
<1>8. /\ copy' \in [Copies -> CopyRecord] /\ \A d \in Copies : CopyOK(copy'[d])
      /\ copy'[v.to] = q /\ \A d \in Copies \ {v.to} : copy'[d] = copy[d]
  BY Zenon, <1>2, <1>5, <1>6, OneCopyChanges
<1>9. \A d \in {PrimaryCopy} \cup Members : copy'[d] = copy[d]
  BY Zenon, <1>2, <1>8, GroupCopies
<1>10. \A d \in {PrimaryCopy} \cup Members, id \in QueryIds : Held(copy', d, id) = Held(copy, d, id)
  BY Zenon, <1>9 DEF Held
<1>11. UNCHANGED <<place, left, replicas, inSync, writing, pending, may, reading, connecting>>
  BY Zenon DEF RecoveryCopies
<1>12. RecoveryOK(u)'
  <2>1. Members' = Members /\ copy'[PrimaryCopy] = p
    BY Zenon, <1>9, <1>11 DEF Members, p
  <2>2. \A id \in QueryIds : /\ Held(copy', v.to, id) = Last(s, id)
                             /\ Held(copy', PrimaryCopy, id) = Last(Content(p), id)
    BY Zenon, <1>6, <1>8, <2>1 DEF Held
  <2>3. /\ v.from <= End(p) /\ p.leases # {} /\ (\A l \in p.leases : l <= v.from) /\ p.trimmed <= v.from
    BY Zenon, <1>1, <1>2 DEF RecoveryOK, p
  <2> QED
    BY Zenon, <1>2, <1>4, <1>7, <2>1, <2>2, <2>3 DEF RecoveryOK
<1> QED
  BY Zenon, <1>7, <1>5, <1>8, <1>10, <1>11, <1>12, RecoveryStep

(* What is retained past a position that is not trimmed is the whole tail   *)
(* of the translog.                                                         *)
LEMMA RetainedIsTail ==
  ASSUME NEW c, CopyOK(copy[c]), NEW from \in Nat, copy[c].trimmed <= from
  PROVE  RetainedFrom(c, from) = SubSeq(copy[c].log, from + 1, Len(copy[c].log))
<1> DEFINE t == copy[c].trimmed
<1>1. t \in Nat
  BY Zenon, CopyFacts
<1>2. RetainedFrom(c, from) = SubSeq(copy[c].log, Max({from, t}) + 1, Len(copy[c].log))
  BY Zenon DEF RetainedFrom
<1> HIDE DEF t
<1>3. {from, t} \in SUBSET (0 .. from) /\ {from, t} # {}
  BY <1>1 DEF t
<1>4. Max({from, t}) \in {from, t} /\ from <= Max({from, t})
  BY Zenon, <1>3, GreatestIsThere
<1>5. Max({from, t}) = from
  BY <1>1, <1>4 DEF t
<1> QED
  BY Zenon, <1>2, <1>5

(* A drain leaves the copy that is recovered with what the primary holds.   *)
LEMMA DrainedCopies ==
  ASSUME GroupInv, NEW v \in recovery, v.pc \in {"drain", "promote"}, NEW cp, cp = Drained(v)
  PROVE  /\ cp \in [Copies -> CopyRecord] /\ \A c \in Copies : CopyOK(cp[c])
         /\ \A c \in Copies \ {v.to, PrimaryCopy} : cp[c] = copy[c]
         /\ cp[PrimaryCopy] = [copy[PrimaryCopy] EXCEPT !.leases = {End(copy[PrimaryCopy])}]
         /\ \A id \in QueryIds : Last(Content(cp[v.to]), id) = Held(copy, PrimaryCopy, id)
<1> DEFINE p == copy[PrimaryCopy]
           r == copy[v.to]
           t == SubSeq(p.log, v.from + 1, Len(p.log))
           q == [r EXCEPT !.log = @ \o t]
           pq == [p EXCEPT !.leases = {End(p)}]
<1>1. /\ GroupTypeOK /\ RecoveryOK(v) /\ v \in RecoveryRecord /\ v.from \in 0 .. End(p) /\ v.from \in Nat
      /\ v.to \in Copies /\ CopyOK(p) /\ CopyOK(r) /\ v.to # PrimaryCopy /\ v.to \notin Members
      /\ End(p) \in Nat
  BY RecoveryFacts, CopyFacts
<1>2. /\ p.trimmed <= v.from
      /\ \A id \in QueryIds : Held(copy, v.to, id) = Held(copy, PrimaryCopy, id) \/ Later(p, v.from, id)
  BY Zenon, <1>1 DEF RecoveryOK
<1>3. RetainedFrom(PrimaryCopy, v.from) = t
  BY Zenon, <1>1, <1>2, RetainedIsTail
<1>4. cp = [copy EXCEPT ![v.to].log = @ \o t, ![PrimaryCopy].leases = {End(p)}]
  BY Zenon, <1>3 DEF Drained, End
<1>5. t \in Seq(Entry)
  <2>1. p.log \in Seq(Entry) /\ v.from \in 0 .. Len(p.log)
    BY Zenon, <1>1, CopyFacts
  <2> HIDE DEF p
  <2> QED
    BY <2>1
<1> HIDE DEF t
<1>6. copy \in [Copies -> CopyRecord] /\ \A c \in Copies : CopyOK(copy[c])
  BY Zenon, <1>1 DEF GroupTypeOK
<1>7. cp = [[copy EXCEPT ![v.to] = q] EXCEPT ![PrimaryCopy] = pq]
  BY Zenon, <1>1, <1>4
<1>8. r.log \o t \in Seq(Entry) /\ r \in CopyRecord
  BY <1>1, <1>5, CopyFacts
<1>9. q \in CopyRecord /\ q.base = r.base /\ q.log = r.log \o t /\ q.trimmed = r.trimmed /\ q.ckpt = r.ckpt
  <2> HIDE DEF r
  <2> QED
    BY Zenon, <1>8 DEF CopyRecord
<1> HIDE DEF q
<1>10. CopyOK(q) /\ \A id \in QueryIds : Last(Content(q), id) = Last(Content(p), id)
  <2>1. \A id \in QueryIds : Last(Content(r), id) = Last(Content(p), id) \/ Later(p, v.from, id)
    BY Zenon, <1>2 DEF Held
  <2>2. q.log = r.log \o SubSeq(p.log, v.from + 1, Len(p.log))
    BY Zenon, <1>9 DEF t
  <2> HIDE DEF p, r
  <2> QED
    BY Zenon, <1>1, <1>9, <2>1, <2>2, DrainContent
<1>11. CopyOK(pq)
  <2>1. {End(p)} \in SUBSET Nat
    BY Zenon, <1>1
  <2> QED
    BY Zenon, <1>1, <2>1, Leased
<1>12. q \in CopyRecord /\ pq \in CopyRecord
  BY Zenon, <1>10, <1>11 DEF CopyOK
<1>13. /\ cp \in [Copies -> CopyRecord] /\ cp[v.to] = q /\ cp[PrimaryCopy] = pq
       /\ \A c \in Copies \ {v.to, PrimaryCopy} : cp[c] = copy[c]
  <2> HIDE DEF pq
  <2> QED
    BY Zenon, <1>1, <1>6, <1>7, <1>12, PrimaryAssumption
<1>14. \A c \in Copies : CopyOK(cp[c])
  BY Zenon, <1>6, <1>10, <1>11, <1>13
<1> QED
  BY Zenon, <1>10, <1>13, <1>14 DEF Held

(* A catch-up pass stores the tail of the translog in the new copy.         *)
LEMMA RecoveryDrainsKeeps == ASSUME GroupInv, RecoveryDrains PROVE GroupInv'
<1> DEFINE p == copy[PrimaryCopy]
<1>1. PICK v \in recovery :
        /\ v.pc = "drain" /\ copy' = Drained(v)
        /\ recovery' = {[v EXCEPT !.from = End(p), !.passes = @ + 1,
                           !.pc = IF End(p) = v.from \/ v.passes = MaxPasses THEN "promote" ELSE "drain"]}
  BY Zenon DEF RecoveryDrains, End
<1>2. /\ GroupTypeOK /\ RecoveryOK(v) /\ v \in RecoveryRecord /\ v.from \in Nat /\ v.passes \in Nat
      /\ v.to \in Copies /\ CopyOK(p) /\ v.to # PrimaryCopy /\ v.to \notin Members /\ v.from <= End(p)
      /\ End(p) \in Nat /\ p.trimmed \in Nat
  BY Zenon, RecoveryFacts, CopyFacts
<1>3. PICK u : u = [v EXCEPT !.from = End(p), !.passes = @ + 1,
                      !.pc = IF End(p) = v.from \/ v.passes = MaxPasses THEN "promote" ELSE "drain"]
  BY Zenon
<1> DEFINE pq == [p EXCEPT !.leases = {End(p)}]
<1>4. /\ copy' \in [Copies -> CopyRecord] /\ \A c \in Copies : CopyOK(copy'[c])
      /\ \A c \in Copies \ {v.to, PrimaryCopy} : copy'[c] = copy[c]
      /\ copy'[PrimaryCopy] = pq
      /\ \A id \in QueryIds : Last(Content(copy'[v.to]), id) = Held(copy, PrimaryCopy, id)
  BY Zenon, <1>1, DrainedCopies
<1>5. CopyOK(pq) /\ pq.base = p.base /\ pq.log = p.log /\ pq.leases = {End(p)} /\ pq.trimmed = p.trimmed
  <2>1. {End(p)} \in SUBSET Nat
    BY Zenon, <1>2
  <2> QED
    BY Zenon, <1>2, <2>1, Leased
<1>6. /\ u \in RecoveryRecord /\ u.to = v.to /\ u.from = End(p) /\ u.pc \in {"drain", "promote"}
  <2>1. PICK next : next = IF End(p) = v.from \/ v.passes = MaxPasses THEN "promote" ELSE "drain"
    BY Zenon
  <2>2. next \in {"drain", "promote"}
    BY Zenon, <2>1
  <2>3. u = [v EXCEPT !.from = End(p), !.passes = @ + 1, !.pc = next]
    BY Zenon, <1>3, <2>1
  <2>4. PICK n : n = End(p)
    BY Zenon
  <2>5. n \in Nat /\ v.passes + 1 \in Nat
    BY <1>2, <2>4
  <2> HIDE DEF p
  <2>6. u.to = v.to /\ u.from = n /\ u.passes = v.passes + 1 /\ u.pc = next
    BY <2>3, <2>4 DEF RecoveryRecord
  <2>7. u \in RecoveryRecord
    BY Zenon, <1>2, <2>2, <2>3, <2>5 DEF RecoveryRecord
  <2> QED
    BY Zenon, <2>2, <2>4, <2>6, <2>7
<1> HIDE DEF pq
<1>7. \A id \in QueryIds : Held(copy', PrimaryCopy, id) = Held(copy, PrimaryCopy, id)
  BY Zenon, <1>4, <1>5 DEF Held, Content
<1>8. \A c \in {PrimaryCopy} \cup Members, id \in QueryIds : Held(copy', c, id) = Held(copy, c, id)
  <2>1. \A c \in Members : copy'[c] = copy[c]
    BY Zenon, <1>2, <1>4, GroupCopies
  <2>2. \A c \in Members, id \in QueryIds : Held(copy', c, id) = Held(copy, c, id)
    BY Zenon, <2>1 DEF Held
  <2> QED
    BY Zenon, <1>7, <2>2
<1>9. UNCHANGED <<place, left, replicas, inSync, writing, pending, may, reading, connecting>> /\ recovery' = {u}
  BY Zenon, <1>1, <1>3 DEF RecoveryDrains
<1>10. RecoveryOK(u)'
  <2>1. Members' = Members /\ End(pq) = End(p)
    BY Zenon, <1>5, <1>9 DEF Members, End
  <2>2. p.trimmed <= v.from
    BY Zenon, <1>1, <1>2 DEF RecoveryOK
  <2>3. \A id \in QueryIds : Held(copy', v.to, id) = Held(copy', PrimaryCopy, id)
    BY Zenon, <1>4, <1>7 DEF Held
  <2> HIDE DEF p
  <2> QED
    BY <1>2, <1>4, <1>5, <1>6, <2>1, <2>2, <2>3 DEF RecoveryOK
<1> QED
  BY Zenon, <1>4, <1>6, <1>8, <1>9, <1>10, RecoveryStep

(* The last pass runs while writes are held off, so the new copy joins in   *)
(* sync.                                                                    *)
LEMMA RecoveryPromotesKeeps == ASSUME GroupInv, RecoveryPromotes PROVE GroupInv'
<1> DEFINE p == copy[PrimaryCopy]
           dp == [p EXCEPT !.leases = {End(p)}]
           pq == [dp EXCEPT !.leases = {}]
<1>1. PICK v \in recovery :
        /\ v.pc = "promote" /\ copy' = [Drained(v) EXCEPT ![PrimaryCopy].leases = {}]
        /\ replicas' = Append(replicas, v.to) /\ inSync' = inSync \cup {v.to}
  BY Zenon DEF RecoveryPromotes, Promoted
<1>2. /\ GroupTypeOK /\ v.to \in Copies /\ CopyOK(p) /\ v.to # PrimaryCopy /\ v.to \notin Members
      /\ End(p) \in Nat /\ place = "local"
  BY Zenon, RecoveryFacts, CopyFacts
<1>3. /\ writing = {} /\ recovery' = {} /\ UNCHANGED <<place, left, writing, pending, may, reading, connecting>>
  BY Zenon DEF RecoveryPromotes
<1>4. PICK cp : cp = Drained(v)
  BY Zenon
<1>5. /\ cp \in [Copies -> CopyRecord] /\ \A c \in Copies : CopyOK(cp[c])
      /\ \A c \in Copies \ {v.to, PrimaryCopy} : cp[c] = copy[c]
      /\ cp[PrimaryCopy] = dp
      /\ \A id \in QueryIds : Last(Content(cp[v.to]), id) = Held(copy, PrimaryCopy, id)
  BY Zenon, <1>1, <1>4, DrainedCopies
<1>6. dp.base = p.base /\ dp.log = p.log /\ CopyOK(dp)
  <2>1. {End(p)} \in SUBSET Nat
    BY Zenon, <1>2
  <2> QED
    BY Zenon, <1>2, <2>1, Leased
<1> HIDE DEF dp
<1>7. CopyOK(pq) /\ pq.base = p.base /\ pq.log = p.log
  <2>1. {} \in SUBSET Nat
    BY Zenon
  <2> QED
    BY Zenon, <1>6, <2>1, Leased
<1>8. copy' = [cp EXCEPT ![PrimaryCopy] = pq]
  BY Zenon, <1>1, <1>4, <1>5
<1>9. pq \in CopyRecord
  BY Zenon, <1>7 DEF CopyOK
<1> HIDE DEF pq
<1>10. /\ copy' \in [Copies -> CopyRecord] /\ copy'[PrimaryCopy] = pq
       /\ \A c \in Copies \ {PrimaryCopy} : copy'[c] = cp[c]
  BY Zenon, <1>5, <1>8, <1>9, PrimaryAssumption
<1>11. \A c \in Copies : CopyOK(copy'[c])
  BY Zenon, <1>5, <1>7, <1>10
<1>12. \A id \in QueryIds : /\ Held(copy', PrimaryCopy, id) = Held(copy, PrimaryCopy, id)
                            /\ Held(copy', v.to, id) = Held(copy, PrimaryCopy, id)
  BY Zenon, <1>2, <1>5, <1>7, <1>10 DEF Held, Content
<1>13. \A c \in Members, id \in QueryIds : Held(copy', c, id) = Held(copy, c, id)
  <2>1. \A c \in Members : copy'[c] = copy[c]
    BY Zenon, <1>2, <1>5, <1>10, GroupCopies
  <2> QED
    BY Zenon, <2>1 DEF Held
<1>14. /\ replicas' \in Seq(Copies \ {PrimaryCopy}) /\ Members' = Members \cup {v.to}
       /\ \A j, k \in DOMAIN replicas' : replicas'[j] = replicas'[k] => j = k
  <2> DEFINE n == Len(replicas)
             s == Append(replicas, v.to)
  <2>1. /\ replicas \in Seq(Copies \ {PrimaryCopy}) /\ v.to \in Copies \ {PrimaryCopy}
        /\ \A j, k \in DOMAIN replicas : replicas[j] = replicas[k] => j = k
    BY Zenon, <1>2 DEF GroupTypeOK
  <2>2. /\ s \in Seq(Copies \ {PrimaryCopy}) /\ DOMAIN s = 1 .. (n + 1) /\ DOMAIN replicas = 1 .. n /\ n \in Nat
        /\ s[n + 1] = v.to /\ \A k \in 1 .. n : s[k] = replicas[k]
    BY <2>1
  <2>3. replicas' = s /\ \A k \in 1 .. n : replicas[k] \in Members /\ replicas[k] # v.to
    BY <1>1, <1>2 DEF Members
  <2> HIDE DEF s
  <2>4. Members' = {s[k] : k \in 1 .. (n + 1)} /\ Members = {replicas[k] : k \in 1 .. n}
    BY Zenon, <2>2, <2>3 DEF Members
  <2> HIDE DEF n
  <2>5. \A j, k \in 1 .. (n + 1) : s[j] = s[k] => j = k
    BY <2>1, <2>2, <2>3
  <2>6. {s[k] : k \in 1 .. (n + 1)} = {replicas[k] : k \in 1 .. n} \cup {v.to}
    BY <2>2
  <2> QED
    BY Zenon, <2>2, <2>3, <2>4, <2>5, <2>6
<1>15. connecting = {}
  BY Zenon, <1>2 DEF GroupTypeOK
<1>16. GroupTypeOK'
  <2>1. inSync' \subseteq Members'
    BY Zenon, <1>1, <1>2, <1>14 DEF GroupTypeOK
  <2> QED
    BY Zenon, <1>2, <1>3, <1>10, <1>11, <1>14, <2>1 DEF GroupTypeOK, AtMostOne
<1>17. HeldOK'
  <2>1. HeldOK /\ Current' = Current \cup {v.to} /\ PrimaryCopy \in Current /\ Current \subseteq {PrimaryCopy} \cup Members
    BY Zenon, <1>1, GroupCopies DEF GroupInv, Current
  <2>2. \A c \in Current', id \in QueryIds : \E d \in Current : Held(copy', c, id) = Held(copy, d, id)
    BY Zenon, <1>12, <1>13, <2>1
  <2> QED
    BY Zenon, <1>3, <2>1, <2>2 DEF HeldOK
<1>18. PendingOK' /\ \A w \in writing' : WriteOK(w)'
  BY Zenon, <1>3 DEF GroupInv, PendingOK
<1>19. ASSUME NEW r \in reading' PROVE ReadOK(r)'
  BY Zenon, <1>3, <1>12, <1>13, <1>14, ReadFrame DEF GroupInv
<1> QED
  BY Zenon, <1>3, <1>15, <1>16, <1>17, <1>18, <1>19 DEF GroupInv

(* What is known while a read is under way.                                 *)
LEMMA ReadFacts ==
  ASSUME GroupInv, NEW r \in reading
  PROVE  /\ GroupTypeOK /\ ReadOK(r) /\ r \in ReadRecord /\ reading = {r} /\ connecting = {}
         /\ r.at \in Copies /\ CopyOK(copy[r.at]) /\ r.others \in Seq(Copies)
<1>1. GroupTypeOK /\ ReadOK(r)
  BY Zenon DEF GroupInv
<1>2. r \in ReadRecord /\ reading = {r} /\ connecting = {} /\ \A c \in Copies : CopyOK(copy[c])
  BY Zenon, <1>1 DEF GroupTypeOK, AtMostOne
<1> QED
  BY Zenon, <1>1, <1>2 DEF ReadRecord

(* A step of a read leaves all but the read.                                *)
LEMMA ReadStep ==
  ASSUME GroupInv, connecting = {},
         left' \in [writes : Nat, reads : Nat, seals : Nat, stops : Nat, recoveries : Nat],
         left'.writes = left.writes,
         UNCHANGED <<place, copy, replicas, inSync, writing, pending, may, recovery, connecting>>,
         NEW u \in ReadRecord, ReadOK(u), reading' \subseteq {u}
  PROVE  GroupInv'
<1>1. GroupTypeOK /\ HeldOK /\ PendingOK /\ (\A w \in writing : WriteOK(w)) /\ \A v \in recovery : RecoveryOK(v)
  BY Zenon DEF GroupInv
<1>2. Members' = Members /\ Current' = Current
  BY Zenon DEF Members, Current
<1>4. GroupTypeOK'
  BY Zenon, <1>1, <1>2 DEF GroupTypeOK, AtMostOne
<1>5. HeldOK' /\ PendingOK'
  BY Zenon, <1>1, <1>2 DEF HeldOK, PendingOK
<1>6. ASSUME NEW w \in writing' PROVE WriteOK(w)'
  BY Zenon, <1>1, <1>2 DEF WriteOK
<1>7. ASSUME NEW v \in recovery' PROVE RecoveryOK(v)'
  BY Zenon, <1>1, <1>2 DEF RecoveryOK
<1>8. ASSUME NEW x \in reading' PROVE ReadOK(x)'
  BY <1>2 DEF ReadOK, Chunk
<1> QED
  BY Zenon, <1>4, <1>5, <1>6, <1>7, <1>8 DEF GroupInv

(* A step of the read alone.                                                *)
LEMMA ReadGoesOn ==
  ASSUME GroupInv, connecting = {},
         UNCHANGED <<place, left, copy, replicas, inSync, writing, pending, may, recovery, connecting>>,
         NEW u \in ReadRecord, ReadOK(u), reading' \subseteq {u}
  PROVE  GroupInv'
<1>1. /\ left' \in [writes : Nat, reads : Nat, seals : Nat, stops : Nat, recoveries : Nat]
      /\ left'.writes = left.writes
  BY Zenon DEF GroupInv, GroupTypeOK
<1> QED
  BY Zenon, <1>1, ReadStep

(* A read begins at the primary.                                            *)
LEMMA ReadBeginsKeeps == ASSUME GroupInv, NEW streams \in BOOLEAN, ReadBegins(streams) PROVE GroupInv'
<1> DEFINE view == Contents(copy, PrimaryCopy)
<1>1. PICK u : u = [at |-> PrimaryCopy, others |-> replicas, streams |-> streams, state |-> "asked",
                    view |-> view, chunks |-> {}, allowed |-> may]
  BY Zenon
<1>2. GroupTypeOK /\ HeldOK /\ CopyOK(copy[PrimaryCopy]) /\ PrimaryCopy \in Copies
  BY Zenon, GroupCopies DEF GroupInv
<1>3. /\ connecting = {} /\ UNCHANGED <<place, copy, replicas, inSync, writing, pending, may, recovery, connecting>>
      /\ reading' = {u}
  BY Zenon, <1>1, ValueIsHeld DEF ReadBegins, Serving
<1>4. /\ left' \in [writes : Nat, reads : Nat, seals : Nat, stops : Nat, recoveries : Nat]
      /\ left'.writes = left.writes
  BY <1>2 DEF GroupTypeOK, ReadBegins
<1>5. view \in [QueryIds -> Nat]
  BY Zenon, <1>2, ContentsType
<1> HIDE DEF view
<1>6. replicas \in Seq(Copies) /\ may \in [QueryIds -> SUBSET Nat] /\ \A k \in DOMAIN replicas : replicas[k] \in Members
  BY <1>2 DEF GroupTypeOK, Members
<1>7. u \in ReadRecord
  BY Zenon, <1>1, <1>2, <1>5, <1>6 DEF ReadRecord
<1>8. ReadOK(u)
  <2>1. u.at = PrimaryCopy /\ u.others = replicas /\ u.state = "asked" /\ u.chunks = {} /\ u.allowed = may
    BY Zenon, <1>1
  <2>2. \A id \in QueryIds : Held(copy, PrimaryCopy, id) \in may[id]
    BY Zenon, <1>2 DEF HeldOK, Current
  <2> QED
    BY Zenon, <1>6, <2>1, <2>2 DEF ReadOK
<1> QED
  BY Zenon, <1>3, <1>4, <1>7, <1>8, ReadStep

(* The copy loads the view it answers from.                                 *)
LEMMA CopyLoadsKeeps == ASSUME GroupInv, CopyLoads PROVE GroupInv'
<1>1. PICK r \in reading :
        r.state = "asked" /\ reading' = {[r EXCEPT !.state = "open", !.view = Contents(copy, r.at)]}
  BY Zenon, ValueIsHeld DEF CopyLoads
<1> DEFINE view == Contents(copy, r.at)
<1>2. PICK u : u = [r EXCEPT !.state = "open", !.view = view]
  BY Zenon
<1>3. /\ ReadOK(r) /\ r \in ReadRecord /\ connecting = {} /\ CopyOK(copy[r.at])
  BY Zenon, ReadFacts
<1>4. view \in [QueryIds -> Nat] /\ \A id \in QueryIds : view[id] = Held(copy, r.at, id)
  BY Zenon, <1>3, ContentsType
<1>5. UNCHANGED <<place, left, copy, replicas, inSync, writing, pending, may, recovery, connecting>> /\ reading' = {u}
  BY Zenon, <1>1, <1>2 DEF CopyLoads
<1> HIDE DEF view
<1>6. /\ u \in ReadRecord /\ u.at = r.at /\ u.others = r.others /\ u.state = "open" /\ u.view = view
      /\ u.chunks = r.chunks /\ u.allowed = r.allowed
  BY Zenon, <1>2, <1>3, <1>4 DEF ReadRecord
<1>7. ReadOK(u)
  BY Zenon, <1>1, <1>3, <1>4, <1>6 DEF ReadOK
<1> QED
  BY Zenon, <1>3, <1>5, <1>6, <1>7, ReadGoesOn

(* Chunks depend on the copy and on its view alone.                         *)
LEMMA SameChunks ==
  ASSUME NEW r, NEW u, u.at = r.at, u.view = r.view
  PROVE  \A id : Chunk(u, id) = Chunk(r, id)
  BY Zenon DEF Chunk

(* A chunk names a query, the copy and a text.                              *)
LEMMA ChunkType ==
  ASSUME NEW r \in ReadRecord, NEW id \in QueryIds
  PROVE  Chunk(r, id) \in [id : QueryIds, from : Copies, val : Nat]
  BY Zenon DEF Chunk, ReadRecord

(* A chunk of a streamed answer is sent.                                    *)
LEMMA ChunkIsSentKeeps == ASSUME GroupInv, NEW id \in QueryIds, ChunkIsSent(id) PROVE GroupInv'
<1>1. PICK r \in reading : r.state = "open" /\ reading' = {[r EXCEPT !.chunks = @ \cup {Chunk(r, id)}]}
  BY Zenon DEF ChunkIsSent
<1>2. PICK u : u = [r EXCEPT !.chunks = @ \cup {Chunk(r, id)}]
  BY Zenon
<1>3. ReadOK(r) /\ r \in ReadRecord /\ connecting = {}
  BY Zenon, ReadFacts
<1>4. UNCHANGED <<place, left, copy, replicas, inSync, writing, pending, may, recovery, connecting>> /\ reading' = {u}
  BY Zenon, <1>1, <1>2 DEF ChunkIsSent
<1>5. Chunk(r, id) \in [id : QueryIds, from : Copies, val : Nat]
  BY Zenon, <1>3, ChunkType
<1>6. /\ u \in ReadRecord /\ u.at = r.at /\ u.others = r.others /\ u.state = "open" /\ u.view = r.view
      /\ u.chunks = r.chunks \cup {Chunk(r, id)} /\ u.allowed = r.allowed
  BY Zenon, <1>1, <1>2, <1>3, <1>5 DEF ReadRecord
<1>7. \A i : Chunk(u, i) = Chunk(r, i)
  BY Zenon, <1>6, SameChunks
<1>8. ReadOK(u)
  BY Zenon, <1>1, <1>3, <1>6, <1>7 DEF ReadOK
<1> QED
  BY Zenon, <1>3, <1>4, <1>6, <1>8, ReadGoesOn

(* The copy has answered: the answer has a chunk for every query.           *)
LEMMA CopyAnswersKeeps == ASSUME GroupInv, CopyAnswers PROVE GroupInv'
<1> DEFINE all(r) == {Chunk(r, id) : id \in QueryIds}
<1>1. PICK r \in reading : r.state = "open" /\ reading' = {[r EXCEPT !.state = "done", !.chunks = @ \cup all(r)]}
  BY Zenon DEF CopyAnswers
<1>2. PICK u : u = [r EXCEPT !.state = "done", !.chunks = @ \cup all(r)]
  BY Zenon
<1>3. ReadOK(r) /\ r \in ReadRecord /\ connecting = {}
  BY Zenon, ReadFacts
<1>4. UNCHANGED <<place, left, copy, replicas, inSync, writing, pending, may, recovery, connecting>> /\ reading' = {u}
  BY Zenon, <1>1, <1>2 DEF CopyAnswers
<1>5. all(r) \subseteq [id : QueryIds, from : Copies, val : Nat]
  BY Zenon, <1>3, ChunkType
<1>6. /\ u \in ReadRecord /\ u.at = r.at /\ u.others = r.others /\ u.state = "done" /\ u.view = r.view
      /\ u.chunks = r.chunks \cup all(r) /\ u.allowed = r.allowed
  <2> HIDE DEF all
  <2> QED
    BY Zenon, <1>2, <1>3, <1>5 DEF ReadRecord
<1>7. \A i : Chunk(u, i) = Chunk(r, i)
  BY Zenon, <1>6, SameChunks
<1>8. ReadOK(u)
  <2>1. r.chunks \subseteq all(r) /\ all(u) = all(r)
    BY Zenon, <1>1, <1>3, <1>7 DEF ReadOK
  <2>2. u.chunks = all(u)
    BY Zenon, <1>6, <2>1
  <2> QED
    BY Zenon, <1>1, <1>3, <1>6, <2>2 DEF ReadOK
<1> QED
  BY Zenon, <1>3, <1>4, <1>6, <1>8, ReadGoesOn

(* A replica in sync holds what the read may give.                          *)
LEMMA CopyIsLostKeeps == ASSUME GroupInv, CopyIsLost PROVE GroupInv'
<1>1. PICK r \in reading : reading' = {FailedOver(r)}
  BY Zenon DEF CopyIsLost
<1> DEFINE next == {k \in DOMAIN r.others : r.others[k] \in inSync}
           m == Min(next)
           rest == SubSeq(r.others, m + 1, Len(r.others))
<1>2. PICK u : u = FailedOver(r)
  BY Zenon
<1>3. /\ ReadOK(r) /\ r \in ReadRecord /\ connecting = {} /\ GroupTypeOK /\ r.others \in Seq(Copies)
      /\ \A k \in DOMAIN r.others : r.others[k] \in Members
  BY Zenon, ReadFacts DEF ReadOK
<1>4. UNCHANGED <<place, left, copy, replicas, inSync, writing, pending, may, recovery, connecting>> /\ reading' = {u}
  BY Zenon, <1>1, <1>2 DEF CopyIsLost
<1>5. CASE next = {} \/ r.chunks # {}
  <2>1. u = [r EXCEPT !.state = "failed"]
    BY Zenon, <1>2, <1>5 DEF FailedOver, MayFailOver
  <2>2. u \in ReadRecord /\ u.at = r.at /\ u.others = r.others /\ u.state = "failed" /\ u.allowed = r.allowed
    BY Zenon, <1>3, <2>1 DEF ReadRecord
  <2>3. ReadOK(u)
    BY Zenon, <1>3, <2>2 DEF ReadOK
  <2> QED
    BY Zenon, <1>3, <1>4, <2>2, <2>3, ReadGoesOn
<1>6. CASE next # {} /\ r.chunks = {}
  <2>1. u = [r EXCEPT !.at = r.others[m], !.state = "asked", !.others = rest]
    BY Zenon, <1>2, <1>6 DEF FailedOver, MayFailOver
  <2>2. PICK o : o = r.others
    BY Zenon
  <2>3. next \in SUBSET Nat /\ DOMAIN o = 1 .. Len(o) /\ Len(o) \in Nat /\ o \in Seq(Copies)
    BY <1>3, <2>2
  <2>4. m \in next
    BY Zenon, <1>6, <2>3, LeastIsThere
  <2>5. m \in 1 .. Len(o) /\ o[m] \in inSync /\ o[m] \in Copies
    <3> HIDE DEF m
    <3>1. m \in DOMAIN r.others /\ r.others[m] \in inSync
      BY Zenon, <2>4
    <3>2. m \in DOMAIN o /\ o[m] \in inSync
      BY Zenon, <2>2, <3>1
    <3> QED
      BY <2>3, <3>2
  <2>6. rest \in Seq(Copies) /\ \A k \in DOMAIN rest : \E j \in DOMAIN o : rest[k] = o[j]
    <3> HIDE DEF m
    <3>1. /\ SubSeq(o, m + 1, Len(o)) \in Seq(Copies)
          /\ DOMAIN SubSeq(o, m + 1, Len(o)) = 1 .. (Len(o) - m)
          /\ \A k \in 1 .. (Len(o) - m) : SubSeq(o, m + 1, Len(o))[k] = o[m + k]
      BY <2>3, <2>5
    <3>2. rest = SubSeq(o, m + 1, Len(o))
      BY Zenon, <2>2
    <3> HIDE DEF rest
    <3>3. \A k \in 1 .. (Len(o) - m) : m + k \in DOMAIN o
      BY <2>5
    <3> QED
      BY Zenon, <3>1, <3>2, <3>3
  <2> HIDE DEF m, rest, next
  <2>7. /\ u \in ReadRecord /\ u.at = o[m] /\ u.others = rest /\ u.state = "asked" /\ u.chunks = {}
        /\ u.allowed = r.allowed
    BY Zenon, <1>3, <1>6, <2>1, <2>2, <2>5, <2>6 DEF ReadRecord
  <2>8. \A k \in DOMAIN rest : rest[k] \in Members
    BY Zenon, <1>3, <2>2, <2>6
  <2>9. o[m] \in Members /\ \A id \in QueryIds : Held(copy, o[m], id) \in may[id]
    BY Zenon, <2>5 DEF GroupTypeOK, GroupInv, HeldOK, Current
  <2>10. \A id \in QueryIds : may[id] \subseteq r.allowed[id]
    BY Zenon, <1>3 DEF ReadOK
  <2>11. ReadOK(u)
    BY Zenon, <2>7, <2>8, <2>9, <2>10 DEF ReadOK
  <2> QED
    BY Zenon, <1>3, <1>4, <2>7, <2>11, ReadGoesOn
<1> QED
  BY Zenon, <1>5, <1>6

(* The answer is taken, or the read is given up.                            *)
LEMMA ReadEndsKeeps == ASSUME GroupInv, ReadEnds PROVE GroupInv'
<1>1. PICK r \in reading : TRUE
  BY Zenon DEF ReadEnds
<1>2. ReadOK(r) /\ r \in ReadRecord /\ connecting = {}
  BY Zenon, ReadFacts
<1>3. UNCHANGED <<place, left, copy, replicas, inSync, writing, pending, may, recovery, connecting>> /\ reading' = {}
  BY Zenon DEF ReadEnds
<1> QED
  BY Zenon, <1>2, <1>3, ReadGoesOn

(* What is known while a coordinator connects.                              *)
LEMMA ConnectFacts ==
  ASSUME GroupInv, NEW c \in connecting
  PROVE  /\ GroupTypeOK /\ ConnectOK(c) /\ c \in ConnectRecord /\ connecting = {c} /\ place = "remote"
         /\ writing = {} /\ reading = {} /\ recovery = {}
         /\ c.next \in Nat /\ c.proven \in SUBSET Copies /\ c.primary \in SUBSET [QueryIds -> Nat]
<1>1. GroupTypeOK /\ ConnectOK(c)
  BY Zenon DEF GroupInv
<1>2. c \in ConnectRecord /\ connecting = {c} /\ place = "remote" /\ writing = {} /\ reading = {} /\ recovery = {}
  BY Zenon, <1>1 DEF GroupTypeOK, AtMostOne
<1> QED
  BY Zenon, <1>1, <1>2 DEF ConnectRecord

(* The fingerprint of the primary that replicas are compared with is that   *)
(* of its contents.                                                         *)
LEMMA AttestedIs ==
  ASSUME NEW c, ConnectOK(c) PROVE Attested(c) = {Contents(copy, PrimaryCopy)}
<1>1. c.primary \subseteq {Contents(copy, PrimaryCopy)} /\ Fingerprint(PrimaryCopy) = Contents(copy, PrimaryCopy)
  BY Zenon, ValueIsHeld DEF ConnectOK
<1> QED
  BY Zenon, <1>1 DEF Attested

(* A step of a coordinator that connects: nobody writes or reads.           *)
LEMMA ConnectStep ==
  ASSUME GroupInv, NEW c \in connecting,
         copy' \in [Copies -> CopyRecord], \A d \in Copies : CopyOK(copy'[d]),
         \A d \in Current, id \in QueryIds : \E e \in Current : Held(copy', d, id) = Held(copy, e, id),
         UNCHANGED <<place, left, replicas, inSync, writing, pending, may, reading, recovery>>,
         NEW u \in ConnectRecord, connecting' = {u}, ConnectOK(u)'
  PROVE  GroupInv'
<1>1. /\ GroupTypeOK /\ HeldOK /\ PendingOK /\ place = "remote" /\ writing = {} /\ reading = {} /\ recovery = {}
  BY Zenon, ConnectFacts DEF GroupInv
<1>2. Members' = Members /\ Current' = Current
  BY Zenon DEF Members, Current
<1>4. GroupTypeOK'
  BY Zenon, <1>1, <1>2 DEF GroupTypeOK, AtMostOne
<1>5. HeldOK' /\ PendingOK'
  BY Zenon, <1>1, <1>2 DEF HeldOK, PendingOK
<1> QED
  BY Zenon, <1>1, <1>4, <1>5 DEF GroupInv

(* A step of the connection alone.                                          *)
LEMMA ConnectGoesOn ==
  ASSUME GroupInv, NEW c \in connecting,
         UNCHANGED <<place, left, copy, replicas, inSync, writing, pending, may, reading, recovery>>,
         NEW u \in ConnectRecord, connecting' = {u}, ConnectOK(u)
  PROVE  GroupInv'
<1>1. GroupTypeOK
  BY Zenon, ConnectFacts
<1>2. copy' \in [Copies -> CopyRecord] /\ \A d \in Copies : CopyOK(copy'[d])
  BY Zenon, <1>1 DEF GroupTypeOK
<1>4. ConnectOK(u)'
  BY Zenon DEF ConnectOK
<1> QED
  BY Zenon, <1>2, <1>4, ConnectStep

(* A coordinator that stops leaves writes and reads behind; the next one    *)
(* proves the replicas anew.                                                *)
LEMMA CoordinatorStopsKeeps == ASSUME GroupInv, CoordinatorStops PROVE GroupInv'
<1> DEFINE u == [next |-> 1, proven |-> {}, primary |-> {}]
<1>1. GroupTypeOK /\ HeldOK
  BY Zenon DEF GroupInv
<1>2. /\ UNCHANGED <<place, copy, replicas, may, recovery>> /\ place = "remote" /\ connecting' = {u}
      /\ writing' = {} /\ reading' = {} /\ pending' = Nothing /\ inSync' = {}
  BY Zenon DEF CoordinatorStops
<1>3. /\ left' \in [writes : Nat, reads : Nat, seals : Nat, stops : Nat, recoveries : Nat]
      /\ left'.writes = left.writes
  BY <1>1 DEF GroupTypeOK, CoordinatorStops
<1>4. u \in ConnectRecord /\ u.next = 1 /\ u.proven = {} /\ u.primary = {}
  BY Zenon DEF ConnectRecord
<1> HIDE DEF u
<1>5. pending' \in [QueryIds -> SUBSET Nat] /\ \A id \in QueryIds : pending'[id] = {}
  BY Zenon, <1>2 DEF Nothing
<1>6. connecting' \subseteq ConnectRecord /\ AtMostOne(connecting') /\ AtMostOne(writing') /\ AtMostOne(reading')
  BY Zenon, <1>2, <1>4 DEF AtMostOne
<1>7. recovery' = {}
  BY Zenon, <1>1, <1>2 DEF GroupTypeOK
<1>8. Members' = Members /\ Current' = {PrimaryCopy} /\ PrimaryCopy \in Current
  BY Zenon, <1>2 DEF Members, Current
<1>9. GroupTypeOK'
  BY Zenon, <1>1, <1>2, <1>3, <1>5, <1>6 DEF GroupTypeOK, AtMostOne
<1>10. HeldOK' /\ PendingOK'
  BY Zenon, <1>1, <1>2, <1>3, <1>5, <1>8 DEF HeldOK, PendingOK
<1>11. ASSUME NEW x \in connecting' PROVE ConnectOK(x)'
  <2>1. x.next = 1 /\ x.proven = {} /\ x.primary = {}
    BY Zenon, <1>2, <1>4
  <2> QED
    BY <2>1 DEF ConnectOK
<1> QED
  BY Zenon, <1>2, <1>7, <1>9, <1>10, <1>11 DEF GroupInv

(* A replica whose fingerprint is the primary's is proven.                  *)
LEMMA ProveNextKeeps == ASSUME GroupInv, ProveNext PROVE GroupInv'
<1> DEFINE p == Contents(copy, PrimaryCopy)
<1>1. PICK c \in connecting : c.next \in DOMAIN replicas /\ Proven(c, replicas[c.next])
  BY Zenon DEF ProveNext
<1>2. /\ GroupTypeOK /\ ConnectOK(c) /\ c.next \in Nat /\ c.proven \in SUBSET Copies
      /\ CopyOK(copy[PrimaryCopy])
  BY Zenon, ConnectFacts, GroupCopies
<1>3. PICK r : r = replicas[c.next]
  BY Zenon
<1>4. r \in Members /\ r \in Copies /\ p \in [QueryIds -> Nat]
  BY Zenon, <1>1, <1>2, <1>3, GroupCopies, ContentsType DEF Members
<1>5. PICK pr : pr = IF p = Contents(copy, r) THEN c.proven \cup {r} ELSE c.proven
  BY Zenon
<1>6. PICK u : u = [next |-> c.next + 1, primary |-> {p}, proven |-> pr]
  BY Zenon
<1>7. connecting' = {u}
  <2>1. Attested(c) = {p} /\ Fingerprint(r) = Contents(copy, r)
    BY Zenon, <1>2, AttestedIs, ValueIsHeld
  <2>3. connecting' = {[next |-> c.next + 1, primary |-> {p},
                        proven |-> IF {p} = {Contents(copy, r)} THEN c.proven \cup {r} ELSE c.proven]}
    BY Zenon, <1>1, <1>3, <2>1 DEF Proven
  <2> QED
    BY Zenon, <1>5, <1>6, <2>3
<1>8. UNCHANGED <<place, left, copy, replicas, inSync, writing, pending, may, reading, recovery>>
  BY Zenon DEF ProveNext
<1>9. pr \in SUBSET Copies /\ \A d \in pr : d \in c.proven \/ (d = r /\ p = Contents(copy, r))
  BY Zenon, <1>2, <1>4, <1>5
<1>10. u \in ConnectRecord /\ u.next = c.next + 1 /\ u.primary = {p} /\ u.proven = pr
  <2> HIDE DEF p
  <2> QED
    BY <1>2, <1>4, <1>6, <1>9 DEF ConnectRecord
<1>11. ASSUME NEW d \in pr
       PROVE  /\ \E k \in DOMAIN replicas : k < c.next + 1 /\ replicas[k] = d
              /\ \A id \in QueryIds : Held(copy, d, id) = Held(copy, PrimaryCopy, id)
  <2>1. CASE d \in c.proven
    <3>1. PICK k \in DOMAIN replicas : k < c.next /\ replicas[k] = d
      BY Zenon, <1>2, <2>1 DEF ConnectOK
    <3>2. DOMAIN replicas \subseteq Nat
      BY <1>2 DEF GroupTypeOK
    <3>3. k < c.next + 1
      BY <1>2, <3>1, <3>2
    <3> QED
      BY Zenon, <1>2, <2>1, <3>1, <3>3 DEF ConnectOK
  <2>2. CASE d = r /\ p = Contents(copy, r)
    BY <1>1, <1>2, <1>3, <2>2, ContentsEqual
  <2> QED
    BY Zenon, <1>9, <2>1, <2>2
<1>12. ConnectOK(u)
  BY <1>2, <1>10, <1>11 DEF ConnectOK
<1> QED
  BY Zenon, <1>7, <1>8, <1>10, <1>12, ConnectGoesOn

(* A replica that cannot be proven is passed over.                          *)
LEMMA ProveFailsKeeps == ASSUME GroupInv, ProveFails PROVE GroupInv'
<1>1. PICK c \in connecting : c.next \in DOMAIN replicas /\ connecting' = {[c EXCEPT !.next = @ + 1]}
  BY Zenon DEF ProveFails
<1>2. PICK u : u = [c EXCEPT !.next = @ + 1]
  BY Zenon
<1>3. GroupTypeOK /\ ConnectOK(c) /\ c \in ConnectRecord /\ c.next \in Nat
  BY Zenon, ConnectFacts
<1>4. u \in ConnectRecord /\ u.next = c.next + 1 /\ u.primary = c.primary /\ u.proven = c.proven
  BY <1>2, <1>3 DEF ConnectRecord
<1>5. \A k \in DOMAIN replicas : k \in Nat /\ (k < c.next => k < c.next + 1)
  BY <1>3 DEF GroupTypeOK
<1>6. ConnectOK(u)
  BY <1>3, <1>4, <1>5 DEF ConnectOK
<1>7. UNCHANGED <<place, left, copy, replicas, inSync, writing, pending, may, reading, recovery>> /\ connecting' = {u}
  BY Zenon, <1>1, <1>2 DEF ProveFails
<1> QED
  BY Zenon, <1>4, <1>6, <1>7, ConnectGoesOn

(* A replica that differs is recovered from the primary, and proven if that *)
(* succeeds.                                                                *)
LEMMA RecoverNextKeeps == ASSUME GroupInv, NEW proved \in BOOLEAN, RecoverNext(proved) PROVE GroupInv'
<1> DEFINE p == Contents(copy, PrimaryCopy)
           s == Content(copy[PrimaryCopy])
           q == NewCopy(s)
<1>1. PICK c \in connecting :
        /\ c.next \in DOMAIN replicas
        /\ copy' = [copy EXCEPT ![replicas[c.next]] = q]
        /\ connecting' = {[next |-> c.next + 1, primary |-> Attested(c),
                           proven |-> IF proved /\ Attested(c) = {Fingerprint(PrimaryCopy)}
                                      THEN c.proven \cup {replicas[c.next]} ELSE c.proven]}
  BY Zenon DEF RecoverNext, Content
<1>2. /\ GroupTypeOK /\ ConnectOK(c) /\ c.next \in Nat /\ c.proven \in SUBSET Copies
      /\ CopyOK(copy[PrimaryCopy])
  BY Zenon, ConnectFacts, GroupCopies
<1>3. PICK r : r = replicas[c.next]
  BY Zenon
<1>4. r \in Members /\ r \in Copies /\ r # PrimaryCopy /\ p \in [QueryIds -> Nat] /\ s \in Seq(Entry)
  BY Zenon, <1>1, <1>2, <1>3, GroupCopies, ContentsType, CopyFacts DEF Members
<1>5. PICK pr : pr = IF proved THEN c.proven \cup {r} ELSE c.proven
  BY Zenon
<1>6. PICK u : u = [next |-> c.next + 1, primary |-> {p}, proven |-> pr]
  BY Zenon
<1>7. connecting' = {u}
  <2>1. Attested(c) = {p} /\ Fingerprint(PrimaryCopy) = p
    BY Zenon, <1>2, AttestedIs, ValueIsHeld
  <2>2. connecting' = {[next |-> c.next + 1, primary |-> {p},
                        proven |-> IF proved THEN c.proven \cup {r} ELSE c.proven]}
    BY Zenon, <1>1, <1>3, <2>1
  <2> QED
    BY Zenon, <1>5, <1>6, <2>2
<1>8. UNCHANGED <<place, left, replicas, inSync, writing, pending, may, reading, recovery>>
  BY Zenon DEF RecoverNext
<1>9. pr \in SUBSET Copies /\ \A d \in pr : d \in c.proven \/ d = r
  BY Zenon, <1>2, <1>4, <1>5
<1> HIDE DEF p
<1>10. u \in ConnectRecord /\ u.next = c.next + 1 /\ u.primary = {p} /\ u.proven = pr
  BY <1>2, <1>4, <1>6, <1>9 DEF ConnectRecord
<1>11. CopyOK(q) /\ \A id \in QueryIds : Last(Content(q), id) = Last(s, id)
  <2> HIDE DEF s
  <2> QED
    BY Zenon, <1>4, NewCopyContent
<1> HIDE DEF q
<1>12. copy' = [copy EXCEPT ![r] = q]
  BY Zenon, <1>1, <1>3
<1>13. /\ copy' \in [Copies -> CopyRecord] /\ \A d \in Copies : CopyOK(copy'[d])
       /\ copy'[r] = q /\ \A d \in Copies \ {r} : copy'[d] = copy[d]
  BY Zenon, <1>2, <1>4, <1>11, <1>12, OneCopyChanges
<1>14. \A d \in Copies \ {r}, id \in QueryIds : Held(copy', d, id) = Held(copy, d, id)
  BY Zenon, <1>13 DEF Held
<1>15. \A id \in QueryIds : Held(copy', r, id) = Held(copy, PrimaryCopy, id)
  BY Zenon, <1>11, <1>13 DEF Held
<1>16. \A d \in Current, id \in QueryIds : \E e \in Current : Held(copy', d, id) = Held(copy, e, id)
  <2>1. Current \subseteq Copies /\ PrimaryCopy \in Current
    BY Zenon, <1>2, GroupCopies DEF Current
  <2> QED
    BY Zenon, <1>14, <1>15, <2>1
<1>17. \A id \in QueryIds : Held(copy', PrimaryCopy, id) = Held(copy, PrimaryCopy, id)
  BY Zenon, <1>4, <1>14, PrimaryAssumption
<1>18. Contents(copy', PrimaryCopy) = p
  BY Zenon, <1>17, SameContents DEF p
<1>19. ASSUME NEW d \in pr
       PROVE  /\ \E k \in DOMAIN replicas : k < c.next + 1 /\ replicas[k] = d
              /\ \A id \in QueryIds : Held(copy', d, id) = Held(copy', PrimaryCopy, id)
  <2>1. CASE d = r
    <3>1. c.next < c.next + 1
      BY <1>2
    <3>2. \E k \in DOMAIN replicas : k < c.next + 1 /\ replicas[k] = d
      BY Zenon, <1>1, <1>3, <2>1, <3>1
    <3> QED
      BY Zenon, <1>15, <1>17, <2>1, <3>2
  <2>2. CASE d \in c.proven
    <3>1. PICK k \in DOMAIN replicas : k < c.next /\ replicas[k] = d
      BY Zenon, <1>2, <2>2 DEF ConnectOK
    <3>2. DOMAIN replicas \subseteq Nat /\ \A i, j \in DOMAIN replicas : replicas[i] = replicas[j] => i = j
      BY <1>2 DEF GroupTypeOK
    <3>3. k < c.next + 1 /\ k # c.next
      BY <1>2, <3>1, <3>2
    <3>4. d # r /\ d \in Copies
      BY Zenon, <1>1, <1>2, <1>3, <2>2, <3>1, <3>2, <3>3
    <3>5. \A id \in QueryIds : Held(copy, d, id) = Held(copy, PrimaryCopy, id)
      BY Zenon, <1>2, <2>2 DEF ConnectOK
    <3> QED
      BY Zenon, <1>14, <1>17, <3>1, <3>3, <3>4, <3>5
  <2> QED
    BY Zenon, <1>9, <2>1, <2>2
<1>20. ConnectOK(u)'
  BY <1>2, <1>8, <1>10, <1>18, <1>19 DEF ConnectOK
<1> QED
  BY Zenon, <1>7, <1>8, <1>10, <1>13, <1>16, <1>20, ConnectStep

(* The proven replicas are in sync when the coordinator has connected.      *)
LEMMA ConnectedKeeps == ASSUME GroupInv, Connected PROVE GroupInv'
<1>1. PICK c \in connecting : inSync' = c.proven
  BY Zenon DEF Connected
<1>2. /\ GroupTypeOK /\ ConnectOK(c) /\ HeldOK /\ PendingOK /\ writing = {} /\ reading = {} /\ recovery = {}
  BY Zenon, ConnectFacts DEF GroupInv
<1>3. UNCHANGED <<place, left, copy, replicas, writing, pending, may, reading, recovery>> /\ connecting' = {}
  BY Zenon DEF Connected
<1>4. Members' = Members /\ inSync' \subseteq Members
  BY Zenon, <1>1, <1>2, <1>3 DEF Members, ConnectOK
<1>5. GroupTypeOK'
  BY Zenon, <1>2, <1>3, <1>4 DEF GroupTypeOK, AtMostOne
<1>6. HeldOK'
  <2>1. \A d \in Current', id \in QueryIds : Held(copy, d, id) = Held(copy, PrimaryCopy, id)
    BY Zenon, <1>1, <1>2 DEF Current, ConnectOK
  <2>2. PrimaryCopy \in Current
    BY Zenon DEF Current
  <2> QED
    BY Zenon, <1>2, <1>3, <2>1, <2>2 DEF HeldOK
<1>7. PendingOK'
  BY Zenon, <1>2, <1>3 DEF PendingOK
<1> QED
  BY Zenon, <1>2, <1>3, <1>5, <1>6, <1>7 DEF GroupInv

(* What is known while a write is under way.                                *)
LEMMA WriteFacts ==
  ASSUME GroupInv, NEW w \in writing
  PROVE  /\ GroupTypeOK /\ WriteOK(w) /\ w \in WriteRecord /\ writing = {w} /\ connecting = {}
         /\ w.id \in QueryIds /\ w.val \in Nat /\ w.next \in Nat
         /\ w.val \in may[w.id] /\ (w.val = 0 \/ w.val > left.writes)
<1>1. GroupTypeOK /\ WriteOK(w)
  BY Zenon DEF GroupInv
<1>2. w \in WriteRecord /\ writing = {w} /\ connecting = {}
  BY Zenon, <1>1 DEF GroupTypeOK, AtMostOne
<1> QED
  BY Zenon, <1>1, <1>2 DEF WriteRecord, WriteOK

(* A write stored in one copy.                                              *)
LEMMA PutStep ==
  ASSUME GroupTypeOK, NEW c \in Copies, NEW id \in QueryIds, NEW val \in Nat, NEW cp, cp = Put(c, id, val)
  PROVE  /\ cp \in [Copies -> CopyRecord] /\ \A d \in Copies : CopyOK(cp[d])
         /\ \A d \in Copies \ {c} : cp[d] = copy[d]
         /\ \A d \in Copies \ {c}, i \in QueryIds : Held(cp, d, i) = Held(copy, d, i)
         /\ Held(cp, c, id) = val
         /\ \A i \in QueryIds \ {id} : Held(cp, c, i) = Held(copy, c, i)
         /\ cp[c].leases = copy[c].leases /\ cp[c].trimmed = copy[c].trimmed
         /\ End(cp[c]) = End(copy[c]) + 1
         /\ \A k \in 1 .. End(copy[c]) : cp[c].log[k] = copy[c].log[k]
         /\ cp[c].log[End(cp[c])].id = {id}
<1> DEFINE r == copy[c]
           l == Append(r.log, Stored(id, val))
           q == [r EXCEPT !.log = l]
<1>1. copy \in [Copies -> CopyRecord] /\ \A d \in Copies : CopyOK(copy[d])
  BY Zenon DEF GroupTypeOK
<1>2. cp = [copy EXCEPT ![c] = q]
  BY Zenon DEF Put
<1>3. CopyOK(r) /\ r \in CopyRecord /\ r.log \in Seq(Entry)
  BY Zenon, <1>1, CopyFacts
<1>4. l \in Seq(Entry)
  <2>1. Stored(id, val) \in Entry
    BY Zenon DEF Stored, Entry
  <2> HIDE DEF r
  <2> QED
    BY <1>3, <2>1
<1> HIDE DEF l
<1>5. /\ q \in CopyRecord /\ q.base = r.base /\ q.log = l /\ q.trimmed = r.trimmed /\ q.ckpt = r.ckpt
      /\ q.leases = r.leases
  <2> HIDE DEF r
  <2> QED
    BY Zenon, <1>3, <1>4 DEF CopyRecord
<1> HIDE DEF q, r
<1>6. /\ CopyOK(q) /\ End(q) = End(r) + 1
      /\ \A k \in 1 .. End(r) : q.log[k] = r.log[k]
      /\ q.log[End(q)].id = {id}
      /\ Last(Content(q), id) = val
      /\ \A i \in QueryIds \ {id} : Last(Content(q), i) = Last(Content(r), i)
  <2>1. q.log = Appended(r.log, id, val)
    BY Zenon, <1>5 DEF l, Appended
  <2> QED
    BY <1>3, <1>5, <2>1, PutContent
<1>7. cp \in [Copies -> CopyRecord] /\ cp[c] = q /\ \A d \in Copies \ {c} : cp[d] = copy[d]
  BY Zenon, <1>1, <1>2, <1>5
<1>8. \A d \in Copies : CopyOK(cp[d])
  BY Zenon, <1>1, <1>6, <1>7
<1>9. \A d \in Copies \ {c}, i \in QueryIds : Held(cp, d, i) = Held(copy, d, i)
  BY Zenon, <1>7 DEF Held
<1>10. Held(cp, c, id) = val /\ \A i \in QueryIds \ {id} : Held(cp, c, i) = Held(copy, c, i)
  BY Zenon, <1>6, <1>7 DEF Held, r
<1> QED
  BY Zenon, <1>5, <1>6, <1>7, <1>8, <1>9, <1>10 DEF r

(* A recovery finds in the translog what is stored while it runs.           *)
LEMMA PutRecovery ==
  ASSUME GroupInv, NEW c \in {PrimaryCopy} \cup Members, NEW id \in QueryIds, NEW val \in Nat,
         copy' = Put(c, id, val), replicas' = replicas, NEW v \in recovery
  PROVE  RecoveryOK(v)'
<1> DEFINE p == copy[PrimaryCopy]
           q == copy'[PrimaryCopy]
<1>1. /\ GroupTypeOK /\ RecoveryOK(v) /\ v \in RecoveryRecord /\ v.to \in Copies /\ v.from \in Nat
      /\ v.to # PrimaryCopy /\ v.to \notin Members /\ v.from <= End(p) /\ CopyOK(p) /\ End(p) \in Nat
  BY Zenon, RecoveryFacts, CopyFacts
<1>2. c \in Copies /\ c # v.to /\ PrimaryCopy \in Copies
  BY Zenon, <1>1, GroupCopies
<1>3. /\ \A d \in Copies \ {c} : copy'[d] = copy[d]
      /\ \A d \in Copies \ {c}, i \in QueryIds : Held(copy', d, i) = Held(copy, d, i)
      /\ \A i \in QueryIds \ {id} : Held(copy', c, i) = Held(copy, c, i)
      /\ copy'[c].leases = copy[c].leases /\ copy'[c].trimmed = copy[c].trimmed
      /\ End(copy'[c]) = End(copy[c]) + 1
      /\ \A k \in 1 .. End(copy[c]) : copy'[c].log[k] = copy[c].log[k]
      /\ copy'[c].log[End(copy'[c])].id = {id}
  <2>1. PICK cp : cp = copy'
    BY Zenon
  <2>2. cp = Put(c, id, val)
    BY Zenon, <2>1
  <2>3. /\ \A d \in Copies \ {c} : cp[d] = copy[d]
        /\ \A d \in Copies \ {c}, i \in QueryIds : Held(cp, d, i) = Held(copy, d, i)
        /\ \A i \in QueryIds \ {id} : Held(cp, c, i) = Held(copy, c, i)
        /\ cp[c].leases = copy[c].leases /\ cp[c].trimmed = copy[c].trimmed
        /\ End(cp[c]) = End(copy[c]) + 1
        /\ \A k \in 1 .. End(copy[c]) : cp[c].log[k] = copy[c].log[k]
        /\ cp[c].log[End(cp[c])].id = {id}
    BY <1>1, <1>2, <2>2, PutStep
  <2> QED
    BY Zenon, <2>1, <2>3
<1>4. CASE c # PrimaryCopy
  <2>1. q = p
    BY Zenon, <1>2, <1>3, <1>4
  <2>2. \A i \in QueryIds : /\ Held(copy', PrimaryCopy, i) = Held(copy, PrimaryCopy, i)
                            /\ Held(copy', v.to, i) = Held(copy, v.to, i)
    BY Zenon, <1>1, <1>2, <1>3, <1>4
  <2> QED
    BY Zenon, <1>1, <2>1, <2>2, RecoveryFrame
<1>5. CASE c = PrimaryCopy
  <2>1. /\ q.leases = p.leases /\ q.trimmed = p.trimmed /\ End(q) = End(p) + 1 /\ q.log[End(q)].id = {id}
        /\ \A k \in 1 .. End(p) : q.log[k] = p.log[k]
    BY Zenon, <1>3, <1>5
  <2>2. Members' = Members
    BY Zenon DEF Members
  <2>3. Later(q, v.from, id) /\ \A i : Later(p, v.from, i) => Later(q, v.from, i)
    <3> HIDE DEF p, q
    <3>1. End(q) \in (v.from + 1) .. End(q)
      BY <1>1, <2>1
    <3>2. \A k \in (v.from + 1) .. End(p) : k \in (v.from + 1) .. End(q) /\ k \in 1 .. End(p)
      BY <1>1, <2>1
    <3> QED
      BY Zenon, <2>1, <3>1, <3>2 DEF Later
  <2>4. \A i \in QueryIds \ {id} : /\ Held(copy', PrimaryCopy, i) = Held(copy, PrimaryCopy, i)
                                   /\ Held(copy', v.to, i) = Held(copy, v.to, i)
    BY Zenon, <1>1, <1>2, <1>3
  <2>5. /\ v.pc # "lease" => p.leases # {} /\ \A x \in p.leases : x <= v.from
        /\ v.pc \in {"copy", "drain", "promote"} => p.trimmed <= v.from
        /\ v.pc \in {"drain", "promote"} =>
             \A i \in QueryIds : Held(copy, v.to, i) = Held(copy, PrimaryCopy, i) \/ Later(p, v.from, i)
    BY Zenon, <1>1 DEF RecoveryOK
  <2>6. v.from <= End(q)
    BY <1>1, <2>1
  <2>7. v.pc \in {"drain", "promote"} =>
             \A i \in QueryIds : Held(copy', v.to, i) = Held(copy', PrimaryCopy, i) \/ Later(q, v.from, i)
    BY Zenon, <2>3, <2>4, <2>5
  <2> HIDE DEF p
  <2> QED
    BY Zenon, <1>1, <2>1, <2>2, <2>5, <2>6, <2>7 DEF RecoveryOK, q
<1> QED
  BY Zenon, <1>4, <1>5

(* The parts of the invariant that a write stored in a copy leaves.         *)
LEMMA PutKeepsOthers ==
  ASSUME GroupInv, NEW c \in {PrimaryCopy} \cup Members, NEW id \in QueryIds, NEW val \in Nat, val \in may[id],
         val = 0 \/ val > left.writes,
         copy' = Put(c, id, val), inSync' \subseteq inSync,
         UNCHANGED <<place, left, replicas, may, reading, recovery, connecting>>
  PROVE  /\ copy' \in [Copies -> CopyRecord] /\ \A d \in Copies : CopyOK(copy'[d])
         /\ HeldOK' /\ (\A r \in reading' : ReadOK(r)') /\ (\A v \in recovery' : RecoveryOK(v)')
<1>1. GroupTypeOK /\ HeldOK /\ (\A r \in reading : ReadOK(r))
  BY Zenon DEF GroupInv
<1>2. c \in Copies /\ {PrimaryCopy} \cup Members \subseteq Copies /\ Current \subseteq Copies
  BY Zenon, <1>1, GroupCopies
<1>3. /\ copy' \in [Copies -> CopyRecord] /\ \A d \in Copies : CopyOK(copy'[d])
      /\ \A d \in Copies \ {c}, i \in QueryIds : Held(copy', d, i) = Held(copy, d, i)
      /\ Held(copy', c, id) = val
      /\ \A i \in QueryIds \ {id} : Held(copy', c, i) = Held(copy, c, i)
  BY <1>1, <1>2, PutStep
<1>4. \A d \in Copies, i \in QueryIds :
        Held(copy', d, i) = Held(copy, d, i) \/ (i = id /\ Held(copy', d, i) = val)
  BY Zenon, <1>3
<1>5. HeldOK'
  <2>1. Current' \subseteq Current
    BY Zenon DEF Current
  <2> QED
    BY Zenon, <1>1, <1>2, <1>4, <2>1 DEF HeldOK
<1>6. ASSUME NEW r \in reading' PROVE ReadOK(r)'
  <2>1. Members' = Members
    BY Zenon DEF Members
  <2>2. \A d \in {PrimaryCopy} \cup Members, i \in QueryIds :
          Held(copy', d, i) = Held(copy, d, i) \/ Held(copy', d, i) \in may[i]
    BY Zenon, <1>2, <1>4
  <2> QED
    BY Zenon, <1>1, <2>1, <2>2, ReadFrame
<1>7. ASSUME NEW v \in recovery' PROVE RecoveryOK(v)'
  BY Zenon, PutRecovery
<1> QED
  BY Zenon, <1>3, <1>5, <1>6, <1>7

(* Every answer a read under way may give grows by the value of the write.  *)
LEMMA AllowedGrows ==
  ASSUME NEW r \in ReadRecord, ReadOK(r), NEW id \in QueryIds, NEW val \in Nat,
         NEW u, u = [r EXCEPT !.allowed[id] = @ \cup {val}],
         may' = [may EXCEPT ![id] = @ \cup {val}], may \in [QueryIds -> SUBSET Nat],
         UNCHANGED <<copy, replicas>>
  PROVE  u \in ReadRecord /\ ReadOK(u)'
<1> DEFINE a == [r.allowed EXCEPT ![id] = @ \cup {val}]
<1>1. r.allowed \in [QueryIds -> SUBSET Nat]
  BY Zenon DEF ReadRecord
<1>2. a \in [QueryIds -> SUBSET Nat] /\ \A i \in QueryIds : a[i] = r.allowed[i] \cup (IF i = id THEN {val} ELSE {})
  BY Zenon, <1>1
<1>3. u = [r EXCEPT !.allowed = a]
  BY Zenon
<1> HIDE DEF a
<1>4. /\ u \in ReadRecord /\ u.at = r.at /\ u.others = r.others /\ u.state = r.state /\ u.view = r.view
      /\ u.chunks = r.chunks /\ u.allowed = a
  BY Zenon, <1>2, <1>3 DEF ReadRecord
<1>6. \A i \in QueryIds : r.allowed[i] \subseteq a[i] /\ (may[i] \subseteq r.allowed[i] => may'[i] \subseteq a[i])
  BY Zenon, <1>2
<1>7. \A i : Chunk(u, i) = Chunk(r, i)
  BY Zenon, <1>4, SameChunks
<1>8. Members' = Members
  BY Zenon DEF Members
<1>10. /\ u.at \in {PrimaryCopy} \cup Members /\ \A k \in DOMAIN u.others : u.others[k] \in Members
       /\ \A i \in QueryIds : may'[i] \subseteq u.allowed[i]
  BY Zenon, <1>4, <1>6 DEF ReadOK
<1>12. u.state \in {"open", "done"} =>
         /\ u.chunks \subseteq {Chunk(u, i) : i \in QueryIds}
         /\ \A i \in QueryIds : u.view[i] \in u.allowed[i]
  <2> SUFFICES ASSUME u.state \in {"open", "done"}
               PROVE  /\ u.chunks \subseteq {Chunk(u, i) : i \in QueryIds}
                      /\ \A i \in QueryIds : u.view[i] \in u.allowed[i]
    BY Zenon
  <2>1. r.chunks \subseteq {Chunk(r, i) : i \in QueryIds} /\ \A i \in QueryIds : r.view[i] \in r.allowed[i]
    BY DEF ReadOK
  <2>2. u.chunks \subseteq {Chunk(u, i) : i \in QueryIds}
    BY Zenon, <1>4, <1>7, <2>1
  <2>3. \A i \in QueryIds : u.view[i] \in u.allowed[i]
    BY <2>1
  <2> QED
    BY Zenon, <2>2, <2>3
<1>13. u.state = "done" => u.chunks = {Chunk(u, i) : i \in QueryIds}
  BY Zenon, <1>4, <1>7 DEF ReadOK
<1> QED
  BY <1>4, <1>8, <1>10, <1>12, <1>13 DEF ReadOK, Chunk

(* A write begins: from now on its query may hold its text.                 *)
LEMMA BeginKeeps ==
  ASSUME GroupInv, NEW id \in QueryIds, NEW how \in Hows, NEW val \in Nat, Begin_(id, how, val),
         val = 0 \/ val > left.writes - 1,
         how = "conditional" => \A c \in Current : Held(copy, c, id) # val
  PROVE  GroupInv'
<1>1. PICK w : w = [id |-> id, how |-> how, val |-> val, next |-> 0]
  BY Zenon
<1>2. /\ GroupTypeOK /\ HeldOK /\ PendingOK /\ (\A r \in reading : ReadOK(r)) /\ (\A v \in recovery : RecoveryOK(v))
  BY Zenon DEF GroupInv
<1>3. /\ connecting = {} /\ writing' = {w} /\ left.writes > 0
      /\ may' = [may EXCEPT ![id] = @ \cup {val}]
      /\ reading' = {[r EXCEPT !.allowed[id] = @ \cup {val}] : r \in reading}
      /\ UNCHANGED <<place, copy, replicas, inSync, pending, recovery, connecting>>
  BY Zenon, <1>1 DEF Begin_, Serving, NowAllowed
<1>4. /\ left' \in [writes : Nat, reads : Nat, seals : Nat, stops : Nat, recoveries : Nat]
      /\ left'.writes = left.writes - 1 /\ left.writes \in Nat /\ left'.writes \in Nat
  BY <1>2 DEF GroupTypeOK, Begin_
<1>5. /\ may \in [QueryIds -> SUBSET Nat] /\ may' \in [QueryIds -> SUBSET Nat]
      /\ \A i \in QueryIds : may[i] \subseteq may'[i] /\ val \in may'[id]
  BY Zenon, <1>2, <1>3 DEF GroupTypeOK
<1>6. Members' = Members /\ Current' = Current
  BY Zenon, <1>3 DEF Members, Current
<1>7. w \in WriteRecord /\ w.id = id /\ w.how = how /\ w.val = val /\ w.next = 0
  BY Zenon, <1>1 DEF WriteRecord
<1>8. ASSUME NEW u \in reading' PROVE u \in ReadRecord /\ ReadOK(u)'
  <2>1. PICK r \in reading : u = [r EXCEPT !.allowed[id] = @ \cup {val}]
    BY Zenon, <1>3
  <2>2. r \in ReadRecord /\ ReadOK(r)
    BY Zenon, <1>2 DEF GroupTypeOK
  <2> QED
    BY Zenon, <1>3, <1>5, <2>1, <2>2, AllowedGrows
<1>9. AtMostOne(reading') /\ AtMostOne(writing') /\ writing' \subseteq WriteRecord
  <2>1. ASSUME NEW x \in reading', NEW y \in reading' PROVE x = y
    <3>1. PICK r \in reading : x = [r EXCEPT !.allowed[id] = @ \cup {val}]
      BY Zenon, <1>3
    <3>2. PICK s \in reading : y = [s EXCEPT !.allowed[id] = @ \cup {val}]
      BY Zenon, <1>3
    <3>3. r = s
      BY Zenon, <1>2 DEF GroupTypeOK, AtMostOne
    <3> QED
      BY Zenon, <3>1, <3>2, <3>3
  <2>2. AtMostOne(writing') /\ writing' \subseteq WriteRecord
    BY Zenon, <1>3, <1>7 DEF AtMostOne
  <2> QED
    BY Zenon, <2>1, <2>2 DEF AtMostOne
<1>10. GroupTypeOK'
  <2>1. reading' \subseteq ReadRecord
    BY Zenon, <1>8
  <2> QED
    BY Zenon, <1>2, <1>3, <1>4, <1>5, <1>6, <1>9, <2>1 DEF GroupTypeOK, AtMostOne
<1>11. HeldOK'
  BY <1>2, <1>3, <1>4, <1>6, HeldFrame
<1>12. PendingOK'
  BY <1>2, <1>3, <1>4, PendingFrame
<1>13. ASSUME NEW x \in writing' PROVE WriteOK(x)'
  <2>1. x.id = id /\ x.how = how /\ x.val = val /\ x.next = 0
    BY Zenon, <1>3, <1>7
  <2>2. val = 0 \/ val > left'.writes
    BY Zenon, <1>4
  <2>3. how = "conditional" => \A c \in Current' : Held(copy', c, id) # val
    BY Zenon, <1>3, <1>6
  <2> QED
    BY <1>5, <2>1, <2>2, <2>3 DEF WriteOK
<1>14. ASSUME NEW v \in recovery' PROVE RecoveryOK(v)'
  BY Zenon, <1>2, <1>3, <1>6 DEF RecoveryOK
<1> QED
  BY Zenon, <1>3, <1>8, <1>10, <1>11, <1>12, <1>13, <1>14 DEF GroupInv

(* A new write.                                                             *)
LEMMA WriteBeginsKeeps == ASSUME GroupInv, NEW id \in QueryIds, NEW how \in Hows, WriteBegins(id, how) PROVE GroupInv'
<1>1. PICK val : val = IF how = "remove" THEN 0 ELSE left.writes
  BY Zenon
<1>2. Begin_(id, how, val)
  BY Zenon, <1>1 DEF WriteBegins
<1>3. GroupTypeOK /\ HeldOK /\ left.writes \in Nat /\ left.writes > 0
  BY Zenon, <1>2 DEF GroupInv, GroupTypeOK, Begin_
<1>4. val \in Nat /\ (val = 0 \/ val > left.writes - 1)
  BY <1>1, <1>3
<1>5. how = "conditional" => \A c \in Current : Held(copy, c, id) # val
  <2> SUFFICES ASSUME how = "conditional", NEW c \in Current PROVE Held(copy, c, id) # val
    BY Zenon
  <2>1. val = left.writes
    BY Zenon, <1>1
  <2>2. Held(copy, c, id) = 0 \/ Held(copy, c, id) > left.writes
    BY Zenon, <1>3 DEF HeldOK
  <2> QED
    BY <1>3, <2>1, <2>2
<1> QED
  BY Zenon, <1>2, <1>4, <1>5, BeginKeeps

(* A write that was left incomplete is driven again.                        *)
LEMMA RedriveBeginsKeeps == ASSUME GroupInv, NEW id \in QueryIds, RedriveBegins(id) PROVE GroupInv'
<1>1. PICK val \in pending[id] : Begin_(id, IF val = 0 THEN "remove" ELSE "replace", val)
  BY Zenon DEF RedriveBegins
<1>2. PICK how : how = IF val = 0 THEN "remove" ELSE "replace"
  BY Zenon
<1>3. how \in Hows /\ how # "conditional"
  BY Zenon, <1>2 DEF Hows
<1>4. val \in Nat /\ (val = 0 \/ val > left.writes) /\ left.writes \in Nat
  BY Zenon DEF GroupInv, GroupTypeOK, PendingOK
<1>5. val = 0 \/ val > left.writes - 1
  BY <1>4
<1> QED
  BY Zenon, <1>1, <1>2, <1>3, <1>4, <1>5, BeginKeeps

(* The primary applies the write.                                           *)
LEMMA PrimaryAppliesKeeps == ASSUME GroupInv, PrimaryApplies PROVE GroupInv'
<1>1. PICK w \in writing : copy' = Put(PrimaryCopy, w.id, w.val) /\ writing' = {[w EXCEPT !.next = 1]} /\ w.next = 0
  BY Zenon DEF PrimaryApplies
<1>2. PICK u : u = [w EXCEPT !.next = 1]
  BY Zenon
<1>3. /\ GroupTypeOK /\ WriteOK(w) /\ w \in WriteRecord /\ connecting = {}
      /\ w.id \in QueryIds /\ w.val \in Nat /\ w.val \in may[w.id] /\ (w.val = 0 \/ w.val > left.writes)
  BY Zenon, WriteFacts
<1>4. UNCHANGED <<place, left, replicas, inSync, pending, may, reading, recovery, connecting>> /\ writing' = {u}
  BY Zenon, <1>1, <1>2 DEF PrimaryApplies
<1>5. /\ copy' \in [Copies -> CopyRecord] /\ \A d \in Copies : CopyOK(copy'[d])
      /\ HeldOK' /\ (\A r \in reading' : ReadOK(r)') /\ (\A v \in recovery' : RecoveryOK(v)')
  BY Zenon, <1>1, <1>3, <1>4, PutKeepsOthers
<1>6. Held(copy', PrimaryCopy, w.id) = w.val
  BY <1>1, <1>3, PutStep, PrimaryAssumption
<1>7. u \in WriteRecord /\ u.id = w.id /\ u.how = w.how /\ u.val = w.val /\ u.next = 1
  BY Zenon, <1>2, <1>3 DEF WriteRecord
<1>8. Members' = Members /\ Current' = Current
  BY Zenon, <1>4 DEF Members, Current
<1>9. writing' \subseteq WriteRecord /\ AtMostOne(writing')
  BY Zenon, <1>4, <1>7 DEF AtMostOne
<1>10. GroupTypeOK'
  BY Zenon, <1>3, <1>4, <1>5, <1>8, <1>9 DEF GroupTypeOK, AtMostOne
<1>11. PendingOK'
  BY Zenon, <1>4 DEF GroupInv, PendingOK
<1>12. ASSUME NEW x \in writing' PROVE WriteOK(x)'
  <2>1. x = u
    BY Zenon, <1>4
  <2>2. \A k \in DOMAIN replicas : ~ (k < 1)
    BY <1>3 DEF GroupTypeOK
  <2>3. /\ u.val \in may'[u.id] /\ (u.val = 0 \/ u.val > left'.writes)
        /\ Held(copy', PrimaryCopy, u.id) = u.val /\ u.next = 1
        /\ \A k \in DOMAIN replicas' : ~ (k < u.next)
    BY Zenon, <1>3, <1>4, <1>6, <1>7, <2>2
  <2>4. WriteOK(u)'
    BY <2>3 DEF WriteOK
  <2> QED
    BY Zenon, <2>1, <2>4
<1> QED
  BY Zenon, <1>3, <1>4, <1>5, <1>10, <1>11, <1>12 DEF GroupInv

(* A declined write is nowhere.                                             *)
LEMMA PrimaryDeclinesKeeps == ASSUME GroupInv, PrimaryDeclines PROVE GroupInv'
<1>1. PICK w \in writing :
        w.next = 0 /\ Declines(w) /\ may' = [may EXCEPT ![w.id] = @ \ {w.val}] /\ writing' = {}
  BY Zenon DEF PrimaryDeclines
<1>2. /\ GroupTypeOK /\ WriteOK(w) /\ HeldOK /\ PendingOK /\ connecting = {} /\ w.id \in QueryIds
      /\ (\A r \in reading : ReadOK(r)) /\ (\A v \in recovery : RecoveryOK(v))
  BY Zenon, WriteFacts DEF GroupInv
<1>3. UNCHANGED <<place, left, copy, replicas, inSync, pending, reading, recovery, connecting>>
  BY Zenon DEF PrimaryDeclines
<1>4. \A c \in Current : Held(copy, c, w.id) # w.val
  BY Zenon, <1>1, <1>2 DEF WriteOK, Declines
<1>5. /\ may' \in [QueryIds -> SUBSET Nat] /\ may'[w.id] = may[w.id] \ {w.val}
      /\ \A i \in QueryIds \ {w.id} : may'[i] = may[i]
  BY Zenon, <1>1, <1>2 DEF GroupTypeOK
<1>6. Members' = Members /\ Current' = Current
  BY Zenon, <1>3 DEF Members, Current
<1>7. GroupTypeOK'
  BY Zenon, <1>1, <1>2, <1>3, <1>6 DEF GroupTypeOK, AtMostOne
<1>8. HeldOK'
  BY Zenon, <1>2, <1>3, <1>4, <1>5, <1>6 DEF HeldOK
<1>9. PendingOK'
  BY Zenon, <1>2, <1>3 DEF PendingOK
<1>10. ASSUME NEW r \in reading' PROVE ReadOK(r)'
  <2>1. \A i \in QueryIds : may'[i] \subseteq may[i]
    BY Zenon, <1>5
  <2> QED
    BY Zenon, <1>2, <1>3, <1>6, <2>1, ReadFrame
<1>11. ASSUME NEW v \in recovery' PROVE RecoveryOK(v)'
  BY Zenon, <1>2, <1>3, <1>6 DEF RecoveryOK
<1> QED
  BY <1>1, <1>2, <1>3, <1>7, <1>8, <1>9, <1>10, <1>11 DEF GroupInv

(* The primary fails the write, applied or not.                             *)
LEMMA PrimaryFailsKeeps == ASSUME GroupInv, NEW applied \in BOOLEAN, PrimaryFails(applied) PROVE GroupInv'
<1>1. PICK w \in writing :
        /\ w.next = 0 /\ copy' = IF applied THEN Put(PrimaryCopy, w.id, w.val) ELSE copy
        /\ pending' = [pending EXCEPT ![w.id] = {w.val}] /\ writing' = {}
  BY Zenon DEF PrimaryFails
<1>2. /\ GroupTypeOK /\ HeldOK /\ PendingOK /\ connecting = {} /\ w.id \in QueryIds
      /\ w.val \in Nat /\ w.val \in may[w.id] /\ (w.val = 0 \/ w.val > left.writes)
      /\ (\A r \in reading : ReadOK(r)) /\ (\A v \in recovery : RecoveryOK(v))
  BY Zenon, WriteFacts DEF GroupInv
<1>3. UNCHANGED <<place, left, replicas, inSync, may, reading, recovery, connecting>>
  BY Zenon DEF PrimaryFails
<1>4. Members' = Members /\ Current' = Current
  BY Zenon, <1>3 DEF Members, Current
<1>5. /\ copy' \in [Copies -> CopyRecord] /\ \A d \in Copies : CopyOK(copy'[d])
      /\ HeldOK' /\ (\A r \in reading' : ReadOK(r)') /\ (\A v \in recovery' : RecoveryOK(v)')
  <2>1. CASE applied
    BY Zenon, <1>1, <1>2, <1>3, <2>1, PutKeepsOthers
  <2>2. CASE ~ applied
    <3>1. copy' = copy
      BY Zenon, <1>1, <2>2
    <3>2. HeldOK'
      BY Zenon, <1>2, <1>3, <1>4, <3>1 DEF HeldOK
    <3>3. ASSUME NEW r \in reading' PROVE ReadOK(r)'
      BY Zenon, <1>2, <1>3, <1>4, <3>1, ReadFrame
    <3>4. ASSUME NEW v \in recovery' PROVE RecoveryOK(v)'
      BY Zenon, <1>2, <1>3, <1>4, <3>1 DEF RecoveryOK
    <3> QED
      BY Zenon, <1>2, <3>1, <3>2, <3>3, <3>4 DEF GroupTypeOK
  <2> QED
    BY Zenon, <2>1, <2>2
<1>6. /\ pending' \in [QueryIds -> SUBSET Nat] /\ pending'[w.id] = {w.val}
      /\ \A i \in QueryIds \ {w.id} : pending'[i] = pending[i]
  BY Zenon, <1>1, <1>2 DEF GroupTypeOK
<1>7. GroupTypeOK'
  BY Zenon, <1>1, <1>2, <1>3, <1>4, <1>5 DEF GroupTypeOK, AtMostOne
<1>8. PendingOK'
  BY Zenon, <1>2, <1>3, <1>6 DEF PendingOK
<1> QED
  BY Zenon, <1>1, <1>2, <1>3, <1>5, <1>7, <1>8 DEF GroupInv

(* A replica that was not reached leaves the set in sync.                   *)
LEMMA MirrorNextKeeps ==
  ASSUME GroupInv, NEW applied \in BOOLEAN, NEW answered \in BOOLEAN, MirrorNext(applied, answered) PROVE GroupInv'
<1>1. PICK w \in writing :
        /\ w.next \in DOMAIN replicas
        /\ IF replicas[w.next] \in inSync
           THEN Fanned(w, replicas[w.next], applied, answered)
           ELSE UNCHANGED <<copy, inSync>>
        /\ writing' = {[w EXCEPT !.next = @ + 1]}
  BY Zenon DEF MirrorNext
<1>2. /\ GroupTypeOK /\ WriteOK(w) /\ HeldOK /\ PendingOK /\ connecting = {} /\ w.id \in QueryIds
      /\ w \in WriteRecord /\ w.next \in Nat
      /\ w.val \in Nat /\ w.val \in may[w.id] /\ (w.val = 0 \/ w.val > left.writes)
      /\ (\A r \in reading : ReadOK(r)) /\ (\A v \in recovery : RecoveryOK(v))
  BY Zenon, WriteFacts DEF GroupInv
<1>3. PICK r : r = replicas[w.next]
  BY Zenon
<1>4. PICK u : u = [w EXCEPT !.next = @ + 1]
  BY Zenon
<1>5. UNCHANGED <<place, left, replicas, pending, may, reading, recovery, connecting>> /\ writing' = {u}
  BY Zenon, <1>1, <1>4 DEF MirrorNext
<1>6. u \in WriteRecord /\ u.id = w.id /\ u.how = w.how /\ u.val = w.val /\ u.next = w.next + 1
  BY <1>2, <1>4 DEF WriteRecord
<1>7. r \in Members /\ r \in Copies /\ r # PrimaryCopy /\ Members \subseteq Copies
  BY Zenon, <1>1, <1>2, <1>3, GroupCopies DEF Members
<1>8. /\ inSync' \subseteq inSync
      /\ copy' = copy \/ copy' = Put(r, w.id, w.val)
      /\ r \in inSync' => copy' = Put(r, w.id, w.val)
  BY Zenon, <1>1, <1>3 DEF Fanned, MirrorNext
<1>9. Members' = Members /\ Current' \subseteq Current
  BY Zenon, <1>5, <1>8 DEF Members, Current
<1>10. /\ copy' \in [Copies -> CopyRecord] /\ \A d \in Copies : CopyOK(copy'[d])
       /\ HeldOK' /\ (\A x \in reading' : ReadOK(x)') /\ (\A v \in recovery' : RecoveryOK(v)')
       /\ \A d \in Copies \ {r}, i \in QueryIds : Held(copy', d, i) = Held(copy, d, i)
       /\ r \in inSync' => Held(copy', r, w.id) = w.val
  <2>1. CASE copy' = Put(r, w.id, w.val)
    <3>1. /\ \A d \in Copies \ {r}, i \in QueryIds : Held(copy', d, i) = Held(copy, d, i)
          /\ Held(copy', r, w.id) = w.val
      BY <1>2, <1>7, <2>1, PutStep
    <3>2. /\ copy' \in [Copies -> CopyRecord] /\ \A d \in Copies : CopyOK(copy'[d])
          /\ HeldOK' /\ (\A x \in reading' : ReadOK(x)') /\ (\A v \in recovery' : RecoveryOK(v)')
      BY Zenon, <1>2, <1>5, <1>7, <1>8, <2>1, PutKeepsOthers
    <3> QED
      BY Zenon, <3>1, <3>2
  <2>2. CASE copy' = copy /\ r \notin inSync'
    <3>1. HeldOK'
      BY Zenon, <1>2, <1>5, <1>9, <2>2 DEF HeldOK
    <3>2. ASSUME NEW x \in reading' PROVE ReadOK(x)'
      BY Zenon, <1>2, <1>5, <1>9, <2>2, ReadFrame
    <3>3. ASSUME NEW v \in recovery' PROVE RecoveryOK(v)'
      BY Zenon, <1>2, <1>5, <1>9, <2>2 DEF RecoveryOK
    <3> QED
      BY Zenon, <1>2, <2>2, <3>1, <3>2, <3>3 DEF GroupTypeOK
  <2> QED
    BY Zenon, <1>8, <2>1, <2>2
<1>11. writing' \subseteq WriteRecord /\ AtMostOne(writing')
  BY Zenon, <1>5, <1>6 DEF AtMostOne
<1>12. GroupTypeOK'
  BY <1>2, <1>5, <1>8, <1>9, <1>10, <1>11 DEF GroupTypeOK, AtMostOne
<1>13. PendingOK'
  BY Zenon, <1>2, <1>5 DEF PendingOK
<1>14. WriteOK(u)'
  <2>1. /\ DOMAIN replicas \subseteq Nat \ {0} /\ \A i, j \in DOMAIN replicas : replicas[i] = replicas[j] => i = j
    BY <1>2 DEF GroupTypeOK
  <2>2. w.next >= 1 /\ w.next + 1 >= 1 /\ w.next + 1 # 0
    BY <1>1, <2>1
  <2>3. Held(copy', PrimaryCopy, w.id) = w.val
    BY Zenon, <1>2, <1>7, <1>10, <2>2, PrimaryAssumption DEF WriteOK
  <2>4. ASSUME NEW k \in DOMAIN replicas, k < w.next + 1, replicas[k] \in inSync'
        PROVE  Held(copy', replicas[k], w.id) = w.val
    <3>1. CASE k = w.next
      BY Zenon, <1>3, <1>10, <2>4, <3>1
    <3>2. CASE k # w.next
      <4>1. k < w.next
        BY <1>2, <2>1, <2>4, <3>2
      <4>2. replicas[k] # r /\ replicas[k] \in Copies
        BY Zenon, <1>1, <1>3, <1>7, <2>1, <3>2 DEF Members
      <4>3. Held(copy, replicas[k], w.id) = w.val
        BY Zenon, <1>2, <1>8, <2>2, <2>4, <4>1 DEF WriteOK
      <4> QED
        BY Zenon, <1>2, <1>10, <4>2, <4>3
    <3> QED
      BY Zenon, <3>1, <3>2
  <2> QED
    BY Zenon, <1>2, <1>5, <1>6, <2>2, <2>3, <2>4 DEF WriteOK
<1>15. ASSUME NEW x \in writing' PROVE WriteOK(x)'
  <2>1. x = u
    BY Zenon, <1>5
  <2> QED
    BY Zenon, <1>14, <2>1
<1> QED
  BY Zenon, <1>2, <1>5, <1>10, <1>12, <1>13, <1>15 DEF GroupInv

(* An acknowledged write is on the primary and on every replica in sync.    *)
LEMMA WriteReturnsKeeps == ASSUME GroupInv, WriteReturns PROVE GroupInv'
<1>1. PICK w \in writing :
        /\ w.next = Len(replicas) + 1 /\ may' = [may EXCEPT ![w.id] = {w.val}]
        /\ pending' = [pending EXCEPT ![w.id] = {}]
  BY Zenon DEF WriteReturns
<1>2. /\ GroupTypeOK /\ WriteOK(w) /\ HeldOK /\ PendingOK /\ connecting = {} /\ w.id \in QueryIds
      /\ w.val \in Nat /\ w.val \in may[w.id]
      /\ (\A r \in reading : ReadOK(r)) /\ (\A v \in recovery : RecoveryOK(v))
  BY Zenon, WriteFacts DEF GroupInv
<1>3. UNCHANGED <<place, left, copy, replicas, inSync, reading, recovery, connecting>> /\ writing' = {}
  BY Zenon DEF WriteReturns
<1>4. Members' = Members /\ Current' = Current
  BY Zenon, <1>3 DEF Members, Current
<1>5. /\ may' \in [QueryIds -> SUBSET Nat] /\ may'[w.id] = {w.val}
      /\ \A i \in QueryIds \ {w.id} : may'[i] = may[i]
  BY Zenon, <1>1, <1>2 DEF GroupTypeOK
<1>6. /\ pending' \in [QueryIds -> SUBSET Nat] /\ pending'[w.id] = {}
      /\ \A i \in QueryIds \ {w.id} : pending'[i] = pending[i]
  BY Zenon, <1>1, <1>2 DEF GroupTypeOK
<1>7. \A c \in Current : Held(copy, c, w.id) = w.val
  <2>1. Len(replicas) \in Nat /\ DOMAIN replicas = 1 .. Len(replicas)
    BY DEF GroupTypeOK
  <2>2. w.next >= 1 /\ \A k \in DOMAIN replicas : k < w.next
    BY <1>1, <2>1
  <2>3. \A c \in inSync : \E k \in DOMAIN replicas : replicas[k] = c
    BY Zenon, <1>2 DEF GroupTypeOK, Members
  <2> QED
    BY Zenon, <1>2, <2>2, <2>3 DEF WriteOK, Current
<1>8. GroupTypeOK'
  BY Zenon, <1>2, <1>3, <1>4, <1>5, <1>6 DEF GroupTypeOK, AtMostOne
<1>9. HeldOK'
  BY Zenon, <1>2, <1>3, <1>4, <1>5, <1>7 DEF HeldOK
<1>10. PendingOK'
  BY Zenon, <1>2, <1>3, <1>6 DEF PendingOK
<1>11. ASSUME NEW r \in reading' PROVE ReadOK(r)'
  <2>1. \A i \in QueryIds : may'[i] \subseteq may[i]
    BY Zenon, <1>2, <1>5
  <2> QED
    BY Zenon, <1>2, <1>3, <1>4, <2>1, ReadFrame
<1>12. ASSUME NEW v \in recovery' PROVE RecoveryOK(v)'
  BY Zenon, <1>2, <1>3, <1>4 DEF RecoveryOK
<1> QED
  BY <1>2, <1>3, <1>8, <1>9, <1>10, <1>11, <1>12 DEF GroupInv

(* GroupInv holds at the start.                                             *)
LEMMA GroupStarts == ASSUME GroupInit PROVE GroupInv
<1>1. PICK g \in Groups :
        /\ place = g.place /\ replicas = g.replicas
        /\ inSync = {g.replicas[k] : k \in DOMAIN g.replicas}
        /\ left = [writes |-> g.writes, reads |-> g.reads, seals |-> g.seals,
                   stops |-> g.stops, recoveries |-> g.recoveries]
  BY Zenon DEF GroupInit
<1>2. /\ copy = [c \in Copies |-> NewCopy(<<>>)] /\ writing = {} /\ pending = Nothing
      /\ may = [id \in QueryIds |-> {0}] /\ reading = {} /\ recovery = {} /\ connecting = {}
  BY Zenon DEF GroupInit
<1>3. /\ g.place \in {"local", "remote"} /\ g.replicas \in Seq(Copies \ {PrimaryCopy})
      /\ \A j, k \in DOMAIN g.replicas : g.replicas[j] = g.replicas[k] => j = k
      /\ g.writes \in Nat /\ g.reads \in Nat /\ g.seals \in Nat /\ g.stops \in Nat /\ g.recoveries \in Nat
  BY Zenon, GroupsAssumption
<1>4. left \in [writes : Nat, reads : Nat, seals : Nat, stops : Nat, recoveries : Nat]
  BY Zenon, <1>1, <1>3
<1>5. <<>> \in Seq(Entry) /\ \A id : Last(<<>>, id) = 0
  <2>2. \A id : \A k \in DOMAIN <<>> : <<>>[k].id # {id}
    OBVIOUS
  <2>3. <<>> \in Seq(Entry)
    OBVIOUS
  <2>4. ASSUME NEW id PROVE Last(<<>>, id) = 0
    BY Zenon, <2>2, <2>3, LastOfNone
  <2> QED
    BY <2>4
<1>6. CopyOK(NewCopy(<<>>)) /\ \A id \in QueryIds : Last(Content(NewCopy(<<>>)), id) = 0
  BY Zenon, <1>5, NewCopyContent
<1>7. NewCopy(<<>>) \in CopyRecord
  BY Zenon, <1>6 DEF CopyOK
<1>8. copy \in [Copies -> CopyRecord] /\ \A c \in Copies : copy[c] = NewCopy(<<>>)
  BY Zenon, <1>2, <1>7
<1>9. \A c \in Copies : CopyOK(copy[c])
  BY Zenon, <1>6, <1>8
<1>10. pending \in [QueryIds -> SUBSET Nat] /\ \A id \in QueryIds : pending[id] = {}
  BY Zenon, <1>2 DEF Nothing
<1>11. may \in [QueryIds -> SUBSET Nat] /\ \A id \in QueryIds : may[id] = {0}
  BY <1>2
<1>12. inSync = Members
  BY Zenon, <1>1 DEF Members
<1>13. GroupTypeOK
  BY <1>1, <1>2, <1>3, <1>4, <1>8, <1>9, <1>10, <1>11, <1>12 DEF GroupTypeOK, AtMostOne
<1>14. \A c \in Current, id \in QueryIds : Held(copy, c, id) = 0
  <2>1. Current \subseteq Copies
    BY Zenon, <1>13, GroupCopies
  <2> QED
    BY Zenon, <1>6, <1>8, <2>1 DEF Held
<1>15. HeldOK /\ PendingOK
  BY Zenon, <1>10, <1>11, <1>14 DEF HeldOK, PendingOK
<1> QED
  BY Zenon, <1>2, <1>13, <1>15 DEF GroupInv

(* Every step keeps GroupInv.                                               *)
LEMMA GroupSteps == ASSUME GroupInv, [GroupNext]_groupVars PROVE GroupInv'
<1>1. CASE GroupNext
  <2>1. ASSUME NEW c \in Copies, SealRecords(c) \/ SealTrims(c) \/ CopyRestarts(c) PROVE GroupInv'
    BY Zenon, <2>1, SealRecordsKeeps, SealTrimsKeeps, CopyRestartsKeeps
  <2>2. ASSUME NEW id \in QueryIds, NEW how \in Hows, WriteBegins(id, how) PROVE GroupInv'
    BY Zenon, <2>2, WriteBeginsKeeps
  <2>3. ASSUME NEW id \in QueryIds, RedriveBegins(id) \/ ChunkIsSent(id) PROVE GroupInv'
    BY Zenon, <2>3, RedriveBeginsKeeps, ChunkIsSentKeeps
  <2>4. CASE PrimaryApplies \/ PrimaryDeclines \/ WriteReturns
    BY Zenon, <2>4, PrimaryAppliesKeeps, PrimaryDeclinesKeeps, WriteReturnsKeeps
  <2>5. ASSUME NEW applied \in BOOLEAN, PrimaryFails(applied) PROVE GroupInv'
    BY Zenon, <2>5, PrimaryFailsKeeps
  <2>6. ASSUME NEW applied \in BOOLEAN, NEW answered \in BOOLEAN, MirrorNext(applied, answered) PROVE GroupInv'
    BY Zenon, <2>6, MirrorNextKeeps
  <2>7. ASSUME NEW streams \in BOOLEAN, ReadBegins(streams) PROVE GroupInv'
    BY Zenon, <2>7, ReadBeginsKeeps
  <2>8. CASE CopyLoads \/ CopyAnswers \/ CopyIsLost \/ ReadEnds
    BY Zenon, <2>8, CopyLoadsKeeps, CopyAnswersKeeps, CopyIsLostKeeps, ReadEndsKeeps
  <2>9. ASSUME NEW r \in Copies, RecoveryBegins(r) PROVE GroupInv'
    BY Zenon, <2>9, RecoveryBeginsKeeps
  <2>10. CASE RecoveryLeases \/ RecoverySeals \/ RecoveryDrains \/ RecoveryPromotes \/ RecoveryFails
    BY Zenon, <2>10, RecoveryLeasesKeeps, RecoverySealsKeeps, RecoveryDrainsKeeps, RecoveryPromotesKeeps, RecoveryFailsKeeps
  <2>11. ASSUME NEW flushed \in 0 .. Len(copy[PrimaryCopy].log), RecoveryCopies(flushed) PROVE GroupInv'
    BY Zenon, <2>11, RecoveryCopiesKeeps
  <2>12. CASE CoordinatorStops \/ ProveNext \/ ProveFails \/ Connected
    BY Zenon, <2>12, CoordinatorStopsKeeps, ProveNextKeeps, ProveFailsKeeps, ConnectedKeeps
  <2>13. ASSUME NEW proved \in BOOLEAN, RecoverNext(proved) PROVE GroupInv'
    BY Zenon, <2>13, RecoverNextKeeps
  <2> QED
    BY <1>1, <2>1, <2>2, <2>3, <2>4, <2>5, <2>6, <2>7, <2>8, <2>9, <2>10, <2>11, <2>12, <2>13, Zenon DEF GroupNext
<1>2. CASE UNCHANGED groupVars
  <2>1. UNCHANGED <<place, left, copy, replicas, inSync, writing, pending, may, reading, recovery, connecting>>
    BY Zenon, <1>2 DEF groupVars
  <2>2. /\ GroupTypeOK /\ HeldOK /\ PendingOK
        /\ (\A w \in writing : WriteOK(w)) /\ (\A r \in reading : ReadOK(r))
        /\ (\A v \in recovery : RecoveryOK(v)) /\ (\A c \in connecting : ConnectOK(c))
    BY Zenon DEF GroupInv
  <2>3. Members' = Members /\ Current' = Current
    BY Zenon, <2>1 DEF Members, Current
  <2>4. GroupTypeOK'
    BY Zenon, <2>1, <2>2, <2>3 DEF GroupTypeOK, AtMostOne
  <2>5. HeldOK' /\ PendingOK'
    BY Zenon, <2>1, <2>2, <2>3 DEF HeldOK, PendingOK
  <2>6. ASSUME NEW w \in writing' PROVE WriteOK(w)'
    BY Zenon, <2>1, <2>2, <2>3 DEF WriteOK
  <2>7. ASSUME NEW r \in reading' PROVE ReadOK(r)'
    BY Zenon, <2>1, <2>2, <2>3 DEF ReadOK, Chunk
  <2>8. ASSUME NEW v \in recovery' PROVE RecoveryOK(v)'
    BY Zenon, <2>1, <2>2, <2>3 DEF RecoveryOK
  <2>9. ASSUME NEW c \in connecting' PROVE ConnectOK(c)'
    BY Zenon, <2>1, <2>2 DEF ConnectOK
  <2> QED
    BY Zenon, <2>4, <2>5, <2>6, <2>7, <2>8, <2>9 DEF GroupInv
<1> QED
  BY Zenon, <1>1, <1>2

(* GroupInv says of a read that is done what ReadsAreCurrent says.          *)
LEMMA GroupReads == ASSUME GroupInv PROVE ReadsAreCurrent
<1>1. \A c \in {PrimaryCopy} \cup inSync, id \in QueryIds : Value(c, id) \in may[id]
  BY Zenon, ValueIsHeld DEF GroupInv, HeldOK, Current
<1>2. ASSUME NEW r \in reading, r.state = "done"
      PROVE  /\ \A id \in QueryIds : \E k \in r.chunks : k.id = id
             /\ \A j, k \in r.chunks : j.id = k.id => j = k
             /\ \A k \in r.chunks : k.from = r.at /\ k.val \in r.allowed[k.id]
  <2>1. /\ r.chunks = {Chunk(r, id) : id \in QueryIds} /\ \A id \in QueryIds : r.view[id] \in r.allowed[id]
    BY Zenon, <1>2 DEF GroupInv, ReadOK
  <2>3. \A id \in QueryIds : Chunk(r, id).from = r.at /\ Chunk(r, id).id = id /\ Chunk(r, id).val = r.view[id]
    BY Zenon DEF Chunk
  <2>4. ASSUME NEW k \in r.chunks PROVE k.from = r.at /\ k.val \in r.allowed[k.id]
    <3>1. PICK id \in QueryIds : k = Chunk(r, id)
      BY Zenon, <2>1
    <3> QED
      BY <2>1, <2>3
  <2>5. \A id \in QueryIds : \E k \in r.chunks : k.id = id
    BY Zenon, <2>1, <2>3
  <2>6. \A j, k \in r.chunks : j.id = k.id => j = k
    BY <2>1, <2>3
  <2> QED
    BY Zenon, <2>4, <2>5, <2>6
<1> QED
  BY Zenon, <1>1, <1>2 DEF ReadsAreCurrent

(* A read of the primary or of any replica in sync misses no acknowledged   *)
(* write, for any copies, replicas and queries: ReplicatedShard applies a   *)
(* write to the primary first and drops a replica that did not answer, a    *)
(* recovered replica is promoted after the last drain under the write       *)
(* lock, and a coordinator that connects trusts only a proven replica.      *)
THEOREM GroupReadsCurrent == GroupSpec => []ReadsAreCurrent
<1>1. GroupInit => GroupInv
  BY Zenon, GroupStarts
<1>2. GroupInv /\ [GroupNext]_groupVars => GroupInv'
  BY Zenon, GroupSteps
<1>3. GroupInv => ReadsAreCurrent
  BY Zenon, GroupReads
<1> QED
  BY <1>1, <1>2, <1>3, PTL DEF GroupSpec
=============================================================================
