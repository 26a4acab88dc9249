--------------------------- MODULE StorageProofs ----------------------------
(***************************************************************************)
(* Proofs about what is stored. The source store keeps every published     *)
(* document: SourceInv is inductive for any ids, texts, generations,       *)
(* batches and number of sidecars, and SourcesAreKept follows from it. A   *)
(* bulk load is whole, for any positions and copies, calls and restarts:   *)
(* LoadInv says, for every step of the load, which copies hold their       *)
(* bucket and which copies are marked, so that a load that stopped half-   *)
(* way has left a mark.                                                    *)
(***************************************************************************)
EXTENDS SourceFiles, BulkLoad, TLAPS

-----------------------------------------------------------------------------
(* What the operators on files and stores return.                          *)

(* A document read back from a file of any format is a document.            *)
LEMMA DecodedType ==
  ASSUME NEW d \in Document, NEW fm \in Formats
  PROVE  Decoded(fm, d) \in Document
<1>1. 0 \in 0 .. MaxGeneration
  BY SourceAssumption
<1>2. Legacy(d) \in Document
  BY Zenon, <1>1 DEF Legacy, Document
<1>3. [query |-> d.query, source_generation |-> 0,
       tags_known |-> d.tags_known, metadata_known |-> TRUE] \in Document
  BY Zenon, <1>1 DEF Document
<1> QED
  BY Zenon, <1>2, <1>3 DEF Decoded, Formats

(* Reading a sidecar gives a map of documents.                              *)
LEMMA LoadedType ==
  ASSUME NEW f \in File
  PROVE  LoadStoredSources(f) \in Documents
<1>1. f.format \in Formats /\ f.entries \in Documents
  BY Zenon DEF File
<1>2. ASSUME NEW id \in SourceIds
      PROVE  {Decoded(f.format, d) : d \in f.entries[id]} \in Maybe
  <2>1. f.entries[id] \in Maybe
    BY Zenon, <1>1 DEF Documents
  <2>2. CASE f.entries[id] = {}
    BY Zenon, <2>2 DEF Maybe
  <2>3. ASSUME NEW d \in Document, f.entries[id] = {d}
        PROVE  {Decoded(f.format, e) : e \in f.entries[id]} \in Maybe
    <3>1. {Decoded(f.format, e) : e \in f.entries[id]} = {Decoded(f.format, d)}
      BY Zenon, <2>3
    <3> QED
      BY Zenon, <1>1, <3>1, DecodedType DEF Maybe
  <2> QED
    BY Zenon, <2>1, <2>2, <2>3 DEF Maybe
<1> QED
  BY Zenon, <1>2 DEF LoadStoredSources, Documents

(* A sidecar that was written reads back as what was written.               *)
LEMMA WrittenReadsBack ==
  ASSUME NEW e \in Documents
  PROVE  WriteSources(e) \in File /\ LoadStoredSources(WriteSources(e)) = e
<1>1. WriteSources(e) \in File
  BY Zenon DEF WriteSources, File, Formats
<1>2. ASSUME NEW id \in SourceIds
      PROVE  {Decoded("footer_v2", d) : d \in e[id]} = e[id]
  BY Zenon DEF Decoded
<1>3. LoadStoredSources(WriteSources(e)) = [id \in SourceIds |-> e[id]]
  BY Zenon, <1>2 DEF LoadStoredSources, WriteSources
<1>4. [id \in SourceIds |-> e[id]] = e
  BY Zenon DEF Documents
<1> QED
  BY Zenon, <1>1, <1>3, <1>4

(* The record a mapped file gives is the one a resident store would load.   *)
LEMMA LazyIsDecoded ==
  ASSUME NEW f \in File, f.format # "v1"
  PROVE  OpenLazyBase(f) = LoadStoredSources(f)
<1>1. f.format \in {"no_footer", "footer_v1", "footer_v2"} /\ f.entries \in Documents
  BY Zenon DEF File, Formats
<1>2. ASSUME NEW id \in SourceIds, NEW d \in f.entries[id]
      PROVE  LazyRecord(f.format, d) = Decoded(f.format, d)
  BY Zenon, <1>1 DEF LazyRecord, Decoded
<1> QED
  BY Zenon, <1>2 DEF OpenLazyBase, LoadStoredSources

(* Opening a sidecar may rewrite it, and never changes what it holds.       *)
LEMMA UpgradeKeepsDocuments ==
  ASSUME NEW f \in File, NEW retain \in BOOLEAN
  PROVE  \E g \in File : /\ Upgraded({f}, retain) = {g}
                         /\ LoadStoredSources(g) = LoadStoredSources(f)
                         /\ ~retain => g.format # "v1"
<1>1. CASE ~retain /\ f.format = "v1"
  <2> DEFINE g == WriteSources(LoadStoredSources(f))
  <2>1. g \in File /\ LoadStoredSources(g) = LoadStoredSources(f)
    BY Zenon, LoadedType, WrittenReadsBack
  <2>2. Upgraded({f}, retain) = {g}
    BY Zenon, <1>1 DEF Upgraded
  <2>3. g.format # "v1"
    BY Zenon DEF WriteSources
  <2> QED
    BY Zenon, <2>1, <2>2, <2>3
<1>2. CASE retain \/ f.format # "v1"
  <2>1. Upgraded({f}, retain) = {f}
    BY Zenon, <1>2 DEF Upgraded
  <2> QED
    BY Zenon, <1>2, <2>1
<1> QED
  BY Zenon, <1>1, <1>2

(* A store that was just opened reads as the sidecar it was opened on.      *)
LEMMA OpenedReadsTheFile ==
  ASSUME NEW f \in File, NEW retain \in BOOLEAN, NEW v \in 1 .. MaxVersion
  PROVE  /\ OpenStore({f}, retain, v) \in StoreType
         /\ OpenStore({f}, retain, v).version = v
         /\ \A id \in SourceIds :
              GetDocument(OpenStore({f}, retain, v), id) = LoadStoredSources(f)[id]
<1>1. PICK held \in Documents : held = LoadStoredSources(f)
  BY Zenon, LoadedType
<1>2. NoDocuments \in Documents
  BY Zenon DEF NoDocuments, Documents, Maybe
<1>3. NoOverlay \in [SourceIds -> [covers : BOOLEAN, value : Maybe]]
  BY Zenon DEF NoOverlay, Maybe
<1>4. held = [id \in SourceIds |-> held[id]]
  BY Zenon DEF Documents
<1>5. CASE retain
  <2>1. \A id \in SourceIds : UNION {LoadStoredSources(h)[id] : h \in {f}} = held[id]
    BY Zenon, <1>1
  <2>2. OpenStore({f}, retain, v) = Resident(held, v)
    BY Zenon, <1>4, <1>5, <2>1 DEF OpenStore
  <2>3. Resident(held, v) \in StoreType
    BY Zenon, <1>2, <1>3 DEF Resident, StoreType
  <2> QED
    BY <1>1, <2>2, <2>3 DEF Resident, GetDocument
<1>6. CASE ~retain
  <2>1. PICK g \in File : /\ Upgraded({f}, FALSE) = {g}
                          /\ LoadStoredSources(g) = held /\ g.format # "v1"
    BY Zenon, <1>1, UpgradeKeepsDocuments
  <2>2. OpenLazyBase(g) = held
    BY Zenon, <2>1, LazyIsDecoded
  <2>3. \A id \in SourceIds :
          UNION {OpenLazyBase(h)[id] : h \in Upgraded({f}, FALSE)} = held[id]
    BY Zenon, <2>1, <2>2
  <2>4. OpenStore({f}, retain, v) = Lazy(held, v)
    BY Zenon, <1>4, <1>6, <2>3 DEF OpenStore
  <2>5. Lazy(held, v) \in StoreType
    BY Zenon, <1>2, <1>3 DEF Lazy, StoreType
  <2>6. \A id \in SourceIds : ~NoOverlay[id].covers
    BY Zenon DEF NoOverlay
  <2>7. \A id \in SourceIds : GetDocument(Lazy(held, v), id) = held[id]
    BY Zenon, <2>6 DEF Lazy, GetDocument
  <2>8. Lazy(held, v).version = v
    BY Zenon DEF Lazy
  <2> QED
    BY Zenon, <1>1, <2>4, <2>5, <2>7, <2>8
<1> QED
  BY Zenon, <1>5, <1>6

(* A document that is inserted is read unless a later one is there.         *)
LEMMA InsertKeepsTheNewest ==
  ASSUME NEW s \in StoreType, NEW id \in SourceIds, NEW d \in Document,
         NEW v \in 1 .. MaxVersion
  PROVE  /\ InsertStored(s, id, d, v) \in StoreType
         /\ \A j \in SourceIds :
              GetDocument(InsertStored(s, id, d, v), j)
                = IF j = id THEN Newest(GetDocument(s, id), {d}) ELSE GetDocument(s, j)
         /\ \/ InsertStored(s, id, d, v).version = v
            \/ InsertStored(s, id, d, v) = s /\ Newest(GetDocument(s, id), {d}) = GetDocument(s, id)
<1>1. /\ s.lazy \in BOOLEAN /\ s.map \in Documents /\ s.base \in Documents
      /\ s.overlay \in [SourceIds -> [covers : BOOLEAN, value : Maybe]]
  BY Zenon DEF StoreType
<1>2. Newest(GetDocument(s, id), {d}) = IF MayReplace(s, id, d) THEN {d} ELSE GetDocument(s, id)
  BY Zenon DEF Newest, MayReplace
<1>3. {d} \in Maybe
  BY Zenon DEF Maybe
<1>4. CASE s.lazy /\ MayReplace(s, id, d)
  <2> DEFINE e == [covers |-> TRUE, value |-> {d}]
  <2>1. e \in [covers : BOOLEAN, value : Maybe]
    BY Zenon, <1>3
  <2>2. InsertStored(s, id, d, v) = WithOverlay(s, id, e, v)
    BY Zenon, <1>4 DEF InsertStored
  <2>3. WithOverlay(s, id, e, v) \in StoreType
    BY Zenon, <1>1, <2>1 DEF WithOverlay, StoreType
  <2>4. \A j \in SourceIds :
          GetDocument(WithOverlay(s, id, e, v), j) = IF j = id THEN {d} ELSE GetDocument(s, j)
    BY Zenon, <1>1, <1>4 DEF WithOverlay, GetDocument
  <2>5. WithOverlay(s, id, e, v).version = v
    BY Zenon DEF WithOverlay
  <2> QED
    BY Zenon, <1>2, <1>4, <2>2, <2>3, <2>4, <2>5
<1>5. CASE s.lazy /\ ~MayReplace(s, id, d)
  BY Zenon, <1>2, <1>5 DEF InsertStored
<1>6. CASE ~s.lazy
  <2> DEFINE m == IF MayReplace(s, id, d) THEN [s.map EXCEPT ![id] = {d}] ELSE s.map
  <2>1. m \in Documents
    BY Zenon, <1>1, <1>3 DEF Documents
  <2>2. InsertStored(s, id, d, v) = WithMap(s, m, v)
    BY Zenon, <1>6 DEF InsertStored
  <2>3. WithMap(s, m, v) \in StoreType
    BY Zenon, <1>1, <2>1 DEF WithMap, StoreType
  <2>4. \A j \in SourceIds : m[j] = IF j = id THEN Newest(GetDocument(s, id), {d}) ELSE s.map[j]
    BY Zenon, <1>1, <1>2, <1>6 DEF Documents, GetDocument
  <2>5. \A j \in SourceIds : GetDocument(WithMap(s, m, v), j) = m[j] /\ GetDocument(s, j) = s.map[j]
    BY Zenon, <1>6 DEF WithMap, GetDocument
  <2>6. WithMap(s, m, v).version = v
    BY Zenon DEF WithMap
  <2> HIDE DEF m
  <2> QED
    BY Zenon, <2>2, <2>3, <2>4, <2>5, <2>6
<1> QED
  BY Zenon, <1>1, <1>4, <1>5, <1>6

(* A removed id has no document; the others keep theirs.                    *)
LEMMA RemoveTakesTheDocument ==
  ASSUME NEW s \in StoreType, NEW id \in SourceIds, NEW v \in 1 .. MaxVersion
  PROVE  /\ RemoveStored(s, id, v) \in StoreType
         /\ \A j \in SourceIds :
              GetDocument(RemoveStored(s, id, v), j) = IF j = id THEN {} ELSE GetDocument(s, j)
         /\ RemoveStored(s, id, v).version = v
<1>1. /\ s.lazy \in BOOLEAN /\ s.map \in Documents /\ s.base \in Documents
      /\ s.overlay \in [SourceIds -> [covers : BOOLEAN, value : Maybe]]
  BY Zenon DEF StoreType
<1>2. {} \in Maybe /\ Tombstone \in [covers : BOOLEAN, value : Maybe]
  BY Zenon DEF Maybe, Tombstone
<1>3. CASE s.lazy
  <2>1. WithOverlay(s, id, Tombstone, v) \in StoreType
    BY Zenon, <1>1, <1>2 DEF WithOverlay, StoreType
  <2>2. \A j \in SourceIds :
          GetDocument(WithOverlay(s, id, Tombstone, v), j) = IF j = id THEN {} ELSE GetDocument(s, j)
    BY Zenon, <1>1, <1>3 DEF WithOverlay, GetDocument, Tombstone
  <2> QED
    BY Zenon, <1>3, <2>1, <2>2 DEF RemoveStored, WithOverlay
<1>4. CASE ~s.lazy
  <2> DEFINE m == [s.map EXCEPT ![id] = {}]
  <2>1. m \in Documents /\ \A j \in SourceIds : m[j] = IF j = id THEN {} ELSE s.map[j]
    BY Zenon, <1>1, <1>2 DEF Documents
  <2>2. RemoveStored(s, id, v) = WithMap(s, m, v)
    BY Zenon, <1>4 DEF RemoveStored
  <2> HIDE DEF m
  <2>3. WithMap(s, m, v) \in StoreType /\ WithMap(s, m, v).version = v
    BY Zenon, <1>1, <2>1 DEF WithMap, StoreType
  <2>4. \A j \in SourceIds : GetDocument(WithMap(s, m, v), j) = m[j] /\ GetDocument(s, j) = s.map[j]
    BY Zenon, <1>4 DEF WithMap, GetDocument
  <2> QED
    BY Zenon, <2>1, <2>2, <2>3, <2>4
<1> QED
  BY Zenon, <1>1, <1>3, <1>4

(* The contract of a merge keeps the type of a map of documents.            *)
LEMMA MergedType ==
  ASSUME NEW map \in Documents, NEW batch \in Documents
  PROVE  Merged(map, batch) \in Documents
BY Zenon DEF Merged, Newest, Documents

(* A sidecar is written with the newest of what the store and the batch     *)
(* have of every id.                                                        *)
LEMMA WrittenIsMerged ==
  ASSUME NEW s \in StoreType, NEW batch \in Documents, NEW map \in Documents,
         \A id \in SourceIds : GetDocument(s, id) = map[id]
  PROVE  WriteToWithUpdates(s, batch) = Merged(map, batch)
<1>1. ASSUME NEW id \in SourceIds
      PROVE  (IF UpdateWinners(s, batch)[id] # {} THEN UpdateWinners(s, batch)[id]
                                                 ELSE GetDocument(s, id))
               = Newest(map[id], batch[id])
  <2>1. batch[id] \in Maybe
    BY Zenon DEF Documents
  <2>2. UpdateWinners(s, batch)[id] = {d \in batch[id] : MayReplace(s, id, d)}
    BY Zenon DEF UpdateWinners
  <2>3. CASE batch[id] = {}
    BY Zenon, <2>2, <2>3 DEF Newest
  <2>4. ASSUME NEW d \in Document, batch[id] = {d}
        PROVE  (IF UpdateWinners(s, batch)[id] # {} THEN UpdateWinners(s, batch)[id]
                                                   ELSE GetDocument(s, id))
                 = Newest(map[id], batch[id])
    <3>1. CASE MayReplace(s, id, d)
      <4>1. UpdateWinners(s, batch)[id] = {d}
        BY Zenon, <2>2, <2>4, <3>1
      <4>2. Newest(map[id], batch[id]) = {d}
        BY Zenon, <2>4, <3>1 DEF Newest, MayReplace
      <4> QED
        BY Zenon, <4>1, <4>2
    <3>2. CASE ~MayReplace(s, id, d)
      <4>1. UpdateWinners(s, batch)[id] = {}
        BY Zenon, <2>2, <2>4, <3>2
      <4>2. Newest(map[id], batch[id]) = map[id]
        BY Zenon, <2>4, <3>2 DEF Newest, MayReplace
      <4> QED
        BY Zenon, <4>1, <4>2
    <3> QED
      BY Zenon, <3>1, <3>2
  <2> QED
    BY Zenon, <2>1, <2>3, <2>4 DEF Maybe
<1> QED
  BY Zenon, <1>1 DEF WriteToWithUpdates, Merged

(* An empty batch changes nothing.                                          *)
LEMMA MergedWithNothing ==
  ASSUME NEW map \in Documents
  PROVE  Merged(map, NoDocuments) = map
<1>1. \A id \in SourceIds : Newest(map[id], NoDocuments[id]) = map[id]
  BY Zenon DEF Newest, NoDocuments
<1>2. Merged(map, NoDocuments) = [id \in SourceIds |-> map[id]]
  BY Zenon, <1>1 DEF Merged
<1> QED
  BY Zenon, <1>2 DEF Documents

-----------------------------------------------------------------------------
(* The inductive invariant.                                                *)

(* The first sidecar is what the store is opened on.                        *)
LEMMA SourceInitEstablishes == SourceInit => SourceInv
<1> SUFFICES ASSUME SourceInit PROVE SourceInv
  BY Zenon
<1>1. PICK f \in InitialFiles, retain \in BOOLEAN :
        /\ files = [n \in Names |-> IF n = 0 THEN Upgraded({f}, retain) ELSE {}]
        /\ store = OpenStore({f}, retain, 1)
        /\ docs = LoadStoredSources(f)
        /\ promised = [n \in Names |-> IF n = 0 THEN LoadStoredSources(f)
                                               ELSE NoDocuments]
  BY Zenon DEF SourceInit
<1>2. f \in File /\ 1 \in 1 .. MaxVersion /\ 0 \in Names /\ 1 \in Nat
  BY SourceAssumption DEF Names
<1>3. PICK g \in File : Upgraded({f}, retain) = {g} /\ LoadStoredSources(g) = LoadStoredSources(f)
  BY Zenon, <1>2, UpgradeKeepsDocuments
<1>4. /\ store \in StoreType /\ store.version = 1
      /\ \A id \in SourceIds : GetDocument(store, id) = docs[id]
  BY ZenonT(30), <1>1, <1>2, OpenedReadsTheFile
<1>5. docs \in Documents /\ NoDocuments \in Documents
  BY Zenon, <1>1, <1>2, LoadedType DEF NoDocuments, Documents, Maybe
<1>6. /\ clock = 1 /\ selectable = {0} /\ selected = 0 /\ staged = {} /\ current = {1}
      /\ ready = TRUE /\ awaiting = FALSE /\ owns \in BOOLEAN
  BY Zenon DEF SourceInit
<1>7. /\ files \in [Names -> SUBSET File] /\ files[0] = {g}
      /\ \A n \in Names : \A h, k \in files[n] : h = k
  BY Zenon, <1>1, <1>2, <1>3
<1>8. promised \in [Names -> Documents] /\ promised[0] = docs
  BY Zenon, <1>1, <1>2, <1>5
<1>9. SourceTypeOK
  BY Zenon, <1>2, <1>4, <1>5, <1>6, <1>7, <1>8 DEF SourceTypeOK
<1>10. OneSidecar /\ SelectedIsSelectable /\ StagedIsPromised
  BY Zenon, <1>6, <1>7 DEF OneSidecar, SelectedIsSelectable, StagedIsPromised
<1>11. VersionsAreGivenOut
  BY <1>4, <1>6 DEF VersionsAreGivenOut
<1>12. CurrentHoldsPublished /\ SelectedHoldsPublished
  BY Zenon, <1>1, <1>3, <1>6, <1>7, <1>8 DEF CurrentHoldsPublished, SelectedHoldsPublished
<1>13. ReadsAsPublished
  BY Zenon, <1>4 DEF ReadsAsPublished
<1> QED
  BY Zenon, <1>9, <1>10, <1>11, <1>12, <1>13 DEF SourceInv

(* An accepted write changes the store, and what is published of one id.    *)
LEMMA ChangedReads ==
  ASSUME SourceTypeOK, NEW id \in SourceIds, clock + 1 \in 1 .. MaxVersion,
         (\E d \in Accepted : InsertSource(id, d)) \/ RemoveSource(id)
  PROVE  /\ store' \in StoreType /\ docs' \in Documents
         /\ (\A j \in SourceIds : GetDocument(store, j) = docs[j])
              => \A j \in SourceIds : GetDocument(store', j) = docs'[j]
         /\ \/ store'.version = clock + 1
            \/ /\ store' = store
               /\ (\A j \in SourceIds : GetDocument(store, j) = docs[j]) => docs' = docs
<1>1. store \in StoreType /\ docs \in Documents /\ {} \in Maybe
  BY Zenon DEF SourceTypeOK, Maybe
<1> DEFINE v == clock + 1
<1> HIDE DEF v
<1>v. v \in 1 .. MaxVersion
  BY Zenon DEF v
<1>2. CASE RemoveSource(id)
  <2>1. /\ store' = RemoveStored(store, id, v)
        /\ docs' = [docs EXCEPT ![id] = {}]
    BY Zenon, <1>2 DEF RemoveSource, v
  <2>2. docs' \in Documents /\ \A j \in SourceIds : docs'[j] = IF j = id THEN {} ELSE docs[j]
    BY Zenon, <1>1, <2>1 DEF Documents
  <2>3. /\ store' \in StoreType /\ store'.version = v
        /\ \A j \in SourceIds : GetDocument(store', j) = IF j = id THEN {} ELSE GetDocument(store, j)
    BY <1>1, <1>v, <2>1, RemoveTakesTheDocument
  <2> QED
    BY Zenon, <2>2, <2>3 DEF v
<1>3. CASE \E d \in Accepted : InsertSource(id, d)
  <2>1. PICK d \in Document : /\ store' = InsertStored(store, id, d, v)
                              /\ docs' = [docs EXCEPT ![id] = Newest(docs[id], {d})]
    BY Zenon, <1>3 DEF InsertSource, Accepted, v
  <2>2. Newest(docs[id], {d}) \in Maybe
    BY Zenon, <1>1 DEF Newest, Documents, Maybe
  <2>3. /\ docs' \in Documents
        /\ \A j \in SourceIds : docs'[j] = IF j = id THEN Newest(docs[id], {d}) ELSE docs[j]
    BY Zenon, <1>1, <2>1, <2>2 DEF Documents
  <2>4. /\ store' \in StoreType
        /\ \A j \in SourceIds : GetDocument(store', j)
             = IF j = id THEN Newest(GetDocument(store, id), {d}) ELSE GetDocument(store, j)
        /\ \/ store'.version = v
           \/ store' = store /\ Newest(GetDocument(store, id), {d}) = GetDocument(store, id)
    BY <1>1, <1>v, <2>1, InsertKeepsTheNewest
  <2>5. Newest(docs[id], {d}) = docs[id] => docs' = docs
    BY Zenon, <1>1, <2>1 DEF Documents
  <2> QED
    BY Zenon, <2>3, <2>4, <2>5 DEF v
<1> QED
  BY Zenon, <1>2, <1>3

(* An accepted write preserves the invariant: the version given out tells   *)
(* that the selected sidecar is behind, unless nothing changed.             *)
LEMMA ChangePreserves ==
  ASSUME SourceInv, NEW id \in SourceIds,
         (\E d \in Accepted : InsertSource(id, d)) \/ RemoveSource(id)
  PROVE  SourceInv'
<1>1. /\ staged = {} /\ ~awaiting /\ clock' = clock + 1 /\ clock < MaxVersion
      /\ UNCHANGED <<files, selectable, selected, staged, current, ready, awaiting, owns, promised>>
  BY Zenon DEF InsertSource, RemoveSource
<1>2. SourceTypeOK /\ clock \in Nat /\ clock + 1 \in 1 .. MaxVersion
  BY <1>1, SourceAssumption DEF SourceInv, SourceTypeOK
<1>3. /\ store' \in StoreType /\ docs' \in Documents
      /\ (\A j \in SourceIds : GetDocument(store, j) = docs[j])
           => \A j \in SourceIds : GetDocument(store', j) = docs'[j]
      /\ \/ store'.version = clock + 1
         \/ /\ store' = store
            /\ (\A j \in SourceIds : GetDocument(store, j) = docs[j]) => docs' = docs
  BY Zenon, <1>2, ChangedReads
<1>4. SourceTypeOK'
  BY Zenon, <1>1, <1>2, <1>3 DEF SourceTypeOK
<1>5. OneSidecar' /\ SelectedIsSelectable' /\ SelectedHoldsPublished'
  BY Zenon, <1>1 DEF SourceInv, OneSidecar, SelectedIsSelectable, SelectedHoldsPublished
<1>6. StagedIsPromised'
  BY Zenon, <1>1 DEF StagedIsPromised
<1>7. ReadsAsPublished'
  BY Zenon, <1>1, <1>3 DEF SourceInv, ReadsAsPublished
<1>8. store'.version \in Nat /\ store'.version <= clock + 1
      /\ \A v \in current : v \in Nat /\ v <= clock
  BY <1>2, <1>3 DEF SourceInv, SourceTypeOK, StoreType, VersionsAreGivenOut
<1>9. VersionsAreGivenOut'
  BY <1>1, <1>2, <1>8 DEF VersionsAreGivenOut
<1>10. CurrentHoldsPublished'
  <2>1. CASE store'.version = clock + 1
    <3>1. ~SelectedSourcesAreCurrent'
      BY <1>1, <1>2, <1>8, <2>1 DEF SelectedSourcesAreCurrent
    <3> QED
      BY Zenon, <1>1, <3>1 DEF SourceInv, CurrentHoldsPublished
  <2>2. CASE store' = store /\ (ready => docs' = docs)
    BY Zenon, <1>1, <2>2 DEF SourceInv, CurrentHoldsPublished, SelectedSourcesAreCurrent
  <2> QED
    BY Zenon, <1>3, <2>1, <2>2 DEF SourceInv, ReadsAsPublished
<1> QED
  BY Zenon, <1>4, <1>5, <1>6, <1>7, <1>9, <1>10 DEF SourceInv

(* A sidecar is staged with the newest of the store and the batch, under a  *)
(* name that no manifest selects.                                           *)
LEMMA StagePreserves ==
  ASSUME SourceInv, staged = {}, NEW batch \in Documents, StageQuerySources(batch)
  PROVE  SourceInv'
<1>1. /\ owns /\ ~awaiting /\ ready /\ selected + 1 \in Names
      /\ files' = [files EXCEPT ![selected + 1] = {WriteSources(WriteToWithUpdates(store, batch))}]
      /\ staged' = {[name |-> selected + 1, batch |-> batch]}
      /\ UNCHANGED <<store, clock, selectable, selected, current, ready, awaiting, owns, docs, promised>>
  BY Zenon DEF StageQuerySources, NextSourceFileName
<1>2. /\ SourceTypeOK /\ store \in StoreType /\ docs \in Documents
      /\ selected \in Names /\ files \in [Names -> SUBSET File] /\ selectable = {selected}
      /\ selected \in Nat
  <2>1. SourceTypeOK
    BY Zenon DEF SourceInv
  <2>2. /\ store \in StoreType /\ docs \in Documents
        /\ selected \in Names /\ files \in [Names -> SUBSET File]
    BY Zenon, <2>1 DEF SourceTypeOK
  <2>3. selectable = {selected}
    BY Zenon, <1>1 DEF SourceInv, SelectedIsSelectable
  <2>4. selected \in Nat
    BY <2>2, SourceAssumption DEF Names
  <2> QED
    BY Zenon, <2>1, <2>2, <2>3, <2>4
<1>3. /\ WriteToWithUpdates(store, batch) = Merged(docs, batch)
      /\ Merged(docs, batch) \in Documents
  BY Zenon, <1>1, <1>2, WrittenIsMerged, MergedType DEF SourceInv, ReadsAsPublished
<1>4. WriteSources(Merged(docs, batch)) \in File
  BY Zenon, <1>3, WrittenReadsBack
<1>5. /\ files' \in [Names -> SUBSET File]
      /\ files'[selected + 1] = {WriteSources(Merged(docs, batch))}
      /\ \A n \in Names : n # selected + 1 => files'[n] = files[n]
      /\ files'[selected] = files[selected]
  BY <1>1, <1>2, <1>3, <1>4
<1>6. SourceTypeOK'
  BY <1>1, <1>2, <1>5 DEF SourceTypeOK
<1>7. OneSidecar'
  BY <1>5 DEF SourceInv, OneSidecar
<1>8. StagedIsPromised'
  BY <1>1, <1>5 DEF StagedIsPromised
<1>9. SelectedHoldsPublished' /\ SelectedIsSelectable'
  BY Zenon, <1>1, <1>2, <1>5 DEF SourceInv, SelectedHoldsPublished, SelectedIsSelectable
<1>10. VersionsAreGivenOut' /\ ReadsAsPublished'
  BY Zenon, <1>1 DEF SourceInv, VersionsAreGivenOut, ReadsAsPublished
<1>11. CurrentHoldsPublished'
  BY Zenon, <1>1, <1>5 DEF SourceInv, CurrentHoldsPublished, SelectedSourcesAreCurrent
<1> QED
  BY Zenon, <1>6, <1>7, <1>8, <1>9, <1>10, <1>11 DEF SourceInv

(* A commit that writes no sidecar selects one that holds what is           *)
(* published.                                                               *)
LEMMA ReselectPreserves ==
  ASSUME SourceInv, staged = {}, NEW durable \in BOOLEAN, Reselect(durable)
  PROVE  SourceInv'
<1>1. /\ awaiting' = ~durable /\ SelectedSourcesAreCurrent
      /\ promised' = [promised EXCEPT ![selected] = docs]
      /\ UNCHANGED <<store, clock, files, selectable, selected, staged, current, ready, owns, docs>>
      /\ ~awaiting
  BY Zenon DEF Reselect
<1>2. /\ SourceTypeOK /\ docs \in Documents /\ selected \in Names
      /\ promised \in [Names -> Documents] /\ selectable = {selected}
  BY Zenon, <1>1 DEF SourceInv, SourceTypeOK, SelectedIsSelectable
<1>3. promised' \in [Names -> Documents] /\ promised'[selected] = docs
  BY Zenon, <1>1, <1>2
<1>4. SourceTypeOK'
  BY Zenon, <1>1, <1>2, <1>3 DEF SourceTypeOK
<1>5. OneSidecar' /\ SelectedIsSelectable' /\ StagedIsPromised'
  BY Zenon, <1>1, <1>2 DEF SourceInv, OneSidecar, SelectedIsSelectable, StagedIsPromised
<1>6. VersionsAreGivenOut' /\ ReadsAsPublished'
  BY Zenon, <1>1 DEF SourceInv, VersionsAreGivenOut, ReadsAsPublished
<1>7. CurrentHoldsPublished'
  BY Zenon, <1>1 DEF SourceInv, CurrentHoldsPublished, SelectedSourcesAreCurrent
<1>8. SelectedHoldsPublished'
  BY Zenon, <1>1, <1>2, <1>3 DEF SourceInv, CurrentHoldsPublished, SelectedHoldsPublished
<1> QED
  BY Zenon, <1>4, <1>5, <1>6, <1>7, <1>8 DEF SourceInv

(* A publication that failed before or after its rename: no manifest loses  *)
(* the sidecar it selects.                                                  *)
LEMMA PublishFailsPreserves ==
  ASSUME SourceInv, NEW st \in staged, PublishFails(st) \/ PublishUnsynced(st)
  PROVE  SourceInv'
<1>1. /\ staged' = {}
      /\ UNCHANGED <<store, clock, selected, current, ready, owns, docs>>
  BY Zenon DEF PublishFails, PublishUnsynced
<1>2. /\ SourceTypeOK /\ docs \in Documents /\ selected \in Names /\ selected \in Nat
      /\ st.name \in Names /\ st.batch \in Documents /\ st.name = selected + 1
      /\ ~awaiting /\ selectable = {selected}
      /\ files[st.name] = {WriteSources(Merged(docs, st.batch))}
      /\ files \in [Names -> SUBSET File] /\ promised \in [Names -> Documents]
  <2>1. SourceTypeOK
    BY Zenon DEF SourceInv
  <2>2. /\ docs \in Documents /\ selected \in Names /\ st.name \in Names /\ st.batch \in Documents
        /\ files \in [Names -> SUBSET File] /\ promised \in [Names -> Documents]
    BY Zenon, <2>1 DEF SourceTypeOK
  <2>3. /\ st.name = selected + 1 /\ ~awaiting
        /\ files[st.name] = {WriteSources(Merged(docs, st.batch))}
    BY Zenon DEF SourceInv, StagedIsPromised
  <2>4. selectable = {selected}
    BY Zenon, <2>3 DEF SourceInv, SelectedIsSelectable
  <2>5. selected \in Nat
    BY <2>2, SourceAssumption DEF Names
  <2> QED
    BY Zenon, <2>1, <2>2, <2>3, <2>4, <2>5
<1>3. Merged(docs, st.batch) \in Documents
  BY Zenon, <1>2, MergedType
<1>4. StagedIsPromised' /\ VersionsAreGivenOut' /\ ReadsAsPublished'
  BY Zenon, <1>1 DEF SourceInv, StagedIsPromised, VersionsAreGivenOut, ReadsAsPublished
<1>5. CASE PublishFails(st)
  <2>1. /\ files' = files \/ files' = [files EXCEPT ![st.name] = {}]
        /\ UNCHANGED <<selectable, awaiting, promised>>
    BY Zenon, <1>5 DEF PublishFails, BestEffortRemoveSource
  <2>2. /\ files' \in [Names -> SUBSET File] /\ files'[selected] = files[selected]
        /\ \A n \in Names : files'[n] = files[n] \/ files'[n] = {}
    BY <1>2, <2>1
  <2>3. SourceTypeOK'
    BY Zenon, <1>1, <1>2, <2>1, <2>2 DEF SourceTypeOK
  <2>4. OneSidecar' /\ SelectedIsSelectable' /\ SelectedHoldsPublished'
    BY Zenon, <1>1, <1>2, <2>1, <2>2
       DEF SourceInv, OneSidecar, SelectedIsSelectable, SelectedHoldsPublished
  <2>5. CurrentHoldsPublished'
    BY Zenon, <1>1, <2>2 DEF SourceInv, CurrentHoldsPublished, SelectedSourcesAreCurrent
  <2> QED
    BY Zenon, <1>4, <2>3, <2>4, <2>5 DEF SourceInv
<1>6. CASE PublishUnsynced(st)
  <2>1. /\ selectable' = selectable \cup {st.name} /\ awaiting' = TRUE /\ files' = files
        /\ promised' = [promised EXCEPT ![st.name] = Merged(docs, st.batch)]
    BY Zenon, <1>6 DEF PublishUnsynced
  <2>2. /\ promised' \in [Names -> Documents] /\ promised'[st.name] = Merged(docs, st.batch)
        /\ promised'[selected] = promised[selected]
    BY <1>2, <1>3, <2>1
  <2>3. SourceTypeOK'
    BY Zenon, <1>1, <1>2, <2>1, <2>2 DEF SourceTypeOK
  <2>4. OneSidecar' /\ SelectedIsSelectable' /\ CurrentHoldsPublished'
    BY Zenon, <1>1, <1>2, <2>1
       DEF SourceInv, OneSidecar, SelectedIsSelectable, CurrentHoldsPublished, SelectedSourcesAreCurrent
  <2>5. SelectedHoldsPublished'
    <3>1. \E f \in files'[st.name] : LoadStoredSources(f) = promised'[st.name]
      BY Zenon, <1>2, <1>3, <2>1, <2>2, WrittenReadsBack
    <3>2. \E f \in files'[selected] : LoadStoredSources(f) = promised'[selected]
      BY Zenon, <1>2, <2>1, <2>2 DEF SourceInv, SelectedHoldsPublished
    <3> QED
      BY Zenon, <1>2, <2>1, <3>1, <3>2 DEF SelectedHoldsPublished
  <2> QED
    BY Zenon, <1>4, <2>3, <2>4, <2>5 DEF SourceInv
<1> QED
  BY Zenon, <1>5, <1>6

(* A published commit: the store reads as the sidecar that is selected now, *)
(* or says that it does not.                                                *)
LEMMA PublishSyncedPreserves ==
  ASSUME SourceInv, NEW st \in staged, PublishSynced(st)
  PROVE  SourceInv'
<1> DEFINE new == Merged(docs, st.batch)
<1> HIDE DEF new
<1>1. /\ clock < MaxVersion /\ clock' = clock + 1 /\ selectable' = {st.name} /\ selected' = st.name
      /\ promised' = [promised EXCEPT ![st.name] = new] /\ docs' = new
      /\ ActivateStagedSources(st) /\ staged' = {} /\ UNCHANGED <<awaiting, owns>>
  BY Zenon DEF PublishSynced, new
<1>2. SourceTypeOK
  BY Zenon DEF SourceInv
<1>3. /\ docs \in Documents /\ selected \in Names /\ st.name \in Names /\ st.batch \in Documents
      /\ files \in [Names -> SUBSET File] /\ promised \in [Names -> Documents]
      /\ store \in StoreType /\ current \subseteq 1 .. MaxVersion /\ ready \in BOOLEAN
  BY Zenon, <1>2 DEF SourceTypeOK
<1>4. /\ st.name = selected + 1 /\ owns /\ ready /\ ~awaiting /\ files[st.name] = {WriteSources(new)}
  BY Zenon DEF SourceInv, StagedIsPromised, new
<1>5. /\ new \in Documents /\ WriteSources(new) \in File
      /\ LoadStoredSources(WriteSources(new)) = new
  BY Zenon, <1>3, MergedType, WrittenReadsBack DEF new
<1>6. clock + 1 \in 1 .. MaxVersion /\ clock \in Nat /\ selected \in Nat
  BY <1>1, <1>2, <1>3, SourceAssumption DEF SourceTypeOK, Names
<1>7. \A n : BestEffortRemoveSource(n) => files' = files \/ files' = [files EXCEPT ![n] = {}]
  BY Zenon DEF BestEffortRemoveSource
<1>8. files' = files \/ files' = [files EXCEPT ![selected] = {}]
  BY Zenon, <1>1, <1>7 DEF ActivateStagedSources, Remap
<1>9. /\ files' \in [Names -> SUBSET File] /\ files'[st.name] = {WriteSources(new)}
      /\ \A n \in Names : files'[n] = files[n] \/ files'[n] = {}
  BY <1>3, <1>4, <1>6, <1>8
<1>10. promised' \in [Names -> Documents] /\ promised'[st.name] = new
  BY Zenon, <1>1, <1>3, <1>5
<1>11. /\ store' \in StoreType /\ ready' \in BOOLEAN /\ current' \subseteq 1 .. MaxVersion
       /\ store'.version <= clock + 1 /\ \A v \in current' : v <= clock + 1
       /\ ready' => \A id \in SourceIds : GetDocument(store', id) = new[id]
       /\ current' = {store'.version} => ready'
  <2>1. CASE store.lazy /\ Remap(st)
    <3>1. CASE /\ store' = OpenStore(files[st.name], FALSE, clock + 1)
               /\ current' = {clock + 1} /\ UNCHANGED ready
      <4> DEFINE v == clock + 1
      <4> HIDE DEF v
      <4>1. v \in 1 .. MaxVersion /\ store' = OpenStore({WriteSources(new)}, FALSE, v)
        BY Zenon, <1>4, <1>6, <3>1 DEF v
      <4>2. PICK f \in File, retain \in BOOLEAN : f = WriteSources(new) /\ retain = FALSE
        BY Zenon, <1>5
      <4>3. LoadStoredSources(f) = new /\ store' = OpenStore({f}, retain, v)
        BY Zenon, <1>5, <4>1, <4>2
      <4>4. /\ store' \in StoreType /\ store'.version = v
            /\ \A id \in SourceIds : GetDocument(store', id) = LoadStoredSources(f)[id]
        <5>1. /\ OpenStore({f}, retain, v) \in StoreType
              /\ OpenStore({f}, retain, v).version = v
              /\ \A id \in SourceIds :
                   GetDocument(OpenStore({f}, retain, v), id) = LoadStoredSources(f)[id]
          BY Zenon, <4>1, OpenedReadsTheFile
        <5> QED
          BY Zenon, <4>3, <5>1
      <4>5. /\ store' \in StoreType /\ store'.version = v
            /\ \A id \in SourceIds : GetDocument(store', id) = new[id]
        BY Zenon, <4>3, <4>4
      <4>6. ready' \in BOOLEAN /\ ready'
        BY Zenon, <1>3, <1>4, <3>1
      <4>7. /\ current' \subseteq 1 .. MaxVersion /\ store'.version <= clock + 1
            /\ \A w \in current' : w <= clock + 1
        <5>1. current' = {v} /\ v \in Nat /\ v <= clock + 1 /\ v \in 1 .. MaxVersion
          BY <1>6, <3>1, <4>1 DEF v
        <5> QED
          BY Zenon, <4>5, <5>1
      <4> QED
        BY Zenon, <4>5, <4>6, <4>7
    <3>2. CASE ready' = FALSE /\ current' = {} /\ UNCHANGED <<store, files>>
      <4>1. store'.version \in Nat /\ store'.version <= clock
        BY <1>3, <3>2, SourceAssumption DEF SourceInv, VersionsAreGivenOut, StoreType
      <4>2. store' \in StoreType /\ store'.version <= clock + 1
        BY <1>3, <1>6, <3>2, <4>1
      <4>3. ready' = FALSE /\ current' = {}
        BY Zenon, <3>2
      <4>4. current' # {store'.version}
        BY Zenon, <4>3
      <4> QED
        BY Zenon, <4>2, <4>3, <4>4
    <3> QED
      BY Zenon, <2>1, <3>1, <3>2 DEF Remap
  <2>2. CASE ~store.lazy /\ store' = InsertBatch(store, st.batch, clock + 1)
             /\ current' = {store'.version} /\ UNCHANGED ready
    <3> DEFINE v == IF st.batch = NoDocuments THEN store.version ELSE clock + 1
    <3>1. WriteToWithUpdates(store, st.batch) = new
      BY Zenon, <1>3, <1>4, WrittenIsMerged DEF SourceInv, ReadsAsPublished, new
    <3>2. store.version \in 1 .. MaxVersion /\ store.version <= clock
      BY Zenon, <1>3 DEF StoreType, SourceInv, VersionsAreGivenOut
    <3>3. v \in 1 .. MaxVersion /\ v <= clock + 1
      BY <1>6, <3>2
    <3>4. store' = WithMap(store, new, v)
      BY Zenon, <2>2, <3>1 DEF InsertBatch
    <3> HIDE DEF v
    <3>5. store' \in StoreType /\ store'.version = v
      BY Zenon, <1>3, <1>5, <3>3, <3>4 DEF WithMap, StoreType
    <3>6. \A id \in SourceIds : GetDocument(store', id) = new[id]
      BY <2>2, <3>4 DEF WithMap, GetDocument
    <3> QED
      BY Zenon, <1>4, <2>2, <3>3, <3>5, <3>6
  <2> QED
    BY Zenon, <1>1, <2>1, <2>2 DEF ActivateStagedSources
<1>12. SourceTypeOK'
  BY Zenon, <1>1, <1>2, <1>3, <1>5, <1>6, <1>9, <1>10, <1>11 DEF SourceTypeOK
<1>13. OneSidecar' /\ SelectedIsSelectable' /\ StagedIsPromised'
  BY Zenon, <1>1, <1>9 DEF SourceInv, OneSidecar, SelectedIsSelectable, StagedIsPromised
<1>14. VersionsAreGivenOut' /\ ReadsAsPublished'
  BY Zenon, <1>1, <1>11 DEF VersionsAreGivenOut, ReadsAsPublished
<1>15. CurrentHoldsPublished' /\ SelectedHoldsPublished'
  BY Zenon, <1>1, <1>4, <1>5, <1>9, <1>10, <1>11
     DEF CurrentHoldsPublished, SelectedHoldsPublished, SelectedSourcesAreCurrent
<1> QED
  BY Zenon, <1>12, <1>13, <1>14, <1>15 DEF SourceInv

(* A shard's sidecar is written in place with what is published.            *)
LEMMA SavePreserves ==
  ASSUME SourceInv, SaveQuerySourcesInPlace
  PROVE  SourceInv'
<1>1. /\ ~owns /\ clock < MaxVersion /\ clock' = clock + 1
      /\ files' = [files EXCEPT ![selected] = {WriteSources(WriteToWithUpdates(store, NoDocuments))}]
      /\ promised' = [promised EXCEPT ![selected] = docs]
      /\ \/ store.lazy /\ store' = OpenStore(files'[selected], FALSE, clock + 1)
         \/ UNCHANGED store
      /\ UNCHANGED <<selectable, selected, staged, current, ready, awaiting, owns, docs>>
  BY Zenon DEF SaveQuerySourcesInPlace
<1>2. SourceTypeOK
  BY Zenon DEF SourceInv
<1>3. /\ docs \in Documents /\ selected \in Names /\ store \in StoreType
      /\ files \in [Names -> SUBSET File] /\ promised \in [Names -> Documents]
      /\ current \subseteq 1 .. MaxVersion
  BY Zenon, <1>2 DEF SourceTypeOK
<1>4. ready /\ staged = {}
  BY Zenon, <1>1 DEF SourceInv, CurrentHoldsPublished, StagedIsPromised
<1>5. NoDocuments \in Documents
  BY Zenon DEF NoDocuments, Documents, Maybe
<1>6. WriteToWithUpdates(store, NoDocuments) = docs
  BY Zenon, <1>3, <1>4, <1>5, WrittenIsMerged, MergedWithNothing DEF SourceInv, ReadsAsPublished
<1>7. WriteSources(docs) \in File /\ LoadStoredSources(WriteSources(docs)) = docs
  BY Zenon, <1>3, WrittenReadsBack
<1>8. /\ files' \in [Names -> SUBSET File] /\ files'[selected] = {WriteSources(docs)}
      /\ \A n \in Names : n # selected => files'[n] = files[n]
  BY Zenon, <1>1, <1>3, <1>6, <1>7
<1>9. /\ promised' \in [Names -> Documents] /\ promised'[selected] = docs
      /\ \A n \in Names : n # selected => promised'[n] = promised[n]
  BY Zenon, <1>1, <1>3
<1>10. clock + 1 \in 1 .. MaxVersion /\ clock \in Nat
  BY <1>1, <1>2, SourceAssumption DEF SourceTypeOK
<1>11. store.version \in 1 .. MaxVersion /\ store.version <= clock /\ \A v \in current : v <= clock
  BY Zenon, <1>3 DEF StoreType, SourceInv, VersionsAreGivenOut
<1>12. /\ store' \in StoreType /\ store'.version <= clock + 1
       /\ \A id \in SourceIds : GetDocument(store', id) = docs[id]
  <2>1. CASE UNCHANGED store
    BY <1>3, <1>4, <1>10, <1>11, <2>1 DEF SourceInv, ReadsAsPublished
  <2>2. CASE store' = OpenStore(files'[selected], FALSE, clock + 1)
    <3> DEFINE v == clock + 1
    <3> HIDE DEF v
    <3>1. v \in 1 .. MaxVersion /\ store' = OpenStore({WriteSources(docs)}, FALSE, v)
      BY Zenon, <1>8, <1>10, <2>2 DEF v
    <3>2. PICK f \in File, retain \in BOOLEAN : f = WriteSources(docs) /\ retain = FALSE
      BY Zenon, <1>7
    <3>3. LoadStoredSources(f) = docs /\ store' = OpenStore({f}, retain, v)
      BY Zenon, <1>7, <3>1, <3>2
    <3>4. /\ store' \in StoreType /\ store'.version = v
          /\ \A id \in SourceIds : GetDocument(store', id) = LoadStoredSources(f)[id]
      <4>1. /\ OpenStore({f}, retain, v) \in StoreType
            /\ OpenStore({f}, retain, v).version = v
            /\ \A id \in SourceIds :
                 GetDocument(OpenStore({f}, retain, v), id) = LoadStoredSources(f)[id]
        BY Zenon, <3>1, OpenedReadsTheFile
      <4> QED
        BY Zenon, <3>3, <4>1
    <3>5. /\ store' \in StoreType /\ store'.version = v
          /\ \A id \in SourceIds : GetDocument(store', id) = docs[id]
      BY Zenon, <3>3, <3>4
    <3> QED
      BY <1>10, <3>5 DEF v
  <2> QED
    BY Zenon, <1>1, <2>1, <2>2
<1>13. SourceTypeOK'
  BY Zenon, <1>1, <1>2, <1>8, <1>9, <1>10, <1>12 DEF SourceTypeOK
<1>14. OneSidecar' /\ SelectedIsSelectable' /\ StagedIsPromised'
  BY Zenon, <1>1, <1>4, <1>8 DEF SourceInv, OneSidecar, SelectedIsSelectable, StagedIsPromised
<1>15. VersionsAreGivenOut' /\ ReadsAsPublished'
  <2>1. \A v \in current : v \in Nat /\ v <= clock + 1
    BY <1>3, <1>10, <1>11
  <2> QED
    BY Zenon, <1>1, <1>12, <2>1 DEF VersionsAreGivenOut, ReadsAsPublished
<1>16. CurrentHoldsPublished'
  BY Zenon, <1>1, <1>4, <1>7, <1>8 DEF CurrentHoldsPublished
<1>17. SelectedHoldsPublished'
  <2> SUFFICES ASSUME NEW n \in selectable
               PROVE  \E f \in files'[n] : LoadStoredSources(f) = promised'[n]
    BY Zenon, <1>1 DEF SelectedHoldsPublished
  <2>1. n \in Names
    BY Zenon, <1>2 DEF SourceTypeOK
  <2>2. CASE n = selected
    BY Zenon, <1>7, <1>8, <1>9, <2>2
  <2>3. CASE n # selected
    BY Zenon, <1>8, <1>9, <2>1, <2>3 DEF SourceInv, SelectedHoldsPublished
  <2> QED
    BY Zenon, <2>2, <2>3
<1> QED
  BY Zenon, <1>13, <1>14, <1>15, <1>16, <1>17 DEF SourceInv

(* A restart reads the one sidecar its manifest selects, upgraded or not.   *)
LEMMA RestartPreserves ==
  ASSUME SourceInv, NEW n \in Names, NEW retain \in BOOLEAN, Restart(n, retain)
  PROVE  SourceInv'
<1>1. /\ n \in selectable /\ clock < MaxVersion /\ clock' = clock + 1
      /\ store' = OpenStore(files[n], retain, clock + 1)
      /\ files' = [files EXCEPT ![n] = Upgraded(files[n], retain)]
      /\ ready' = (files[n] # {} \/ n = 0)
      /\ current' = IF ready' THEN {clock + 1} ELSE {}
      /\ selectable' = {n} /\ selected' = n /\ staged' = {} /\ awaiting' = FALSE
      /\ docs' = promised[n] /\ UNCHANGED <<owns, promised>>
  BY Zenon DEF Restart
<1>2. SourceTypeOK
  BY Zenon DEF SourceInv
<1>3. files \in [Names -> SUBSET File] /\ promised \in [Names -> Documents]
  BY Zenon, <1>2 DEF SourceTypeOK
<1>4. PICK f \in files[n] : LoadStoredSources(f) = promised[n]
  BY Zenon, <1>1 DEF SourceInv, SelectedHoldsPublished
<1>5. f \in File /\ files[n] = {f}
  BY <1>3, <1>4 DEF SourceInv, OneSidecar
<1>6. PICK g \in File : Upgraded({f}, retain) = {g} /\ LoadStoredSources(g) = LoadStoredSources(f)
  BY Zenon, <1>5, UpgradeKeepsDocuments
<1>7. /\ files' \in [Names -> SUBSET File] /\ files'[n] = {g}
      /\ \A m \in Names : m # n => files'[m] = files[m]
  BY Zenon, <1>1, <1>3, <1>5, <1>6
<1> DEFINE v == clock + 1
<1>8. v \in 1 .. MaxVersion /\ v <= v
  BY <1>1, <1>2, SourceAssumption DEF SourceTypeOK
<1>9. ready' = TRUE /\ clock' = v /\ current' = {v} /\ store' = OpenStore({f}, retain, v)
  BY Zenon, <1>1, <1>5
<1> HIDE DEF v
<1>10. /\ store' \in StoreType /\ store'.version = v
       /\ \A id \in SourceIds : GetDocument(store', id) = promised[n][id]
  <2>1. /\ OpenStore({f}, retain, v) \in StoreType
        /\ OpenStore({f}, retain, v).version = v
        /\ \A id \in SourceIds :
             GetDocument(OpenStore({f}, retain, v), id) = LoadStoredSources(f)[id]
    BY ZenonT(30), <1>5, <1>8, OpenedReadsTheFile
  <2> QED
    BY Zenon, <1>4, <1>9, <2>1
<1>11. SourceTypeOK'
  <2>1. promised[n] \in Documents
    BY Zenon, <1>3
  <2> QED
    BY Zenon, <1>1, <1>2, <1>7, <1>8, <1>9, <1>10, <2>1 DEF SourceTypeOK
<1>12. OneSidecar' /\ SelectedIsSelectable' /\ StagedIsPromised'
  BY Zenon, <1>1, <1>7 DEF SourceInv, OneSidecar, SelectedIsSelectable, StagedIsPromised
<1>13. VersionsAreGivenOut' /\ ReadsAsPublished'
  BY Zenon, <1>1, <1>8, <1>9, <1>10 DEF VersionsAreGivenOut, ReadsAsPublished
<1>14. CurrentHoldsPublished' /\ SelectedHoldsPublished'
  BY Zenon, <1>1, <1>4, <1>6, <1>7, <1>9 DEF CurrentHoldsPublished, SelectedHoldsPublished
<1> QED
  BY Zenon, <1>11, <1>12, <1>13, <1>14 DEF SourceInv

(* Every step of the source store keeps the inductive invariant.            *)
LEMMA SourceStepPreserves == SourceInv /\ [SourceNext]_sourceVars => SourceInv'
<1> SUFFICES ASSUME SourceInv, [SourceNext]_sourceVars PROVE SourceInv'
  BY Zenon
<1>1. ASSUME NEW id \in SourceIds, (\E d \in Accepted : InsertSource(id, d)) \/ RemoveSource(id)
      PROVE  SourceInv'
  BY Zenon, <1>1, ChangePreserves
<1>2. CASE CommitSourcesAndManifest
  <2>1. staged = {} /\ NoDocuments \in Documents
    BY Zenon, <1>2 DEF CommitSourcesAndManifest, NoDocuments, Documents, Maybe
  <2>2. ASSUME NEW durable \in BOOLEAN, Reselect(durable) PROVE SourceInv'
    BY Zenon, <2>1, <2>2, ReselectPreserves
  <2>3. CASE StageQuerySources(NoDocuments)
    BY Zenon, <2>1, <2>3, StagePreserves
  <2> QED
    BY Zenon, <1>2, <2>2, <2>3 DEF CommitSourcesAndManifest
<1>3. ASSUME NEW batch \in LoadBatches, CommitBaseSegment(batch) PROVE SourceInv'
  <2>1. staged = {} /\ StageQuerySources(batch) /\ batch \in Documents
    BY Zenon, <1>3, SourceAssumption DEF CommitBaseSegment
  <2> QED
    BY Zenon, <2>1, StagePreserves
<1>4. CASE Publish
  <2>1. PICK st \in staged : PublishFails(st) \/ PublishUnsynced(st) \/ PublishSynced(st)
    BY Zenon, <1>4 DEF Publish
  <2>2. CASE PublishFails(st) \/ PublishUnsynced(st)
    BY Zenon, <2>2, PublishFailsPreserves
  <2>3. CASE PublishSynced(st)
    BY Zenon, <2>3, PublishSyncedPreserves
  <2> QED
    BY Zenon, <2>1, <2>2, <2>3
<1>5. CASE SaveQuerySourcesInPlace
  BY Zenon, <1>5, SavePreserves
<1>6. ASSUME NEW n \in Names, NEW retain \in BOOLEAN, Restart(n, retain) PROVE SourceInv'
  BY Zenon, <1>6, RestartPreserves
<1>7. CASE UNCHANGED sourceVars
  BY Zenon, <1>7 DEF sourceVars, SourceInv, SourceTypeOK, OneSidecar, SelectedIsSelectable,
              StagedIsPromised, VersionsAreGivenOut, CurrentHoldsPublished,
              SelectedSourcesAreCurrent, ReadsAsPublished, SelectedHoldsPublished
<1> QED
  BY Zenon, <1>1, <1>2, <1>3, <1>4, <1>5, <1>6, <1>7 DEF SourceNext

(* The source of every accepted query is kept, for any ids, documents,      *)
(* batches and number of commits: the open store (resident or mapped) reads *)
(* under every id what was published last, and every sidecar a manifest may *)
(* select holds what its commit published, across failed and unsynced       *)
(* commits, failed remaps, in-place saves of a shard and restarts           *)
(* (source_store and the source half of the engine's commit).               *)
THEOREM SourcesKept == SourceSpec => []SourcesAreKept
<1>1. SourceInv => SourcesAreKept
  BY Zenon DEF SourceInv, SourcesAreKept
<1> QED
  BY <1>1, SourceInitEstablishes, SourceStepPreserves, PTL DEF SourceSpec

(* A sidecar's name is written once, a staged sidecar already holds what    *)
(* its publication will promise, and equal versions mean that the selected  *)
(* sidecar holds what is published (so a commit that skips writing one      *)
(* loses nothing): the invariant that SourcesKept rests on.                 *)
THEOREM SidecarsAreWrittenOnce == SourceSpec => []SourceInv
BY SourceInitEstablishes, SourceStepPreserves, PTL DEF SourceSpec

(***************************************************************************)
(* A bulk load.                                                            *)
(***************************************************************************)

(* The copies are visited by position, the primary first.                   *)
Before(s, t) == s[1] < t[1] \/ (s[1] = t[1] /\ s[2] < t[2])

Primary(s) == <<s[1], 1>>

Full(s) == holds[s].rows = 1 /\ holds[s].saved = 1

NothingHeld == \A s \in Spots : holds[s].rows = 0

AllHeld == \A s \in Spots : Full(s)

LoadPhases == {"idle", "count", "mark", "ids", "undo", "load", "finish", "complete"}

LoadTypeOK ==
  /\ holds \in [Spots -> [rows : {0, 1}, saved : {0, 1}, mark : BOOLEAN]]
  /\ synced \in SomeReplicas
  /\ loader.pc \in LoadPhases
  /\ loader.pc \notin {"idle", "ids"} => loader.at \in Spots
  /\ client \in {"none", "ok", "error"} /\ link \in {"up", "connecting", "refused"}

(* What a copy has saved it holds; without a record on some copy the whole  *)
(* load is on all copies or nothing of it is; and the replicas of a         *)
(* position are never ahead of what its primary saved.                      *)
CopiesAgree ==
  /\ \A s \in Spots : holds[s].saved <= holds[s].rows
  /\ NothingHeld \/ AllHeld \/ \E s \in Spots : holds[s].mark
  /\ link # "refused" => \A s \in Spots : s[2] > 1 /\ holds[s].rows = 1 => holds[Primary(s)].saved = 1

(* What the client was told, and when a coordinator is up.                  *)
AnswersAgree ==
  /\ client = "ok" =>
       /\ AllHeld /\ \A s \in Spots : ~ holds[s].mark
       /\ loader.pc \in {"idle", "count"} /\ link # "refused"
       /\ loader.pc = "count" => loader.at[1] = 1
  /\ link # "up" => loader.pc = "idle"
  /\ link = "up" /\ loader.pc = "idle" /\ client = "none" => \A s \in Spots : ~ holds[s].mark

(* Where the load under way is.                                             *)
LoaderAgrees ==
  /\ loader.pc = "count" => \A s \in Spots : s[1] < loader.at[1] /\ s[2] = 1 => holds[s].rows = 0
  /\ loader.pc \in {"mark", "ids", "undo"} => NothingHeld
  /\ loader.pc = "mark" => \A s \in Spots : Before(s, loader.at) => holds[s].mark
  /\ loader.pc \in {"ids", "load", "finish"} => \A s \in Spots : holds[s].mark
  /\ loader.pc = "undo" => loader.to \in DOMAIN Shards
  /\ loader.pc \in {"load", "finish"} =>
       \A s \in Spots : IF Before(s, loader.at) THEN Takes(s) => Full(s)
                        ELSE s # loader.at => holds[s].rows = 0
  /\ loader.pc = "load" => holds[loader.at].rows = 0
  /\ loader.pc = "finish" => Takes(loader.at) /\ holds[loader.at].rows = 1
  /\ loader.pc = "complete" =>
       /\ \A s \in Spots : Takes(s) => Full(s)
       /\ \A s \in Spots : Before(s, loader.at) <=> ~ holds[s].mark
       /\ \A s \in Spots : Before(Primary(s), loader.at) => ~ OutOfSync(s[1])

LoadInv == LoadTypeOK /\ CopiesAgree /\ AnswersAgree /\ LoaderAgrees

HoldsRecord == [rows : {0, 1}, saved : {0, 1}, mark : BOOLEAN]

(* A spot is a position and the number of one of its copies.                *)
LEMMA SpotFacts ==
  ASSUME NEW s \in Spots
  PROVE  /\ s[1] \in 1 .. Len(Shards) /\ s[2] \in 1 .. Len(Shards[s[1]]) /\ s = <<s[1], s[2]>>
         /\ s[1] \in DOMAIN Shards /\ Len(Shards[s[1]]) \in Nat \ {0} /\ Len(Shards) \in Nat \ {0}
         /\ s[1] \in Nat /\ s[2] \in Nat
<1>1. PICK pos \in DOMAIN Shards : s \in {pos} \X DOMAIN Shards[pos]
  BY Zenon DEF Spots
<1>2. s[1] = pos /\ s[2] \in DOMAIN Shards[pos] /\ s = <<s[1], s[2]>>
  BY <1>1
<1> QED
  BY <1>1, <1>2, ShardsAssumption

(* A position and the number of one of its copies are a spot.               *)
LEMMA SpotIs ==
  ASSUME NEW i \in 1 .. Len(Shards), NEW j \in 1 .. Len(Shards[i])
  PROVE  <<i, j>> \in Spots
<1>1. i \in DOMAIN Shards /\ j \in DOMAIN Shards[i]
  BY Zenon, ShardsAssumption
<1>2. <<i, j>> \in {i} \X DOMAIN Shards[i]
  BY Zenon, <1>1
<1> QED
  BY Zenon, <1>1, <1>2 DEF Spots

(* Every position has a primary.                                            *)
LEMMA PrimaryIsSpot ==
  ASSUME NEW i \in 1 .. Len(Shards)
  PROVE  <<i, 1>> \in Spots /\ Primary(<<i, 1>>) = <<i, 1>>
<1>1. Len(Shards[i]) \in Nat \ {0}
  BY Zenon, ShardsAssumption
<1> QED
  BY <1>1, SpotIs DEF Primary

(* The primary of the first position is visited first.                      *)
LEMMA FirstSpot == <<1, 1>> \in Spots /\ 1 \in DOMAIN Shards /\ \A t \in Spots : ~ Before(t, <<1, 1>>)
<1>1. 1 \in 1 .. Len(Shards) /\ 1 \in DOMAIN Shards
  BY ShardsAssumption
<1>2. ASSUME NEW t \in Spots PROVE ~ Before(t, <<1, 1>>)
  BY SpotFacts DEF Before
<1> QED
  BY Zenon, <1>1, <1>2, PrimaryIsSpot

(* A pass over the copies visits each once.                                 *)
LEMMA NextSpotFacts ==
  ASSUME NEW s \in Spots
  PROVE  /\ ~ Past(NextSpot(s)) => NextSpot(s) \in Spots
         /\ \A t \in Spots : Before(t, NextSpot(s)) <=> (Before(t, s) \/ t = s)
         /\ Past(NextSpot(s)) => \A t \in Spots : Before(t, s) \/ t = s
         /\ NextSpot(s)[2] > 1 => NextSpot(s)[1] = s[1]
<1> DEFINE n == NextSpot(s)
<1>1. /\ s[1] \in 1 .. Len(Shards) /\ s[2] \in 1 .. Len(Shards[s[1]]) /\ s = <<s[1], s[2]>>
      /\ Len(Shards[s[1]]) \in Nat \ {0} /\ Len(Shards) \in Nat \ {0}
  BY Zenon, SpotFacts
<1>2. Past(n) <=> n[1] \notin 1 .. Len(Shards)
  BY Zenon, ShardsAssumption DEF Past
<1>3. CASE s[2] < Len(Shards[s[1]])
  <2>1. n = <<s[1], s[2] + 1>> /\ n[1] = s[1] /\ n[2] = s[2] + 1
    BY Zenon, <1>3 DEF NextSpot
  <2>2. n \in Spots
    BY <1>1, <1>3, <2>1, SpotIs
  <2>3. ~ Past(n)
    BY Zenon, <1>1, <1>2, <2>1
  <2>4. ASSUME NEW t \in Spots PROVE Before(t, n) <=> (Before(t, s) \/ t = s)
    <3>1. t[1] \in Nat /\ t[2] \in Nat /\ t = <<t[1], t[2]>>
      BY Zenon, SpotFacts
    <3>2. s[1] \in Nat /\ s[2] \in Nat
      BY <1>1
    <3> HIDE DEF n
    <3> QED
      BY <1>1, <2>1, <3>1, <3>2 DEF Before
  <2> HIDE DEF n
  <2> QED
    BY Zenon, <2>1, <2>2, <2>3, <2>4 DEF n
<1>4. CASE ~ (s[2] < Len(Shards[s[1]]))
  <2>1. n = <<s[1] + 1, 1>> /\ n[1] = s[1] + 1 /\ n[2] = 1
    BY Zenon, <1>4 DEF NextSpot
  <2>2. s[2] = Len(Shards[s[1]])
    BY <1>1, <1>4
  <2>3. ~ Past(n) => n \in Spots
    BY Zenon, <1>1, <1>2, <2>1, PrimaryIsSpot
  <2>4. ASSUME NEW t \in Spots PROVE Before(t, n) <=> (Before(t, s) \/ t = s)
    <3>1. t[1] \in Nat /\ t[2] \in 1 .. Len(Shards[t[1]]) /\ t = <<t[1], t[2]>> /\ t[2] \in Nat
      BY Zenon, SpotFacts
    <3>2. s[1] \in Nat /\ s[2] \in Nat
      BY <1>1
    <3>3. t[1] = s[1] => t[2] <= s[2]
      BY <2>2, <3>1, <1>1
    <3> HIDE DEF n
    <3> QED
      BY <1>1, <2>1, <3>1, <3>2, <3>3 DEF Before
  <2>5. ASSUME Past(n), NEW t \in Spots PROVE Before(t, s) \/ t = s
    <3>1. s[1] = Len(Shards)
      BY <1>1, <1>2, <2>1, <2>5
    <3>2. t[1] \in 1 .. Len(Shards) /\ t[2] \in 1 .. Len(Shards[t[1]]) /\ t = <<t[1], t[2]>> /\ t[2] \in Nat
      BY Zenon, SpotFacts
    <3>3. t[1] = s[1] => t[2] <= s[2]
      BY <2>2, <3>2, <1>1
    <3> QED
      BY <1>1, <3>1, <3>2, <3>3 DEF Before
  <2> HIDE DEF n
  <2> QED
    BY <2>1, <2>3, <2>4, <2>5 DEF n
<1> QED
  BY Zenon, <1>3, <1>4

(* After the primary of a position comes that of the next one.              *)
LEMMA NextShardFacts ==
  ASSUME NEW s \in Spots
  PROVE  /\ ~ Past(NextShard(s)) => NextShard(s) \in Spots
         /\ NextShard(s)[1] = s[1] + 1
         /\ Past(NextShard(s)) => s[1] = Len(Shards)
<1>1. s[1] \in 1 .. Len(Shards) /\ Len(Shards) \in Nat \ {0}
  BY Zenon, SpotFacts
<1>2. NextShard(s) = <<s[1] + 1, 1>> /\ NextShard(s)[1] = s[1] + 1
  BY Zenon DEF NextShard
<1>3. Past(NextShard(s)) <=> s[1] + 1 \notin 1 .. Len(Shards)
  BY Zenon, <1>2, ShardsAssumption DEF Past
<1>4. ~ Past(NextShard(s)) => NextShard(s) \in Spots
  BY Zenon, <1>2, <1>3, PrimaryIsSpot
<1> QED
  BY <1>1, <1>2, <1>3, <1>4

(* One copy changes.                                                        *)
LEMMA MarkIsSet ==
  ASSUME LoadTypeOK, NEW s \in Spots, NEW b \in BOOLEAN, holds' = [holds EXCEPT ![s].mark = b]
  PROVE  /\ holds' \in [Spots -> HoldsRecord]
         /\ \A t \in Spots : /\ holds'[t].rows = holds[t].rows /\ holds'[t].saved = holds[t].saved
                             /\ t # s => holds'[t] = holds[t]
         /\ holds'[s].mark = b
  BY Zenon DEF LoadTypeOK, HoldsRecord

(* The rows of one copy change.                                             *)
LEMMA RowsAreSet ==
  ASSUME LoadTypeOK, NEW s \in Spots, NEW n \in {0, 1}, holds' = [holds EXCEPT ![s].rows = n]
  PROVE  /\ holds' \in [Spots -> HoldsRecord]
         /\ \A t \in Spots : /\ holds'[t].mark = holds[t].mark /\ holds'[t].saved = holds[t].saved
                             /\ t # s => holds'[t] = holds[t]
         /\ holds'[s].rows = n
  BY Zenon DEF LoadTypeOK, HoldsRecord

(* One copy saves its rows.                                                 *)
LEMMA RowsAreSaved ==
  ASSUME LoadTypeOK, NEW s \in Spots, holds' = [holds EXCEPT ![s].saved = holds[s].rows]
  PROVE  /\ holds' \in [Spots -> HoldsRecord]
         /\ \A t \in Spots : /\ holds'[t].mark = holds[t].mark /\ holds'[t].rows = holds[t].rows
                             /\ t # s => holds'[t] = holds[t]
         /\ holds'[s].saved = holds[s].rows
  BY Zenon DEF LoadTypeOK, HoldsRecord

(* What is known of one copy.                                               *)
LEMMA HoldsFacts ==
  ASSUME LoadTypeOK, NEW s \in Spots
  PROVE  holds[s].rows \in {0, 1} /\ holds[s].saved \in {0, 1} /\ holds[s].mark \in BOOLEAN
  BY Zenon DEF LoadTypeOK

(* A load that ends with an error leaves what the copies agreed on.         *)
LEMMA EndsWithError ==
  ASSUME LoadInv, loader' = NoLoader, client' = "error", link' = link, link = "up",
         synced' \in SomeReplicas, holds' \in [Spots -> HoldsRecord], CopiesAgree'
  PROVE  LoadInv'
<1>1. loader'.pc = "idle"
  BY Zenon DEF NoLoader
<1> QED
  BY Zenon, <1>1 DEF LoadInv, LoadTypeOK, AnswersAgree, LoaderAgrees, HoldsRecord, LoadPhases

(* Marks come and go while nothing is held.                                 *)
LEMMA MarksChange ==
  ASSUME LoadInv, NothingHeld,
         \A t \in Spots : holds'[t].rows = holds[t].rows /\ holds'[t].saved = holds[t].saved
  PROVE  CopiesAgree' /\ NothingHeld'
  BY HoldsFacts DEF LoadInv, CopiesAgree, NothingHeld

(* A load runs under a coordinator that is up.                              *)
LEMMA LoadIsUp ==
  ASSUME LoadInv, loader.pc # "idle" PROVE link = "up" /\ synced \in SomeReplicas
  BY Zenon DEF LoadInv, LoadTypeOK, AnswersAgree

(* Nothing changes on the copies.                                           *)
LEMMA HoldsStay ==
  ASSUME LoadInv, UNCHANGED holds, UNCHANGED link
  PROVE  CopiesAgree' /\ holds' \in [Spots -> HoldsRecord]
  BY Zenon DEF LoadInv, CopiesAgree, NothingHeld, AllHeld, Full, LoadTypeOK, HoldsRecord

(* A load begins by counting what is there.                                 *)
LEMMA BeginsKeeps == ASSUME LoadInv, LoadBegins PROVE LoadInv'
<1>1. /\ link = "up" /\ loader.pc = "idle" /\ loader'.pc = "count" /\ loader'.at = <<1, 1>>
      /\ loader'.at[1] = 1
      /\ UNCHANGED <<holds, synced, client, link>>
  BY Zenon DEF LoadBegins, Goto_
<1>2. CopiesAgree'
  BY Zenon, <1>1, HoldsStay
<1>3. LoadTypeOK'
  BY Zenon, <1>1, FirstSpot DEF LoadInv, LoadTypeOK, LoadPhases
<1>4. AnswersAgree'
  BY Zenon, <1>1 DEF LoadInv, AnswersAgree, AllHeld, Full
<1>5. \A s \in Spots : ~ (s[1] < 1)
  BY SpotFacts
<1>6. LoaderAgrees'
  BY Zenon, <1>1, <1>5 DEF LoadInv, LoaderAgrees
<1> QED
  BY Zenon, <1>2, <1>3, <1>4, <1>6 DEF LoadInv

(* A position is passed in the count only if its primary holds nothing.     *)
LEMMA CountsKeeps == ASSUME CountsElsewhere = FALSE, LoadInv, NEW s \in Spots, Counts(s) PROVE LoadInv'
<1>1. /\ loader.pc = "count" /\ s[1] = loader.at[1] /\ UNCHANGED <<holds, synced, link>>
      /\ s[2] > 1 => holds[<<s[1], 1>>].rows = 0
  BY Zenon DEF Counts
<1>2. link = "up" /\ synced \in SomeReplicas /\ CopiesAgree' /\ holds' \in [Spots -> HoldsRecord]
  BY Zenon, <1>1, LoadIsUp, HoldsStay
<1>3. LoadTypeOK /\ loader.at \in Spots
  BY Zenon, <1>1 DEF LoadInv, LoadTypeOK
<1>4. CASE holds[s].rows > 0
  <2>1. loader' = NoLoader /\ client' = "error"
    BY Zenon, <1>4 DEF Counts
  <2> QED
    BY Zenon, <1>1, <1>2, <2>1, EndsWithError
<1>5. CASE ~ (holds[s].rows > 0)
  <2>1. holds[<<s[1], 1>>].rows = 0
    <3>1. s[2] \in Nat /\ s[2] >= 1 /\ s = <<s[1], s[2]>>
      BY SpotFacts
    <3>2. s[2] > 1 \/ s[2] = 1
      BY <3>1
    <3>3. holds[s].rows = 0
      BY <1>5, <1>3, HoldsFacts
    <3> QED
      BY Zenon, <3>1, <3>2, <3>3, <1>1
  <2>2. /\ UNCHANGED client
        /\ Past(NextShard(s)) => loader'.pc = "mark" /\ loader'.at = <<1, 1>>
        /\ ~ Past(NextShard(s)) => loader'.pc = "count" /\ loader'.at = NextShard(s)
    BY <1>5 DEF Counts, Goto_
  <2>3. client # "ok"
    <3> SUFFICES ASSUME client = "ok" PROVE FALSE
      BY Zenon
    <3>1. AllHeld
      BY Zenon DEF LoadInv, AnswersAgree
    <3>2. s[1] \in 1 .. Len(Shards)
      BY Zenon, SpotFacts
    <3>3. <<s[1], 1>> \in Spots
      BY Zenon, <3>2, PrimaryIsSpot
    <3> QED
      BY <2>1, <3>1, <3>3 DEF AllHeld, Full
  <2>4. \A t \in Spots : t[1] <= s[1] /\ t[2] = 1 => holds[t].rows = 0
    <3> SUFFICES ASSUME NEW t \in Spots, t[1] <= s[1], t[2] = 1 PROVE holds[t].rows = 0
      BY Zenon
    <3>1. t = <<t[1], 1>> /\ t[1] \in Nat /\ s[1] \in Nat
      BY Zenon, SpotFacts
    <3>2. CASE t[1] = s[1]
      BY Zenon, <2>1, <3>1, <3>2
    <3>3. CASE t[1] < s[1]
      BY Zenon, <3>3, <1>1 DEF LoadInv, LoaderAgrees
    <3> QED
      BY <3>1, <3>2, <3>3
  <2>5. CASE Past(NextShard(s))
    <3>1. s[1] = Len(Shards)
      BY Zenon, <2>5, NextShardFacts
    <3>2. ASSUME NEW t \in Spots PROVE holds[t].rows = 0
      <4>1. /\ t[1] \in 1 .. Len(Shards) /\ t[2] \in Nat /\ t[2] >= 1 /\ Len(Shards) \in Nat
        BY SpotFacts
      <4>2. Primary(t) \in Spots /\ Primary(t)[1] = t[1] /\ Primary(t)[2] = 1
        BY Zenon, <4>1, PrimaryIsSpot DEF Primary
      <4>3. holds[Primary(t)].rows = 0
        BY <2>4, <3>1, <4>1, <4>2
      <4>4. holds[Primary(t)].saved = 0
        BY <4>3, <4>2, <1>3, HoldsFacts DEF LoadInv, CopiesAgree
      <4>5. CASE t[2] = 1
        BY <2>4, <3>1, <4>1, <4>5
      <4>6. CASE t[2] > 1
        <5>1. holds[t].rows # 1
          BY <1>2, <4>4, <4>6 DEF LoadInv, CopiesAgree
        <5> QED
          BY Zenon, <5>1, <1>3, HoldsFacts
      <4> QED
        BY <4>1, <4>5, <4>6
    <3>3. NothingHeld'
      BY Zenon, <1>1, <3>2 DEF NothingHeld
    <3>4. loader'.pc = "mark" /\ loader'.at = <<1, 1>>
      BY Zenon, <2>2, <2>5
    <3>5. LoadTypeOK'
      BY Zenon, <1>1, <2>2, <3>4, FirstSpot DEF LoadInv, LoadTypeOK, LoadPhases
    <3>6. AnswersAgree'
      BY Zenon, <1>1, <1>2, <2>2, <2>3, <3>4 DEF AnswersAgree
    <3>7. LoaderAgrees'
      BY Zenon, <3>3, <3>4, FirstSpot DEF LoaderAgrees
    <3> QED
      BY Zenon, <1>2, <3>5, <3>6, <3>7 DEF LoadInv
  <2>6. CASE ~ Past(NextShard(s))
    <3>1. NextShard(s) \in Spots /\ NextShard(s)[1] = s[1] + 1
      BY Zenon, <2>6, NextShardFacts
    <3>2. loader'.pc = "count" /\ loader'.at = NextShard(s)
      BY Zenon, <2>2, <2>6
    <3>3. LoadTypeOK'
      BY Zenon, <1>1, <2>2, <3>1, <3>2 DEF LoadInv, LoadTypeOK, LoadPhases
    <3>4. AnswersAgree'
      BY Zenon, <1>1, <1>2, <2>2, <2>3, <3>2 DEF AnswersAgree
    <3>5. \A t \in Spots : t[1] < s[1] + 1 => t[1] <= s[1]
      BY SpotFacts
    <3>6. LoaderAgrees'
      BY Zenon, <1>1, <2>4, <3>1, <3>2, <3>5 DEF LoaderAgrees
    <3> QED
      BY Zenon, <1>2, <3>3, <3>4, <3>6 DEF LoadInv
  <2> QED
    BY Zenon, <2>5, <2>6
<1> QED
  BY Zenon, <1>4, <1>5

(* A count that fails ends the load.                                        *)
LEMMA CountFailsKeeps == ASSUME LoadInv, CountFails PROVE LoadInv'
<1>1. loader.pc = "count" /\ loader' = NoLoader /\ client' = "error" /\ UNCHANGED <<holds, synced, link>>
  BY Zenon DEF CountFails
<1> QED
  BY Zenon, <1>1, LoadIsUp, HoldsStay, EndsWithError

(* Before the load nothing is held, so marks may come and go.               *)
LEMMA MarkKeeps ==
  ASSUME LoadInv, NEW applied \in BOOLEAN, NEW answered \in BOOLEAN, Mark(applied, answered)
  PROVE  LoadInv'
<1> DEFINE s == loader.at
<1>1. /\ loader.pc = "mark" /\ (answered => applied) /\ UNCHANGED <<synced, client, link>>
      /\ holds' = IF applied THEN [holds EXCEPT ![s].mark = TRUE] ELSE holds
  BY Zenon DEF Mark
<1>2. link = "up" /\ synced \in SomeReplicas /\ s \in Spots /\ NothingHeld /\ LoadTypeOK
  BY Zenon, <1>1, LoadIsUp DEF LoadInv, LoadTypeOK, LoaderAgrees
<1>3. /\ holds' \in [Spots -> HoldsRecord]
      /\ \A t \in Spots : /\ holds'[t].rows = holds[t].rows /\ holds'[t].saved = holds[t].saved
                          /\ holds[t].mark => holds'[t].mark
      /\ answered => holds'[s].mark
  <2>1. CASE applied
    <3>1. holds' = [holds EXCEPT ![s].mark = TRUE]
      BY Zenon, <1>1, <2>1
    <3> QED
      BY Zenon, <3>1, <1>2, MarkIsSet
  <2>2. CASE ~ applied
    <3>1. holds' = holds /\ ~ answered
      BY Zenon, <1>1, <2>2
    <3> QED
      BY Zenon, <3>1, <1>2 DEF LoadTypeOK, HoldsRecord
  <2> QED
    BY Zenon, <2>1, <2>2
<1>4. CopiesAgree' /\ NothingHeld'
  BY Zenon, <1>2, <1>3, MarksChange
<1>6. ASSUME NEW t \in Spots, Before(t, s) \/ (answered /\ t = s) PROVE holds'[t].mark
  BY Zenon, <1>1, <1>3, <1>6 DEF LoadInv, LoaderAgrees
<1>7. CASE ~ answered
  <2>1. loader' = [pc |-> "undo", at |-> <<1, 1>>, to |-> s[1]]
    BY Zenon, <1>7 DEF Mark
  <2>2. loader'.pc = "undo" /\ loader'.at = <<1, 1>> /\ loader'.to = s[1]
    BY Zenon, <2>1
  <2>3. s[1] \in DOMAIN Shards
    BY Zenon, <1>2, SpotFacts
  <2> QED
    BY Zenon, <1>1, <1>3, <1>4, <2>2, <2>3, FirstSpot DEF LoadInv, LoadTypeOK, LoadPhases, AnswersAgree, LoaderAgrees,
       HoldsRecord
<1>8. CASE answered /\ Past(NextSpot(s))
  <2>1. loader' = [pc |-> "ids", at |-> <<1, 1>>]
    <3> HIDE DEF s
    <3> QED
    BY Zenon, <1>8 DEF Mark, Goto_, s
  <2>2. loader'.pc = "ids"
    BY Zenon, <2>1
  <2>3. \A t \in Spots : holds'[t].mark
    BY Zenon, <1>2, <1>6, <1>8, NextSpotFacts
  <2> QED
    BY Zenon, <1>1, <1>3, <1>4, <2>2, <2>3 DEF LoadInv, LoadTypeOK, LoadPhases, AnswersAgree, LoaderAgrees, HoldsRecord
<1>9. CASE answered /\ ~ Past(NextSpot(s))
  <2>1. loader' = [pc |-> "mark", at |-> NextSpot(s)]
    BY Zenon, <1>9 DEF Mark, Goto_
  <2>2. loader'.pc = "mark" /\ loader'.at = NextSpot(s) /\ NextSpot(s) \in Spots
    BY Zenon, <1>2, <1>9, <2>1, NextSpotFacts
  <2>3. \A t \in Spots : Before(t, NextSpot(s)) => holds'[t].mark
    BY Zenon, <1>2, <1>6, <1>9, NextSpotFacts
  <2> HIDE DEF s
  <2> QED
    BY Zenon, <1>1, <1>3, <1>4, <2>2, <2>3 DEF LoadInv, LoadTypeOK, AnswersAgree, LoaderAgrees, HoldsRecord
<1> QED
  BY Zenon, <1>7, <1>8, <1>9

(* The ids are checked once every copy is marked.                           *)
LEMMA IdsKeeps == ASSUME LoadInv, NEW accepted \in BOOLEAN, Ids_(accepted) PROVE LoadInv'
<1>1. loader.pc = "ids" /\ UNCHANGED <<holds, synced, client, link>>
  BY Zenon DEF Ids_
<1>2. link = "up" /\ CopiesAgree' /\ holds' \in [Spots -> HoldsRecord] /\ client # "ok" /\ NothingHeld
  BY Zenon, <1>1, HoldsStay DEF LoadInv, AnswersAgree, LoaderAgrees
<1>3. \A t \in Spots : holds[t].mark /\ holds[t].rows = 0
  BY Zenon, <1>1 DEF LoadInv, LoaderAgrees, NothingHeld
<1>4. CASE accepted
  <2>1. loader' = [pc |-> "load", at |-> <<1, 1>>]
    BY Zenon, <1>4 DEF Ids_, Goto_
  <2>2. loader'.pc = "load" /\ loader'.at = <<1, 1>>
    BY Zenon, <2>1
  <2> QED
    BY Zenon, <1>1, <1>2, <1>3, <2>2, FirstSpot
    DEF LoadInv, LoadTypeOK, LoadPhases, AnswersAgree, LoaderAgrees
<1>5. CASE ~ accepted
  <2>1. loader' = [pc |-> "undo", at |-> <<1, 1>>, to |-> Len(Shards)]
    BY Zenon, <1>5 DEF Ids_
  <2>2. loader'.pc = "undo" /\ loader'.at = <<1, 1>> /\ loader'.to = Len(Shards)
    BY Zenon, <2>1
  <2>4. NothingHeld'
    BY Zenon, <1>1, <1>2 DEF NothingHeld
  <2> QED
    BY <1>1, <1>2, <2>2, <2>4, FirstSpot DEF LoadInv, LoadTypeOK, LoadPhases, AnswersAgree, LoaderAgrees
<1> QED
  BY Zenon, <1>4, <1>5

(* A load that is refused takes its marks back.                             *)
LEMMA UndoKeeps ==
  ASSUME LoadInv, NEW applied \in BOOLEAN, NEW answered \in BOOLEAN, Undo(applied, answered)
  PROVE  LoadInv'
<1> DEFINE s == loader.at
           sends == s[2] > 1 \/ ~ OutOfSync(s[1])
           next == IF sends /\ answered THEN NextSpot(s) ELSE NextShard(s)
<1>1. /\ loader.pc = "undo" /\ UNCHANGED <<synced, link>>
      /\ holds' = IF sends /\ applied THEN [holds EXCEPT ![s].mark = FALSE] ELSE holds
      /\ IF next[1] > loader.to
         THEN loader' = NoLoader /\ client' = "error"
         ELSE loader' = [loader EXCEPT !.at = next] /\ UNCHANGED client
  BY Zenon DEF Undo
<1>2. /\ link = "up" /\ synced \in SomeReplicas /\ s \in Spots /\ NothingHeld /\ LoadTypeOK
      /\ client # "ok" /\ loader.to \in DOMAIN Shards
  BY Zenon, <1>1 DEF LoadInv, LoadTypeOK, LoaderAgrees, AnswersAgree
<1>3. /\ holds' \in [Spots -> HoldsRecord]
      /\ \A t \in Spots : holds'[t].rows = holds[t].rows /\ holds'[t].saved = holds[t].saved
  <2>1. CASE sends /\ applied
    <3>1. holds' = [holds EXCEPT ![s].mark = FALSE]
      BY Zenon, <1>1, <2>1
    <3> QED
      BY Zenon, <3>1, <1>2, MarkIsSet
  <2>2. CASE ~ (sends /\ applied)
    <3>1. holds' = holds
      BY Zenon, <1>1, <2>2
    <3> QED
      BY Zenon, <3>1, <1>2 DEF LoadTypeOK, HoldsRecord
  <2> QED
    BY Zenon, <2>1, <2>2
<1>4. CopiesAgree' /\ NothingHeld'
  BY Zenon, <1>2, <1>3, MarksChange
<1>5. Past(next) \/ next \in Spots
  BY Zenon, <1>2, NextSpotFacts, NextShardFacts
<1>6. next[1] \in Nat /\ next[1] >= 1
  <2>1. s[1] \in Nat /\ s[1] >= 1
    BY <1>2, SpotFacts
  <2> QED
    BY <2>1 DEF NextSpot, NextShard
<1> HIDE DEF next, sends
<1>7. CASE next[1] > loader.to
  BY Zenon, <1>1, <1>2, <1>3, <1>4, <1>7, EndsWithError
<1>8. CASE ~ (next[1] > loader.to)
  <2>1. loader' = [loader EXCEPT !.at = next] /\ UNCHANGED client
    BY Zenon, <1>1, <1>8
  <2>2. loader.to \in 1 .. Len(Shards) /\ DOMAIN Shards = 1 .. Len(Shards) /\ Len(Shards) \in Nat
    BY Zenon, <1>2, ShardsAssumption
  <2>3. next \in Spots
    BY <1>5, <1>6, <1>8, <2>2 DEF Past
  <2> QED
    BY <1>1, <1>3, <1>4, <2>1, <2>3 DEF LoadInv, LoadTypeOK, AnswersAgree, LoaderAgrees, HoldsRecord
<1> QED
  BY Zenon, <1>7, <1>8

(* The load goes on to the next copy, or to the completion.                 *)
LEMMA MovesOn ==
  ASSUME LoadInv, loader.pc \in {"load", "finish"}, NEW s \in Spots, AfterLoad(s),
         UNCHANGED <<client, link>>, synced' \in SomeReplicas, holds' \in [Spots -> HoldsRecord],
         CopiesAgree', \A t \in Spots : holds'[t].mark,
         \A t \in Spots : Before(t, s) \/ t = s => (Takes(t)' => Full(t)'),
         \A t \in Spots : ~ Before(t, s) /\ t # s => holds'[t].rows = 0
  PROVE  LoadInv'
<1>1. link = "up" /\ client # "ok"
  BY Zenon, LoadIsUp DEF LoadInv, AnswersAgree
<1>2. CASE Past(NextSpot(s))
  <2>1. loader'.pc = "complete" /\ loader'.at = <<1, 1>>
    BY <1>2 DEF AfterLoad, Goto_
  <2>2. \A t \in Spots : Takes(t)' => Full(t)'
    BY Zenon, <1>2, NextSpotFacts
  <2>3. ASSUME NEW t \in Spots PROVE ~ Before(Primary(t), <<1, 1>>)
    <3>1. Primary(t) \in Spots
      BY Zenon, SpotFacts, PrimaryIsSpot DEF Primary
    <3> QED
      BY Zenon, <3>1, FirstSpot
  <2> QED
    BY <2>1, <2>2, <2>3, FirstSpot DEF LoadInv, LoadTypeOK, LoadPhases, AnswersAgree, LoaderAgrees, HoldsRecord
<1>3. CASE ~ Past(NextSpot(s))
  <2>1. loader'.pc = "load" /\ loader'.at = NextSpot(s)
    BY <1>3 DEF AfterLoad, Goto_
  <2>2. NextSpot(s) \in Spots /\ \A t \in Spots : Before(t, NextSpot(s)) <=> (Before(t, s) \/ t = s)
    BY Zenon, <1>3, NextSpotFacts
  <2>3. ~ Before(NextSpot(s), NextSpot(s))
    BY <2>2, SpotFacts DEF Before
  <2>4. LoaderAgrees'
    BY Zenon, <2>1, <2>2, <2>3 DEF LoaderAgrees
  <2> QED
    BY Zenon, <1>1, <2>1, <2>2, <2>4 DEF LoadInv, LoadTypeOK, LoadPhases, AnswersAgree, HoldsRecord
<1> QED
  BY Zenon, <1>2, <1>3

(* What holds of the copies while the buckets are sent.                     *)
LEMMA LoadingFacts ==
  ASSUME LoadInv, loader.pc \in {"load", "finish"}
  PROVE  /\ link = "up" /\ client # "ok" /\ synced \in SomeReplicas /\ loader.at \in Spots
         /\ LoadTypeOK
         /\ \A t \in Spots :
              /\ holds[t].mark
              /\ Before(t, loader.at) /\ Takes(t) => Full(t)
              /\ ~ Before(t, loader.at) /\ t # loader.at => holds[t].rows = 0 /\ holds[t].saved = 0
  BY DEF LoadInv, LoadTypeOK, LoaderAgrees, AnswersAgree, CopiesAgree

(* A copy is not visited before itself.                                     *)
LEMMA NotBeforeItself == ASSUME NEW s \in Spots PROVE ~ Before(s, s)
  BY SpotFacts DEF Before

(* The primary of a replica comes before it.                                *)
LEMMA PrimaryIsFirst ==
  ASSUME NEW s \in Spots, s[2] > 1
  PROVE  Primary(s) \in Spots /\ Before(Primary(s), s) /\ Takes(Primary(s)) /\ Primary(s) # s
<1>1. s[1] \in 1 .. Len(Shards) /\ s[1] \in Nat /\ s[2] \in Nat /\ s = <<s[1], s[2]>>
  BY Zenon, SpotFacts
<1>2. Primary(s) = <<s[1], 1>> /\ Primary(s)[1] = s[1] /\ Primary(s)[2] = 1
  BY Zenon DEF Primary
<1> QED
  BY <1>1, <1>2, PrimaryIsSpot DEF Before, Takes

(* A copy takes its bucket into memory.                                     *)
LEMMA StageKeeps == ASSUME LoadInv, Stage PROVE LoadInv'
<1> DEFINE s == loader.at
<1>1. /\ loader.pc = "load" /\ Takes(s) /\ holds' = [holds EXCEPT ![s].rows = @ + 1]
      /\ loader'.pc = "finish" /\ loader'.at = s /\ UNCHANGED <<synced, client, link>>
  BY Zenon DEF Stage, Goto_
<1>2. /\ link = "up" /\ client # "ok" /\ synced \in SomeReplicas /\ s \in Spots /\ LoadTypeOK
      /\ holds[s].rows = 0 /\ CopiesAgree
      /\ \A t \in Spots :
              /\ holds[t].mark
              /\ Before(t, s) /\ Takes(t) => Full(t)
              /\ ~ Before(t, s) /\ t # s => holds[t].rows = 0 /\ holds[t].saved = 0
  BY Zenon, <1>1, LoadingFacts DEF LoadInv, LoaderAgrees
<1> HIDE DEF s
<1>3. holds' = [holds EXCEPT ![s].rows = 1]
  BY <1>1, <1>2 DEF LoadTypeOK
<1>4. /\ holds' \in [Spots -> HoldsRecord]
      /\ \A t \in Spots : /\ holds'[t].mark = holds[t].mark /\ holds'[t].saved = holds[t].saved
                          /\ t # s => holds'[t] = holds[t]
      /\ holds'[s].rows = 1
  BY Zenon, <1>2, <1>3, RowsAreSet
<1>5. CopiesAgree'
  <2>1. \A t \in Spots : holds'[t].saved <= holds'[t].rows
    BY <1>2, <1>4, HoldsFacts DEF CopiesAgree
  <2>2. ASSUME NEW t \in Spots, t[2] > 1, holds'[t].rows = 1 PROVE holds'[Primary(t)].saved = 1
    <3>1. Primary(t) \in Spots /\ Before(Primary(t), t) /\ Takes(Primary(t))
      BY Zenon, <2>2, PrimaryIsFirst
    <3>2. CASE t = s
      BY Zenon, <3>1, <3>2, <1>2, <1>4 DEF Full
    <3>3. CASE t # s
      BY Zenon, <2>2, <3>1, <3>3, <1>2, <1>4 DEF CopiesAgree
    <3> QED
      BY Zenon, <3>2, <3>3
  <2> QED
    BY <1>1, <1>2, <2>1, <2>2 DEF CopiesAgree
<1>6. \A t \in Spots : (Takes(t)' <=> Takes(t)) /\ (Before(t, s) => t # s)
  BY Zenon, <1>1, NotBeforeItself DEF Takes
<1>7. LoaderAgrees'
  BY <1>1, <1>2, <1>4, <1>6 DEF LoaderAgrees, Full
<1> QED
  BY Zenon, <1>1, <1>2, <1>4, <1>5, <1>7
  DEF LoadInv, LoadTypeOK, LoadPhases, AnswersAgree, HoldsRecord

(* The rows of one copy are saved.                                          *)
LEMMA SavingKeeps ==
  ASSUME LoadInv, loader.pc = "finish", link' = link,
         holds' = [holds EXCEPT ![loader.at].saved = holds[loader.at].rows]
  PROVE  /\ CopiesAgree' /\ holds' \in [Spots -> HoldsRecord]
         /\ holds'[loader.at].rows = 1 /\ holds'[loader.at].saved = 1
         /\ \A t \in Spots : holds'[t].mark /\ (t # loader.at => holds'[t] = holds[t])
<1> DEFINE s == loader.at
<1>1. /\ s \in Spots /\ LoadTypeOK /\ holds[s].rows = 1 /\ CopiesAgree /\ \A t \in Spots : holds[t].mark
      /\ link = "up"
  BY Zenon, LoadingFacts DEF LoadInv, LoaderAgrees
<1> HIDE DEF s
<1>2. /\ holds' \in [Spots -> HoldsRecord]
      /\ \A t \in Spots : /\ holds'[t].mark = holds[t].mark /\ holds'[t].rows = holds[t].rows
                          /\ t # s => holds'[t] = holds[t]
      /\ holds'[s].saved = 1
  BY Zenon, <1>1, RowsAreSaved DEF s
<1>3. ASSUME NEW t \in Spots PROVE holds'[t].saved <= holds'[t].rows
  <2>1. CASE t = s
    BY <1>1, <1>2, <2>1
  <2>2. CASE t # s
    BY Zenon, <1>1, <1>2, <2>2 DEF CopiesAgree
  <2> QED
    BY Zenon, <2>1, <2>2
<1>4. \A t \in Spots : holds[t].saved = 1 => holds'[t].saved = 1
  BY Zenon, <1>2
<1>6. CopiesAgree'
  BY <1>1, <1>2, <1>3, <1>4 DEF CopiesAgree
<1> QED
  BY Zenon, <1>1, <1>2, <1>6 DEF s

(* A copy saves its bucket.                                                 *)
LEMMA FinishKeeps == ASSUME LoadInv, Finish_ PROVE LoadInv'
<1> DEFINE s == loader.at
<1>1. /\ loader.pc = "finish" /\ AfterLoad(s) /\ UNCHANGED <<synced, client, link>>
      /\ holds' = [holds EXCEPT ![s].saved = holds[s].rows]
  BY Zenon DEF Finish_
<1>2. /\ CopiesAgree' /\ holds' \in [Spots -> HoldsRecord] /\ holds'[s].rows = 1 /\ holds'[s].saved = 1
      /\ \A t \in Spots : holds'[t].mark /\ (t # s => holds'[t] = holds[t])
  BY Zenon, <1>1, SavingKeeps
<1>3. /\ synced \in SomeReplicas /\ s \in Spots
      /\ \A t \in Spots :
              /\ Before(t, s) /\ Takes(t) => Full(t)
              /\ ~ Before(t, s) /\ t # s => holds[t].rows = 0
  BY Zenon, <1>1, LoadingFacts
<1> HIDE DEF s
<1>4. \A t \in Spots : Before(t, s) \/ t = s => (Takes(t)' => Full(t)')
  BY Zenon, <1>1, <1>2, <1>3 DEF Takes, Full
<1> QED
  BY Zenon, <1>1, <1>2, <1>3, <1>4, MovesOn

(* A replica out of sync is passed over.                                    *)
LEMMA SkipKeeps == ASSUME LoadInv, SkipReplica PROVE LoadInv'
<1> DEFINE s == loader.at
<1>1. /\ loader.pc = "load" /\ ~ Takes(s) /\ AfterLoad(s) /\ UNCHANGED <<holds, synced, client, link>>
  BY Zenon DEF SkipReplica
<1>2. /\ synced \in SomeReplicas /\ s \in Spots
      /\ \A t \in Spots :
              /\ holds[t].mark
              /\ Before(t, s) /\ Takes(t) => Full(t)
              /\ ~ Before(t, s) /\ t # s => holds[t].rows = 0
  BY Zenon, <1>1, LoadingFacts
<1>3. CopiesAgree' /\ holds' \in [Spots -> HoldsRecord]
  BY Zenon, <1>1, HoldsStay
<1>4. \A t \in Spots : Before(t, s) \/ t = s => (Takes(t)' => Full(t)')
  BY Zenon, <1>1, <1>2 DEF Takes, Full
<1> HIDE DEF s
<1> QED
  BY Zenon, <1>1, <1>2, <1>3, <1>4, MovesOn

(* A replica that does not take the load is dropped, and the load goes on.  *)
LEMMA DropsOut ==
  ASSUME LoadInv, loader.pc \in {"load", "finish"}, NEW s \in Spots, s = loader.at, s[2] # 1,
         synced' = [synced EXCEPT ![s[1]] = @ \ {s[2]}], AfterLoad(s), UNCHANGED <<client, link>>,
         holds' \in [Spots -> HoldsRecord], CopiesAgree',
         \A t \in Spots : holds'[t].mark /\ (t # s => holds'[t] = holds[t])
  PROVE  LoadInv'
<1>1. /\ synced \in SomeReplicas
      /\ \A t \in Spots :
              /\ Before(t, s) /\ Takes(t) => Full(t)
              /\ ~ Before(t, s) /\ t # s => holds[t].rows = 0
  BY Zenon, LoadingFacts
<1>2. s[1] \in DOMAIN Shards /\ s = <<s[1], s[2]>>
  BY Zenon, SpotFacts
<1>3. synced \in [DOMAIN Shards -> SUBSET UNION {Replicas(pos) : pos \in DOMAIN Shards}]
  BY Zenon, <1>1 DEF SomeReplicas
<1>4. \A pos \in DOMAIN Shards : synced'[pos] \subseteq synced[pos]
  BY Zenon, <1>2, <1>3
<1>5. synced' \in SomeReplicas
  <2>1. synced' \in [DOMAIN Shards -> SUBSET UNION {Replicas(pos) : pos \in DOMAIN Shards}]
    BY Zenon, <1>2, <1>3
  <2> QED
    BY Zenon, <1>1, <2>1 DEF SomeReplicas
<1>6. s[2] \notin synced'[s[1]]
  BY Zenon, <1>2, <1>3
<1>7. ASSUME NEW t \in Spots, Before(t, s) \/ t = s, Takes(t)' PROVE Full(t)'
  <2>1. t # s
    BY Zenon, <1>6, <1>7 DEF Takes
  <2>2. t[1] \in DOMAIN Shards
    BY Zenon, SpotFacts
  <2>3. Takes(t)
    BY Zenon, <1>4, <1>7, <2>2 DEF Takes
  <2> QED
    BY Zenon, <1>1, <1>7, <2>1, <2>3 DEF Full
<1> QED
  BY Zenon, <1>1, <1>5, <1>7, MovesOn

(* The stream to a copy fails: a primary ends the load, a replica goes out  *)
(* of sync.                                                                 *)
LEMMA StreamFailsKeeps == ASSUME LoadInv, NEW finished \in BOOLEAN, StreamFails(finished) PROVE LoadInv'
<1> DEFINE s == loader.at
<1>1. /\ loader.pc \in {"load", "finish"} /\ (finished => loader.pc = "finish") /\ UNCHANGED link
      /\ holds' = IF finished THEN [holds EXCEPT ![s].saved = holds[s].rows] ELSE holds
      /\ IF s[2] = 1
         THEN loader' = NoLoader /\ client' = "error" /\ UNCHANGED synced
         ELSE AfterLoad(s) /\ synced' = [synced EXCEPT ![s[1]] = @ \ {s[2]}] /\ UNCHANGED client
  BY Zenon DEF StreamFails
<1>2. link = "up" /\ synced \in SomeReplicas /\ s \in Spots /\ \A t \in Spots : holds[t].mark
  BY Zenon, <1>1, LoadingFacts
<1>3. /\ CopiesAgree' /\ holds' \in [Spots -> HoldsRecord]
      /\ \A t \in Spots : holds'[t].mark /\ (t # s => holds'[t] = holds[t])
  <2>1. CASE finished
    BY Zenon, <1>1, <2>1, SavingKeeps
  <2>2. CASE ~ finished
    BY Zenon, <1>1, <1>2, <2>2, HoldsStay
  <2> QED
    BY Zenon, <2>1, <2>2
<1>4. CASE s[2] = 1
  BY Zenon, <1>1, <1>2, <1>3, <1>4, EndsWithError
<1>5. CASE s[2] # 1
  <2>1. AfterLoad(s) /\ synced' = [synced EXCEPT ![s[1]] = @ \ {s[2]}] /\ UNCHANGED client
    BY Zenon, <1>1, <1>5
  <2> QED
    BY Zenon, <1>1, <1>2, <1>3, <1>5, <2>1, DropsOut
<1> QED
  BY Zenon, <1>4, <1>5

(* A node that stops comes back with what it saved.                         *)
LEMMA NodeStopsKeeps == ASSUME LoadInv, NEW s \in Spots, NodeStops(s) PROVE LoadInv'
<1>1. holds' = [holds EXCEPT ![s].rows = holds[s].saved] /\ UNCHANGED link
  BY Zenon DEF NodeStops
<1>2. LoadTypeOK /\ CopiesAgree /\ AnswersAgree /\ LoaderAgrees
  BY Zenon DEF LoadInv
<1>3. \A t \in Spots : /\ holds[t].rows \in {0, 1} /\ holds[t].saved \in {0, 1}
                       /\ holds[t].saved <= holds[t].rows
  BY Zenon, <1>2, HoldsFacts DEF CopiesAgree
<1>4. /\ holds' \in [Spots -> HoldsRecord]
      /\ \A t \in Spots : /\ holds'[t].mark = holds[t].mark /\ holds'[t].saved = holds[t].saved
                          /\ t # s => holds'[t] = holds[t]
      /\ holds'[s].rows = holds[s].saved
  BY Zenon, <1>1, <1>2, <1>3, RowsAreSet
<1>5. \A t \in Spots : /\ holds'[t].rows \in {holds[t].rows, holds[t].saved}
                       /\ holds[t].rows = 0 => holds'[t].rows = 0
                       /\ Full(t) => Full(t)'
  BY <1>3, <1>4 DEF Full
<1>6. CopiesAgree'
  <2>1. \A t \in Spots : holds'[t].saved <= holds'[t].rows
    BY <1>3, <1>4, <1>5
  <2>2. NothingHeld' \/ AllHeld' \/ \E t \in Spots : holds'[t].mark
    BY Zenon, <1>2, <1>4, <1>5 DEF CopiesAgree, NothingHeld, AllHeld
  <2>3. ASSUME link # "refused", NEW t \in Spots, t[2] > 1, holds'[t].rows = 1
        PROVE  holds'[Primary(t)].saved = 1
    <3>1. Primary(t) \in Spots
      BY Zenon, <2>3, PrimaryIsFirst
    <3>2. holds[t].rows = 1
      BY Zenon, <1>3, <1>5, <2>3
    <3> QED
      BY Zenon, <1>2, <1>4, <2>3, <3>1, <3>2 DEF CopiesAgree
  <2> QED
    BY Zenon, <1>1, <2>1, <2>2, <2>3 DEF CopiesAgree
<1>7. CASE loader.pc = "finish" /\ loader.at = s
  <2>1. IF s[2] = 1
        THEN loader' = NoLoader /\ client' = "error" /\ UNCHANGED synced
        ELSE AfterLoad(s) /\ synced' = [synced EXCEPT ![s[1]] = @ \ {s[2]}] /\ UNCHANGED client
    BY Zenon, <1>7 DEF NodeStops
  <2>2. link = "up" /\ synced \in SomeReplicas /\ \A t \in Spots : holds[t].mark
    BY Zenon, <1>7, LoadingFacts
  <2>3. CASE s[2] = 1
    BY Zenon, <1>1, <1>4, <1>6, <2>1, <2>2, <2>3, EndsWithError
  <2>4. CASE s[2] # 1
    BY Zenon, <1>1, <1>4, <1>6, <1>7, <2>1, <2>2, <2>4, DropsOut
  <2> QED
    BY Zenon, <2>3, <2>4
<1>8. CASE ~ (loader.pc = "finish" /\ loader.at = s)
  <2>1. UNCHANGED <<loader, client, synced, link>>
    BY Zenon, <1>1, <1>8 DEF NodeStops
  <2>2. LoadTypeOK'
    BY Zenon, <1>2, <1>4, <2>1 DEF LoadTypeOK, HoldsRecord
  <2>3. AnswersAgree'
    BY Zenon, <1>2, <1>4, <1>5, <2>1 DEF AnswersAgree, AllHeld
  <2>4. \A t \in Spots : (Takes(t)' <=> Takes(t)) /\ (OutOfSync(t[1])' <=> OutOfSync(t[1]))
    BY Zenon, <2>1 DEF Takes, OutOfSync
  <2>5. NothingHeld => NothingHeld'
    BY Zenon, <1>5 DEF NothingHeld
  <2>6. loader.pc = "finish" => Takes(loader.at)' /\ holds'[loader.at].rows = 1
    BY Zenon, <1>2, <1>4, <1>8, <2>1 DEF LoaderAgrees, LoadTypeOK, Takes
  <2>7. loader.pc = "load" => holds'[loader.at].rows = 0
    BY Zenon, <1>2, <1>5 DEF LoaderAgrees, LoadTypeOK
  <2>8. LoaderAgrees'
    BY Zenon, <1>2, <1>4, <1>5, <2>1, <2>4, <2>5, <2>6, <2>7 DEF LoaderAgrees
  <2> QED
    BY Zenon, <1>6, <2>2, <2>3, <2>8 DEF LoadInv
<1> QED
  BY Zenon, <1>7, <1>8

(* A coordinator stops in the middle of a load.                             *)
LEMMA LoaderStopsKeeps == ASSUME LoadInv, LoaderStops PROVE LoadInv'
<1>1. /\ link = "up" /\ link' = "connecting" /\ loader' = NoLoader /\ loader'.pc = "idle"
      /\ client' = IF loader.pc = "idle" THEN client ELSE "error"
      /\ UNCHANGED <<holds, synced>>
  BY Zenon DEF LoaderStops, NoLoader
<1>2. CopiesAgree'
  BY Zenon, <1>1 DEF LoadInv, CopiesAgree, NothingHeld, AllHeld, Full
<1>3. LoadTypeOK'
  BY Zenon, <1>1 DEF LoadInv, LoadTypeOK, LoadPhases
<1>4. AnswersAgree'
  BY Zenon, <1>1 DEF LoadInv, AnswersAgree, AllHeld, Full
<1>5. LoaderAgrees'
  BY Zenon, <1>1 DEF LoaderAgrees
<1> QED
  BY Zenon, <1>2, <1>3, <1>4, <1>5 DEF LoadInv

(* The nodes' data is reset.                                                *)
LEMMA ResetKeeps == ASSUME LoadInv, Reset PROVE LoadInv'
<1>1. /\ link = "refused" /\ link' = "connecting" /\ client' = "none" /\ UNCHANGED <<synced, loader>>
      /\ holds' = [s \in Spots |-> [rows |-> 0, saved |-> 0, mark |-> FALSE]]
  BY Zenon DEF Reset
<1>2. loader.pc = "idle" /\ LoadTypeOK
  BY Zenon, <1>1 DEF LoadInv, AnswersAgree
<1>3. \A s \in Spots : holds'[s].rows = 0 /\ holds'[s].saved = 0 /\ holds'[s].mark = FALSE
  BY Zenon, <1>1
<1>4. CopiesAgree'
  BY <1>3 DEF CopiesAgree, NothingHeld
<1>5. LoadTypeOK'
  BY Zenon, <1>1, <1>2 DEF LoadTypeOK
<1> QED
  BY Zenon, <1>1, <1>4, <1>5 DEF LoadInv, AnswersAgree, LoaderAgrees

(* The records are cleared last.                                            *)
LEMMA CompleteKeeps ==
  ASSUME LoadInv, NEW applied \in BOOLEAN, NEW answered \in BOOLEAN, Complete(applied, answered)
  PROVE  LoadInv'
<1> DEFINE s == loader.at
           sends == s[2] > 1 \/ MayComplete(s[1])
           done == sends /\ answered
<1>1. /\ loader.pc = "complete" /\ (answered => applied) /\ UNCHANGED <<synced, link>>
      /\ holds' = IF sends /\ applied THEN [holds EXCEPT ![s].mark = FALSE] ELSE holds
      /\ IF done /\ ~ Past(NextSpot(s))
         THEN Goto_("complete", NextSpot(s)) /\ UNCHANGED client
         ELSE loader' = NoLoader /\ client' = IF done THEN "ok" ELSE "error"
  BY Zenon DEF Complete
<1>2. /\ link = "up" /\ synced \in SomeReplicas /\ s \in Spots /\ LoadTypeOK /\ CopiesAgree
      /\ client # "ok"
      /\ \A t \in Spots : Takes(t) => Full(t)
      /\ \A t \in Spots : Before(t, s) <=> ~ holds[t].mark
      /\ \A t \in Spots : Before(Primary(t), s) => ~ OutOfSync(t[1])
  BY Zenon, <1>1 DEF LoadInv, LoadTypeOK, LoaderAgrees, AnswersAgree
<1>3. sends => ~ OutOfSync(s[1])
  <2>1. CASE s[2] > 1
    BY Zenon, <1>2, <2>1, PrimaryIsFirst
  <2>2. CASE ~ (s[2] > 1)
    BY Zenon, <2>2 DEF MayComplete
  <2> QED
    BY Zenon, <2>1, <2>2
<1>4. /\ holds' \in [Spots -> HoldsRecord]
      /\ \A t \in Spots : /\ holds'[t].rows = holds[t].rows /\ holds'[t].saved = holds[t].saved
                          /\ t # s \/ ~ sends => holds'[t] = holds[t]
      /\ done => holds'[s].mark = FALSE
  <2>1. CASE sends /\ applied
    <3>1. holds' = [holds EXCEPT ![s].mark = FALSE]
      BY Zenon, <1>1, <2>1
    <3> QED
      BY Zenon, <3>1, <2>1, <1>2, MarkIsSet
  <2>2. CASE ~ (sends /\ applied)
    <3>1. holds' = holds /\ ~ done
      BY Zenon, <1>1, <2>2
    <3> QED
      BY Zenon, <3>1, <1>2 DEF LoadTypeOK, HoldsRecord
  <2> QED
    BY Zenon, <2>1, <2>2
<1>5. ASSUME sends, Past(NextSpot(s)) PROVE AllHeld
  <2>1. ASSUME NEW t \in Spots PROVE Takes(t)
    <3>1. /\ t = <<t[1], t[2]>> /\ t[1] \in 1 .. Len(Shards) /\ t[2] \in 1 .. Len(Shards[t[1]])
          /\ t[1] \in Nat /\ t[2] \in Nat /\ s[1] \in Nat /\ s[2] \in Nat /\ s[2] >= 1
      BY <1>2, SpotFacts
    <3>2. Before(t, s) \/ t = s
      BY Zenon, <1>2, <1>5, NextSpotFacts
    <3>3. Primary(t) = <<t[1], 1>> /\ Primary(t)[1] = t[1] /\ Primary(t)[2] = 1
      BY Zenon DEF Primary
    <3>4. Before(Primary(t), s) \/ t[1] = s[1]
      BY Zenon, <3>1, <3>2, <3>3 DEF Before
    <3>5. ~ OutOfSync(t[1])
      BY Zenon, <1>2, <1>3, <1>5, <3>4
    <3>6. t[2] = 1 \/ t[2] \in Replicas(t[1])
      BY <3>1, ShardsAssumption DEF Replicas
    <3> QED
      BY Zenon, <3>5, <3>6 DEF OutOfSync, Takes
  <2> QED
    BY Zenon, <1>2, <2>1 DEF AllHeld
<1>6. CopiesAgree'
  <2>1. NothingHeld' \/ AllHeld' \/ \E t \in Spots : holds'[t].mark
    <3>1. CASE ~ sends
      <4>1. holds'[s].mark
        BY Zenon, <1>2, <1>4, <3>1, NotBeforeItself
      <4> QED
        BY Zenon, <4>1, <1>2
    <3>2. CASE sends /\ Past(NextSpot(s))
      BY Zenon, <1>4, <1>5, <3>2 DEF AllHeld, Full
    <3>3. CASE ~ Past(NextSpot(s))
      <4>1. NextSpot(s) \in Spots /\ ~ Before(NextSpot(s), NextSpot(s))
        BY Zenon, <1>2, <3>3, NextSpotFacts, NotBeforeItself
      <4>2. ~ Before(NextSpot(s), s) /\ NextSpot(s) # s
        BY Zenon, <1>2, <4>1, NextSpotFacts
      <4>3. holds'[NextSpot(s)].mark
        BY Zenon, <1>2, <1>4, <4>1, <4>2
      <4> QED
        BY Zenon, <4>1, <4>3
    <3> QED
      BY Zenon, <3>1, <3>2, <3>3
  <2> QED
    BY <1>1, <1>2, <2>1 DEF CopiesAgree
<1>7. CASE done /\ ~ Past(NextSpot(s))
  <2>1. loader'.pc = "complete" /\ loader'.at = NextSpot(s) /\ UNCHANGED client
    BY <1>1, <1>7 DEF Goto_
  <2>2. /\ NextSpot(s) \in Spots
        /\ \A t \in Spots : Before(t, NextSpot(s)) <=> (Before(t, s) \/ t = s)
    BY Zenon, <1>2, <1>7, NextSpotFacts
  <2>3. \A t \in Spots : (Takes(t)' <=> Takes(t)) /\ (OutOfSync(t[1])' <=> OutOfSync(t[1]))
    BY Zenon, <1>1 DEF Takes, OutOfSync
  <2>4. \A t \in Spots : Full(t) => Full(t)'
    BY Zenon, <1>4 DEF Full
  <2>5. \A t \in Spots : Before(t, NextSpot(s)) <=> ~ holds'[t].mark
    BY Zenon, <1>2, <1>4, <1>7, <2>2
  <2>6. ASSUME NEW t \in Spots, Before(Primary(t), NextSpot(s)) PROVE ~ OutOfSync(t[1])
    <3>1. Primary(t) \in Spots /\ Primary(t)[1] = t[1]
      BY Zenon, SpotFacts, PrimaryIsSpot DEF Primary
    <3>2. Before(Primary(t), s) \/ Primary(t) = s
      BY Zenon, <2>2, <2>6, <3>1
    <3> QED
      BY Zenon, <1>2, <1>3, <1>7, <3>1, <3>2
  <2>7. LoaderAgrees'
    BY Zenon, <1>2, <2>1, <2>3, <2>4, <2>5, <2>6 DEF LoaderAgrees
  <2> QED
    BY Zenon, <1>1, <1>4, <1>6, <2>1, <2>2, <2>7 DEF LoadInv, LoadTypeOK, AnswersAgree, HoldsRecord
<1>8. CASE done /\ Past(NextSpot(s))
  <2>1. loader' = NoLoader /\ client' = "ok" /\ loader'.pc = "idle"
    BY <1>1, <1>8 DEF NoLoader
  <2>2. AllHeld'
    BY Zenon, <1>4, <1>5, <1>8 DEF AllHeld, Full
  <2>3. ASSUME NEW t \in Spots PROVE ~ holds'[t].mark
    <3>1. Before(t, s) \/ t = s
      BY Zenon, <1>2, <1>8, NextSpotFacts
    <3> QED
      BY Zenon, <1>2, <1>4, <1>8, <3>1
  <2> QED
    BY Zenon, <1>1, <1>4, <1>6, <2>1, <2>2, <2>3 DEF LoadInv, LoadTypeOK, LoadPhases, AnswersAgree, LoaderAgrees, HoldsRecord
<1>9. CASE ~ done
  <2>1. loader' = NoLoader /\ client' = "error"
    BY Zenon, <1>1, <1>9
  <2> QED
    BY Zenon, <1>1, <1>2, <1>4, <1>6, <2>1, EndsWithError
<1> QED
  BY Zenon, <1>7, <1>8, <1>9

(* Without a record on any copy a coordinator finds all or nothing, and     *)
(* what it recovers changes nothing of that.                                *)
LEMMA ReconnectsKeeps ==
  ASSUME LoadInv, NEW proven \in SomeReplicas, NEW recovered \in SomeReplicas,
         Reconnects(proven, recovered)
  PROVE  LoadInv'
<1>1. /\ link = "connecting" /\ synced' = proven /\ UNCHANGED loader
      /\ client' = IF client = "ok" THEN "ok" ELSE "none"
      /\ holds' = [s \in Spots |->
                IF s[2] \in recovered[s[1]]
                THEN [holds[s] EXCEPT !.rows = holds[<<s[1], 1>>].rows, !.saved = holds[<<s[1], 1>>].rows]
                ELSE holds[s]]
      /\ link' = IF \E s \in Spots : holds'[s].mark THEN "refused" ELSE "up"
  BY Zenon DEF Reconnects
<1>2. LoadTypeOK /\ CopiesAgree /\ AnswersAgree /\ loader.pc = "idle"
  BY Zenon, <1>1 DEF LoadInv, AnswersAgree
<1>3. ASSUME NEW s \in Spots
      PROVE  /\ Primary(s) \in Spots /\ holds'[s] \in HoldsRecord /\ holds'[s].mark = holds[s].mark
             /\ \/ holds'[s].rows = holds[s].rows /\ holds'[s].saved = holds[s].saved
                \/ /\ holds'[s].rows = holds[Primary(s)].rows
                   /\ holds'[s].saved = holds[Primary(s)].rows
  <2>1. Primary(s) = <<s[1], 1>> /\ Primary(s) \in Spots
    BY Zenon, SpotFacts, PrimaryIsSpot DEF Primary
  <2>2. holds[s] \in HoldsRecord /\ holds[Primary(s)] \in HoldsRecord
    BY Zenon, <1>2, <2>1 DEF LoadTypeOK, HoldsRecord
  <2>3. CASE s[2] \in recovered[s[1]]
    <3>1. holds'[s] = [holds[s] EXCEPT !.rows = holds[Primary(s)].rows, !.saved = holds[Primary(s)].rows]
      BY Zenon, <1>1, <2>1, <2>3
    <3> QED
      BY Zenon, <2>1, <2>2, <3>1 DEF HoldsRecord
  <2>4. CASE s[2] \notin recovered[s[1]]
    <3>1. holds'[s] = holds[s]
      BY Zenon, <1>1, <2>4
    <3> QED
      BY Zenon, <2>1, <2>2, <3>1
  <2> QED
    BY Zenon, <2>3, <2>4
<1>4. holds' \in [Spots -> HoldsRecord]
  BY Zenon, <1>1, <1>3
<1>5. (NothingHeld => NothingHeld') /\ (AllHeld => AllHeld')
  <2>1. ASSUME NothingHeld, NEW s \in Spots PROVE holds'[s].rows = 0
    BY Zenon, <1>3, <2>1 DEF NothingHeld
  <2>2. ASSUME AllHeld, NEW s \in Spots PROVE Full(s)'
    BY <1>3, <2>2 DEF AllHeld, Full
  <2> QED
    BY Zenon, <2>1, <2>2 DEF NothingHeld, AllHeld
<1>6. CopiesAgree'
  <2>1. \A s \in Spots : holds'[s].saved <= holds'[s].rows
    <3> SUFFICES ASSUME NEW s \in Spots PROVE holds'[s].saved <= holds'[s].rows
      BY Zenon
    <3>1. /\ holds[s].saved <= holds[s].rows /\ Primary(s) \in Spots
      BY Zenon, <1>2, <1>3 DEF CopiesAgree
    <3>2. holds[Primary(s)].rows \in {0, 1}
      BY Zenon, <1>2, <3>1, HoldsFacts
    <3> QED
      BY <1>3, <3>1, <3>2
  <2>2. NothingHeld' \/ AllHeld' \/ \E s \in Spots : holds'[s].mark
    BY Zenon, <1>2, <1>3, <1>5 DEF CopiesAgree
  <2>3. ASSUME link' # "refused", NEW s \in Spots, s[2] > 1, holds'[s].rows = 1
        PROVE  holds'[Primary(s)].saved = 1
    <3>1. NothingHeld' \/ AllHeld'
      BY Zenon, <1>1, <2>2, <2>3
    <3>2. Primary(s) \in Spots
      BY Zenon, <1>3
    <3> QED
      BY <2>3, <3>1, <3>2 DEF NothingHeld, AllHeld, Full
  <2> QED
    BY Zenon, <2>1, <2>2, <2>3 DEF CopiesAgree
<1>7. LoadTypeOK'
  BY Zenon, <1>1, <1>2, <1>4 DEF LoadTypeOK, HoldsRecord
<1>8. AnswersAgree'
  BY Zenon, <1>1, <1>2, <1>3, <1>5 DEF AnswersAgree
<1>9. LoaderAgrees'
  BY Zenon, <1>1, <1>2 DEF LoaderAgrees
<1> QED
  BY Zenon, <1>6, <1>7, <1>8, <1>9 DEF LoadInv

(* LoadInv holds at the start.                                              *)
LEMMA LoadInitKeeps == ASSUME LoadInit PROVE LoadInv
<1>1. /\ holds = [s \in Spots |-> [rows |-> 0, saved |-> 0, mark |-> FALSE]]
      /\ synced = [pos \in DOMAIN Shards |-> Replicas(pos)] /\ loader.pc = "idle"
      /\ client = "none" /\ link = "up"
  BY Zenon DEF LoadInit, NoLoader
<1>3. synced \in SomeReplicas
  BY Zenon, <1>1 DEF SomeReplicas
<1> QED
  BY <1>1, <1>3 DEF LoadInv, LoadTypeOK, CopiesAgree, NothingHeld, AnswersAgree, LoaderAgrees, LoadPhases

(* Every step keeps LoadInv.                                                *)
LEMMA LoadStepKeeps == ASSUME CountsElsewhere = FALSE, LoadInv, [LoadNext]_loadVars PROVE LoadInv'
<1>1. CASE UNCHANGED loadVars
  BY <1>1 DEF loadVars, LoadInv, LoadTypeOK, CopiesAgree, NothingHeld, AllHeld, Full, AnswersAgree,
     LoaderAgrees, Takes, OutOfSync
<1>2. CASE LoadBegins \/ CountFails \/ Stage \/ Finish_ \/ SkipReplica \/ LoaderStops \/ Reset
  BY Zenon, <1>2, BeginsKeeps, CountFailsKeeps, StageKeeps, FinishKeeps, SkipKeeps, LoaderStopsKeeps, ResetKeeps
<1>3. ASSUME NEW s \in Spots, Counts(s) \/ NodeStops(s) PROVE LoadInv'
  BY Zenon, <1>3, CountsKeeps, NodeStopsKeeps
<1>4. ASSUME NEW applied \in BOOLEAN, NEW answered \in BOOLEAN,
             Mark(applied, answered) \/ Undo(applied, answered) \/ Complete(applied, answered)
      PROVE  LoadInv'
  BY Zenon, <1>4, MarkKeeps, UndoKeeps, CompleteKeeps
<1>5. ASSUME NEW ok \in BOOLEAN, Ids_(ok) \/ StreamFails(ok) PROVE LoadInv'
  BY Zenon, <1>5, IdsKeeps, StreamFailsKeeps
<1>6. ASSUME NEW proven \in SomeReplicas, NEW recovered \in SomeReplicas, Reconnects(proven, recovered)
      PROVE  LoadInv'
  BY Zenon, <1>6, ReconnectsKeeps
<1> QED
  BY Zenon, <1>1, <1>2, <1>3, <1>4, <1>5, <1>6 DEF LoadNext

(* What a client was told "ok" for is on every copy a read may reach, once; *)
(* and a coordinator that is up and was not itself told of an error finds   *)
(* the whole of a load or nothing of it (mark_bulk_load_begun and           *)
(* mark_bulk_load_complete around bucket_and_ingest, and the refusal to     *)
(* connect while a record is found).  The premise is what num_queries is    *)
(* taken to give: a replica does not answer it for a primary that holds a   *)
(* load.                                                                    *)
THEOREM LoadsWhole == CountsElsewhere = FALSE => (LoadSpec => []LoadsAreWhole)
<1> SUFFICES ASSUME CountsElsewhere = FALSE PROVE LoadSpec => []LoadsAreWhole
  BY Zenon
<1>1. LoadInit => LoadInv
  BY Zenon, LoadInitKeeps
<1>2. LoadInv /\ [LoadNext]_loadVars => LoadInv'
  BY Zenon, LoadStepKeeps
<1>3. LoadInv => LoadsAreWhole
  <2> SUFFICES ASSUME LoadInv PROVE LoadsAreWhole
    BY Zenon
  <2>1. client = "ok" => AllHeld
    BY Zenon DEF LoadInv, AnswersAgree
  <2>2. link = "up" /\ loader.pc = "idle" /\ client # "error" => NothingHeld \/ AllHeld
    BY Zenon DEF LoadInv, AnswersAgree, CopiesAgree, LoadTypeOK
  <2>3. Reachable \subseteq Spots
    BY Zenon DEF Reachable
  <2> QED
    BY Zenon, <2>1, <2>2, <2>3 DEF LoadsAreWhole, AllHeld, NothingHeld, Full
<1> QED
  BY <1>1, <1>2, <1>3, PTL DEF LoadSpec
=============================================================================
