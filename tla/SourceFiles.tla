----------------------------- MODULE SourceFiles -----------------------------
(***************************************************************************)
(* The source store of an engine: the text and the metadata of every       *)
(* accepted query, kept beside the segments in a sidecar file that the     *)
(* manifest selects.  A store is resident (one map in memory) or lazy (a   *)
(* memory-mapped sidecar under an overlay of later changes, a removed id   *)
(* being a tombstone of the overlay).  The engine writes a new sidecar     *)
(* only when the version of the store says that the selected one is        *)
(* behind, publishes it with the manifest, and maps it again.              *)
(*                                                                         *)
(* A document is one accepted query: its text (its version number and its  *)
(* tags ride with the text), the generation of the write that made it, and *)
(* what of its metadata is known.  A map of documents gives every id a set *)
(* of at most one.  A batch is reduced to one document for each id before  *)
(* it is staged, the later of two of the same generation winning; the      *)
(* model starts from the reduced batch.  The sorted index of a file and    *)
(* the binary search in it are a lookup by id.                             *)
(*                                                                         *)
(* The write-ahead log is not part of this module: a restart finds the     *)
(* documents that the manifest it reads was published with, and the replay *)
(* inserts the rest like any other insert.                                 *)
(***************************************************************************)
EXTENDS Naturals

CONSTANTS
    SourceIds,            \* logical ids
    Queries,        \* texts
    MaxGeneration,  \* bound on the generations of documents
    MaxVersion,     \* bound on the write accesses to stores
    MaxFiles,       \* bound on the sidecars written
    LoadBatches,        \* the batches a bulk load may stage: maps of documents
    InitialFiles    \* what the first sidecar may be

VARIABLES
    store,     \* the open SourceStore
    clock,     \* NEXT_VERSION: the last version given out
    files,     \* the sidecars on disk, by number
    selectable,  \* the sidecars that the manifests a restart may read select
    selected,  \* source_file_name of the engine
    staged,    \* the sidecar a commit has written and not yet published
    current,   \* selected_source_version
    ready,     \* source_commit_state = Ready
    awaiting,  \* manifest_awaits_sync: renamed into place, not synced
    owns,      \* owns_manifest: a standalone engine, not a shard of a cluster
    docs,      \* ghost: what the engine has published to its readers
    promised   \* ghost: the documents each sidecar was published with

sourceVars == <<store, clock, files, selectable, selected, staged, current,
                ready, awaiting, owns, docs, promised>>

Document == [query : Queries, source_generation : 0 .. MaxGeneration,
             tags_known : BOOLEAN, metadata_known : BOOLEAN]

Maybe == {{}} \cup {{d} : d \in Document}

Documents == [SourceIds -> Maybe]

Formats == {"v1", "no_footer", "footer_v1", "footer_v2"}

File == [format : Formats, entries : Documents]

Names == 0 .. MaxFiles

ASSUME SourceAssumption ==
    /\ MaxGeneration \in Nat
    /\ MaxVersion \in Nat \ {0}
    /\ MaxFiles \in Nat
    /\ LoadBatches \subseteq Documents
    /\ InitialFiles \subseteq File

-----------------------------------------------------------------------------
(* The file: what is written, and what each older format reads back as.    *)

Legacy(d) == [query |-> d.query, source_generation |-> 0,
              tags_known |-> FALSE, metadata_known |-> FALSE]

Decoded(format, d) ==
    CASE format = "footer_v2" -> d
      [] format = "footer_v1" ->
            [query |-> d.query, source_generation |-> 0,
             tags_known |-> d.tags_known, metadata_known |-> TRUE]
      [] OTHER -> Legacy(d)

LoadStoredSources(file) ==
    [id \in SourceIds |-> {Decoded(file.format, d) : d \in file.entries[id]}]

NoDocuments == [id \in SourceIds |-> {}]

NoOverlay == [id \in SourceIds |-> [covers |-> FALSE, value |-> {}]]

Resident(map, version) ==
    [lazy |-> FALSE, map |-> map, base |-> NoDocuments,
     overlay |-> NoOverlay, version |-> version]

Lazy(base, version) ==
    [lazy |-> TRUE, map |-> NoDocuments, base |-> base,
     overlay |-> NoOverlay, version |-> version]

(* What the mapped file gives for a record: decoded where it lies.  A file *)
(* of the first format is never mapped.                                    *)
LazyRecord(format, d) ==
    CASE format = "footer_v2" -> d
      [] format = "footer_v1" ->
            [query |-> d.query, source_generation |-> 0,
             tags_known |-> d.tags_known, metadata_known |-> TRUE]
      [] format = "no_footer" -> Legacy(d)

OpenLazyBase(file) ==
    [id \in SourceIds |-> {LazyRecord(file.format, d) : d \in file.entries[id]}]

WriteSources(entries) == [format |-> "footer_v2", entries |-> entries]

(* Opening a first-format file for lazy reads writes it again, sorted.     *)
Upgraded(found, retain) ==
    {IF ~retain /\ f.format = "v1" THEN WriteSources(LoadStoredSources(f))
                                   ELSE f : f \in found}

(* SourceStore::open, with the empty store where there is no file.         *)
OpenStore(found, retain, version) ==
    IF retain
      THEN Resident([id \in SourceIds |->
                UNION {LoadStoredSources(f)[id] : f \in found}], version)
      ELSE Lazy([id \in SourceIds |->
                UNION {OpenLazyBase(f)[id] : f \in Upgraded(found, FALSE)}],
                version)

-----------------------------------------------------------------------------
(* Reading and writing a store.                                            *)

GetDocument(s, id) ==
    IF ~s.lazy THEN s.map[id]
    ELSE IF s.overlay[id].covers THEN s.overlay[id].value
    ELSE s.base[id]

MayReplaceAlways(s, id, d) == d.source_generation >= 0

(* A document is replaced by one of its own or a later generation.         *)
MayReplace(s, id, d) ==
    \A now \in GetDocument(s, id) :
        now.source_generation <= d.source_generation

Tombstone == [covers |-> TRUE, value |-> {}]

WithMap(s, map, version) ==
    [lazy |-> s.lazy, map |-> map, base |-> s.base,
     overlay |-> s.overlay, version |-> version]

WithOverlay(s, id, entry, version) ==
    [lazy |-> s.lazy, map |-> s.map, base |-> s.base,
     overlay |-> [s.overlay EXCEPT ![id] = entry], version |-> version]

InsertStored(s, id, d, version) ==
    IF s.lazy
      THEN IF MayReplace(s, id, d)
             THEN WithOverlay(s, id, [covers |-> TRUE, value |-> {d}], version)
             ELSE s
      ELSE IF MayReplace(s, id, d)
             THEN WithMap(s, [s.map EXCEPT ![id] = {d}], version)
             ELSE WithMap(s, s.map, version)

RemoveStored(s, id, version) ==
    IF s.lazy
      THEN WithOverlay(s, id, Tombstone, version)
      ELSE WithMap(s, [s.map EXCEPT ![id] = {}], version)

(* The documents of a batch that are not older than what the store holds.  *)
UpdateWinners(s, batch) ==
    [id \in SourceIds |-> {d \in batch[id] : MayReplace(s, id, d)}]

(* The entries of a file: the winners, and the store elsewhere.            *)
WriteToWithUpdates(s, batch) ==
    LET winners == UpdateWinners(s, batch) IN
    [id \in SourceIds |-> IF winners[id] # {} THEN winners[id] ELSE GetDocument(s, id)]

InsertBatch(s, batch, version) ==
    WithMap(s, WriteToWithUpdates(s, batch),
            IF batch = NoDocuments THEN s.version ELSE version)

-----------------------------------------------------------------------------
(* The contract: a document is replaced unless a later one is there.       *)

Newest(now, offered) ==
    IF \E d \in offered : \A n \in now :
            n.source_generation <= d.source_generation
      THEN offered ELSE now

Merged(map, batch) == [id \in SourceIds |-> Newest(map[id], batch[id])]

-----------------------------------------------------------------------------
SourceInit ==
    /\ \E f \in InitialFiles, retain \in BOOLEAN :
          /\ files = [n \in Names |-> IF n = 0 THEN Upgraded({f}, retain) ELSE {}]
          /\ store = OpenStore({f}, retain, 1)
          /\ docs = LoadStoredSources(f)
          /\ promised = [n \in Names |-> IF n = 0 THEN LoadStoredSources(f)
                                                  ELSE NoDocuments]
    /\ clock = 1
    /\ selectable = {0}
    /\ selected = 0
    /\ staged = {}
    /\ current = {1}
    /\ ready = TRUE
    /\ awaiting = FALSE
    /\ owns \in BOOLEAN

(* An accepted write.  The log is closed once a manifest awaits its sync.  *)
InsertSource(id, d) ==
    /\ staged = {} /\ ~awaiting
    /\ clock < MaxVersion
    /\ clock' = clock + 1
    /\ store' = InsertStored(store, id, d, clock + 1)
    /\ docs' = [docs EXCEPT ![id] = Newest(@, {d})]
    /\ UNCHANGED <<files, selectable, selected, staged, current, ready,
                   awaiting, owns, promised>>

RemoveSource(id) ==
    /\ staged = {} /\ ~awaiting
    /\ clock < MaxVersion
    /\ clock' = clock + 1
    /\ store' = RemoveStored(store, id, clock + 1)
    /\ docs' = [docs EXCEPT ![id] = {}]
    /\ UNCHANGED <<files, selectable, selected, staged, current, ready,
                   awaiting, owns, promised>>

(* The next sidecar is numbered from the one the engine has selected.      *)
NextSourceFileName == selected + 1

(* A removal that may fail; it is not tried while a manifest awaits its    *)
(* sync.                                                                   *)
BestEffortRemoveSource(n) ==
    files' \in {files, IF awaiting THEN files ELSE [files EXCEPT ![n] = {}]}

(* stage_query_sources: a complete new sidecar, not yet selected.          *)
StageQuerySources(batch) ==
    /\ owns /\ ~awaiting /\ ready
    /\ NextSourceFileName \in Names
    /\ files' = [files EXCEPT ![NextSourceFileName] =
                    {WriteSources(WriteToWithUpdates(store, batch))}]
    /\ staged' = {[name |-> NextSourceFileName, batch |-> batch]}
    /\ UNCHANGED <<store, clock, selectable, selected, current, ready,
                   awaiting, owns, docs, promised>>

SelectedSourcesAreCurrent == current = {store.version}

(* commit_sources_and_manifest when the selected sidecar is current: the   *)
(* manifest selects it again.                                              *)
Reselect(synced) ==
    /\ owns /\ ~awaiting
    /\ SelectedSourcesAreCurrent
    /\ awaiting' = ~synced
    /\ promised' = [promised EXCEPT ![selected] = docs]
    /\ UNCHANGED <<store, clock, files, selectable, selected, staged, current,
                   ready, owns, docs>>

CommitSourcesAndManifest ==
    /\ staged = {}
    /\ \/ \E synced \in BOOLEAN : Reselect(synced)
       \/ ~SelectedSourcesAreCurrent /\ StageQuerySources(NoDocuments)

CommitBaseSegment(batch) == staged = {} /\ StageQuerySources(batch)

(* The manifest was not written: the candidate is discarded.               *)
PublishFails(st) ==
    /\ BestEffortRemoveSource(st.name)
    /\ staged' = {}
    /\ UNCHANGED <<store, clock, selectable, selected, current, ready,
                   awaiting, owns, docs, promised>>

(* It was renamed into place and not synced: the commit is put back in     *)
(* memory, and nothing is removed.                                         *)
PublishUnsynced(st) ==
    /\ selectable' = selectable \cup {st.name}
    /\ promised' = [promised EXCEPT ![st.name] = Merged(docs, st.batch)]
    /\ awaiting' = TRUE
    /\ staged' = {}
    /\ UNCHANGED <<store, clock, files, selected, current, ready, owns, docs>>

(* A lazy store maps the published sidecar, or is left behind it for good. *)
Remap(st) ==
    \/ /\ store' = OpenStore(files[st.name], FALSE, clock + 1)
       /\ current' = {clock + 1}
       /\ UNCHANGED ready
       /\ BestEffortRemoveSource(selected)
    \/ /\ ready' = FALSE
       /\ current' = {}
       /\ UNCHANGED <<store, files>>

ActivateStagedSources(st) ==
    \/ store.lazy /\ Remap(st)
    \/ /\ ~store.lazy
       /\ store' = InsertBatch(store, st.batch, clock + 1)
       /\ current' = {store'.version}
       /\ BestEffortRemoveSource(selected)
       /\ UNCHANGED ready

PublishSynced(st) ==
    /\ clock < MaxVersion
    /\ clock' = clock + 1
    /\ selectable' = {st.name}
    /\ selected' = st.name
    /\ promised' = [promised EXCEPT ![st.name] = Merged(docs, st.batch)]
    /\ docs' = Merged(docs, st.batch)
    /\ ActivateStagedSources(st)
    /\ staged' = {}
    /\ UNCHANGED <<awaiting, owns>>

Publish ==
    \E st \in staged : PublishFails(st) \/ PublishUnsynced(st) \/ PublishSynced(st)

(* A shard writes its sidecar in place; the coordinator's manifest selects *)
(* it.  A store that cannot be mapped again keeps its old mapping.         *)
SaveQuerySourcesInPlace ==
    /\ ~owns
    /\ clock < MaxVersion
    /\ clock' = clock + 1
    /\ files' = [files EXCEPT ![selected] =
                    {WriteSources(WriteToWithUpdates(store, NoDocuments))}]
    /\ promised' = [promised EXCEPT ![selected] = docs]
    /\ \/ store.lazy /\ store' = OpenStore(files'[selected], FALSE, clock + 1)
       \/ UNCHANGED store
    /\ UNCHANGED <<selectable, selected, staged, current, ready, awaiting,
                   owns, docs>>

(* The process ends at any moment and opens what a manifest selects: the   *)
(* last renamed, or after a power loss the one before it.  Only the first  *)
(* sidecar may be absent.                                                  *)
Restart(n, retain) ==
    /\ n \in selectable
    /\ clock < MaxVersion
    /\ clock' = clock + 1
    /\ store' = OpenStore(files[n], retain, clock + 1)
    /\ files' = [files EXCEPT ![n] = Upgraded(@, retain)]
    /\ ready' = (files[n] # {} \/ n = 0)
    /\ current' = IF ready' THEN {clock + 1} ELSE {}
    /\ selectable' = {n}
    /\ selected' = n
    /\ staged' = {}
    /\ awaiting' = FALSE
    /\ docs' = promised[n]
    /\ UNCHANGED <<owns, promised>>

Accepted == {d \in Document : d.metadata_known}

SourceNext ==
    \/ \E id \in SourceIds : (\E d \in Accepted : InsertSource(id, d)) \/ RemoveSource(id)
    \/ CommitSourcesAndManifest
    \/ \E batch \in LoadBatches : CommitBaseSegment(batch)
    \/ Publish
    \/ SaveQuerySourcesInPlace
    \/ \E n \in Names, retain \in BOOLEAN : Restart(n, retain)

SourceSpec == SourceInit /\ [][SourceNext]_sourceVars

-----------------------------------------------------------------------------
StoreType ==
    [lazy : BOOLEAN, map : Documents, base : Documents,
     overlay : [SourceIds -> [covers : BOOLEAN, value : Maybe]],
     version : 1 .. MaxVersion]

(* Every variable has the type its struct field has in the code.           *)
SourceTypeOK ==
    /\ store \in StoreType
    /\ clock \in 1 .. MaxVersion
    /\ files \in [Names -> SUBSET File]
    /\ selectable \in SUBSET Names
    /\ selected \in Names
    /\ staged \in SUBSET [name : Names, batch : Documents]
    /\ current \in SUBSET (1 .. MaxVersion)
    /\ ready \in BOOLEAN
    /\ awaiting \in BOOLEAN
    /\ owns \in BOOLEAN
    /\ docs \in Documents
    /\ promised \in [Names -> Documents]

(* A reader finds under every id exactly the document that was published   *)
(* last, whether the store is resident or a mapped file under its overlay, *)
(* after any inserts, removals, batches, remaps and restarts; an insert of *)
(* an older generation never hides a newer document.  A store whose remap  *)
(* failed says so (IncompleteRecovery) and is excepted.                    *)
ReadsAsPublished ==
    ready => \A id \in SourceIds : GetDocument(store, id) = docs[id]

(* Whichever manifest a restart reads, the sidecar it selects is on disk   *)
(* and holds exactly the documents that the commit published with it, also *)
(* when the commit wrote no sidecar because the selected one was current,  *)
(* and when the sync of the renamed manifest failed.                       *)
SelectedHoldsPublished ==
    \A n \in selectable :
        \E f \in files[n] : LoadStoredSources(f) = promised[n]

(* Both: the source of every accepted query is kept, in the open store and *)
(* in every sidecar a restart may select.                                  *)
SourcesAreKept == ReadsAsPublished /\ SelectedHoldsPublished

(* The inductive strengthening of SourcesAreKept: a sidecar is written once *)
(* under a name; the manifests on disk select the engine's sidecar and at   *)
(* most the one after it, and only while a manifest awaits its sync; a      *)
(* staged sidecar already holds what its publication will promise; and a    *)
(* version that compares equal means that the selected sidecar holds what   *)
(* is published.                                                            *)
OneSidecar == \A n \in Names : \A f, g \in files[n] : f = g

SelectedIsSelectable ==
    /\ selected \in selectable
    /\ \A n \in selectable : n = selected \/ (n = selected + 1 /\ awaiting)

StagedIsPromised ==
    \A st \in staged :
        /\ st.name = selected + 1 /\ owns /\ ready /\ ~awaiting
        /\ files[st.name] = {WriteSources(Merged(docs, st.batch))}

VersionsAreGivenOut ==
    /\ store.version <= clock
    /\ \A v \in current : v <= clock

CurrentHoldsPublished ==
    /\ ~owns => ready
    /\ SelectedSourcesAreCurrent =>
         ready /\ \E f \in files[selected] : LoadStoredSources(f) = docs

SourceInv ==
    /\ SourceTypeOK
    /\ OneSidecar /\ SelectedIsSelectable /\ StagedIsPromised
    /\ VersionsAreGivenOut /\ CurrentHoldsPublished
    /\ ReadsAsPublished /\ SelectedHoldsPublished
=============================================================================
