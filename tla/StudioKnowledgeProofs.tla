------------------------ MODULE StudioKnowledgeProofs ------------------------
(***************************************************************************)
(* Theorems about StudioKnowledge, for any sources, searches and number of *)
(* revisions.                                                              *)
(*                                                                         *)
(* The lock serialises what changes the knowledge base, and the searches   *)
(* that rebuild its index without the lock are kept in order by the        *)
(* revision alone.  So Inv says what every index in memory, in the         *)
(* database or in the hands of a rebuild is of (Indexed), what a rebuild   *)
(* that is about to report success has achieved (Reported), and what the   *)
(* holder of the lock may rely on (LockHeld).                              *)
(***************************************************************************)
EXTENDS StudioKnowledge, TLAPS

Operations == [kind : {"none", "upload", "undo", "delete", "drop", "reindex"} \cup Tasks,
               todo : SUBSET Source, done : SUBSET Source]
Rebuilds   == [at : {"off", "input", "publish", "save", "cache"}, tries : 0..2, input : Index \cup {None}]
Searches   == [at : {"idle", "cached", "restore", "corpus", "restored", "rebuild"},
               revision : 0..MaxRevision]

Shapes ==
  /\ TypeOK
  /\ operation \in Operations
  /\ rebuild \in [Rebuilder -> Rebuilds]
  /\ search \in [Searcher -> Searches]
  /\ history \in [0..revision -> SUBSET Source]

\* An index of a revision that there has been.
OfRevision(i) == i # None => i.revision <= revision /\ i.documents = history[i.revision]

Indexed ==
  /\ alive => documents = history[revision]
  /\ OfRevision(cache) /\ OfRevision(state)
  /\ \A w \in Rebuilder :
       /\ OfRevision(rebuild[w].input)
       /\ rebuild[w].at \in {"publish", "save", "cache"} => rebuild[w].input # None

\* What the index in the database has of the sources in S.
Holding(S) == state # None /\ S \subseteq state.documents

Reported ==
  /\ \A s \in Source : job[s] = "succeeded" => s \in documents /\ Holding({s})
  /\ \A s \in Source : row[s] = "absent" => job[s] = "none"
  /\ operation.kind \in Tasks => operation.done \subseteq documents
  /\ rebuild["operation"].at = "cache" \/ operation.kind = "report" => Holding(operation.done)

LockHeld ==
  /\ ~up => waiting = {} /\ operation = Free
  /\ rebuild["operation"].at # "off" => operation.kind \in {"ingest", "delete"} /\ operation.todo = {}
  /\ operation.kind \notin Tasks \cup {"reindex"} => operation.done = {}
  /\ operation.kind \in {"report", "blame"} => operation.todo = {}
  /\ operation.kind = "upload" =>
       \A s \in operation.todo : s \in files /\ job[s] = "none" /\ s \notin UNION waiting
  /\ operation.kind = "reindex" => \A s \in operation.todo \cup operation.done : Exists(s)
  /\ operation.kind \in {"undo", "delete"} => \A s \in operation.todo : row[s] = "deleted"
  /\ operation.kind = "drop" => \A s \in Source : ~ Exists(s)

Inv == Shapes /\ Indexed /\ Reported /\ LockHeld /\ RowsHaveFiles /\ TasksHaveSources

-----------------------------------------------------------------------------
LEMMA Parameters ==
  /\ "operation" \notin Searcher /\ "operation" \in Rebuilder /\ Searcher \subseteq Rebuilder
  /\ MaxRevision \in Nat /\ None \notin Index
  BY StudioKnowledgeAssumption DEF Rebuilder

LEMMA IdleTyped ==
  /\ Free \in Operations /\ NoRebuild \in Rebuilds /\ NoSearch \in Searches
  /\ Tasks = {"ingest", "report", "blame"}
  BY Parameters DEF Free, NoRebuild, NoSearch, Operations, Rebuilds, Searches, Tasks

\* The rebuild of an operation begins.
LEMMA IndexingBegins ==
  ASSUME Shapes, UNCHANGED rebuild \/ rebuild' = [rebuild EXCEPT !["operation"].at = "input"]
  PROVE  rebuild' \in [Rebuilder -> Rebuilds]
  <1>1. rebuild \in [Rebuilder -> Rebuilds] /\ "operation" \in Rebuilder
    BY Parameters DEF Shapes
  <1> QED BY <1>1 DEF Rebuilds

LEMMA Typed ==
  ASSUME Shapes
  PROVE  /\ alive \in BOOLEAN /\ up \in BOOLEAN /\ revision \in 0..MaxRevision
         /\ row \in [Source -> {"absent", "there", "deleted"}]
         /\ documents \subseteq Source /\ files \subseteq Source
         /\ job \in [Source -> {"none", "queued", "running", "succeeded", "failed"}]
         /\ state \in Index \cup {None} /\ cache \in Index \cup {None}
         /\ corpus \in {None} \cup SUBSET Source
         /\ waiting \subseteq SUBSET Source
         /\ operation \in Operations /\ operation.todo \subseteq Source /\ operation.done \subseteq Source
         /\ rebuild \in [Rebuilder -> Rebuilds]
         /\ search \in [Searcher -> Searches]
         /\ history \in [0..revision -> SUBSET Source]
         /\ \A w \in Rebuilder : rebuild[w] \in Rebuilds /\ rebuild[w].input \in Index \cup {None}
  BY DEF Shapes, TypeOK, Operations, Rebuilds

\* The documents of a new revision join those of the revisions before.
LEMMA RevisionTyped ==
  ASSUME Shapes, NEW docs \in SUBSET Source, Revise(docs)
  PROVE  /\ documents' = docs /\ revision' = revision + 1 /\ revision' \in 0..MaxRevision
         /\ history' \in [0..revision' -> SUBSET Source]
         /\ history'[revision'] = docs
         /\ \A r \in 0..revision : history'[r] = history[r]
  <1>1. revision \in 0..MaxRevision /\ history \in [0..revision -> SUBSET Source]
    BY Typed
  <1>2. revision' \in 0..MaxRevision /\ revision' = revision + 1 /\ revision' # revision
    BY <1>1, Parameters DEF Revise
  <1>3. \A r \in 0..revision : r \in 0..revision' /\ r # revision'
    BY <1>1, <1>2
  <1>4. \A r \in 0..revision' : r = revision' \/ r \in 0..revision
    BY <1>1, <1>2
  <1>5. history' = [r \in 0..revision' |-> IF r = revision' THEN docs ELSE history[r]]
    BY <1>2 DEF Revise
  <1>6. revision' \in 0..revision'
    BY <1>1, <1>2
  <1> QED BY <1>1, <1>2, <1>3, <1>4, <1>5, <1>6 DEF Revise

\* What a rebuild holds may be published from the moment it has read it.
LEMMA InputInHand ==
  ASSUME Inv, NEW w \in Rebuilder, rebuild[w].at \in {"publish", "save", "cache"}
  PROVE  rebuild[w].input \in Index /\ rebuild[w].input.documents \in SUBSET Source
  <1>1. rebuild[w].input \in Index
    BY Typed DEF Inv, Indexed
  <1> QED BY <1>1 DEF Index

LEMMA RebuildEndsTyped ==
  ASSUME Inv, NEW w \in Rebuilder, NEW ok \in BOOLEAN, RebuildEnds(w, ok),
         rebuild[w].at # "off", ok => rebuild[w].at = "cache"
  PROVE  /\ rebuild' \in [Rebuilder -> Rebuilds] /\ search' \in [Searcher -> Searches]
         /\ operation' \in Operations /\ cache' \in Index \cup {None}
  <1> USE Typed, IdleTyped DEF Inv
  <1>1. rebuild' \in [Rebuilder -> Rebuilds] /\ search' \in [Searcher -> Searches]
    BY DEF RebuildEnds
  <1>2. cache' \in Index \cup {None}
    BY DEF RebuildEnds
  <1>3. operation' \in Operations
    <2>1. \A k \in {"report", "blame"} : [operation EXCEPT !.kind = k] \in Operations
      BY DEF Operations
    <2> QED BY <2>1 DEF RebuildEnds
  <1> QED BY <1>1, <1>2, <1>3

LEMMA RebuildShapes ==
  ASSUME Inv, NEW w \in Rebuilder, Rebuild(w)
  PROVE  Shapes'
  <1> USE Typed DEF Inv
  <1>0. UNCHANGED <<alive, revision, row, documents, history, files, job, waiting, up>>
    BY DEF Rebuild, IndexInput, PublishCorpus, SaveIndexState, CacheIndex, RebuildFails, rows, disk, tasks
  <1>1. SUFFICES /\ rebuild' \in [Rebuilder -> Rebuilds] /\ search' \in [Searcher -> Searches]
                 /\ operation' \in Operations
                 /\ state' \in Index \cup {None} /\ cache' \in Index \cup {None}
                 /\ corpus' \in {None} \cup SUBSET Source
    BY <1>0 DEF Shapes, TypeOK, Operations
  <1>2. CASE IndexInput(w)
    <2>0. state' = state /\ corpus' = corpus /\ rebuild[w].at = "input"
      BY <1>2 DEF IndexInput, disk, At
    <2>1. CASE alive
      <3>1. [revision |-> revision, documents |-> documents] \in Index
        BY DEF Index
      <3>2. rebuild' \in [Rebuilder -> Rebuilds]
        BY <1>2, <2>1, <3>1 DEF IndexInput, Rebuilds
      <3> QED BY <1>2, <2>0, <2>1, <3>2 DEF IndexInput
    <2>2. CASE ~ alive
      BY <1>2, <2>0, <2>2, RebuildEndsTyped DEF IndexInput
    <2> QED BY <2>1, <2>2
  <1>3. CASE PublishCorpus(w)
    <2>1. corpus' \in {None} \cup SUBSET Source
      BY <1>3, InputInHand DEF PublishCorpus, At
    <2>2. rebuild' \in [Rebuilder -> Rebuilds]
      BY <1>3 DEF PublishCorpus, Rebuilds
    <2> QED BY <1>3, <2>1, <2>2 DEF PublishCorpus, tasks
  <1>4. CASE SaveIndexState(w)
    <2>1. state' \in Index \cup {None} /\ corpus' = corpus /\ rebuild[w].at = "save"
      BY <1>4, InputInHand DEF SaveIndexState, At
    <2>2. CASE rebuild' = [rebuild EXCEPT ![w].at = "cache"] /\ UNCHANGED <<cache, operation, search>>
      <3>1. rebuild' \in [Rebuilder -> Rebuilds]
        BY <2>2 DEF Rebuilds
      <3> QED BY <2>1, <2>2, <3>1
    <2>3. CASE RebuildEnds(w, FALSE)
      BY <2>1, <2>3, RebuildEndsTyped
    <2>4. CASE rebuild[w].tries # 2 /\ rebuild' = [rebuild EXCEPT ![w].at = "input", ![w].tries = @ + 1]
               /\ UNCHANGED <<cache, operation, search>>
      <3>1. rebuild[w].tries + 1 \in 0..2
        BY <2>4 DEF Rebuilds
      <3>2. rebuild' \in [Rebuilder -> Rebuilds]
        BY <2>4, <3>1 DEF Rebuilds
      <3> QED BY <2>1, <2>4, <3>2
    <2> QED BY <1>4, <2>2, <2>3, <2>4 DEF SaveIndexState
  <1>5. CASE CacheIndex(w)
    BY <1>5, RebuildEndsTyped DEF CacheIndex, At, disk
  <1>6. CASE RebuildFails(w)
    <2>1. RebuildEnds(w, FALSE) /\ rebuild[w].at # "off" /\ state' = state /\ corpus' = corpus
      BY <1>6 DEF RebuildFails, disk
    <2> QED BY <2>1, RebuildEndsTyped
  <1> QED BY <1>2, <1>3, <1>4, <1>5, <1>6 DEF Rebuild

LEMMA SearchShapes ==
  ASSUME Inv, NEW w \in Searcher, Search(w)
  PROVE  Shapes'
  <1> USE Typed DEF Inv
  <1>0. UNCHANGED <<alive, revision, row, documents, history, files, state, corpus, job, waiting, operation, up>>
    BY DEF Search, BeginSearch, LookInCache, ReadState, ReadCorpus, CacheRestored, rows, disk, tasks
  <1>1. SUFFICES /\ rebuild' \in [Rebuilder -> Rebuilds] /\ search' \in [Searcher -> Searches]
                 /\ cache' \in Index \cup {None}
    BY <1>0 DEF Shapes, TypeOK
  <1>2. \A l \in {"restored", "corpus", "rebuild"} : [NoSearch EXCEPT !.at = l] \in Searches
    BY IdleTyped DEF Searches
  <1>3. w \in Rebuilder
    BY Parameters
  <1>4. CASE BeginSearch(w)
    <2>1. [at |-> "cached", revision |-> revision] \in Searches
      BY DEF Searches
    <2> QED BY <1>4, <2>1 DEF BeginSearch
  <1>5. CASE LookInCache(w)
    <2>1. [search[w] EXCEPT !.at = "restore"] \in Searches
      BY DEF Searches
    <2>2. search' \in [Searcher -> Searches]
      <3>1. \/ search' = [search EXCEPT ![w] = NoSearch]
            \/ search' = [search EXCEPT ![w] = [search[w] EXCEPT !.at = "restore"]]
        BY <1>5 DEF LookInCache, SearchEnds
      <3>2. search \in [Searcher -> Searches] /\ NoSearch \in Searches
        BY IdleTyped DEF Shapes
      <3> QED BY <2>1, <3>1, <3>2
    <2> QED BY <1>5, <2>2 DEF LookInCache
  <1>6. CASE ReadState(w)
    <2>1. search' \in [Searcher -> Searches]
      BY <1>2, <1>6 DEF ReadState, SearchTo
    <2>2. rebuild' \in [Rebuilder -> Rebuilds]
      <3>1. \/ rebuild' = [rebuild EXCEPT ![w] = [rebuild[w] EXCEPT !.at = "input"]]
            \/ /\ state \in Index
               /\ rebuild' = [rebuild EXCEPT ![w] = [rebuild[w] EXCEPT !.input = state]]
        BY <1>6 DEF ReadState, Shapes, TypeOK
      <3>2. rebuild \in [Rebuilder -> Rebuilds] /\ rebuild[w] \in Rebuilds
        BY <1>3 DEF Shapes
      <3>3. [rebuild[w] EXCEPT !.at = "input"] \in Rebuilds
        BY <3>2 DEF Rebuilds
      <3>4. state \in Index => [rebuild[w] EXCEPT !.input = state] \in Rebuilds
        BY <3>2 DEF Rebuilds
      <3> QED BY <1>3, <3>1, <3>2, <3>3, <3>4
    <2> QED BY <1>6, <2>1, <2>2 DEF ReadState
  <1>7. CASE ReadCorpus(w)
    <2>1. search' \in [Searcher -> Searches]
      BY <1>2, <1>7 DEF ReadCorpus, SearchTo
    <2>2. rebuild' \in [Rebuilder -> Rebuilds]
      BY <1>3, <1>7, IdleTyped DEF ReadCorpus, Rebuilds
    <2> QED BY <1>7, <2>1, <2>2 DEF ReadCorpus
  <1>8. CASE CacheRestored(w)
    BY <1>3, <1>8, IdleTyped DEF CacheRestored, SearchEnds
  <1> QED BY <1>4, <1>5, <1>6, <1>7, <1>8 DEF Search

LEMMA HandlerShapes ==
  ASSUME Inv, NEW s \in Source, Handle(s)
  PROVE  Shapes'
  <1> USE Typed DEF Inv
  <1>1. CASE StoreUpload(s) \/ CreateSourceFails(s)
    <2>1. [Free EXCEPT !.kind = "upload", !.todo = {s}] \in Operations
      BY IdleTyped DEF Operations
    <2>2. operation' \in Operations /\ files' \subseteq Source
      BY <1>1, <2>1, IdleTyped DEF StoreUpload, CreateSourceFails
    <2> QED BY <1>1, <2>2 DEF StoreUpload, CreateSourceFails, rows, Shapes, TypeOK, Operations
  <1>2. CASE CreateSource(s)
    <2>1. row' \in [Source -> {"absent", "there", "deleted"}]
      BY <1>2 DEF CreateSource
    <2> QED BY <1>2, <2>1 DEF CreateSource, disk, tasks, Shapes, TypeOK
  <1>3. CASE CreateJob(s) \/ Reindex(s)
    <2>1. waiting' \subseteq SUBSET Source
          /\ job' \in [Source -> {"none", "queued", "running", "succeeded", "failed"}]
      BY <1>3 DEF CreateJob, Reindex, Queue, Enqueue
    <2>2. operation' \in Operations
      BY <1>3, IdleTyped DEF CreateJob, Reindex
    <2> QED BY <1>3, <2>1, <2>2 DEF CreateJob, Reindex, rows, disk, Shapes, TypeOK, Operations
  <1>4. CASE CreateJobFails(s) \/ DeleteSource(s)
    <2>1. CASE operation' = Free /\ UNCHANGED <<revision, row, documents, history>> /\ UNCHANGED job
      BY <1>4, <2>1, IdleTyped DEF CreateJobFails, DeleteSource, disk, Shapes, TypeOK, Operations
    <2>2. CASE Revise(documents \ {s}) /\ row' = [row EXCEPT ![s] = "deleted"]
               /\ \/ operation' = [operation EXCEPT !.kind = "undo"]
                  \/ operation' = [Free EXCEPT !.kind = "delete", !.todo = {s}]
      <3>1. documents \ {s} \in SUBSET Source
        OBVIOUS
      <3>2. documents' \subseteq Source /\ revision' \in 0..MaxRevision /\ history' \in [0..revision' -> SUBSET Source]
        BY <2>2, <3>1, RevisionTyped
      <3>3. row' \in [Source -> {"absent", "there", "deleted"}]
            /\ job' \in [Source -> {"none", "queued", "running", "succeeded", "failed"}]
        BY <1>4, <2>2 DEF CreateJobFails, DeleteSource
      <3>4. [operation EXCEPT !.kind = "undo"] \in Operations
            /\ [Free EXCEPT !.kind = "delete", !.todo = {s}] \in Operations
        BY IdleTyped DEF Operations
      <3>5. operation' \in Operations
        BY <2>2, <3>4
      <3> QED BY <1>4, <3>2, <3>3, <3>5 DEF CreateJobFails, DeleteSource, disk, Shapes, TypeOK, Operations
    <2> QED BY <1>4, <2>1, <2>2 DEF CreateJobFails, DeleteSource
  <1>5. CASE RemoveFile(s)
    <2>1. files' \subseteq Source
      BY <1>5 DEF RemoveFile
    <2>2. operation' \in Operations
      <3>1. operation' = Free \/ operation' = [operation EXCEPT !.todo = {}]
        BY <1>5 DEF RemoveFile
      <3>2. operation \in Operations /\ Free \in Operations
        BY IdleTyped DEF Shapes
      <3> QED BY <3>1, <3>2 DEF Operations
    <2>3. rebuild' \in [Rebuilder -> Rebuilds]
      BY <1>5, IndexingBegins DEF RemoveFile
    <2> QED BY <1>5, <2>1, <2>2, <2>3 DEF RemoveFile, rows, Shapes, TypeOK, Operations
  <1>6. CASE CreateJobOfAll(s)
    <2>1. [operation EXCEPT !.todo = @ \ {s}, !.done = @ \cup {s}] \in Operations
      BY DEF Operations
    <2>2. operation' \in Operations
          /\ job' \in [Source -> {"none", "queued", "running", "succeeded", "failed"}]
      BY <1>6, <2>1, IdleTyped DEF CreateJobOfAll, Queue
    <2> QED BY <1>6, <2>2 DEF CreateJobOfAll, rows, disk, Shapes, TypeOK, Operations
  <1> QED BY <1>1, <1>2, <1>3, <1>4, <1>5, <1>6 DEF Handle

LEMMA OtherShapes ==
  ASSUME Inv, ReindexAll \/ EnqueueAll \/ DeleteKnowledgeBase \/ RemoveDirectories \/ Ingest \/ Die \/ Restart
  PROVE  Shapes'
  <1> USE Typed DEF Inv
  <1>1. CASE ReindexAll \/ EnqueueAll
    <2>1. [Free EXCEPT !.kind = "reindex", !.todo = {s \in Source : Exists(s)}] \in Operations
      BY IdleTyped DEF Operations
    <2>2. operation' \in Operations /\ waiting' \subseteq SUBSET Source
      BY <1>1, <2>1, IdleTyped DEF ReindexAll, EnqueueAll, Enqueue
    <2> QED BY <1>1, <2>2 DEF ReindexAll, EnqueueAll, rows, disk, Shapes, TypeOK, Operations
  <1>2. CASE DeleteKnowledgeBase
    <2>1. [Free EXCEPT !.kind = "drop"] \in Operations
      BY IdleTyped DEF Operations
    <2>2. row' \in [Source -> {"absent", "there", "deleted"}]
          /\ job' \in [Source -> {"none", "queued", "running", "succeeded", "failed"}]
      BY <1>2 DEF DeleteKnowledgeBase
    <2> QED BY <1>2, <2>1, <2>2 DEF DeleteKnowledgeBase, Shapes, TypeOK, Operations
  <1>3. CASE RemoveDirectories
    <2>1. /\ files' = {} /\ cache' = None /\ corpus' = None /\ operation' = Free
          /\ UNCHANGED <<rows, state, job, waiting, rebuild, search, up>>
      BY <1>3 DEF RemoveDirectories
    <2>2. Free \in Operations
      BY IdleTyped
    <2> QED BY <2>1, <2>2 DEF rows, Shapes, TypeOK, Operations
  <1>4. CASE AllIngested
    <2>1. operation' \in Operations
      BY <1>4, IdleTyped DEF AllIngested
    <2>2. rebuild' \in [Rebuilder -> Rebuilds]
      BY <1>4, IndexingBegins DEF AllIngested
    <2> QED BY <1>4, <2>1, <2>2 DEF AllIngested, rows, disk, Shapes, TypeOK, Operations
  <1>5. ASSUME NEW S \in waiting, BeginTask(S) PROVE Shapes'
    <2>1. [Free EXCEPT !.kind = "ingest", !.todo = S] \in Operations
      BY IdleTyped DEF Operations
    <2> QED BY <1>5, <2>1 DEF BeginTask, rows, disk, Shapes, TypeOK, Operations
  <1>6. ASSUME NEW s \in Source, StartJob(s) PROVE Shapes'
    <2>1. job' \in [Source -> {"none", "queued", "running", "succeeded", "failed"}]
      BY <1>6 DEF StartJob
    <2> QED BY <1>6, <2>1 DEF StartJob, rows, disk, Shapes, TypeOK
  <1>7. ASSUME NEW s \in Source, ReplaceDocuments(s) PROVE Shapes'
    <2>1. documents \cup {s} \in SUBSET Source /\ Revise(documents \cup {s})
      BY <1>7 DEF ReplaceDocuments
    <2>2. documents' \subseteq Source /\ revision' \in 0..MaxRevision /\ history' \in [0..revision' -> SUBSET Source]
      BY <2>1, RevisionTyped
    <2>3. operation' \in Operations
      BY <1>7 DEF ReplaceDocuments, Operations
    <2> QED BY <1>7, <2>2, <2>3 DEF ReplaceDocuments, disk, Shapes, TypeOK, Operations
  <1>8. ASSUME NEW s \in Source, IngestionFails(s) PROVE Shapes'
    <2>1. job' \in [Source -> {"none", "queued", "running", "succeeded", "failed"}]
      BY <1>8 DEF IngestionFails
    <2>2. operation' \in Operations
      BY <1>8 DEF IngestionFails, Operations
    <2> QED BY <1>8, <2>1, <2>2 DEF IngestionFails, rows, disk, Shapes, TypeOK, Operations
  <1>11. ASSUME NEW s \in Source, ReportJob(s) PROVE Shapes'
    <2>1. [operation EXCEPT !.done = operation.done \ {s}] \in Operations
      BY DEF Operations
    <2>2. operation' \in Operations
          /\ job' \in [Source -> {"none", "queued", "running", "succeeded", "failed"}]
      BY <1>11, <2>1, IdleTyped DEF ReportJob
    <2> QED BY <1>11, <2>2 DEF ReportJob, rows, disk, Shapes, TypeOK, Operations
  <1>9. CASE Die
    BY <1>9, IdleTyped DEF Die, rows, disk, Shapes, TypeOK, Operations
  <1>10. CASE Restart
    <2>1. job' \in [Source -> {"none", "queued", "running", "succeeded", "failed"}]
      BY <1>10 DEF Restart
    <2> QED BY <1>10, <2>1 DEF Restart, rows, disk, Shapes, TypeOK
  <1> QED BY <1>1, <1>2, <1>3, <1>4, <1>5, <1>6, <1>7, <1>8, <1>9, <1>10, <1>11 DEF Ingest

-----------------------------------------------------------------------------
(* Indexes.                                                                  *)

\* A step of a rebuild, or of a search on its way to one: what w has then, and
\* what is cached and recorded, is of a revision.
LEMMA RebuildIndexed ==
  ASSUME Inv, UNCHANGED <<alive, revision, documents, history>>,
         NEW w \in Rebuilder, NEW e \in Rebuilds, rebuild' = [rebuild EXCEPT ![w] = e], OfRevision(e.input),
         e.at \in {"publish", "save", "cache"} => e.input # None,
         OfRevision(cache'), OfRevision(state')
  PROVE  Indexed'
  <1> USE Typed DEF Inv
  <1>1. \A i : OfRevision(i)' <=> OfRevision(i')
    BY DEF OfRevision
  <1>2. \A x \in Rebuilder : rebuild'[x] = IF x = w THEN e ELSE rebuild[x]
    OBVIOUS
  <1>3. \A x \in Rebuilder :
          /\ OfRevision(rebuild'[x].input)
          /\ rebuild'[x].at \in {"publish", "save", "cache"} => rebuild'[x].input # None
    BY <1>2 DEF Indexed
  <1> QED BY <1>3 DEF Indexed, OfRevision

\* A new revision leaves what there is of those before.
LEMMA ReviseIndexed ==
  ASSUME Inv, NEW docs \in SUBSET Source, Revise(docs), UNCHANGED <<cache, state, rebuild>>
  PROVE  Indexed'
  <1> USE Typed DEF Inv
  <1>1. ASSUME NEW i \in Index \cup {None}, OfRevision(i) PROVE OfRevision(i)'
    <2>1. CASE i = None
      BY <2>1 DEF OfRevision
    <2>2. CASE i # None
      <3>1. i.revision \in 0..revision
        BY <1>1, <2>2 DEF OfRevision, Index
      <3>2. history'[i.revision] = history[i.revision] /\ i.revision <= revision'
        BY <3>1, RevisionTyped
      <3> QED BY <1>1, <3>2 DEF OfRevision
    <2> QED BY <2>1, <2>2
  <1>2. documents' = history'[revision']
    BY RevisionTyped
  <1> QED BY <1>1, <1>2 DEF Indexed, OfRevision

LEMMA NoRebuildIndexed == OfRevision(NoRebuild.input) /\ NoRebuild.at = "off" /\ OfRevision(None)
  BY DEF OfRevision, NoRebuild

LEMMA IndexedStep ==
  ASSUME Inv, Next
  PROVE  Indexed'
  <1> USE Typed DEF Inv
  <1>0. /\ OfRevision(cache) /\ OfRevision(state) /\ \A w \in Rebuilder : OfRevision(rebuild[w].input)
    BY DEF Indexed
  <1>1. CASE UNCHANGED <<alive, revision, documents, history, cache, state, rebuild>>
    BY <1>1 DEF Indexed, OfRevision
  <1>2. CASE DeleteKnowledgeBase
    <2>1. alive' = FALSE /\ UNCHANGED <<revision, history, cache, rebuild>> /\ state' = None
      BY <1>2 DEF DeleteKnowledgeBase
    <2> QED BY <2>1 DEF Indexed, OfRevision
  <1>3. CASE RemoveDirectories
    BY <1>3 DEF RemoveDirectories, rows, Indexed, OfRevision
  <1>4. CASE Die
    BY <1>4, NoRebuildIndexed DEF Die, rows, disk, Indexed, OfRevision
  <1>5. CASE AllIngested
    <2> DEFINE e == [rebuild["operation"] EXCEPT !.at = "input"]
    <2>0. "operation" \in Rebuilder
      BY Parameters
    <2>1. e \in Rebuilds /\ e.at = "input" /\ e.input = rebuild["operation"].input
      BY <2>0 DEF Rebuilds
    <2>2. rebuild' = rebuild \/ rebuild' = [rebuild EXCEPT !["operation"] = e]
      BY <1>5 DEF AllIngested
    <2>3. UNCHANGED <<alive, revision, documents, history, cache, state>>
      BY <1>5 DEF AllIngested, rows, disk
    <2> HIDE DEF e
    <2> QED BY <1>0, <1>1, <2>0, <2>1, <2>2, <2>3, RebuildIndexed
  <1>6. ASSUME NEW s \in Source, RemoveFile(s) PROVE Indexed'
    <2> DEFINE e == [rebuild["operation"] EXCEPT !.at = "input"]
    <2>0. "operation" \in Rebuilder
      BY Parameters
    <2>1. e \in Rebuilds /\ e.at = "input" /\ e.input = rebuild["operation"].input
      BY <2>0 DEF Rebuilds
    <2>2. rebuild' = rebuild \/ rebuild' = [rebuild EXCEPT !["operation"] = e]
      BY <1>6 DEF RemoveFile
    <2>3. UNCHANGED <<alive, revision, documents, history, cache, state>>
      BY <1>6 DEF RemoveFile, rows
    <2> HIDE DEF e
    <2> QED BY <1>0, <1>1, <2>0, <2>1, <2>2, <2>3, RebuildIndexed
  <1>7. ASSUME NEW s \in Source, CreateJobFails(s) \/ DeleteSource(s) PROVE Indexed'
    <2>1. UNCHANGED <<alive, cache, state, rebuild>>
          /\ (Revise(documents \ {s}) \/ UNCHANGED <<revision, documents, history>>)
      BY <1>7 DEF CreateJobFails, DeleteSource, disk
    <2> QED BY <1>1, <2>1, ReviseIndexed
  <1>8. ASSUME NEW s \in Source, ReplaceDocuments(s) PROVE Indexed'
    <2>1. Revise(documents \cup {s}) /\ UNCHANGED <<cache, state, rebuild>>
      BY <1>8 DEF ReplaceDocuments, disk
    <2> QED BY <2>1, ReviseIndexed
  <1>9. ASSUME NEW w \in Rebuilder, Rebuild(w) PROVE Indexed'
    <2>0. UNCHANGED <<alive, revision, documents, history>>
      BY <1>9 DEF Rebuild, IndexInput, PublishCorpus, SaveIndexState, CacheIndex, RebuildFails, rows
    <2>1. ASSUME NEW ok \in BOOLEAN, RebuildEnds(w, ok), OfRevision(state') PROVE Indexed'
      <3>1. rebuild' = [rebuild EXCEPT ![w] = NoRebuild] /\ OfRevision(cache')
        BY <1>0, <2>1, NoRebuildIndexed DEF RebuildEnds
      <3> QED BY <2>0, <2>1, <3>1, IdleTyped, NoRebuildIndexed, RebuildIndexed
    <2>2. CASE IndexInput(w)
      <3>0. state' = state /\ (alive => cache' = cache)
        BY <2>2 DEF IndexInput, disk
      <3>1. CASE alive
        <4> DEFINE i == [revision |-> revision, documents |-> documents]
                   e == [rebuild[w] EXCEPT !.at = "publish", !.input = i]
        <4>1. i \in Index /\ i # None /\ OfRevision(i)
          BY <3>1, Parameters DEF Index, Indexed, OfRevision
        <4> HIDE DEF i
        <4>2. e \in Rebuilds /\ e.input = i
          BY <4>1 DEF Rebuilds
        <4>3. rebuild' = [rebuild EXCEPT ![w] = e]
          BY <2>2, <3>1 DEF IndexInput, i
        <4> HIDE DEF e
        <4> QED BY <1>0, <2>0, <3>0, <3>1, <4>1, <4>2, <4>3, RebuildIndexed
      <3>2. CASE ~ alive
        BY <1>0, <2>1, <2>2, <3>0, <3>2 DEF IndexInput
      <3> QED BY <3>1, <3>2
    <2>3. CASE PublishCorpus(w)
      <3> DEFINE e == [rebuild[w] EXCEPT !.at = "save"]
      <3>1. e \in Rebuilds /\ e.input = rebuild[w].input
        BY DEF Rebuilds
      <3>2. rebuild' = [rebuild EXCEPT ![w] = e] /\ UNCHANGED <<cache, state>> /\ e.input # None
        BY <2>3, <3>1 DEF PublishCorpus, At, Indexed
      <3> HIDE DEF e
      <3> QED BY <1>0, <2>0, <3>1, <3>2, RebuildIndexed
    <2>4. CASE SaveIndexState(w)
      <3>0. OfRevision(state')
        BY <1>0, <2>4 DEF SaveIndexState
      <3>1. CASE cache' = cache /\ rebuild' = [rebuild EXCEPT ![w].at = "cache"]
        <4> DEFINE e == [rebuild[w] EXCEPT !.at = "cache"]
        <4>1. e \in Rebuilds /\ e.input = rebuild[w].input
          BY DEF Rebuilds
        <4>2. rebuild' = [rebuild EXCEPT ![w] = e] /\ e.input # None
          BY <2>4, <3>1, <4>1 DEF SaveIndexState, At, Indexed
        <4> HIDE DEF e
        <4> QED BY <1>0, <2>0, <3>0, <3>1, <4>1, <4>2, RebuildIndexed
      <3>2. CASE RebuildEnds(w, FALSE)
        BY <1>0, <2>1, <3>0, <3>2
      <3>3. CASE cache' = cache /\ rebuild[w].tries # 2
                 /\ rebuild' = [rebuild EXCEPT ![w].at = "input", ![w].tries = @ + 1]
        <4> DEFINE e == [rebuild[w] EXCEPT !.at = "input", !.tries = @ + 1]
        <4>1. rebuild[w].tries + 1 \in 0..2
          BY <3>3 DEF Rebuilds
        <4>2. e \in Rebuilds /\ e.input = rebuild[w].input /\ e.at = "input"
          BY <4>1 DEF Rebuilds
        <4>3. rebuild' = [rebuild EXCEPT ![w] = e]
          BY <3>3
        <4> HIDE DEF e
        <4> QED BY <1>0, <2>0, <3>0, <3>3, <4>2, <4>3, RebuildIndexed
      <3> QED BY <2>4, <3>1, <3>2, <3>3 DEF SaveIndexState
    <2>5. CASE CacheIndex(w) \/ RebuildFails(w)
      BY <1>0, <2>1, <2>5 DEF CacheIndex, RebuildFails, disk
    <2> QED BY <1>9, <2>2, <2>3, <2>4, <2>5 DEF Rebuild
  <1>10. ASSUME NEW w \in Searcher, Search(w) PROVE Indexed'
    <2>0. UNCHANGED <<alive, revision, documents, history, state>> /\ w \in Rebuilder
      BY <1>10, Parameters DEF Search, BeginSearch, LookInCache, ReadState, ReadCorpus, CacheRestored, rows, disk
    <2>1. CASE ReadState(w)
      <3>1. PICK e \in Rebuilds :
              /\ rebuild' = [rebuild EXCEPT ![w] = e] /\ OfRevision(e.input)
              /\ e.at \in {"publish", "save", "cache"} => e.input # None
        <4>1. CASE state # None /\ state.revision = search[w].revision
          <5> DEFINE e == [rebuild[w] EXCEPT !.input = state]
          <5>1. e \in Rebuilds /\ e.input = state
            BY <2>0 DEF Rebuilds
          <5>2. rebuild' = [rebuild EXCEPT ![w] = e]
            BY <2>1, <4>1 DEF ReadState
          <5> HIDE DEF e
          <5> QED BY <1>0, <4>1, <5>1, <5>2
        <4>2. CASE ~ (state # None /\ state.revision = search[w].revision)
          <5> DEFINE e == [rebuild[w] EXCEPT !.at = "input"]
          <5>1. e \in Rebuilds /\ e.input = rebuild[w].input /\ e.at = "input"
            BY <2>0 DEF Rebuilds
          <5>2. rebuild' = [rebuild EXCEPT ![w] = e]
            BY <2>1, <4>2 DEF ReadState
          <5> HIDE DEF e
          <5> QED BY <1>0, <2>0, <5>1, <5>2
        <4> QED BY <4>1, <4>2
      <3>2. cache' = cache
        BY <2>1 DEF ReadState
      <3> QED BY <1>0, <2>0, <3>1, <3>2, RebuildIndexed
    <2>2. CASE ReadCorpus(w)
      <3> DEFINE e == [NoRebuild EXCEPT !.at = "input"]
      <3>1. e \in Rebuilds /\ e.input = NoRebuild.input /\ e.at = "input"
        BY IdleTyped DEF Rebuilds
      <3>2. cache' = cache /\ (rebuild' = rebuild \/ rebuild' = [rebuild EXCEPT ![w] = e])
        BY <2>2 DEF ReadCorpus
      <3> HIDE DEF e
      <3> QED BY <1>0, <1>1, <2>0, <3>1, <3>2, NoRebuildIndexed, RebuildIndexed
    <2>3. CASE CacheRestored(w)
      BY <1>0, <2>0, <2>3, IdleTyped, NoRebuildIndexed, RebuildIndexed DEF CacheRestored
    <2>4. CASE BeginSearch(w) \/ LookInCache(w)
      BY <1>1, <2>0, <2>4 DEF BeginSearch, LookInCache
    <2> QED BY <1>10, <2>1, <2>2, <2>3, <2>4 DEF Search
  <1>11. ASSUME NEW s \in Source, \/ StoreUpload(s) \/ CreateSource(s) \/ CreateSourceFails(s) \/ CreateJob(s)
                                  \/ Reindex(s) \/ CreateJobOfAll(s) \/ StartJob(s) \/ IngestionFails(s)
                                  \/ ReportJob(s)
         PROVE Indexed'
    BY <1>1, <1>11 DEF StoreUpload, CreateSource, CreateSourceFails, CreateJob, Reindex, CreateJobOfAll, StartJob,
       IngestionFails, ReportJob, rows, disk
  <1>12. CASE ReindexAll \/ EnqueueAll \/ Restart \/ \E S \in waiting : BeginTask(S)
    BY <1>1, <1>12 DEF ReindexAll, EnqueueAll, Restart, BeginTask, rows, disk
  <1> QED BY <1>2, <1>3, <1>4, <1>5, <1>6, <1>7, <1>8, <1>9, <1>10, <1>11, <1>12 DEF Next, Handle, Ingest

-----------------------------------------------------------------------------
(* Rebuilds and searches leave alone what they are not of.                   *)

LEMMA SearchesElsewhere ==
  ASSUME Inv, NEW w \in Searcher, Search(w)
  PROVE  UNCHANGED <<alive, revision, row, documents, history, files, state, job, waiting, operation, up,
                     rebuild["operation"]>>
  <1>1. UNCHANGED <<alive, revision, row, documents, history, files, state, job, waiting, operation, up>>
    BY DEF Search, BeginSearch, LookInCache, ReadState, ReadCorpus, CacheRestored, rows, disk, tasks
  <1>2. rebuild'["operation"] = rebuild["operation"]
    BY Typed, Parameters DEF Inv, Search, BeginSearch, LookInCache, ReadState, ReadCorpus, CacheRestored
  <1> QED BY <1>1, <1>2

LEMMA RebuildsElsewhere ==
  ASSUME Inv, NEW w \in Rebuilder, Rebuild(w)
  PROVE  /\ UNCHANGED <<alive, revision, row, documents, history, files, job, waiting, up>>
         /\ \/ state' = state
            \/ alive /\ state' = rebuild[w].input /\ state' # None /\ state'.documents = documents
         /\ w # "operation" => UNCHANGED <<operation, rebuild["operation"]>>
         /\ w = "operation" =>
              \/ /\ operation' = operation /\ rebuild[w].at # "off"
                 /\ rebuild'[w].at = "cache" => state' # None /\ state'.documents = documents
                 /\ rebuild'[w].at # "off"
              \/ \E ok \in BOOLEAN :
                   /\ RebuildEnds(w, ok) /\ rebuild[w].at # "off"
                   /\ state' = state /\ (ok => rebuild[w].at = "cache")
  <1> USE Typed DEF Inv
  <1>1. UNCHANGED <<alive, revision, row, documents, history, files, job, waiting, up>>
    BY DEF Rebuild, IndexInput, PublishCorpus, SaveIndexState, CacheIndex, RebuildFails, rows, disk, tasks
  <1>2. CASE IndexInput(w)
    BY <1>1, <1>2, Parameters DEF IndexInput, RebuildEnds, At, disk, Rebuilds
  <1>3. CASE PublishCorpus(w)
    BY <1>1, <1>3, Parameters DEF PublishCorpus, At, tasks, Rebuilds
  <1>4. CASE SaveIndexState(w)
    <2>1. CASE alive /\ revision = rebuild[w].input.revision
      <3>1. rebuild[w].input # None /\ rebuild[w].input.documents = history[rebuild[w].input.revision]
        BY <1>4 DEF SaveIndexState, At, Indexed, OfRevision
      <3>2. rebuild[w].input.documents = documents /\ state' = rebuild[w].input
        BY <1>4, <2>1, <3>1 DEF Indexed, SaveIndexState
      <3>3. operation' = operation /\ rebuild' = [rebuild EXCEPT ![w].at = "cache"] /\ rebuild[w].at = "save"
        BY <1>4, <2>1 DEF SaveIndexState, At
      <3>4. rebuild'[w].at = "cache" /\ (w # "operation" => rebuild'["operation"] = rebuild["operation"])
        BY <3>3, Parameters DEF Rebuilds
      <3> QED BY <1>1, <2>1, <3>1, <3>2, <3>3, <3>4
    <2>2. CASE ~ (alive /\ revision = rebuild[w].input.revision) /\ rebuild[w].tries = 2
      BY <1>1, <1>4, <2>2, Parameters DEF SaveIndexState, RebuildEnds, At
    <2>3. CASE ~ (alive /\ revision = rebuild[w].input.revision) /\ rebuild[w].tries # 2
      <3>1. UNCHANGED <<state, operation>> /\ rebuild' = [rebuild EXCEPT ![w].at = "input", ![w].tries = @ + 1]
            /\ rebuild[w].at = "save"
        BY <1>4, <2>3 DEF SaveIndexState, At
      <3>2. rebuild'[w].at = "input" /\ (w # "operation" => rebuild'["operation"] = rebuild["operation"])
        BY <3>1, Parameters DEF Rebuilds
      <3> QED BY <1>1, <3>1, <3>2
    <2> QED BY <2>1, <2>2, <2>3
  <1>5. CASE CacheIndex(w)
    BY <1>1, <1>5, Parameters DEF CacheIndex, RebuildEnds, At, disk
  <1>6. CASE RebuildFails(w)
    BY <1>1, <1>6, Parameters DEF RebuildFails, RebuildEnds, disk
  <1> QED BY <1>2, <1>3, <1>4, <1>5, <1>6 DEF Rebuild

-----------------------------------------------------------------------------
(* Jobs.                                                                     *)

LEMMA ReportedStep ==
  ASSUME Inv, Next
  PROVE  Reported'
  <1> USE Typed, IdleTyped DEF Inv
  <1>1. CASE UNCHANGED <<row, documents, state, job, operation, rebuild["operation"]>>
    BY <1>1 DEF Reported, Holding
  <1>2. ASSUME UNCHANGED <<row, documents, state, rebuild>>, rebuild["operation"].at = "off",
               operation'.kind # "report",
               operation'.kind \in Tasks => operation.kind \in Tasks /\ operation'.done \subseteq operation.done,
               \A s \in Source : /\ job'[s] = "succeeded" => job[s] = "succeeded"
                                 /\ row[s] = "absent" => job'[s] = "none"
        PROVE  Reported'
    BY <1>2 DEF Reported, Holding
  <1>3. ASSUME NEW w \in Rebuilder, Rebuild(w) PROVE Reported'
    <2>1. UNCHANGED <<row, documents, job>>
          /\ (state' = state \/ (state' # None /\ state'.documents = documents))
      BY <1>3, RebuildsElsewhere
    <2>2. \A S : S \subseteq documents /\ Holding(S) => Holding(S)'
      BY <2>1 DEF Holding
    <2>3. \A s \in Source : job'[s] = "succeeded" => s \in documents' /\ Holding({s})'
      BY <2>1, <2>2 DEF Reported
    <2>4. CASE w # "operation"
      <3>1. UNCHANGED <<operation, rebuild["operation"]>>
        BY <1>3, <2>4, RebuildsElsewhere
      <3>2. rebuild["operation"].at = "cache" \/ operation.kind = "report" => operation.done \subseteq documents
        BY DEF Reported, LockHeld
      <3> QED BY <2>1, <2>2, <2>3, <3>1, <3>2 DEF Reported
    <2>5. CASE w = "operation" /\ operation' = operation /\ rebuild[w].at # "off"
               /\ (rebuild'[w].at = "cache" => state' # None /\ state'.documents = documents)
      <3>1. operation.kind \in {"ingest", "delete"} /\ operation.done \subseteq documents
        BY <2>5 DEF LockHeld, Reported
      <3> QED BY <2>1, <2>3, <2>5, <3>1 DEF Reported, Holding
    <2>6. ASSUME w = "operation", NEW ok \in BOOLEAN, RebuildEnds(w, ok), state' = state,
                 rebuild[w].at # "off", ok => rebuild[w].at = "cache"
          PROVE  Reported'
      <3>1. rebuild'["operation"].at = "off"
        BY <2>6, Parameters DEF RebuildEnds, NoRebuild
      <3>2. operation.kind \in {"ingest", "delete"} /\ operation.done \subseteq documents
        BY <2>6 DEF LockHeld, Reported
      <3>3. CASE operation' = Free
        BY <2>1, <2>3, <3>1, <3>3 DEF Reported, Free
      <3>4. CASE operation' = [operation EXCEPT !.kind = IF ok THEN "report" ELSE "blame"]
        <4>1. operation'.done = operation.done /\ operation'.kind = IF ok THEN "report" ELSE "blame"
          BY <3>4 DEF Operations
        <4>2. operation'.kind = "report" => Holding(operation.done)
          BY <2>6, <4>1 DEF Reported
        <4> QED BY <2>1, <2>3, <2>6, <3>1, <3>2, <4>1, <4>2 DEF Reported, Holding
      <3> QED BY <2>6, <3>3, <3>4 DEF RebuildEnds
    <2> QED BY <1>3, <2>4, <2>5, <2>6, RebuildsElsewhere
  <1>4. ASSUME NEW w \in Searcher, Search(w) PROVE Reported'
    BY <1>1, <1>4, SearchesElsewhere
  <1>5. ASSUME operation.kind \notin {"ingest", "delete"} PROVE rebuild["operation"].at = "off"
    BY <1>5 DEF LockHeld
  <1>6. ASSUME NEW s \in Source, StoreUpload(s) \/ CreateSourceFails(s) \/ CreateJob(s) \/ Reindex(s)
        PROVE  Reported'
    <2>1. CASE StoreUpload(s)
      BY <1>2, <1>5, <2>1 DEF StoreUpload, Locks, rows, Free, Reported
    <2>2. CASE CreateSourceFails(s)
      BY <1>2, <1>5, <2>2 DEF CreateSourceFails, rows, Free, Reported
    <2>3. CASE CreateJob(s)
      BY <1>2, <1>5, <2>3 DEF CreateJob, Queue, Exists, rows, disk, Free, Reported
    <2>4. CASE Reindex(s)
      BY <1>2, <1>5, <2>4 DEF Reindex, Queue, Locks, Exists, rows, disk, Free, Reported
    <2> QED BY <1>6, <2>1, <2>2, <2>3, <2>4
  <1>7. ASSUME NEW s \in Source, CreateSource(s) PROVE Reported'
    BY <1>7 DEF CreateSource, disk, tasks, Reported, Holding
  <1>8. ASSUME NEW s \in Source, CreateJobFails(s) PROVE Reported'
    <2>1. job[s] = "none" /\ rebuild["operation"].at = "off" /\ UNCHANGED <<job, state, rebuild>>
      BY <1>5, <1>8 DEF CreateJobFails, LockHeld, disk
    <2>2. CASE operation' = Free /\ UNCHANGED <<row, documents>>
      BY <2>1, <2>2 DEF Reported, Holding, Free
    <2>3. CASE documents' = documents \ {s} /\ row' = [row EXCEPT ![s] = "deleted"] /\ operation'.kind = "undo"
      BY <2>1, <2>3 DEF Reported, Holding
    <2> QED BY <1>8, <2>2, <2>3 DEF CreateJobFails, Revise, Operations
  <1>9. ASSUME NEW s \in Source, DeleteSource(s) PROVE Reported'
    <2>1. documents' = documents \ {s} /\ job' = [job EXCEPT ![s] = "none"] /\ operation'.kind = "delete"
          /\ UNCHANGED <<state, rebuild>> /\ row' = [row EXCEPT ![s] = "deleted"]
          /\ rebuild["operation"].at = "off"
      BY <1>5, <1>9 DEF DeleteSource, Locks, Revise, disk, Free
    <2> QED BY <2>1 DEF Reported, Holding
  <1>10. ASSUME NEW s \in Source, RemoveFile(s) PROVE Reported'
    <2>1. UNCHANGED <<row, documents, state, job>> /\ operation'.kind \in {"none", "delete"}
      BY <1>10 DEF RemoveFile, rows, Free, Operations
    <2>2. rebuild["operation"].at = "off"
      BY <1>10, Parameters DEF RemoveFile, LockHeld
    <2>3. rebuild'["operation"].at \in {"off", "input"}
      BY <1>10, <2>2, Parameters DEF RemoveFile, Rebuilds
    <2> QED BY <2>1, <2>3 DEF Reported, Holding
  <1>11. CASE ReindexAll \/ EnqueueAll
    <2>1. UNCHANGED <<row, documents, job, state, rebuild>>
      BY <1>11 DEF ReindexAll, EnqueueAll, rows, disk
    <2>2. operation'.kind \in {"none", "reindex"}
      BY <1>11 DEF ReindexAll, EnqueueAll, Free, Operations
    <2>3. rebuild["operation"].at = "off"
      BY <1>5, <1>11 DEF ReindexAll, EnqueueAll, LockHeld, Locks, Free
    <2>4. \A t \in Source : job[t] = "succeeded" => t \in documents /\ Holding({t})
      BY DEF Reported
    <2> QED BY <1>2, <2>1, <2>2, <2>3, <2>4 DEF Reported, Tasks
  <1>12. ASSUME NEW s \in Source, CreateJobOfAll(s) PROVE Reported'
    <2>1. operation'.kind \in {"none", "reindex"} /\ Exists(s)
          /\ \A t \in Source : job'[t] \in {"queued", job[t]} /\ (t # s => job'[t] = job[t])
      BY <1>12 DEF CreateJobOfAll, Queue, Free, Operations, LockHeld
    <2> QED BY <1>2, <1>5, <1>12, <2>1 DEF CreateJobOfAll, rows, disk, Exists, Reported
  <1>13. CASE DeleteKnowledgeBase
    <2>1. rebuild["operation"].at = "off"
      BY <1>5, <1>13 DEF DeleteKnowledgeBase, Locks, Free
    <2> QED BY <1>13, <2>1 DEF DeleteKnowledgeBase, Reported, Exists, Free
  <1>14. CASE RemoveDirectories
    BY <1>2, <1>5, <1>14 DEF RemoveDirectories, rows, Free, Reported
  <1>15. CASE AllIngested
    <2>1. UNCHANGED <<row, documents, state, job>> /\ (operation' = Free \/ operation' = operation)
          /\ operation.kind = "ingest"
      BY <1>15 DEF AllIngested, rows, disk
    <2>2. rebuild'["operation"].at \in {"off", "input"}
      BY <1>15, Parameters DEF AllIngested, Rebuilds
    <2> QED BY <2>1, <2>2 DEF Reported, Holding, Free
  <1>16. ASSUME NEW S \in waiting, BeginTask(S) PROVE Reported'
    <2>1. UNCHANGED <<row, documents, state, job, rebuild>> /\ rebuild["operation"].at = "off"
          /\ operation'.kind = "ingest" /\ operation'.done = {}
      BY <1>5, <1>16 DEF BeginTask, Locks, rows, disk, Free
    <2> QED BY <2>1 DEF Reported, Holding
  <1>17. ASSUME NEW s \in Source, StartJob(s) PROVE Reported'
    BY <1>17 DEF StartJob, Exists, Ingesting, rows, disk, Reported, Holding
  <1>18. ASSUME NEW s \in Source, ReplaceDocuments(s) PROVE Reported'
    <2>1. documents' = documents \cup {s} /\ UNCHANGED <<row, state, job, rebuild>>
          /\ operation.kind = "ingest" /\ s \in operation.todo
      BY <1>18 DEF ReplaceDocuments, Revise, disk, Ingesting
    <2>2. operation'.done = operation.done \cup {s} /\ operation'.kind = "ingest"
      BY <1>18, <2>1 DEF ReplaceDocuments, Operations
    <2>3. rebuild["operation"].at = "off"
      BY <2>1, Parameters DEF LockHeld
    <2> QED BY <2>1, <2>2, <2>3 DEF Reported, Holding
  <1>19. ASSUME NEW s \in Source, IngestionFails(s) PROVE Reported'
    <2>1. operation'.done = operation.done /\ operation'.kind = "ingest" /\ operation.kind = "ingest"
          /\ s \in operation.todo /\ UNCHANGED <<row, documents, state, rebuild>>
      BY <1>19 DEF IngestionFails, Ingesting, rows, disk, Operations
    <2>2. Exists(s) /\ rebuild["operation"].at = "off"
      BY <2>1, Parameters DEF LockHeld, TasksHaveSources, InUse
    <2>3. \A t \in Source : job'[t] \in {"failed", job[t]} /\ (t # s => job'[t] = job[t])
      BY <1>19 DEF IngestionFails
    <2> QED BY <1>2, <2>1, <2>2, <2>3 DEF Exists, Reported
  <1>20. ASSUME NEW s \in Source, ReportJob(s) PROVE Reported'
    <2>1. operation.kind \in {"report", "blame"} /\ s \in operation.done
          /\ UNCHANGED <<row, documents, state, rebuild>>
      BY <1>20 DEF ReportJob, rows, disk
    <2>2. Exists(s) /\ rebuild["operation"].at = "off"
      BY <2>1 DEF LockHeld, TasksHaveSources, InUse
    <2>3. operation' = Free \/ (operation'.kind = operation.kind /\ operation'.done \subseteq operation.done)
      BY <1>20 DEF ReportJob, Operations
    <2>4. \A t \in Source : job'[t] = job[t] \/ (t = s /\ (job'[t] = "succeeded" => operation.kind = "report"))
      BY <1>20 DEF ReportJob
    <2>5. operation.done \subseteq documents /\ (operation.kind = "report" => Holding(operation.done))
      BY <2>1 DEF Reported
    <2>6. \A t \in Source : job'[t] = "succeeded" => t \in documents /\ Holding({t})
      BY <2>1, <2>4, <2>5 DEF Reported, Holding
    <2>7. \A t \in Source : row[t] = "absent" => job'[t] = "none"
      BY <2>2, <2>4 DEF Reported, Exists
    <2> QED BY <2>1, <2>2, <2>3, <2>5, <2>6, <2>7 DEF Reported, Holding, Free
  <1>21. CASE Die
    BY <1>21, Parameters DEF Die, rows, disk, Free, NoRebuild, Reported, Holding
  <1>22. CASE Restart
    BY <1>22 DEF Restart, rows, disk, Reported, Holding
  <1> QED BY <1>3, <1>4, <1>6, <1>7, <1>8, <1>9, <1>10, <1>11, <1>12, <1>13, <1>14, <1>15, <1>16, <1>17, <1>18, <1>19,
             <1>20, <1>21, <1>22 DEF Next, Handle, Ingest

-----------------------------------------------------------------------------
(* Files.                                                                    *)

\* Rows come after their files, and go before them.
LEMMA RowsHaveFilesStep ==
  ASSUME Inv, Next
  PROVE  RowsHaveFiles'
  <1> USE Typed DEF Inv
  <1>1. CASE files' = files /\ \A s \in Source : Exists(s)' => Exists(s)
    BY <1>1 DEF RowsHaveFiles
  <1>2. ASSUME NEW s \in Source, StoreUpload(s) \/ CreateSourceFails(s) PROVE RowsHaveFiles'
    BY <1>2 DEF StoreUpload, CreateSourceFails, rows, RowsHaveFiles, Exists
  <1>3. ASSUME NEW s \in Source, CreateSource(s) PROVE RowsHaveFiles'
    BY <1>3 DEF CreateSource, disk, LockHeld, RowsHaveFiles, Exists
  <1>4. ASSUME NEW s \in Source, RemoveFile(s) PROVE RowsHaveFiles'
    BY <1>4 DEF RemoveFile, rows, LockHeld, RowsHaveFiles, Exists
  <1>5. CASE RemoveDirectories
    BY <1>5 DEF RemoveDirectories, rows, LockHeld, RowsHaveFiles, Exists
  <1>6. ASSUME NEW s \in Source, \/ CreateJob(s) \/ CreateJobFails(s) \/ Reindex(s) \/ CreateJobOfAll(s)
                                 \/ DeleteSource(s) \/ StartJob(s) \/ ReplaceDocuments(s) \/ IngestionFails(s)
                                 \/ ReportJob(s)
        PROVE  RowsHaveFiles'
    BY <1>1, <1>6 DEF CreateJob, CreateJobFails, Reindex, CreateJobOfAll, DeleteSource, StartJob, ReplaceDocuments,
       IngestionFails, ReportJob, rows, disk, Exists
  <1>7. CASE ReindexAll \/ EnqueueAll \/ DeleteKnowledgeBase \/ AllIngested \/ Die \/ Restart
             \/ \E S \in waiting : BeginTask(S)
    BY <1>1, <1>7 DEF ReindexAll, EnqueueAll, DeleteKnowledgeBase, AllIngested, Die, Restart, BeginTask, rows, disk, Exists
  <1>8. ASSUME NEW w \in Rebuilder, Rebuild(w) PROVE RowsHaveFiles'
    BY <1>1, <1>8, RebuildsElsewhere DEF Exists
  <1>9. ASSUME NEW w \in Searcher, Search(w) PROVE RowsHaveFiles'
    BY <1>1, <1>9, SearchesElsewhere DEF Exists
  <1> QED BY <1>2, <1>3, <1>4, <1>5, <1>6, <1>7, <1>8, <1>9 DEF Next, Handle, Ingest

-----------------------------------------------------------------------------
(* The operation lock.                                                       *)

LEMMA LockStep ==
  ASSUME Inv, Next
  PROVE  LockHeld'
  <1> USE Typed, IdleTyped DEF Inv
  <1>1. CASE UNCHANGED <<row, files, job, waiting, operation, up, rebuild["operation"].at>>
    BY <1>1 DEF LockHeld, Exists
  <1>2. ASSUME NEW w \in Rebuilder, Rebuild(w) PROVE LockHeld'
    <2>0. UNCHANGED <<row, files, job, waiting, up>>
      BY <1>2, RebuildsElsewhere
    <2>1. CASE w # "operation"
      <3>1. UNCHANGED <<operation, rebuild["operation"]>>
        BY <1>2, <2>1, RebuildsElsewhere
      <3> QED BY <1>1, <2>0, <3>1
    <2>2. CASE w = "operation" /\ operation' = operation /\ rebuild[w].at # "off"
      BY <2>0, <2>2 DEF LockHeld, Exists
    <2>3. ASSUME w = "operation", NEW ok \in BOOLEAN, RebuildEnds(w, ok), rebuild[w].at # "off" PROVE LockHeld'
      <3>1. rebuild'["operation"].at = "off"
        BY <2>3, Parameters DEF RebuildEnds, NoRebuild
      <3>2. operation.kind \in {"ingest", "delete"} /\ operation.todo = {} /\ up
        BY <2>3 DEF LockHeld, Free
      <3>3. CASE operation' = Free
        BY <2>0, <3>1, <3>2, <3>3 DEF LockHeld, Free
      <3>4. CASE operation' = [operation EXCEPT !.kind = IF ok THEN "report" ELSE "blame"]
        <4>1. operation'.todo = {} /\ operation'.kind \in {"report", "blame"}
          BY <3>2, <3>4 DEF Operations
        <4> QED BY <2>0, <3>1, <3>2, <4>1 DEF LockHeld
      <3> QED BY <2>3, <3>3, <3>4 DEF RebuildEnds
    <2> QED BY <1>2, <2>1, <2>2, <2>3, RebuildsElsewhere
  <1>3. ASSUME NEW w \in Searcher, Search(w) PROVE LockHeld'
    BY <1>1, <1>3, SearchesElsewhere
  <1>4. ASSUME Locks PROVE rebuild["operation"].at = "off" /\ up
    BY <1>4 DEF LockHeld, Locks, Free
  <1>5. ASSUME operation.kind \notin {"none", "ingest", "delete"} PROVE rebuild["operation"].at = "off" /\ up
    BY <1>5 DEF LockHeld, Free
  <1>6. ASSUME operation' = Free, rebuild' = rebuild, up' = up, up, rebuild["operation"].at = "off" PROVE LockHeld'
    BY <1>6 DEF LockHeld, Free
  <1>7. ASSUME NEW s \in Source, StoreUpload(s) PROVE LockHeld'
    <2>1. job[s] = "none" /\ s \notin UNION waiting
      BY <1>7 DEF StoreUpload, Reported, TasksHaveSources, InUse, Exists
    <2> QED BY <1>4, <1>7, <2>1 DEF StoreUpload, rows, LockHeld, Free
  <1>8. ASSUME NEW s \in Source, CreateSource(s) PROVE LockHeld'
    BY <1>8 DEF CreateSource, disk, tasks, LockHeld, Free
  <1>9. ASSUME NEW s \in Source, CreateSourceFails(s) \/ CreateJob(s) PROVE LockHeld'
    BY <1>5, <1>6, <1>9 DEF CreateSourceFails, CreateJob, rows, disk
  <1>10. ASSUME NEW s \in Source, CreateJobFails(s) PROVE LockHeld'
    <2>1. rebuild["operation"].at = "off" /\ up /\ operation.done = {} /\ operation.todo = {s}
      BY <1>5, <1>10 DEF CreateJobFails, LockHeld
    <2>2. CASE operation' = Free
      BY <1>6, <1>10, <2>1, <2>2 DEF CreateJobFails, disk
    <2>3. CASE operation' = [operation EXCEPT !.kind = "undo"] /\ row' = [row EXCEPT ![s] = "deleted"]
      <3>1. operation'.kind = "undo" /\ operation'.todo = {s} /\ operation'.done = {} /\ row'[s] = "deleted"
        BY <2>1, <2>3 DEF Operations
      <3> QED BY <1>10, <2>1, <3>1 DEF CreateJobFails, disk, LockHeld
    <2> QED BY <1>10, <2>2, <2>3 DEF CreateJobFails
  <1>11. ASSUME NEW s \in Source, Reindex(s) PROVE LockHeld'
    BY <1>4, <1>11 DEF Reindex, rows, disk, Locks, LockHeld, Free
  <1>12. CASE ReindexAll
    BY <1>4, <1>12 DEF ReindexAll, rows, disk, Locks, LockHeld, Free, Exists
  <1>13. ASSUME NEW s \in Source, CreateJobOfAll(s) PROVE LockHeld'
    <2>1. operation.kind = "reindex" /\ rebuild["operation"].at = "off" /\ up /\ s \in operation.todo
      BY <1>5, <1>13 DEF CreateJobOfAll
    <2>2. CASE operation' = Free
      BY <1>6, <1>13, <2>1, <2>2 DEF CreateJobOfAll, rows, disk
    <2>3. CASE operation' = [operation EXCEPT !.todo = @ \ {s}, !.done = @ \cup {s}]
      <3>1. operation'.kind = "reindex" /\ operation'.todo \cup operation'.done = operation.todo \cup operation.done
        BY <2>1, <2>3 DEF Operations
      <3> QED BY <1>13, <2>1, <3>1 DEF CreateJobOfAll, rows, disk, LockHeld, Exists
    <2> QED BY <1>13, <2>2, <2>3 DEF CreateJobOfAll
  <1>14. CASE EnqueueAll
    BY <1>5, <1>6, <1>14 DEF EnqueueAll, rows, disk
  <1>15. ASSUME NEW s \in Source, DeleteSource(s) PROVE LockHeld'
    BY <1>4, <1>15 DEF DeleteSource, disk, LockHeld, Free
  <1>16. ASSUME NEW s \in Source, RemoveFile(s) PROVE LockHeld'
    <2>1. rebuild["operation"].at = "off" /\ up /\ operation.done = {}
      BY <1>16, Parameters DEF RemoveFile, LockHeld, Rebuilds, Free
    <2>2. CASE operation.kind = "undo"
      BY <1>6, <1>16, <2>1, <2>2 DEF RemoveFile
    <2>3. CASE operation.kind = "delete"
      <3>1. operation'.kind = "delete" /\ operation'.todo = {} /\ operation'.done = {}
        BY <1>16, <2>1, <2>3 DEF RemoveFile, Operations
      <3> QED BY <1>16, <2>1, <3>1 DEF RemoveFile, rows, LockHeld
    <2> QED BY <1>16, <2>2, <2>3 DEF RemoveFile
  <1>17. CASE DeleteKnowledgeBase
    <2>1. \A s \in Source : ~ Exists(s)'
      BY <1>17 DEF DeleteKnowledgeBase, Exists
    <2> QED BY <1>4, <1>17, <2>1 DEF DeleteKnowledgeBase, LockHeld, Free
  <1>18. CASE RemoveDirectories
    BY <1>5, <1>6, <1>18 DEF RemoveDirectories
  <1>19. CASE AllIngested
    <2>1. up /\ up' = up /\ operation.kind = "ingest" /\ operation.todo = {}
      BY <1>19 DEF AllIngested, LockHeld, Free
    <2>2. CASE operation.done = {}
      BY <1>6, <1>19, <2>1, <2>2 DEF AllIngested
    <2>3. CASE operation.done # {}
      BY <1>19, <2>1, <2>3 DEF AllIngested, rows, disk, LockHeld, Free
    <2> QED BY <2>2, <2>3
  <1>20. ASSUME NEW S \in waiting, BeginTask(S) PROVE LockHeld'
    BY <1>4, <1>20 DEF BeginTask, rows, disk, LockHeld, Free
  <1>21. ASSUME NEW s \in Source, StartJob(s) PROVE LockHeld'
    BY <1>21 DEF StartJob, Ingesting, rows, disk, LockHeld, Free
  <1>22. ASSUME NEW s \in Source, ReplaceDocuments(s) \/ IngestionFails(s) PROVE LockHeld'
    <2>1. operation.kind = "ingest" /\ s \in operation.todo /\ up /\ up' = up /\ rebuild' = rebuild
      BY <1>22 DEF ReplaceDocuments, IngestionFails, Ingesting, LockHeld, Free
    <2>2. operation'.kind = "ingest" /\ rebuild["operation"].at = "off"
      BY <1>22, <2>1, Parameters DEF ReplaceDocuments, IngestionFails, Operations, LockHeld
    <2> QED BY <2>1, <2>2 DEF LockHeld
  <1>23. ASSUME NEW s \in Source, ReportJob(s) PROVE LockHeld'
    <2>1. operation.kind \in {"report", "blame"} /\ operation.todo = {} /\ up /\ up' = up /\ rebuild' = rebuild
          /\ rebuild["operation"].at = "off"
      BY <1>5, <1>23 DEF ReportJob, LockHeld
    <2>2. CASE operation' = Free
      BY <1>6, <2>1, <2>2
    <2>3. CASE operation' = [operation EXCEPT !.done = operation.done \ {s}]
      <3>1. operation'.kind = operation.kind /\ operation'.todo = {}
        BY <2>1, <2>3 DEF Operations
      <3> QED BY <2>1, <3>1 DEF LockHeld
    <2> QED BY <1>23, <2>2, <2>3 DEF ReportJob
  <1>24. CASE Die
    BY <1>24, Parameters DEF Die, rows, disk, LockHeld, Free, NoRebuild
  <1>25. CASE Restart
    <2>1. operation = Free /\ waiting = {}
      BY <1>25 DEF Restart, LockHeld
    <2> QED BY <1>25, <2>1 DEF Restart, rows, disk, LockHeld, Free
  <1> QED BY <1>2, <1>3, <1>7, <1>8, <1>9, <1>10, <1>11, <1>12, <1>13, <1>14, <1>15, <1>16, <1>17, <1>18,
             <1>19, <1>20, <1>21, <1>22, <1>23, <1>24, <1>25 DEF Next, Handle, Ingest

-----------------------------------------------------------------------------
(* Tasks.                                                                    *)

\* Tasks keep their sources where what is in use was so before, or is of sources
\* that there are, and no row of them goes.
LEMMA SourcesStay ==
  ASSUME Inv, \A s \in InUse' : s \in InUse \/ Exists(s),
         \A s \in InUse' : Exists(s) => Exists(s)'
  PROVE  TasksHaveSources'
  BY DEF Inv, TasksHaveSources

LEMMA SourcesStep ==
  ASSUME Inv, Next
  PROVE  TasksHaveSources'
  <1> USE Typed, IdleTyped DEF Inv
  <1>1. ASSUME row' = row, \A s \in InUse' : s \in InUse \/ Exists(s) PROVE TasksHaveSources'
    BY <1>1, SourcesStay DEF Exists
  <1>2. CASE UNCHANGED <<row, waiting, operation>>
    BY <1>1, <1>2 DEF InUse
  <1>3. ASSUME NEW w \in Rebuilder, Rebuild(w) PROVE TasksHaveSources'
    <2>0. UNCHANGED <<row, waiting>>
      BY <1>3, RebuildsElsewhere
    <2>1. CASE operation' = operation
      BY <1>2, <2>0, <2>1
    <2>2. ASSUME w = "operation", NEW ok \in BOOLEAN, RebuildEnds(w, ok), rebuild[w].at # "off"
          PROVE  TasksHaveSources'
      <3>1. CASE operation.kind = "delete"
        BY <1>1, <2>0, <2>2, <3>1 DEF RebuildEnds, InUse, Free
      <3>2. CASE operation.kind # "delete"
        <4>1. operation.kind = "ingest"
          BY <2>2, <3>2 DEF LockHeld
        <4>2. operation'.kind \in Tasks /\ operation'.todo = operation.todo /\ operation'.done = operation.done
          BY <2>2, <3>2 DEF RebuildEnds, Operations
        <4> QED BY <1>1, <2>0, <4>1, <4>2 DEF InUse
      <3> QED BY <3>1, <3>2
    <2> QED BY <1>3, <2>1, <2>2, RebuildsElsewhere
  <1>4. ASSUME NEW w \in Searcher, Search(w) PROVE TasksHaveSources'
    BY <1>2, <1>4, SearchesElsewhere
  \* Steps that put nothing in use.
  <1>5. ASSUME row' = row, waiting' = waiting, operation'.kind \notin Tasks PROVE TasksHaveSources'
    BY <1>1, <1>5 DEF InUse
  <1>6. ASSUME NEW s \in Source, StoreUpload(s) \/ CreateSourceFails(s) \/ CreateJobOfAll(s) \/ RemoveFile(s)
        PROVE  TasksHaveSources'
    <2>1. operation'.kind \notin Tasks
      BY <1>6 DEF StoreUpload, CreateSourceFails, CreateJobOfAll, RemoveFile, Free, Operations
    <2> QED BY <1>5, <1>6, <2>1 DEF StoreUpload, CreateSourceFails, CreateJobOfAll, RemoveFile, rows
  <1>7. CASE ReindexAll \/ RemoveDirectories
    <2>1. operation'.kind \notin Tasks /\ row' = row /\ waiting' = waiting
      BY <1>7 DEF ReindexAll, RemoveDirectories, rows, Free, Tasks, Operations
    <2> QED BY <1>5, <2>1
  <1>8. ASSUME NEW s \in Source, CreateSource(s) PROVE TasksHaveSources'
    <2>1. InUse' = InUse
      BY <1>8 DEF CreateSource, tasks, InUse
    <2> QED BY <1>8, <2>1, SourcesStay DEF CreateSource, Exists
  \* A new task is of sources that there are.
  <1>9. ASSUME NEW S \in SUBSET Source, Enqueue(S), row' = row, operation'.kind \notin Tasks, \A s \in S : Exists(s)
        PROVE  TasksHaveSources'
    BY <1>1, <1>9 DEF Enqueue, InUse
  <1>10. ASSUME NEW s \in Source, CreateJob(s) \/ Reindex(s) PROVE TasksHaveSources'
    <2>1. Enqueue({s}) /\ row' = row /\ Exists(s) /\ operation'.kind \notin Tasks
      BY <1>10 DEF CreateJob, Reindex, Locks, rows, Free
    <2> QED BY <1>9, <2>1
  <1>11. CASE EnqueueAll
    <2>1. Enqueue(operation.done) /\ row' = row /\ operation'.kind \notin Tasks
          /\ \A s \in operation.done : Exists(s)
      BY <1>11 DEF EnqueueAll, rows, Free, LockHeld
    <2> QED BY <1>9, <2>1
  \* Rows that go are of no task.
  <1>12. ASSUME NEW s \in Source, s \notin InUse', InUse' \subseteq InUse,
                \A t \in Source : t # s => row'[t] = row[t]
         PROVE  TasksHaveSources'
    BY <1>12, SourcesStay DEF Exists, InUse
  <1>13. ASSUME NEW s \in Source, CreateJobFails(s) PROVE TasksHaveSources'
    <2>1. waiting' = waiting /\ operation'.kind \notin Tasks /\ s \notin UNION waiting
          /\ \A t \in Source : t # s => row'[t] = row[t]
      BY <1>13 DEF CreateJobFails, LockHeld, Free, Operations
    <2>2. InUse' = UNION waiting
      BY <2>1 DEF InUse
    <2> QED BY <1>12, <2>1, <2>2 DEF InUse
  <1>14. ASSUME NEW s \in Source, DeleteSource(s) PROVE TasksHaveSources'
    <2>1. waiting' = waiting /\ operation'.kind \notin Tasks /\ s \notin InUse
          /\ \A t \in Source : t # s => row'[t] = row[t]
      BY <1>14 DEF DeleteSource, Free
    <2>2. InUse' = UNION waiting
      BY <2>1 DEF InUse
    <2> QED BY <1>12, <2>1, <2>2 DEF InUse
  <1>15. CASE DeleteKnowledgeBase
    <2>1. waiting' = waiting /\ operation'.kind \notin Tasks /\ InUse = {}
      BY <1>15 DEF DeleteKnowledgeBase, Free
    <2>2. InUse' = {}
      BY <2>1 DEF InUse
    <2> QED BY <2>2 DEF TasksHaveSources
  \* A task goes on with what it has.
  <1>16. ASSUME row' = row, waiting' \subseteq waiting, \/ operation' = Free
                \/ /\ operation.kind \in Tasks /\ operation'.todo \subseteq operation.todo
                   /\ operation'.done \subseteq operation.done \cup operation.todo
         PROVE  TasksHaveSources'
    BY <1>1, <1>16 DEF InUse, Free
  <1>17. CASE AllIngested
    BY <1>16, <1>17 DEF AllIngested, rows
  <1>18. ASSUME NEW S \in waiting, BeginTask(S) PROVE TasksHaveSources'
    <2>1. row' = row /\ waiting' = waiting \ {S} /\ operation'.todo = S /\ operation'.done = {}
      BY <1>18 DEF BeginTask, rows, Free
    <2> QED BY <1>1, <2>1 DEF InUse
  <1>19. ASSUME NEW s \in Source, StartJob(s) PROVE TasksHaveSources'
    BY <1>2, <1>19 DEF StartJob, rows
  <1>20. ASSUME NEW s \in Source, ReplaceDocuments(s) \/ IngestionFails(s) PROVE TasksHaveSources'
    <2>1. row' = row /\ waiting' = waiting /\ operation.kind \in Tasks /\ s \in operation.todo
      BY <1>20 DEF ReplaceDocuments, IngestionFails, Ingesting, rows
    <2>2. operation'.todo = operation.todo \ {s} /\ operation'.done \subseteq operation.done \cup {s}
      BY <1>20 DEF ReplaceDocuments, IngestionFails, Operations
    <2> QED BY <1>16, <2>1, <2>2
  <1>21. ASSUME NEW s \in Source, ReportJob(s) PROVE TasksHaveSources'
    <2>1. row' = row /\ waiting' = waiting /\ operation.kind \in Tasks
      BY <1>21 DEF ReportJob, rows
    <2>2. operation' = Free \/ (operation'.todo = operation.todo /\ operation'.done \subseteq operation.done)
      BY <1>21 DEF ReportJob, Operations
    <2> QED BY <1>16, <2>1, <2>2
  <1>22. CASE Die
    BY <1>16, <1>22 DEF Die, rows
  <1>23. CASE Restart
    BY <1>2, <1>23 DEF Restart, rows
  <1> QED BY <1>3, <1>4, <1>6, <1>7, <1>8, <1>10, <1>11, <1>13, <1>14, <1>15, <1>17, <1>18, <1>19, <1>20, <1>21,
             <1>22, <1>23 DEF Next, Handle, Ingest

-----------------------------------------------------------------------------
LEMMA InvInit == Init => Inv
  <1> SUFFICES ASSUME Init PROVE Inv
    OBVIOUS
  <1> USE DEF Init
  <1>1. Shapes
    <2>1. history \in [0..revision -> SUBSET Source]
      <3>1. {0} = 0..0
        OBVIOUS
      <3> QED BY <3>1
    <2>2. TypeOK
      BY IdleTyped, Parameters DEF TypeOK, Operations
    <2> QED BY <2>1, <2>2, IdleTyped DEF Shapes
  <1>2. Indexed
    BY DEF Indexed, OfRevision, NoRebuild
  <1>3. Reported /\ LockHeld
    BY Parameters, IdleTyped DEF Reported, LockHeld, NoRebuild, Free
  <1>4. RowsHaveFiles /\ TasksHaveSources
    BY IdleTyped DEF RowsHaveFiles, TasksHaveSources, InUse, Exists, Free
  <1> QED BY <1>1, <1>2, <1>3, <1>4 DEF Inv

LEMMA InvStep == Inv /\ [Next]_vars => Inv'
  <1> SUFFICES ASSUME Inv, [Next]_vars PROVE Inv'
    OBVIOUS
  <1>1. CASE Next
    <2>1. Shapes'
      BY <1>1, RebuildShapes, SearchShapes, HandlerShapes, OtherShapes DEF Next
    <2> QED BY <1>1, <2>1, IndexedStep, ReportedStep, LockStep, RowsHaveFilesStep, SourcesStep DEF Inv
  <1>2. CASE UNCHANGED vars
    <2>1. UNCHANGED <<alive, revision, row, documents, history, files, state, corpus, cache, job, waiting,
                      operation, rebuild, search, up>>
      BY <1>2 DEF vars, rows, disk, tasks
    <2>2. Shapes' /\ Indexed'
      BY <2>1 DEF Inv, Shapes, TypeOK, Indexed, OfRevision
    <2>3. Reported' /\ LockHeld' /\ RowsHaveFiles' /\ TasksHaveSources'
      BY <2>1 DEF Inv, Reported, Holding, LockHeld, RowsHaveFiles, TasksHaveSources, InUse, Exists
    <2> QED BY <2>2, <2>3 DEF Inv
  <1> QED BY <1>1, <1>2

LEMMA Invariance == Spec => []Inv
  BY InvInit, InvStep, PTL DEF Spec

\* Every variable keeps its type.
THEOREM TypeCorrect == Spec => []TypeOK
  <1>1. Inv => TypeOK
    BY DEF Inv, Shapes
  <1> QED BY <1>1, Invariance, PTL

\* What is cached, recorded or restored is of one revision, for any number of
\* searches that rebuild the index beside the operation that holds the lock.
THEOREM IndexesOfOneRevision == Spec => []IndexesFaithful
  <1>1. Inv => IndexesFaithful
    BY Parameters DEF Inv, Indexed, IndexesFaithful, OfRevision, OfOneRevision
  <1> QED BY <1>1, Invariance, PTL

\* A job reports success when, and as long as, its documents are in the index.
THEOREM SuccessIsIndexed == Spec => []SucceededIndexed
  <1>1. Inv => SucceededIndexed
    BY DEF Inv, Reported, Holding, SucceededIndexed
  <1> QED BY <1>1, Invariance, PTL

\* Rows come after their files and go before them, wherever the process dies.
THEOREM FilesBeforeRows == Spec => []RowsHaveFiles
  <1>1. Inv => RowsHaveFiles
    BY DEF Inv
  <1> QED BY <1>1, Invariance, PTL

\* A task has its sources until it ends, whatever is deleted while it waits for
\* the lock or holds it.
THEOREM SourcesOfTasks == Spec => []TasksHaveSources
  <1>1. Inv => TasksHaveSources
    BY DEF Inv
  <1> QED BY <1>1, Invariance, PTL

=============================================================================
