--------------------------- MODULE StudioKnowledge ---------------------------
(***************************************************************************)
(* One knowledge base of Studio (src/agentic_rl_forge/studio: api.py,      *)
(* repository.py, ingestion.py, indexes.py).  Handlers and ingestion tasks *)
(* that change it hold the operation lock; searches do not, and rebuild    *)
(* the index themselves when it is not of the current revision.  Rows are  *)
(* in one SQLite database behind a lock of its own; uploads and the corpus *)
(* of the index are files; the index in use is a cache in memory.          *)
(*                                                                         *)
(* A source stands for its file, its row and its documents; extraction is  *)
(* deterministic, so a digest of documents is the set of their sources.    *)
(* The status of a source is only shown, no code depends on it: it is left *)
(* out, with names, settings, ranking and index generations.               *)
(***************************************************************************)
EXTENDS Integers, FiniteSets

CONSTANTS
  Source,
  Searcher,
  MaxRevision,   \* bound on the revisions of the knowledge base
  None

Rebuilder == Searcher \cup {"operation"}
\* An ingestion task ingests its sources and reports its jobs.
Tasks == {"ingest", "report", "blame"}
Index == [revision : 0..MaxRevision, documents : SUBSET Source]

ASSUME StudioKnowledgeAssumption ==
  "operation" \notin Searcher /\ MaxRevision \in Nat /\ None \notin Index

VARIABLES
  alive,      \* the row of the knowledge base
  revision,
  row,        \* the row of each source, "absent" before and "deleted" after
  documents,  \* the sources with rows in documents
  job,        \* the status of the last job of each source, or "none"
  files,      \* uploads on disk
  state,      \* index_states: the revision and the digest, or None
  corpus,     \* corpus.jsonl: the sources it has documents of, or None
  cache,      \* the index in memory, or None
  waiting,    \* tasks that wait for the operation lock, as sets of sources
  operation,  \* who holds it
  rebuild,    \* the rebuilds in progress
  search,     \* where each search is, with the revision it has read
  up,         \* Studio is serving
  history     \* the documents of each revision so far

rows == <<alive, revision, row, documents, history>>
disk == <<files, state, corpus>>
tasks == <<job, waiting, operation>>
vars == <<rows, disk, cache, tasks, rebuild, search, up>>

TypeOK ==
  /\ alive \in BOOLEAN /\ up \in BOOLEAN
  /\ revision \in 0..MaxRevision
  /\ row \in [Source -> {"absent", "there", "deleted"}]
  /\ documents \subseteq Source /\ files \subseteq Source
  /\ job \in [Source -> {"none", "queued", "running", "succeeded", "failed"}]
  /\ state \in Index \cup {None}
  /\ corpus \in {None} \cup SUBSET Source
  /\ cache \in Index \cup {None}
  /\ waiting \subseteq SUBSET Source
  /\ operation.kind \in {"none", "upload", "undo", "delete", "drop", "reindex"} \cup Tasks

Free == [kind |-> "none", todo |-> {}, done |-> {}]
NoRebuild == [at |-> "off", tries |-> 0, input |-> None]
NoSearch == [at |-> "idle", revision |-> 0]

Init ==
  /\ alive = TRUE /\ revision = 0
  /\ row = [s \in Source |-> "absent"]
  /\ documents = {} /\ files = {}
  /\ job = [s \in Source |-> "none"]
  /\ state = None /\ corpus = None /\ cache = None
  /\ waiting = {} /\ operation = Free
  /\ rebuild = [w \in Rebuilder |-> NoRebuild]
  /\ search = [w \in Searcher |-> NoSearch]
  /\ up = TRUE
  /\ history = [r \in {0} |-> {}]

Exists(s) == row[s] = "there"
InUse == (UNION waiting) \cup (IF operation.kind \in Tasks
                             THEN operation.todo \cup operation.done ELSE {})
Locks == up /\ operation = Free

\* The revision changes in the transaction that changes the documents.
Revise(docs) ==
  /\ revision < MaxRevision                                       \* bound
  /\ documents' = docs
  /\ revision' = revision + 1
  /\ history' = [r \in 0..revision + 1 |-> IF r = revision + 1 THEN docs ELSE history[r]]

-----------------------------------------------------------------------------
(* upload_source: the file, the row, the job *)

StoreUpload(s) ==
  /\ Locks /\ alive /\ row[s] = "absent" /\ s \notin files
  /\ files' = files \cup {s}
  /\ operation' = [Free EXCEPT !.kind = "upload", !.todo = {s}]
  /\ UNCHANGED <<rows, state, corpus, cache, job, waiting, rebuild, search, up>>

CreateSource(s) ==
  /\ operation.kind = "upload" /\ operation.todo = {s} /\ row[s] = "absent"
  /\ row' = [row EXCEPT ![s] = "there"]
  /\ UNCHANGED <<alive, revision, documents, history, disk, cache, tasks, rebuild,
                 search, up>>

\* The row is refused: the file goes again.
CreateSourceFails(s) ==
  /\ operation.kind = "upload" /\ operation.todo = {s} /\ row[s] = "absent"
  /\ files' = files \ {s}
  /\ operation' = Free
  /\ UNCHANGED <<rows, state, corpus, cache, job, waiting, rebuild, search, up>>

Queue(s) == job' = [job EXCEPT ![s] = "queued"]
Enqueue(S) == waiting' = waiting \cup {S}

CreateJob(s) ==
  /\ operation.kind = "upload" /\ operation.todo = {s} /\ Exists(s)
  /\ Queue(s) /\ Enqueue({s})
  /\ operation' = Free
  /\ UNCHANGED <<rows, disk, cache, rebuild, search, up>>

\* The job is refused: the source goes again, and then its file, unless the
\* database refuses that, too.
CreateJobFails(s) ==
  /\ operation.kind = "upload" /\ operation.todo = {s} /\ Exists(s)
  /\ \/ /\ row' = [row EXCEPT ![s] = "deleted"]
        /\ Revise(documents \ {s})
        /\ operation' = [operation EXCEPT !.kind = "undo"]
     \/ operation' = Free /\ UNCHANGED <<revision, row, documents, history>>
  /\ UNCHANGED <<alive, disk, cache, job, waiting, rebuild, search, up>>

-----------------------------------------------------------------------------
(* reindex_source, reindex_knowledge_base, delete_source, delete_knowledge_base *)

Reindex(s) ==
  /\ Locks /\ Exists(s) /\ s \notin InUse
  /\ Queue(s) /\ Enqueue({s})
  /\ UNCHANGED <<rows, disk, cache, operation, rebuild, search, up>>

ReindexAll ==
  /\ Locks /\ InUse = {}
  /\ \E s \in Source : Exists(s)
  /\ operation' = [Free EXCEPT !.kind = "reindex", !.todo = {s \in Source : Exists(s)}]
  /\ UNCHANGED <<rows, disk, cache, job, waiting, rebuild, search, up>>

\* One job after the other, and then one task for all of them; a job that is
\* refused leaves those before it queued, without a task.
CreateJobOfAll(s) ==
  /\ operation.kind = "reindex" /\ s \in operation.todo
  /\ \/ /\ Queue(s)
        /\ operation' = [operation EXCEPT !.todo = @ \ {s}, !.done = @ \cup {s}]
     \/ operation' = Free /\ UNCHANGED job
  /\ UNCHANGED <<rows, disk, cache, waiting, rebuild, search, up>>

EnqueueAll ==
  /\ operation.kind = "reindex" /\ operation.todo = {}
  /\ Enqueue(operation.done)
  /\ operation' = Free
  /\ UNCHANGED <<rows, disk, cache, job, rebuild, search, up>>

\* Mutant: a source with a task that waits is deleted.
DeleteSourceInUse(s) ==
  /\ Locks /\ Exists(s)
  /\ row' = [row EXCEPT ![s] = "deleted"]
  /\ job' = [job EXCEPT ![s] = "none"]
  /\ Revise(documents \ {s})
  /\ operation' = [Free EXCEPT !.kind = "delete", !.todo = {s}]
  /\ UNCHANGED <<alive, disk, cache, waiting, rebuild, search, up>>

\* Mutant: the file goes first, the row in a later step.
DeleteFileFirst(s) ==
  /\ Locks /\ Exists(s) /\ s \notin InUse
  /\ files' = files \ {s}
  /\ UNCHANGED <<rows, state, corpus, cache, tasks, rebuild, search, up>>

\* The row goes with its documents and its jobs.
DeleteSource(s) ==
  /\ Locks /\ Exists(s) /\ s \notin InUse
  /\ row' = [row EXCEPT ![s] = "deleted"]
  /\ job' = [job EXCEPT ![s] = "none"]
  /\ Revise(documents \ {s})
  /\ operation' = [Free EXCEPT !.kind = "delete", !.todo = {s}]
  /\ UNCHANGED <<alive, disk, cache, waiting, rebuild, search, up>>

\* The handler of a deletion goes on to rebuild the index.  (A file that cannot
\* be removed stays behind, without a row.)
RemoveFile(s) ==
  /\ operation.kind \in {"undo", "delete"} /\ operation.todo = {s}
  /\ files' = files \ {s}
  /\ IF operation.kind = "undo"
     THEN operation' = Free /\ UNCHANGED rebuild
     ELSE /\ operation' = [operation EXCEPT !.todo = {}]
          /\ rebuild' = [rebuild EXCEPT !["operation"].at = "input"]
  /\ UNCHANGED <<rows, state, corpus, cache, job, waiting, search, up>>

DeleteKnowledgeBase ==
  /\ Locks /\ alive /\ InUse = {}
  /\ alive' = FALSE
  /\ row' = [s \in Source |-> IF Exists(s) THEN "deleted" ELSE row[s]]
  /\ job' = [s \in Source |-> "none"]
  /\ documents' = {}
  /\ state' = None
  /\ operation' = [Free EXCEPT !.kind = "drop"]
  /\ UNCHANGED <<revision, history, files, corpus, cache, waiting, rebuild, search, up>>

\* The files of the sources, then the cached index, then its directory.
RemoveDirectories ==
  /\ operation.kind = "drop"
  /\ files' = {} /\ cache' = None /\ corpus' = None
  /\ operation' = Free
  /\ UNCHANGED <<rows, state, job, waiting, rebuild, search, up>>

-----------------------------------------------------------------------------
(* StudioJobRunner._run *)

BeginTask(S) ==
  /\ Locks /\ S \in waiting
  /\ waiting' = waiting \ {S}
  /\ operation' = [Free EXCEPT !.kind = "ingest", !.todo = S]
  /\ UNCHANGED <<rows, disk, cache, job, rebuild, search, up>>

Ingesting(s) == operation.kind = "ingest" /\ s \in operation.todo

\* One source after the other.  A task has its sources (TasksHaveSources), so that
\* it never fails for the want of one.
StartJob(s) ==
  /\ Ingesting(s) /\ Exists(s)
  /\ \A t \in operation.todo : job[t] # "running"
  /\ job' = [job EXCEPT ![s] = "running"]
  /\ UNCHANGED <<rows, disk, cache, waiting, operation, rebuild, search, up>>

ReplaceDocuments(s) ==
  /\ Ingesting(s) /\ job[s] = "running"
  /\ Revise(documents \cup {s})
  /\ operation' = [operation EXCEPT !.todo = @ \ {s}, !.done = @ \cup {s}]
  /\ UNCHANGED <<alive, row, disk, cache, job, waiting, rebuild, search, up>>

\* The file cannot be read, or a call of the database fails; documents of an
\* earlier ingestion stay.  Recording that the job failed may fail in its turn,
\* which is passed over.
IngestionFails(s) ==
  /\ Ingesting(s)
  /\ \A t \in operation.todo \ {s} : job[t] # "running"
  /\ job' \in {job, [job EXCEPT ![s] = "failed"]}
  /\ operation' = [operation EXCEPT !.todo = @ \ {s}]
  /\ UNCHANGED <<rows, disk, cache, waiting, rebuild, search, up>>

AllIngested ==
  /\ operation.kind = "ingest" /\ operation.todo = {} /\ rebuild["operation"].at = "off"
  /\ IF operation.done = {}
     THEN operation' = Free /\ UNCHANGED rebuild
     ELSE /\ rebuild' = [rebuild EXCEPT !["operation"].at = "input"]
          /\ UNCHANGED operation
  /\ UNCHANGED <<rows, disk, cache, job, waiting, search, up>>

\* After its rebuild a task updates its jobs one after the other.  An update that
\* fails ends a task that reports success, and is passed over by one that does
\* not: either way the job stays as it is.
ReportJob(s) ==
  /\ operation.kind \in {"report", "blame"} /\ s \in operation.done
  /\ LET rest == operation.done \ {s}
         next == IF rest = {} THEN Free ELSE [operation EXCEPT !.done = rest]
     IN  \/ /\ job' = [job EXCEPT ![s] = IF operation.kind = "report" THEN "succeeded" ELSE "failed"]
            /\ operation' = next
         \/ /\ operation' = IF operation.kind = "report" THEN Free ELSE next
            /\ UNCHANGED job
  /\ UNCHANGED <<rows, disk, cache, waiting, rebuild, search, up>>

-----------------------------------------------------------------------------
(* StudioIndexManager.rebuild, of the operation or of a search *)

At(w, l) == up /\ rebuild[w].at = l

\* A rebuild has ended.  A deletion is over, with nothing in memory when its
\* rebuild failed; a task reports its jobs; a search takes what is cached by then:
\* the index of another rebuild, perhaps, or nothing, which is a KeyError.
RebuildEnds(w, ok) ==
  /\ rebuild' = [rebuild EXCEPT ![w] = NoRebuild]
  /\ cache' = IF ok THEN rebuild[w].input
              ELSE IF w = "operation" /\ operation.kind = "delete" THEN None ELSE cache
  /\ IF w = "operation"
     THEN /\ operation' = IF operation.kind = "delete" THEN Free
                          ELSE [operation EXCEPT !.kind = IF ok THEN "report" ELSE "blame"]
          /\ UNCHANGED search
     ELSE search' = [search EXCEPT ![w] = NoSearch] /\ UNCHANGED operation

\* index_input: one hold of the database's lock.
IndexInput(w) ==
  /\ At(w, "input")
  /\ IF alive
     THEN /\ rebuild' = [rebuild EXCEPT ![w].at = "publish",
                           ![w].input = [revision |-> revision, documents |-> documents]]
          /\ UNCHANGED <<cache, operation, search>>
     ELSE RebuildEnds(w, FALSE)
  /\ UNCHANGED <<rows, disk, job, waiting, up>>

\* Files and the database may fail under a rebuild, too.
RebuildFails(w) ==
  /\ up /\ rebuild[w].at \in {"input", "publish", "save"}
  /\ RebuildEnds(w, FALSE)
  /\ UNCHANGED <<rows, disk, job, waiting, up>>

PublishCorpus(w) ==
  /\ At(w, "publish")
  /\ corpus' = rebuild[w].input.documents
  /\ rebuild' = [rebuild EXCEPT ![w].at = "save"]
  /\ UNCHANGED <<rows, files, state, cache, tasks, search, up>>

\* Mutant: the state is saved whatever the revision is now.
SaveAnyIndexState(w) ==
  /\ At(w, "save")
  /\ state' = rebuild[w].input
  /\ rebuild' = [rebuild EXCEPT ![w].at = "cache"]
  /\ UNCHANGED <<rows, files, corpus, cache, tasks, search, up>>

\* save_index_state refuses an index of another revision; the third refusal is
\* an error.
SaveIndexState(w) ==
  /\ At(w, "save")
  /\ IF alive /\ revision = rebuild[w].input.revision
     THEN /\ state' = rebuild[w].input
          /\ rebuild' = [rebuild EXCEPT ![w].at = "cache"]
          /\ UNCHANGED <<cache, operation, search>>
     ELSE /\ IF rebuild[w].tries = 2
             THEN RebuildEnds(w, FALSE)
             ELSE /\ rebuild' = [rebuild EXCEPT ![w].at = "input", ![w].tries = @ + 1]
                  /\ UNCHANGED <<cache, operation, search>>
          /\ UNCHANGED state
  /\ UNCHANGED <<rows, files, corpus, job, waiting, up>>

CacheIndex(w) ==
  /\ At(w, "cache")
  /\ RebuildEnds(w, TRUE)
  /\ UNCHANGED <<rows, disk, job, waiting, up>>

-----------------------------------------------------------------------------
(* search: _current and _restore *)

SearchAt(w, l) == up /\ search[w].at = l
SearchTo(w, l) == search' = [search EXCEPT ![w] = [NoSearch EXCEPT !.at = l]]
SearchEnds(w) == search' = [search EXCEPT ![w] = NoSearch]

BeginSearch(w) ==
  /\ SearchAt(w, "idle") /\ alive
  /\ search' = [search EXCEPT ![w] = [at |-> "cached", revision |-> revision]]
  /\ UNCHANGED <<rows, disk, cache, tasks, rebuild, up>>

LookInCache(w) ==
  /\ SearchAt(w, "cached")
  /\ IF cache # None /\ cache.revision = search[w].revision
     THEN SearchEnds(w)
     ELSE search' = [search EXCEPT ![w].at = "restore"]
  /\ UNCHANGED <<rows, disk, cache, tasks, rebuild, up>>

\* The index state must be of the revision; then the corpus must have its digest,
\* and an index without documents needs no corpus.
ReadState(w) ==
  /\ SearchAt(w, "restore")
  /\ IF state # None /\ state.revision = search[w].revision
     THEN /\ rebuild' = [rebuild EXCEPT ![w].input = state]
          /\ SearchTo(w, IF state.documents = {} THEN "restored" ELSE "corpus")
     ELSE /\ rebuild' = [rebuild EXCEPT ![w].at = "input"]
          /\ SearchTo(w, "rebuild")
  /\ UNCHANGED <<rows, disk, cache, tasks, up>>

\* Mutant: the corpus is taken without its digest.
ReadAnyCorpus(w) ==
  /\ SearchAt(w, "corpus")
  /\ IF corpus # None
     THEN /\ SearchTo(w, "restored")
          /\ rebuild' = [rebuild EXCEPT ![w].input.documents = corpus]
     ELSE /\ rebuild' = [rebuild EXCEPT ![w] = [NoRebuild EXCEPT !.at = "input"]]
          /\ SearchTo(w, "rebuild")
  /\ UNCHANGED <<rows, disk, cache, tasks, up>>

ReadCorpus(w) ==
  /\ SearchAt(w, "corpus")
  /\ IF corpus = rebuild[w].input.documents
     THEN SearchTo(w, "restored") /\ UNCHANGED rebuild
     ELSE /\ rebuild' = [rebuild EXCEPT ![w] = [NoRebuild EXCEPT !.at = "input"]]
          /\ SearchTo(w, "rebuild")
  /\ UNCHANGED <<rows, disk, cache, tasks, up>>

CacheRestored(w) ==
  /\ SearchAt(w, "restored")
  /\ cache' = rebuild[w].input
  /\ SearchEnds(w)
  /\ rebuild' = [rebuild EXCEPT ![w] = NoRebuild]
  /\ UNCHANGED <<rows, disk, tasks, up>>

-----------------------------------------------------------------------------
\* Death of the process, and recover_interrupted_work before it serves again.
Die ==
  /\ up
  /\ up' = FALSE
  /\ cache' = None /\ waiting' = {} /\ operation' = Free
  /\ rebuild' = [w \in Rebuilder |-> NoRebuild]
  /\ search' = [w \in Searcher |-> NoSearch]
  /\ UNCHANGED <<rows, disk, job>>

Restart ==
  /\ ~up
  /\ up' = TRUE
  /\ job' = [s \in Source |-> IF job[s] \in {"queued", "running"} THEN "failed" ELSE job[s]]
  /\ UNCHANGED <<rows, disk, cache, waiting, operation, rebuild, search>>

Handle(s) ==
  \/ StoreUpload(s) \/ CreateSource(s) \/ CreateSourceFails(s) \/ CreateJob(s)
  \/ CreateJobFails(s) \/ Reindex(s) \/ CreateJobOfAll(s) \/ DeleteSource(s) \/ RemoveFile(s)

Ingest ==
  \/ AllIngested
  \/ \E S \in waiting : BeginTask(S)
  \/ \E s \in Source :
       StartJob(s) \/ ReplaceDocuments(s) \/ IngestionFails(s) \/ ReportJob(s)

Rebuild(w) ==
  IndexInput(w) \/ PublishCorpus(w) \/ SaveIndexState(w) \/ CacheIndex(w) \/ RebuildFails(w)

Search(w) ==
  \/ BeginSearch(w) \/ LookInCache(w) \/ ReadState(w) \/ ReadCorpus(w)
  \/ CacheRestored(w)

Next ==
  \/ ReindexAll \/ EnqueueAll \/ DeleteKnowledgeBase \/ RemoveDirectories \/ Ingest \/ Die \/ Restart
  \/ \E s \in Source : Handle(s)
  \/ \E w \in Rebuilder : Rebuild(w)
  \/ \E w \in Searcher : Search(w)

Spec == Init /\ [][Next]_vars

-----------------------------------------------------------------------------
(* Properties *)

\* An index is of one revision: what is cached for searches, recorded in the
\* database or restored from the corpus file has exactly the documents of the
\* revision it claims, whichever rebuilds overtook each other on that file.
OfOneRevision(i) == i # None => i.documents = history[i.revision]
IndexesFaithful ==
  /\ OfOneRevision(cache) /\ OfOneRevision(state)
  /\ \A w \in Searcher : search[w].at = "restored" => OfOneRevision(rebuild[w].input)

\* A job that succeeded is in the index: its documents were indexed, and no
\* rebuild of another caller has put an older state in their place.
SucceededIndexed ==
  \A s \in Source : job[s] = "succeeded" => state # None /\ s \in state.documents

\* A row has its file, at every point where the process may die: rows come after
\* files and go before them.
RowsHaveFiles == \A s \in Source : Exists(s) => s \in files

\* A task has the sources it was made for from the time it is enqueued until it
\* ends, long after their handlers: no deletion, of a source or of the knowledge
\* base, comes in between, although the task itself waits for the lock.
TasksHaveSources == \A s \in InUse : Exists(s)

\* While Studio serves, a job that looks unfinished has a task, or a handler, that
\* will finish it.  Not so: when its database refuses the record of a failure, or
\* one of the jobs of reindex_knowledge_base, jobs stay queued or running until
\* recover_interrupted_work of the next start fails them.
WorkOwned ==
  up => \A s \in Source :
    job[s] \in {"queued", "running"} =>
      s \in InUse \/ (operation.kind = "reindex" /\ s \in operation.done)
=============================================================================
