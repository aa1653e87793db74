----------------------------- MODULE Ingestion ------------------------------
(***************************************************************************)
(* DoclingService: documents are converted by an external service, their   *)
(* renderings written to disk, catalogued in one transaction, scoped in    *)
(* another and chunked, one by one or as the files of a directory in a     *)
(* background run.  Everything between two awaits is one step.             *)
(***************************************************************************)
EXTENDS Naturals, FiniteSets, Sequences

CONSTANTS
    Sources,
    Contents,       \* what a conversion may return
    Tasks,          \* bound: ingests in flight at once
    RunIds,
    Concurrency,    \* INGEST_CONCURRENCY
    MaxIds          \* bound: document ids ever generated

ASSUME IngestAssumption ==
    /\ Concurrency \in Nat \ {0} /\ MaxIds \in Nat /\ IsFiniteSet(Sources)
    /\ "none" \notin Sources \union Contents \union RunIds

VARIABLES
    catalogue,      \* worldtree_documents, by source: id and checksum
    disk,           \* what the directory of an id holds
    renderings,     \* document_renderings: the checksum kept for an id
    generated,      \* ids ever generated
    runs,           \* ingest_runs, and the work their process still has
    tasks,
    suspect         \* history: sources whose file and row were not written by
                    \* one undisturbed ingest

ivars == <<catalogue, disk, renderings, generated, runs, tasks, suspect>>

Ids == 1 .. MaxIds
NoTask == [pc |-> "idle", source |-> "none", run |-> "none", content |-> "none", id |-> 0, alone |-> TRUE]
NoRun == [status |-> "none", total |-> 0, work |-> <<>>, results |-> <<>>, driven |-> FALSE]

Catalogued == DOMAIN catalogue
Busy(t) == tasks[t].pc # "idle"
TasksOf(r) == {t \in Tasks : tasks[t].run = r}

IngestInit ==
    /\ catalogue = [s \in {} |-> [id |-> 0, checksum |-> "none"]]
    /\ disk = [i \in Ids |-> "none"]
    /\ renderings = [i \in Ids |-> "none"]
    /\ generated = 0
    /\ runs = [r \in RunIds |-> NoRun]
    /\ tasks = [t \in Tasks |-> NoTask]
    /\ suspect = {}

------------------------------------------------------------------------------
(***************************************************************************)
(* Starting                                                                *)
(***************************************************************************)

\* Task t begins to ingest s, beside whatever else does.
Begins(t, s, r) ==
    LET others == {u \in Tasks : tasks[u].source = s}
    IN  tasks' = [u \in Tasks |->
            IF u = t THEN [NoTask EXCEPT !.pc = "converting", !.source = s, !.run = r, !.alone = others = {}]
            ELSE IF u \in others THEN [tasks[u] EXCEPT !.alone = FALSE]
            ELSE tasks[u]]

\* POST /ingest/url
IngestUrl(t, s) ==
    /\ ~Busy(t)
    /\ Begins(t, s, "none")
    /\ UNCHANGED <<catalogue, disk, renderings, generated, runs, suspect>>

\* POST /ingest/directory: the run is recorded and its files are left to the pool.
StartDirectoryIngest(r) ==
    /\ runs[r].status = "none"
    /\ \E files \in SUBSET Sources :
          \E work \in [1 .. Cardinality(files) -> files] :
             /\ \A i, j \in DOMAIN work : work[i] = work[j] => i = j
             /\ runs' = [runs EXCEPT ![r] =
                   [NoRun EXCEPT !.status = "running", !.total = Cardinality(files),
                                 !.work = work, !.driven = TRUE]]
    /\ UNCHANGED <<catalogue, disk, renderings, generated, tasks, suspect>>

\* mapPool: a free worker takes the next file.
NextFile(t, r) ==
    /\ ~Busy(t) /\ runs[r].work # <<>> /\ Cardinality(TasksOf(r)) < Concurrency
    /\ Begins(t, Head(runs[r].work), r)
    /\ runs' = [runs EXCEPT ![r].work = Tail(@)]
    /\ UNCHANGED <<catalogue, disk, renderings, generated, suspect>>

------------------------------------------------------------------------------
(***************************************************************************)
(* One document: convertSource, persistDocument, maybeChunk                *)
(***************************************************************************)

GoesTo(t, pc) == tasks' = [tasks EXCEPT ![t].pc = pc]

\* The ingest is over; a run notes how.
Ends(t, status) ==
    LET r == tasks[t].run
    IN  /\ tasks' = [tasks EXCEPT ![t] = NoTask]
        /\ runs' = IF r = "none" THEN runs
                   ELSE [runs EXCEPT ![r].results =
                           Append(@, [source |-> tasks[t].source, status |-> status])]

Converted(t) ==
    /\ tasks[t].pc = "converting"
    /\ \E c \in Contents : tasks' = [tasks EXCEPT ![t].pc = "looking", ![t].content = c]
    /\ UNCHANGED <<catalogue, disk, renderings, generated, runs, suspect>>

\* Nothing was changed when the conversion or the look-up fails.
ConvertFails(t) ==
    /\ tasks[t].pc \in {"converting", "looking"}
    /\ Ends(t, "failed")
    /\ UNCHANGED <<catalogue, disk, renderings, generated, suspect>>

\* A known source keeps its id, a new one is given one.
LookedUp(t) ==
    /\ tasks[t].pc = "looking"
    /\ LET s == tasks[t].source
       IN  IF s \in Catalogued
           THEN /\ tasks' = [tasks EXCEPT ![t].pc = "writing", ![t].id = catalogue[s].id]
                /\ UNCHANGED generated
           ELSE /\ generated < MaxIds /\ generated' = generated + 1
                /\ tasks' = [tasks EXCEPT ![t].pc = "writing", ![t].id = generated + 1]
    /\ UNCHANGED <<catalogue, disk, renderings, runs, suspect>>

FilesKept(t) ==    \* mutant
    /\ tasks[t].pc = "writing"
    /\ disk' = [disk EXCEPT ![tasks[t].id] = IF @ = "none" THEN tasks[t].content ELSE @]
    /\ GoesTo(t, "storing")
    /\ UNCHANGED <<catalogue, renderings, generated, runs, suspect>>

FilesWritten(t) ==
    /\ tasks[t].pc = "writing"
    /\ disk' = [disk EXCEPT ![tasks[t].id] = tasks[t].content]
    /\ GoesTo(t, "storing")
    /\ UNCHANGED <<catalogue, renderings, generated, runs, suspect>>

\* The transaction: the row keeps the id it has, and the renderings are those of
\* the id the files were written for.
Stored(t) ==
    LET x == tasks[t]
    IN  /\ x.pc = "storing"
        /\ x.source \in Catalogued => catalogue[x.source].id = x.id
        /\ catalogue' = [s \in Catalogued \union {x.source} |->
              IF s = x.source THEN [id |-> x.id, checksum |-> x.content] ELSE catalogue[s]]
        /\ renderings' = [renderings EXCEPT ![x.id] = x.content]
        /\ suspect' = IF x.alone THEN suspect \ {x.source} ELSE suspect \union {x.source}
        /\ GoesTo(t, "scoping")
        /\ UNCHANGED <<disk, generated, runs>>

\* The transaction is refused: by the database, or because another ingest has
\* catalogued the source under another id and the renderings refer to no row.
\* A write that fails may have left a file too.
StoreFails(t) ==
    /\ tasks[t].pc \in {"writing", "storing"}
    /\ suspect' = suspect \union {tasks[t].source}
    /\ disk' \in {disk, [disk EXCEPT ![tasks[t].id] = tasks[t].content]}
    /\ Ends(t, "failed")
    /\ UNCHANGED <<catalogue, renderings, generated>>

\* The scopes are stored in a transaction of their own.
Scoped(t) ==
    /\ tasks[t].pc = "scoping"
    /\ GoesTo(t, "chunking")
    /\ UNCHANGED <<catalogue, disk, renderings, generated, runs, suspect>>

\* They are not: the ingest counts as failed, and the document is catalogued.
ScopeFails(t) ==
    /\ tasks[t].pc = "scoping"
    /\ Ends(t, "failed")
    /\ UNCHANGED <<catalogue, disk, renderings, generated, suspect>>

\* maybeChunk: a failure to chunk or embed is only logged, so the ingest ends
\* well whatever becomes of the chunks.
Chunked(t) ==
    /\ tasks[t].pc = "chunking"
    /\ Ends(t, "ingested")
    /\ UNCHANGED <<catalogue, disk, renderings, generated, suspect>>

------------------------------------------------------------------------------
(***************************************************************************)
(* The end of a run                                                        *)
(***************************************************************************)

AllDone(r) == runs[r].work = <<>> /\ TasksOf(r) = {}

\* completeRun; when its UPDATE is refused failRun follows, and may be too.
RunEnds(r) ==
    /\ runs[r].driven /\ AllDone(r)
    /\ \E status \in {"completed", "failed", "running"} :
          runs' = [runs EXCEPT ![r].status = status, ![r].driven = FALSE]
    /\ UNCHANGED <<catalogue, disk, renderings, generated, tasks, suspect>>

\* The process ends: files and rows stay as they are, rows of runs stay running.
IngestLost ==
    /\ tasks' = [t \in Tasks |-> NoTask]
    /\ runs' = [r \in RunIds |-> [runs[r] EXCEPT !.work = <<>>, !.driven = FALSE]]
    /\ suspect' = suspect \union {tasks[t].source : t \in {u \in Tasks : tasks[u].pc = "storing"}}
    /\ UNCHANGED <<catalogue, disk, renderings, generated>>

IngestStep(t) ==
    \/ Converted(t) \/ ConvertFails(t) \/ LookedUp(t) \/ FilesWritten(t) \/ Stored(t) \/ StoreFails(t)
    \/ Scoped(t) \/ ScopeFails(t) \/ Chunked(t)

IngestRequest ==
    \/ \E t \in Tasks : \/ IngestStep(t)
                        \/ \E s \in Sources : IngestUrl(t, s)
                        \/ \E r \in RunIds : NextFile(t, r)
    \/ \E r \in RunIds : StartDirectoryIngest(r) \/ RunEnds(r)

------------------------------------------------------------------------------

\* What the catalogue says of a source is what the disk holds, except between
\* the write of its files and of its row, and after ingests of one source that
\* overlapped or failed or were cut off between the two.
CatalogueIsOnDisk ==
    \A s \in Catalogued \ suspect :
        (\A t \in Tasks : ~(tasks[t].source = s /\ tasks[t].pc = "storing")) =>
            LET id == catalogue[s].id
            IN  disk[id] = catalogue[s].checksum /\ renderings[id] = catalogue[s].checksum
==============================================================================
