----------------------------- MODULE Ingestion ------------------------------
(***************************************************************************)
(* The write side of document-index: POST /ingest (usecases/               *)
(* ingest_document.py), the pool of ingestion threads (delivery/worker.py) *)
(* over the job queue of adapters/repo/postgres_document_repo.py, and      *)
(* DELETE /documents/{id} (delivery/rest.py), which share a Postgres       *)
(* database and a Qdrant collection without a common transaction.          *)
(*                                                                         *)
(* One action is one call to a store, with the in-memory work around it:   *)
(* calls of different threads interleave, each is atomic.                  *)
(*  - A document is an id, numbered in the order of new_id(); the row's    *)
(*    name, mime type, size and the columns that update() always writes    *)
(*    with the status (error, extractor, page_count, indexed_at) are not   *)
(*    kept.  Upload files are exactly those of the ids issued so far:      *)
(*    nothing removes them.                                                *)
(*  - The chunks of one pass over a document are one batch <<d, w>>: one   *)
(*    upsert, one transaction, fresh uuids.  A thread passes over a        *)
(*    document at most once, because no job returns to PENDING.            *)
(*  - A thread's in-memory Document needs no variable: at each pc its      *)
(*    status is the one that the next update() writes.                     *)
(***************************************************************************)
EXTENDS DocumentStatus, Naturals

CONSTANTS MaxDocs,     \* bound: uploads whose file is written
          Contents,    \* pairs of a tenant and a content hash
          Workers,     \* ingestion threads (settings.ingest_worker_concurrency)
          Deleters,    \* threads of the web server running DELETE handlers
          StepFaults,  \* extractor, chunker, embedder and Qdrant calls may raise
          DbFaults,    \* Postgres calls may raise, before or after committing
          MaxCrashes   \* bound: times the process dies and is started again

ASSUME IngestionAssumption == /\ MaxDocs \in Nat
                              /\ MaxCrashes \in Nat
                              /\ StepFaults \in BOOLEAN
                              /\ DbFaults \in BOOLEAN

NoContent == "none"
ASSUME ContentAssumption == NoContent \notin Contents

DocIds == 1 .. MaxDocs
NoDoc == 0
Batches == DocIds \X Workers

\* Where an exception reaches the handler of _loop (worker.py:53).
TryPcs == {"load", "markExtracting", "saveExtracted", "markChunking",
           "markEmbedding", "upsert", "saveRows", "markIndexed"}
\* Of those, where the work before the next store call, or Qdrant, may raise.
StepPcs == {"saveExtracted", "markEmbedding", "upsert"}
HandlerPcs == {"failLoad", "markFailed", "failJob", "failJobCommit"}
WorkerPcs == {"idle", "claim", "dead"} \cup TryPcs \cup HandlerPcs

VARIABLES
  status,   \* documents.status, Absent when there is no row
  content,  \* documents.(tenant_id, content_hash)
  jobs,     \* ingestion_jobs.stage, "NONE" when there is no row
  rows,     \* batches in the chunks table
  points,   \* batches in the Qdrant collection
  nextId,   \* the next id that new_id() returns
  upload,   \* the ingest handler between its check and its save
  pc, job,  \* of each worker: its next call, and the document it claimed
  broken,   \* history: batches of the passes that an exception or a crash ended
  delPc, delDoc,  \* of each deleter
  purged,   \* history: documents whose points a DELETE has removed
  crashes   \* history: restarts so far

stores == <<status, content, jobs, rows, points>>
workers == <<pc, job, broken>>
deleters == <<delPc, delDoc, purged>>
vars == <<stores, nextId, upload, workers, deleters, crashes>>

NoUpload == [id |-> NoDoc, content |-> NoContent]
Uploads == {NoUpload} \cup [id : DocIds, content : Contents]

Init == /\ status = [d \in DocIds |-> Absent]
        /\ content = [d \in DocIds |-> NoContent]
        /\ jobs = [d \in DocIds |-> "NONE"]
        /\ rows = {} /\ points = {}
        /\ nextId = 1
        /\ upload = NoUpload
        /\ pc = [w \in Workers |-> "idle"]
        /\ job = [w \in Workers |-> NoDoc]
        /\ broken = {}
        /\ delPc = [x \in Deleters |-> "idle"]
        /\ delDoc = [x \in Deleters |-> NoDoc]
        /\ purged = {}
        /\ crashes = 0

-----------------------------------------------------------------------------
(* POST /ingest.  The handler is a coroutine that calls execute() without  *)
(* awaiting, so the event loop runs one upload at a time.                  *)

\* get_by_hash finds nothing, and the UNIQUE constraint would not object.
ContentFree(h) == \A d \in DocIds : status[d] # Absent => content[d] # h

\* Variant: FAILED documents do not count, so that they can be uploaded again.
IngestCheckIgnoringFailed(h) ==
  /\ upload = NoUpload
  /\ nextId \in DocIds
  /\ \A d \in DocIds : status[d] \in Statuses \ {"FAILED"} => content[d] # h
  /\ upload' = [id |-> nextId, content |-> h]
  /\ nextId' = nextId + 1
  /\ UNCHANGED <<stores, workers, deleters, crashes>>

\* execute() up to the file on disk; a 409 answer changes nothing.
IngestCheck(h) == /\ upload = NoUpload
                  /\ nextId \in DocIds
                  /\ ContentFree(h)
                  /\ upload' = [id |-> nextId, content |-> h]
                  /\ nextId' = nextId + 1
                  /\ UNCHANGED <<stores, workers, deleters, crashes>>

\* repo.save: the document and its PENDING job in one transaction.
IngestSave == /\ upload # NoUpload
              /\ ContentFree(upload.content)
              /\ status' = [status EXCEPT ![upload.id] = "UPLOADED"]
              /\ content' = [content EXCEPT ![upload.id] = upload.content]
              /\ jobs' = [jobs EXCEPT ![upload.id] = "PENDING"]
              /\ upload' = NoUpload
              /\ UNCHANGED <<rows, points, nextId, workers, deleters, crashes>>

\* repo.save raises: a 500 answer, and the file stays without a document.
IngestSaveFails == /\ upload # NoUpload
                   /\ DbFaults \/ ~ContentFree(upload.content)
                   /\ upload' = NoUpload
                   /\ UNCHANGED <<stores, nextId, workers, deleters, crashes>>

-----------------------------------------------------------------------------
(* The ingestion threads.                                                  *)

Goto(w, l) == /\ pc' = [pc EXCEPT ![w] = l]
              /\ job' = IF l \in {"idle", "dead"} THEN [job EXCEPT ![w] = NoDoc] ELSE job
              /\ broken' = IF l = "failLoad" THEN broken \cup {<<job[w], w>>} ELSE broken

\* The exception handler of _loop starts.
Throw(w) == Goto(w, "failLoad")

\* Variant: update() as session.merge(), which inserts the row when it is gone.
WriteMerging(d, s) == status' = [status EXCEPT ![d] = s]

\* An UPDATE ... WHERE id = d, which matches no row once d is deleted.
Write(d, s) == status' = IF status[d] = Absent THEN status ELSE [status EXCEPT ![d] = s]

Pending == {d \in DocIds : jobs[d] = "PENDING"}

\* The SELECT of claim_pending_job.  It locks nothing, so another thread may
\* select the same job before this one commits.  updated_at orders PENDING
\* jobs as they were saved, which is the order of their ids.
ClaimSelect(w) == /\ pc[w] = "idle"
                  /\ \E d \in Pending :
                       /\ \A e \in Pending : d <= e
                       /\ job' = [job EXCEPT ![w] = d]
                  /\ pc' = [pc EXCEPT ![w] = "claim"]
                  /\ UNCHANGED <<stores, nextId, upload, broken, deleters, crashes>>

\* Variant: the stage is a document status, as in the plan's sequence diagram.
ClaimCommitAsStatus(w) ==
  /\ pc[w] = "claim"
  /\ jobs[job[w]] # "NONE"
  /\ jobs' = [jobs EXCEPT ![job[w]] = "EXTRACTING"]
  /\ Goto(w, "load")
  /\ UNCHANGED <<status, content, rows, points, nextId, upload, deleters, crashes>>

\* Its UPDATE by primary key.
ClaimCommit(w) == /\ pc[w] = "claim"
                  /\ jobs[job[w]] # "NONE"
                  /\ jobs' = [jobs EXCEPT ![job[w]] = "PROCESSING"]
                  /\ \/ Goto(w, "load")
                     \/ DbFaults /\ Goto(w, "dead")
                  /\ UNCHANGED <<status, content, rows, points, nextId, upload, deleters, crashes>>

\* The claim raises outside the try: the thread ends.  Either Postgres failed,
\* or the job was deleted since the SELECT (StaleDataError).
ClaimFails(w) == /\ \/ pc[w] \in {"idle", "claim"} /\ DbFaults
                    \/ pc[w] = "claim" /\ jobs[job[w]] = "NONE"
                 /\ Goto(w, "dead")
                 /\ UNCHANGED <<stores, nextId, upload, deleters, crashes>>

\* _process: repo.get, then the transition to EXTRACTING in memory.
Load(w) == /\ pc[w] = "load"
           /\ \/ status[job[w]] = Absent /\ Goto(w, "idle")
              \/ CanTransition(status[job[w]], "EXTRACTING") /\ Goto(w, "markExtracting")
              \/ /\ status[job[w]] \in Statuses
                 /\ ~CanTransition(status[job[w]], "EXTRACTING")
                 /\ Throw(w)
           /\ UNCHANGED <<stores, nextId, upload, deleters, crashes>>

\* One repo.update of _process.  Postgres may commit it and still raise.
Update(w, at, s, next) == /\ pc[w] = at
                          /\ Write(job[w], s)
                          /\ \/ Goto(w, next)
                             \/ DbFaults /\ Throw(w)
                          /\ UNCHANGED <<content, jobs, rows, points, nextId, upload,
                                         deleters, crashes>>

\* Variant: page_count is written with a new Document, whose status is UPLOADED.
SaveExtractedStale(w) == Update(w, "saveExtracted", "UPLOADED", "markChunking")

MarkExtracting(w) == Update(w, "markExtracting", "EXTRACTING", "saveExtracted")
\* After the file is found and extracted: writes page_count, and the status again.
SaveExtracted(w)  == Update(w, "saveExtracted", "EXTRACTING", "markChunking")
MarkChunking(w)   == Update(w, "markChunking", "CHUNKING", "markEmbedding")
\* After the chunker ran.
MarkEmbedding(w)  == Update(w, "markEmbedding", "EMBEDDING", "upsert")
MarkIndexed(w)    == Update(w, "markIndexed", "INDEXED", "idle")

\* Variant: an error of Qdrant is logged and the pass goes on.
UpsertIgnoringErrors(w) ==
  /\ pc[w] = "upsert"
  /\ \/ points' = points \cup {<<job[w], w>>}
     \/ StepFaults /\ UNCHANGED points
  /\ Goto(w, "saveRows")
  /\ UNCHANGED <<status, content, jobs, rows, nextId, upload, deleters, crashes>>

\* The embedder, then upsert_chunks, whose reply may be lost.
Upsert(w) == /\ pc[w] = "upsert"
             /\ points' = points \cup {<<job[w], w>>}
             /\ \/ Goto(w, "saveRows")
                \/ StepFaults /\ Throw(w)
             /\ UNCHANGED <<status, content, jobs, rows, nextId, upload, deleters, crashes>>

\* Variant: an error of save_chunks is logged and the pass goes on.
SaveRowsIgnoringErrors(w) ==
  /\ pc[w] = "saveRows"
  /\ \/ status[job[w]] # Absent /\ rows' = rows \cup {<<job[w], w>>}
     \/ (DbFaults \/ status[job[w]] = Absent) /\ UNCHANGED rows
  /\ Goto(w, "markIndexed")
  /\ UNCHANGED <<status, content, jobs, points, nextId, upload, deleters, crashes>>

\* Variant: save_chunks without its commit.
SaveRowsUncommitted(w) == /\ pc[w] = "saveRows"
                          /\ Goto(w, "markIndexed")
                          /\ UNCHANGED <<stores, nextId, upload, deleters, crashes>>

\* save_chunks: the foreign key refuses chunks of a deleted document; a batch
\* without chunks (a document without text) gives it nothing to refuse.
SaveRows(w) == /\ pc[w] = "saveRows"
               /\ \/ /\ status[job[w]] # Absent
                     /\ rows' = rows \cup {<<job[w], w>>}
                     /\ \/ Goto(w, "markIndexed")
                        \/ DbFaults /\ Throw(w)
                  \/ /\ status[job[w]] = Absent
                     /\ Throw(w) \/ Goto(w, "markIndexed")
                     /\ UNCHANGED rows
               /\ UNCHANGED <<status, content, jobs, points, nextId, upload, deleters, crashes>>

\* Variant: _process runs outside the try of _loop.
RaiseUncaught(w) == /\ StepFaults
                    /\ pc[w] \in StepPcs
                    /\ Goto(w, "dead")
                    /\ UNCHANGED <<stores, nextId, upload, deleters, crashes>>

\* A step of _process raises before it changed a store.
Raise(w) == /\ \/ StepFaults /\ pc[w] \in StepPcs
               \/ DbFaults /\ pc[w] \in TryPcs
            /\ Throw(w)
            /\ UNCHANGED <<stores, nextId, upload, deleters, crashes>>

\* Variant: doc.status = FAILED without transition_to's test.
FailLoadUnguarded(w) ==
  /\ pc[w] = "failLoad"
  /\ \/ status[job[w]] = Absent /\ Goto(w, "failJob")
     \/ status[job[w]] # Absent /\ Goto(w, "markFailed")
  /\ UNCHANGED <<stores, nextId, upload, deleters, crashes>>

\* Variant: the handler survives transition_to and still marks the job.
FailLoadMarkingJob(w) ==
  /\ pc[w] = "failLoad"
  /\ \/ status[job[w]] \in {Absent} \cup Settled /\ Goto(w, "failJob")
     \/ CanTransition(status[job[w]], "FAILED") /\ Goto(w, "markFailed")
  /\ UNCHANGED <<stores, nextId, upload, deleters, crashes>>

\* Variant: the handler marks the job and forgets the document.
FailLoadJobOnly(w) == /\ pc[w] = "failLoad"
                      /\ Goto(w, "failJob")
                      /\ UNCHANGED <<stores, nextId, upload, deleters, crashes>>

\* The handler reads the document again and moves it to FAILED in memory; from
\* INDEXED or FAILED that raises, and nothing above the handler catches it.
FailLoad(w) == /\ pc[w] = "failLoad"
               /\ \/ status[job[w]] = Absent /\ Goto(w, "failJob")
                  \/ CanTransition(status[job[w]], "FAILED") /\ Goto(w, "markFailed")
                  \/ status[job[w]] \in Settled /\ Goto(w, "dead")
               /\ UNCHANGED <<stores, nextId, upload, deleters, crashes>>

MarkFailed(w) == /\ pc[w] = "markFailed"
                 /\ Write(job[w], "FAILED")
                 /\ \/ Goto(w, "failJob")
                    \/ DbFaults /\ Goto(w, "dead")
                 /\ UNCHANGED <<content, jobs, rows, points, nextId, upload, deleters, crashes>>

\* mark_job_failed: a SELECT that may find nothing, then an UPDATE that raises
\* StaleDataError if the job was deleted in between.
FailJob(w) == /\ pc[w] = "failJob"
              /\ \/ jobs[job[w]] = "NONE" /\ Goto(w, "idle")
                 \/ jobs[job[w]] # "NONE" /\ Goto(w, "failJobCommit")
              /\ UNCHANGED <<stores, nextId, upload, deleters, crashes>>

FailJobCommit(w) == /\ pc[w] = "failJobCommit"
                    /\ \/ /\ jobs[job[w]] # "NONE"
                          /\ jobs' = [jobs EXCEPT ![job[w]] = "FAILED"]
                          /\ \/ Goto(w, "idle")
                             \/ DbFaults /\ Goto(w, "dead")
                       \/ /\ jobs[job[w]] = "NONE"
                          /\ Goto(w, "dead")
                          /\ UNCHANGED jobs
                    /\ UNCHANGED <<status, content, rows, points, nextId, upload,
                                   deleters, crashes>>

\* Postgres fails inside the handler: the thread ends.
HandlerFails(w) == /\ DbFaults
                   /\ pc[w] \in HandlerPcs
                   /\ Goto(w, "dead")
                   /\ UNCHANGED <<stores, nextId, upload, deleters, crashes>>

-----------------------------------------------------------------------------
(* DELETE /documents/{id}: a synchronous handler, run by a thread of the   *)
(* web server's pool.  A 404 answer changes nothing.                       *)

DelGoto(x, l) == /\ delPc' = [delPc EXCEPT ![x] = l]
                 /\ delDoc' = IF l = "idle" THEN [delDoc EXCEPT ![x] = NoDoc] ELSE delDoc

DeleteLoad(x, d) == /\ delPc[x] = "idle"
                    /\ status[d] # Absent
                    /\ delPc' = [delPc EXCEPT ![x] = "points"]
                    /\ delDoc' = [delDoc EXCEPT ![x] = d]
                    /\ UNCHANGED <<stores, nextId, upload, workers, purged, crashes>>

\* vector_index.delete_by_document, whose reply may be lost.
DeletePoints(x) == /\ delPc[x] = "points"
                   /\ points' = {b \in points : b[1] # delDoc[x]}
                   /\ purged' = purged \cup {delDoc[x]}
                   /\ \/ DelGoto(x, "row")
                      \/ StepFaults /\ DelGoto(x, "idle")
                   /\ UNCHANGED <<status, content, jobs, rows, nextId, upload, workers, crashes>>

\* repo.delete: chunks and jobs go with the document (ON DELETE CASCADE).
DeleteRow(x) == /\ delPc[x] = "row"
                /\ status' = [status EXCEPT ![delDoc[x]] = Absent]
                /\ content' = [content EXCEPT ![delDoc[x]] = NoContent]
                /\ jobs' = [jobs EXCEPT ![delDoc[x]] = "NONE"]
                /\ rows' = {b \in rows : b[1] # delDoc[x]}
                /\ DelGoto(x, "idle")
                /\ UNCHANGED <<points, nextId, upload, workers, purged, crashes>>

\* The call raises before it changed a store: a 500 answer, half a deletion.
DeleteFails(x) == /\ \/ delPc[x] = "points" /\ StepFaults
                     \/ delPc[x] = "row" /\ DbFaults
                  /\ DelGoto(x, "idle")
                  /\ UNCHANGED <<stores, nextId, upload, workers, purged, crashes>>

-----------------------------------------------------------------------------
\* The process dies and starts again with new threads.  start() does not look
\* at jobs that an earlier process left PROCESSING.
Crash == /\ crashes < MaxCrashes
         /\ crashes' = crashes + 1
         /\ upload' = NoUpload
         /\ pc' = [w \in Workers |-> "idle"]
         /\ job' = [w \in Workers |-> NoDoc]
         /\ broken' = broken \cup ({<<job[w], w>> : w \in Workers} \cap Batches)
         /\ delPc' = [x \in Deleters |-> "idle"]
         /\ delDoc' = [x \in Deleters |-> NoDoc]
         /\ UNCHANGED <<stores, nextId, purged>>

\* What a thread does while everything it calls answers.
WorkerStep(w) == \/ ClaimSelect(w) \/ ClaimCommit(w) \/ Load(w)
                 \/ MarkExtracting(w) \/ SaveExtracted(w) \/ MarkChunking(w)
                 \/ MarkEmbedding(w) \/ Upsert(w) \/ SaveRows(w) \/ MarkIndexed(w)
                 \/ FailLoad(w) \/ MarkFailed(w) \/ FailJob(w) \/ FailJobCommit(w)

WorkerFault(w) == ClaimFails(w) \/ Raise(w) \/ HandlerFails(w)

DeleteStep(x) == DeletePoints(x) \/ DeleteRow(x)

IngestNext == (\E h \in Contents : IngestCheck(h)) \/ IngestSave \/ IngestSaveFails
WorkerNext == \E w \in Workers : WorkerStep(w) \/ WorkerFault(w)
DeleteNext == \E x \in Deleters : \/ \E d \in DocIds : DeleteLoad(x, d)
                                  \/ DeleteStep(x)
                                  \/ DeleteFails(x)

Next == IngestNext \/ WorkerNext \/ DeleteNext \/ Crash

Spec == Init /\ [][Next]_vars

\* Threads keep running: a started upload or deletion finishes, and an idle
\* worker polls every second.  Nothing obliges a client to send a request.
Fairness == /\ WF_vars(IngestSave)
            /\ \A w \in Workers : WF_vars(WorkerStep(w) \/ ClaimFails(w))
            /\ \A x \in Deleters : WF_vars(DeleteStep(x))

FairSpec == Spec /\ Fairness

-----------------------------------------------------------------------------
(* Properties.                                                             *)

TypeOK == /\ status \in [DocIds -> Statuses \cup {Absent}]
          /\ content \in [DocIds -> Contents \cup {NoContent}]
          /\ jobs \in [DocIds -> {"NONE", "PENDING", "PROCESSING", "FAILED"}]
          /\ rows \subseteq Batches
          /\ points \subseteq Batches
          /\ nextId \in 1 .. MaxDocs + 1
          /\ upload \in Uploads
          /\ pc \in [Workers -> WorkerPcs]
          /\ job \in [Workers -> DocIds \cup {NoDoc}]
          /\ broken \subseteq Batches
          /\ delPc \in [Deleters -> {"idle", "points", "row"}]
          /\ delDoc \in [Deleters -> DocIds \cup {NoDoc}]
          /\ purged \subseteq DocIds
          /\ crashes \in 0 .. MaxCrashes

\* The duplicate check of execute() is still true when the document is saved,
\* so a deployment with one event loop never runs into UNIQUE (tenant_id,
\* content_hash) and never leaves a file behind on that account.
CheckStaysValid == upload # NoUpload => ContentFree(upload.content)

\* What Postgres and Qdrant hold of one pass differs only where it may.  Chunk
\* rows always have their vectors (upsert_chunks comes before save_chunks);
\* vectors without rows belong to a pass that is about to save them, or to one
\* that an exception or a crash ended; and no vector outlives its document.
\* Excepted are the documents that a DELETE has removed from Qdrant before it
\* asks Postgres (rest.py:146-147): their rows may remain, or late vectors.
StoresAgree ==
  \A d \in DocIds \ purged, w \in Workers :
     /\ <<d, w>> \in rows => <<d, w>> \in points
     /\ <<d, w>> \in points => \/ <<d, w>> \in rows
                               \/ job[w] = d /\ pc[w] = "saveRows"
                               \/ <<d, w>> \in broken
     /\ status[d] = Absent => <<d, w>> \notin points

\* A document shown as INDEXED has all the chunks of a finished pass in
\* Postgres (none, if its text is empty), whichever threads worked on it and
\* whatever failed.
IndexedHasRows ==
  \A d \in DocIds : status[d] = "INDEXED" => \E w \in Workers : <<d, w>> \in rows

\* While Postgres answers and the process lives, a document that is not settled
\* is queued or in the hands of a thread that will move it on, even when
\* deletions end threads and two threads claim one job.
Responsible == {"claim", "failLoad", "markFailed"} \cup TryPcs
NothingAbandoned ==
  ~DbFaults /\ crashes = 0 =>
    \A d \in DocIds : status[d] \in Statuses \ Settled =>
       \/ jobs[d] = "PENDING"
       \/ \E w \in Workers : job[w] = d /\ pc[w] \in Responsible

\* A deleted document stays deleted: late writes of a thread that still works
\* on it change no row.  So does an id whose registration failed.
NoResurrection ==
  [][\A d \in DocIds : status[d] = Absent /\ d < nextId /\ d # upload.id
        => status'[d] = Absent]_vars

\* With one thread, a job marked FAILED is one whose document is shown as
\* FAILED: list_documents and the job table tell the same story.
JobAgrees == \A d \in DocIds : jobs[d] = "FAILED" => status[d] = "FAILED"

\* With one thread, the service implements the document lifecycle.
life == [d \in DocIds |-> IF status[d] # Absent THEN status[d]
                          ELSE IF d < nextId /\ d # upload.id THEN "GONE" ELSE "NEW"]
Contract == INSTANCE DocumentLifecycle WITH Ids <- DocIds, life <- life, owner <- content
LifecycleContract == Contract!LifeSpec

\* Every registered document becomes INDEXED or FAILED and remains so.
EveryUploadSettles ==
  \A d \in DocIds : status[d] = "UPLOADED" ~> [](status[d] \in Settled)

\* Threads that claim one job can end each other, but not all of them: a
\* thread ends only because another one settled its document.
PoolSurvives == \E w \in Workers : pc[w] # "dead"

\* The statuses stored in Postgres follow _VALID_TRANSITIONS.
StatusFollowsTable ==
  [][\A d \in DocIds : status[d] \in Statuses /\ status'[d] \in Statuses
        /\ status'[d] # status[d] => CanTransition(status[d], status'[d])]_vars

\* When nobody works on a deleted document any more, Qdrant holds none of it.
DeleteRemovesPoints ==
  \A d \in DocIds : /\ status[d] = Absent
                    /\ \A w \in Workers : job[w] # d
                    /\ \A x \in Deleters : delDoc[x] # d
                    => \A w \in Workers : <<d, w>> \notin points
=============================================================================
