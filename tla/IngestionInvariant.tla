------------------------- MODULE IngestionInvariant -------------------------
(***************************************************************************)
(* The inductive invariant behind the safety properties of Ingestion: what *)
(* the threads rely on between two calls, stated part by part.             *)
(***************************************************************************)
EXTENDS Ingestion

\* A thread or a deleter holds a document exactly while it is busy.
Busy == /\ \A w \in Workers : pc[w] \in {"idle", "dead"} <=> job[w] = NoDoc
        /\ \A x \in Deleters : delPc[x] = "idle" <=> delDoc[x] = NoDoc

TypeInv == TypeOK /\ Busy

\* Nothing refers to an id before its document is saved.
FreshIds ==
  /\ upload.id < nextId
  /\ \A d \in DocIds : d >= nextId \/ d = upload.id =>
       /\ status[d] = Absent
       /\ \A w \in Workers : job[w] # d /\ <<d, w>> \notin points
       /\ \A x \in Deleters : delDoc[x] # d

\* save and delete write a document together with all that depends on it.
OneTransaction ==
  \A d \in DocIds : /\ jobs[d] = "NONE" <=> status[d] = Absent
                    /\ content[d] = NoContent <=> status[d] = Absent
                    /\ status[d] = Absent => \A w \in Workers : <<d, w>> \notin rows

\* A row disappears only after Qdrant was asked to forget the document.
PurgedFirst == /\ \A x \in Deleters : delPc[x] = "row" => delDoc[x] \in purged
               /\ \A w \in Workers : job[w] # NoDoc =>
                    status[job[w]] # Absent \/ job[w] \in purged

\* What the earlier steps of a pass have left behind.
PassProgress ==
  \A w \in Workers :
    /\ pc[w] \in TryPcs \cup HandlerPcs => jobs[job[w]] # "PENDING"
    /\ pc[w] = "saveRows" => <<job[w], w>> \in points \/ job[w] \in purged
    /\ pc[w] = "markIndexed" => <<job[w], w>> \in rows \/ status[job[w]] = Absent

\* The strengthening that makes the five properties inductive together.
IngestionInv == /\ TypeInv
                /\ FreshIds
                /\ OneTransaction
                /\ PurgedFirst
                /\ PassProgress
                /\ CheckStaysValid
                /\ StoresAgree
                /\ IndexedHasRows
                /\ NothingAbandoned

-----------------------------------------------------------------------------
\* A job waits only while its document is as save() left it.
PendingUntouched == \A d \in DocIds : jobs[d] = "PENDING" => status[d] = "UPLOADED"

\* With one thread, the thread's idea of the status is the stored one: this is
\* what a second thread on the same job breaks.
Expected == [ claim          |-> {"UPLOADED"},
              load           |-> {"UPLOADED"},
              markExtracting |-> {"UPLOADED"},
              saveExtracted  |-> {"EXTRACTING"},
              markChunking   |-> {"EXTRACTING"},
              markEmbedding  |-> {"CHUNKING"},
              upsert         |-> {"EMBEDDING"},
              saveRows       |-> {"EMBEDDING"},
              markIndexed    |-> {"EMBEDDING"},
              failLoad       |-> Statuses \ {"FAILED"},
              markFailed     |-> Statuses \ Settled,
              failJob        |-> {"FAILED"},
              failJobCommit  |-> {"FAILED"} ]

StatusAsExpected ==
  \A w \in Workers : job[w] # NoDoc =>
     /\ status[job[w]] \in {Absent} \cup Expected[pc[w]]
     /\ pc[w] # "claim" => jobs[job[w]] \in {"PROCESSING", "NONE"}

SoloInv == PendingUntouched /\ StatusAsExpected /\ JobAgrees

\* Without deletions and faults of Postgres, some thread is not about to find
\* that another one has settled the document it holds.
Doomed(w) == pc[w] \in Responsible /\ status[job[w]] \in Settled
Survivor == \E w \in Workers : pc[w] # "dead" /\ ~Doomed(w)

PoolInv == PendingUntouched /\ purged = {} /\ Survivor
=============================================================================
