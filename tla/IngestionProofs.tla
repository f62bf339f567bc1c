-------------------------- MODULE IngestionProofs ---------------------------
(***************************************************************************)
(* Theorems about Ingestion, for every number of documents, contents,      *)
(* threads, deleters and restarts, and with or without faults.             *)
(***************************************************************************)
EXTENDS IngestionInvariant, TLAPS

USE IngestionAssumption, ContentAssumption
USE DEF NoDoc, DocIds, Absent, NoContent

\* Where Goto leads a busy thread, the types and Busy are kept.
LEMMA GotoTyped ==
  ASSUME TypeInv, NEW w \in Workers, NEW l \in WorkerPcs, Goto(w, l),
         job[w] \in DocIds \/ l \in {"idle", "dead"}
  PROVE  /\ pc' \in [Workers -> WorkerPcs]
         /\ job' \in [Workers -> DocIds \cup {NoDoc}]
         /\ \A v \in Workers : pc'[v] \in {"idle", "dead"} <=> job'[v] = NoDoc
         /\ broken' \subseteq Batches
<1>1. /\ pc' \in [Workers -> WorkerPcs]
      /\ job' \in [Workers -> DocIds \cup {NoDoc}]
      /\ \A v \in Workers : pc'[v] \in {"idle", "dead"} <=> job'[v] = NoDoc
  BY DEF TypeInv, TypeOK, Busy, Goto
<1>2. broken' \subseteq Batches
  BY DEF TypeInv, TypeOK, Goto, Batches
<1> QED BY <1>1, <1>2

LEMMA DelGotoTyped ==
  ASSUME TypeInv, NEW x \in Deleters, NEW l \in {"idle", "row"}, DelGoto(x, l),
         delDoc[x] \in DocIds
  PROVE  /\ delPc' \in [Deleters -> {"idle", "points", "row"}]
         /\ delDoc' \in [Deleters -> DocIds \cup {NoDoc}]
         /\ \A y \in Deleters : delPc'[y] = "idle" <=> delDoc'[y] = NoDoc
  BY DEF TypeInv, TypeOK, Busy, DelGoto

LEMMA WriteTyped ==
  ASSUME TypeInv, NEW d, NEW s \in Statuses, Write(d, s)
  PROVE  status' \in [DocIds -> Statuses \cup {Absent}]
  BY DEF TypeInv, TypeOK, Write

LEMMA TypeInvInit == Init => TypeInv
  BY DEF Init, TypeInv, TypeOK, Busy, Statuses, Batches, Uploads, NoUpload, WorkerPcs

LEMMA TypeInvNext == TypeInv /\ [Next]_vars => TypeInv'
<1> SUFFICES ASSUME TypeInv, [Next]_vars PROVE TypeInv'
  OBVIOUS
<1> USE DEF TypeInv, TypeOK
<1> DEFINE RestTyped == /\ status' \in [DocIds -> Statuses \cup {Absent}]
                        /\ content' \in [DocIds -> Contents \cup {NoContent}]
                        /\ jobs' \in [DocIds -> {"NONE", "PENDING", "PROCESSING", "FAILED"}]
                        /\ rows' \subseteq Batches
                        /\ points' \subseteq Batches
                        /\ nextId' \in 1 .. MaxDocs + 1
                        /\ upload' \in Uploads
                        /\ purged' \subseteq DocIds
                        /\ crashes' \in 0 .. MaxCrashes
           WorkersTyped == /\ pc' \in [Workers -> WorkerPcs]
                           /\ job' \in [Workers -> DocIds \cup {NoDoc}]
                           /\ \A v \in Workers : pc'[v] \in {"idle", "dead"} <=> job'[v] = NoDoc
                           /\ broken' \subseteq Batches
           DeletersTyped == /\ delPc' \in [Deleters -> {"idle", "points", "row"}]
                            /\ delDoc' \in [Deleters -> DocIds \cup {NoDoc}]
                            /\ \A y \in Deleters : delPc'[y] = "idle" <=> delDoc'[y] = NoDoc
<1>q. SUFFICES RestTyped /\ WorkersTyped /\ DeletersTyped
  BY DEF Busy
<1>1. CASE UNCHANGED vars
  BY <1>1 DEF vars, stores, workers, deleters, Busy
<1>2. CASE IngestNext
  <2> UNCHANGED <<workers, deleters, crashes>>
    BY <1>2 DEF IngestNext, IngestCheck, IngestSave, IngestSaveFails
  <2>1. CASE \E h \in Contents : IngestCheck(h)
    BY <2>1 DEF IngestCheck, stores, workers, deleters, Uploads, Busy
  <2>2. CASE IngestSave
    BY <2>2 DEF IngestSave, workers, deleters, Uploads, NoUpload, Statuses, Busy
  <2>3. CASE IngestSaveFails
    BY <2>3 DEF IngestSaveFails, stores, workers, deleters, Uploads, Busy
  <2> QED BY <1>2, <2>1, <2>2, <2>3 DEF IngestNext
<1>3. CASE WorkerNext
  <2> PICK w \in Workers : WorkerStep(w) \/ WorkerFault(w)
    BY <1>3 DEF WorkerNext
  <2>0. UNCHANGED <<nextId, upload, deleters, crashes>>
    BY DEF WorkerStep, WorkerFault, ClaimSelect, ClaimCommit, Load, MarkExtracting,
           SaveExtracted, MarkChunking, MarkEmbedding, Upsert, SaveRows, MarkIndexed, FailLoad,
           MarkFailed, FailJob, FailJobCommit, ClaimFails, Raise, HandlerFails, Update
  <2>d. DeletersTyped
    BY <2>0 DEF deleters, Busy
  <2>w. WorkersTyped
    <3>1. CASE ClaimSelect(w)
      BY <3>1 DEF ClaimSelect, Pending, WorkerPcs, Busy
    <3>2. CASE ClaimFails(w)
      <4>1. Goto(w, "dead")
        BY <3>2 DEF ClaimFails
      <4> QED BY <4>1, GotoTyped DEF WorkerPcs
    <3>3. CASE ~ClaimSelect(w) /\ ~ClaimFails(w)
      <4>1. pc[w] \notin {"idle", "dead"}
        BY <3>3 DEF WorkerStep, WorkerFault, ClaimCommit, Load, MarkExtracting,
           SaveExtracted, MarkChunking, MarkEmbedding, Upsert, SaveRows, MarkIndexed, FailLoad,
           MarkFailed, FailJob, FailJobCommit, Raise, HandlerFails, Update, TryPcs, StepPcs, HandlerPcs
      <4> DEFINE Targets == {"idle", "dead", "load", "markExtracting", "saveExtracted",
                             "markChunking", "markEmbedding", "upsert", "saveRows",
                             "markIndexed", "failLoad", "markFailed", "failJob",
                             "failJobCommit"}
      <4> Targets \subseteq WorkerPcs
        BY DEF WorkerPcs, TryPcs, HandlerPcs
      <4>2. PICK l \in Targets : Goto(w, l)
        <5>1. CASE ClaimCommit(w) \/ Load(w)
          BY <5>1 DEF ClaimCommit, Load, Throw
        <5>2. CASE MarkExtracting(w) \/ SaveExtracted(w) \/ MarkChunking(w)
                   \/ MarkEmbedding(w) \/ MarkIndexed(w)
          BY <5>2 DEF MarkExtracting, SaveExtracted, MarkChunking, MarkEmbedding, MarkIndexed,
                      Update, Throw
        <5>3. CASE Upsert(w) \/ SaveRows(w) \/ Raise(w) \/ HandlerFails(w)
          BY <5>3 DEF Upsert, SaveRows, Raise, HandlerFails, Throw
        <5>4. CASE FailLoad(w) \/ MarkFailed(w) \/ FailJob(w) \/ FailJobCommit(w)
          BY <5>4 DEF FailLoad, MarkFailed, FailJob, FailJobCommit
        <5> QED BY <3>3, <5>1, <5>2, <5>3, <5>4 DEF WorkerStep, WorkerFault
      <4>3. job[w] \in DocIds
        BY <4>1 DEF Busy
      <4> QED BY <4>2, <4>3, GotoTyped
    <3> QED BY <3>1, <3>2, <3>3
  <2>r. RestTyped
    <3>1. CASE ClaimSelect(w) \/ ClaimFails(w) \/ Load(w) \/ FailLoad(w) \/ FailJob(w)
               \/ Raise(w) \/ HandlerFails(w)
      BY <2>0, <3>1 DEF ClaimSelect, ClaimFails, Load, FailLoad, FailJob, Raise, HandlerFails,
                        stores, deleters
    <3>2. CASE ClaimCommit(w) \/ FailJobCommit(w)
      BY <2>0, <3>2 DEF ClaimCommit, FailJobCommit, deleters
    <3>3. CASE \/ MarkExtracting(w) \/ SaveExtracted(w) \/ MarkChunking(w)
               \/ MarkEmbedding(w) \/ MarkIndexed(w) \/ MarkFailed(w)
      <4>1. PICK s \in Statuses : Write(job[w], s)
        BY <3>3 DEF MarkExtracting, SaveExtracted, MarkChunking, MarkEmbedding, MarkIndexed,
                    MarkFailed, Update, Statuses
      <4>2. UNCHANGED <<content, jobs, rows, points, deleters>>
        BY <3>3 DEF MarkExtracting, SaveExtracted, MarkChunking, MarkEmbedding, MarkIndexed,
                    MarkFailed, Update
      <4> QED BY <2>0, <4>1, <4>2, WriteTyped DEF deleters
    <3>4. CASE Upsert(w)
      <4>1. <<job[w], w>> \in Batches
        BY <3>4 DEF Upsert, Busy, Batches
      <4> QED BY <2>0, <3>4, <4>1 DEF Upsert, deleters
    <3>5. CASE SaveRows(w)
      <4>1. <<job[w], w>> \in Batches
        BY <3>5 DEF SaveRows, Busy, Batches
      <4> QED BY <2>0, <3>5, <4>1 DEF SaveRows, deleters
    <3> QED BY <3>1, <3>2, <3>3, <3>4, <3>5 DEF WorkerStep, WorkerFault
  <2> QED BY <2>d, <2>w, <2>r
<1>4. CASE DeleteNext
  <2> PICK x \in Deleters : (\E d \in DocIds : DeleteLoad(x, d)) \/ DeleteStep(x) \/ DeleteFails(x)
    BY <1>4 DEF DeleteNext
  <2>1. CASE \E d \in DocIds : DeleteLoad(x, d)
    BY <2>1 DEF DeleteLoad, stores, workers, Busy
  <2>2. CASE DeletePoints(x)
    <3>1. delDoc[x] \in DocIds
      BY <2>2 DEF DeletePoints, Busy
    <3>2. DeletersTyped
      BY <2>2, <3>1, DelGotoTyped DEF DeletePoints
    <3> QED BY <2>2, <3>1, <3>2 DEF DeletePoints, workers, Busy
  <2>3. CASE DeleteRow(x)
    <3>1. delDoc[x] \in DocIds
      BY <2>3 DEF DeleteRow, Busy
    <3>2. DeletersTyped
      BY <2>3, <3>1, DelGotoTyped DEF DeleteRow
    <3> QED BY <2>3, <3>1, <3>2 DEF DeleteRow, workers, Busy
  <2>4. CASE DeleteFails(x)
    <3>1. delDoc[x] \in DocIds
      BY <2>4 DEF DeleteFails, Busy
    <3>2. DeletersTyped
      BY <2>4, <3>1, DelGotoTyped DEF DeleteFails
    <3> QED BY <2>4, <3>2 DEF DeleteFails, stores, workers, Busy
  <2> QED BY <2>1, <2>2, <2>3, <2>4 DEF DeleteStep
<1>5. CASE Crash
  BY <1>5 DEF Crash, stores, Uploads, WorkerPcs
<1> QED BY <1>1, <1>2, <1>3, <1>4, <1>5 DEF Next

\* Every variable keeps the type that the tables, the collection and the
\* threads give it.
THEOREM TypeCorrect == Spec => []TypeOK
<1>1. TypeInv => TypeOK
  BY DEF TypeInv
<1> QED BY TypeInvInit, TypeInvNext, <1>1, PTL DEF Spec
-----------------------------------------------------------------------------
(* The invariant.  First, what the helpers of the threads do.              *)

LEMMA GotoEffect ==
  ASSUME TypeInv, NEW w \in Workers, NEW l \in WorkerPcs, Goto(w, l)
  PROVE  /\ pc'[w] = l
         /\ job'[w] = IF l \in {"idle", "dead"} THEN NoDoc ELSE job[w]
         /\ \A v \in Workers \ {w} : pc'[v] = pc[v] /\ job'[v] = job[v]
  BY DEF TypeInv, TypeOK, Goto

LEMMA HeldTyped ==
  ASSUME TypeInv, NEW w \in Workers, pc[w] \notin {"idle", "dead"}
  PROVE  job[w] \in DocIds
  BY DEF TypeInv, TypeOK, Busy

\* update() neither creates nor removes a row.
LEMMA WriteEffect ==
  ASSUME TypeInv, NEW d \in DocIds, NEW s \in Statuses, Write(d, s)
  PROVE  /\ \A e \in DocIds : status'[e] = Absent <=> status[e] = Absent
         /\ \A e \in DocIds \ {d} : status'[e] = status[e]
         /\ status[d] # Absent => status'[d] = s
  BY DEF TypeInv, TypeOK, Write, Statuses

\* The parts of the invariant that no thread can disturb by going on with the
\* document it holds, whatever it writes about it.
LEMMA ThreadKeeps ==
  ASSUME IngestionInv, NEW w \in Workers, NEW l \in WorkerPcs, Goto(w, l),
         \A d \in DocIds : status'[d] = Absent <=> status[d] = Absent,
         points' \subseteq points \cup {<<job[w], w>>},
         UNCHANGED <<content, nextId, upload, deleters>>
  PROVE  FreshIds' /\ PurgedFirst' /\ CheckStaysValid'
<1> USE DEF IngestionInv
<1>1. \A v \in Workers : job'[v] = job[v] \/ job'[v] = NoDoc
  BY GotoEffect
<1>2. FreshIds'
  BY <1>1 DEF FreshIds, deleters, TypeInv, TypeOK
<1>3. PurgedFirst'
  BY <1>1 DEF PurgedFirst, deleters, TypeInv, TypeOK
<1>4. CheckStaysValid'
  BY DEF CheckStaysValid, ContentFree
<1> QED BY <1>2, <1>3, <1>4

\* Nor does one that leaves points and rows alone upset their agreement, if
\* between its two writes it only moves to its exception handler.
LEMMA StoresKept ==
  ASSUME IngestionInv, NEW w \in Workers, NEW l \in WorkerPcs, Goto(w, l),
         pc[w] # "saveRows" \/ l = "failLoad",
         \A d \in DocIds : status'[d] = Absent <=> status[d] = Absent,
         UNCHANGED <<rows, points, deleters>>
  PROVE  StoresAgree'
<1> SUFFICES ASSUME NEW d \in DocIds \ purged, NEW v \in Workers
             PROVE  /\ <<d, v>> \in rows => <<d, v>> \in points
                    /\ <<d, v>> \in points => \/ <<d, v>> \in rows
                                              \/ job'[v] = d /\ pc'[v] = "saveRows"
                                              \/ <<d, v>> \in broken'
                    /\ status'[d] = Absent => <<d, v>> \notin points
  BY DEF StoresAgree, deleters
<1>1. /\ <<d, v>> \in rows => <<d, v>> \in points
      /\ status[d] = Absent => <<d, v>> \notin points
      /\ <<d, v>> \in points => \/ <<d, v>> \in rows
                                \/ job[v] = d /\ pc[v] = "saveRows"
                                \/ <<d, v>> \in broken
  BY DEF IngestionInv, StoresAgree
<1>2. broken \subseteq broken' /\ (l = "failLoad" => <<job[w], w>> \in broken')
  BY DEF Goto
<1>3. v # w => job'[v] = job[v] /\ pc'[v] = pc[v]
  BY GotoEffect DEF IngestionInv
<1> QED BY <1>1, <1>2, <1>3

\* A thread that moves on without writing anything.
Quiet(w) == ClaimFails(w) \/ Load(w) \/ Raise(w) \/ FailLoad(w) \/ FailJob(w) \/ HandlerFails(w)

LEMMA QuietKeeps ==
  ASSUME IngestionInv, TypeInv', NEW w \in Workers, Quiet(w)
  PROVE  IngestionInv'
<1> USE DEF IngestionInv
<1> UNCHANGED <<stores, nextId, upload, deleters, crashes>>
  BY DEF Quiet, ClaimFails, Load, Raise, FailLoad, FailJob, HandlerFails
<1> DEFINE Targets == {"idle", "dead", "markExtracting", "failLoad", "markFailed",
                       "failJob", "failJobCommit"}
<1>1. PICK l \in Targets : Goto(w, l)
  BY DEF Quiet, ClaimFails, Load, Raise, FailLoad, FailJob, HandlerFails, Throw
<1>2. Targets \subseteq WorkerPcs
  BY DEF WorkerPcs, TryPcs, HandlerPcs
<1>t. \A k \in Targets : Goto(w, k) => pc'[w] = k
  BY <1>2, GotoEffect
<1>3. FreshIds' /\ PurgedFirst' /\ CheckStaysValid'
  BY <1>1, <1>2, ThreadKeeps DEF stores
<1>4. OneTransaction' /\ IndexedHasRows'
  BY DEF OneTransaction, IndexedHasRows, stores
<1>s. StoresAgree'
  <2>1. pc[w] # "saveRows" \/ l = "failLoad"
    <3>1. CASE Raise(w)
      BY <1>1, <1>t, <3>1, GotoEffect DEF Raise, Throw, WorkerPcs, HandlerPcs
    <3>2. CASE ~Raise(w)
      BY <3>2 DEF Quiet, ClaimFails, Load, FailLoad, FailJob, HandlerFails, HandlerPcs
    <3> QED BY <3>1, <3>2
  <2> QED BY <1>1, <1>2, <2>1, StoresKept DEF stores
<1>5. PassProgress'
  <2>1. pc[w] \in TryPcs \cup HandlerPcs \/ l = "dead"
    BY <1>1, <1>t
       DEF Quiet, ClaimFails, Load, Raise, FailLoad, FailJob, HandlerFails, TryPcs, StepPcs, HandlerPcs
  <2> QED BY <1>1, <1>2, <2>1, GotoEffect DEF PassProgress, stores, deleters, TryPcs, HandlerPcs
\* Whoever leaves Responsible does so because the document is gone or settled.
<1>6. NothingAbandoned'
  <2> SUFFICES ASSUME ~DbFaults, crashes = 0, NEW d \in DocIds, status[d] \in Statuses \ Settled,
                      jobs[d] # "PENDING"
               PROVE  \E v \in Workers : job'[v] = d /\ pc'[v] \in Responsible
    BY DEF NothingAbandoned, stores
  <2>1. PICK v \in Workers : job[v] = d /\ pc[v] \in Responsible
    BY DEF NothingAbandoned
  <2>2. CASE v # w
    BY <1>1, <1>2, <2>1, <2>2, GotoEffect
  <2>3. CASE v = w
    <3>1. l \in Responsible \ {"idle", "dead"}
      <4>1. status[d] # Absent /\ status[d] \notin Settled /\ jobs[d] # "NONE"
        BY DEF Statuses, OneTransaction
      <4>2. pc[w] \notin {"failJob", "failJobCommit", "idle"}
        BY <2>1, <2>3 DEF Responsible, TryPcs
      <4>3. CASE Load(w)
        BY <1>1, <1>t, <2>1, <2>3, <4>1, <4>3 DEF Load, Throw, Responsible, TryPcs
      <4>4. CASE Raise(w)
        BY <1>1, <1>t, <4>4 DEF Raise, Throw, Responsible
      <4>5. CASE FailLoad(w)
        BY <1>1, <1>t, <2>1, <2>3, <4>1, <4>5 DEF FailLoad, Responsible
      <4> QED BY <2>1, <2>3, <4>1, <4>2, <4>3, <4>4, <4>5
              DEF Quiet, ClaimFails, FailJob, HandlerFails
    <3> QED BY <1>1, <1>2, <2>1, <2>3, <3>1, GotoEffect
  <2> QED BY <2>2, <2>3
<1> QED BY <1>3, <1>4, <1>s, <1>5, <1>6

\* A thread writes a status and moves on: to a call where it still answers for
\* the document, unless the status it wrote settles it.
LEMMA StatusWriteKeeps ==
  ASSUME IngestionInv, TypeInv', NEW w \in Workers, NEW s \in Statuses, NEW l \in WorkerPcs,
         pc[w] \in (TryPcs \cup HandlerPcs) \ {"saveRows"},
         Write(job[w], s), Goto(w, l),
         s = "INDEXED" => pc[w] = "markIndexed",
         s \in Settled \/ l \in Responsible \ {"idle", "dead"},
         l \notin {"saveRows", "markIndexed"},
         UNCHANGED <<content, jobs, rows, points, nextId, upload, deleters, crashes>>
  PROVE  IngestionInv'
<1> USE DEF IngestionInv
<1>1. job[w] \in DocIds
  BY DEF TypeInv, TypeOK, Busy, TryPcs, HandlerPcs
<1>2. \A d \in DocIds : status'[d] = Absent <=> status[d] = Absent
  BY <1>1, WriteEffect
<1>3. FreshIds' /\ PurgedFirst' /\ CheckStaysValid'
  BY <1>2, ThreadKeeps
<1>4. OneTransaction'
  BY <1>2 DEF OneTransaction
<1>5. StoresAgree'
  BY <1>2, StoresKept
<1>6. PassProgress'
  BY <1>2, GotoEffect DEF PassProgress, deleters, TypeInv, TypeOK, Busy, TryPcs, HandlerPcs
<1>7. IndexedHasRows'
  <2> SUFFICES ASSUME NEW d \in DocIds, status'[d] = "INDEXED"
               PROVE  \E v \in Workers : <<d, v>> \in rows
    BY DEF IndexedHasRows
  <2>1. status[d] # Absent
    BY <1>2 DEF Statuses
  <2>2. CASE d # job[w]
    BY <1>1, <2>2, WriteEffect DEF IndexedHasRows
  <2>3. CASE d = job[w]
    <3>1. pc[w] = "markIndexed"
      BY <1>1, <2>1, <2>3, WriteEffect
    <3> QED BY <2>1, <2>3, <3>1 DEF PassProgress
  <2> QED BY <2>2, <2>3
<1>8. NothingAbandoned'
  <2> SUFFICES ASSUME ~DbFaults, crashes = 0, NEW d \in DocIds, status'[d] \in Statuses \ Settled,
                      jobs[d] # "PENDING"
               PROVE  \E v \in Workers : job'[v] = d /\ pc'[v] \in Responsible
    BY DEF NothingAbandoned
  <2>1. status[d] # Absent
    BY <1>2 DEF Statuses
  <2>2. CASE d = job[w]
    <3>1. l \in Responsible \ {"idle", "dead"}
      BY <1>1, <2>1, <2>2, WriteEffect
    <3> QED BY <2>2, <3>1, GotoEffect
  <2>3. CASE d # job[w]
    <3>1. PICK v \in Workers : job[v] = d /\ pc[v] \in Responsible
      BY <1>1, <2>3, WriteEffect DEF NothingAbandoned
    <3> QED BY <2>3, <3>1, GotoEffect
  <2> QED BY <2>2, <2>3
<1> QED BY <1>3, <1>4, <1>5, <1>6, <1>7, <1>8

\* The updates of _process and of its handler.
Marks(w) == \/ MarkExtracting(w) \/ SaveExtracted(w) \/ MarkChunking(w)
            \/ MarkEmbedding(w) \/ MarkIndexed(w) \/ MarkFailed(w)

LEMMA MarksKeep ==
  ASSUME IngestionInv, TypeInv', NEW w \in Workers, Marks(w)
  PROVE  IngestionInv'
<1>1. CASE MarkIndexed(w)
  <2>1. PICK l \in {"idle", "failLoad"} : Goto(w, l)
    BY <1>1 DEF MarkIndexed, Update, Throw
  <2> QED BY <1>1, <2>1, StatusWriteKeeps
          DEF MarkIndexed, Update, Statuses, Settled, TryPcs, WorkerPcs, HandlerPcs
<1>2. CASE MarkFailed(w)
  <2>1. PICK l \in {"dead", "failJob"} : Goto(w, l)
    BY <1>2 DEF MarkFailed
  <2> QED BY <1>2, <2>1, StatusWriteKeeps
          DEF MarkFailed, Statuses, Settled, TryPcs, WorkerPcs, HandlerPcs
<1>3. CASE Marks(w) /\ ~MarkIndexed(w) /\ ~MarkFailed(w)
  <2> DEFINE Next3 == {"saveExtracted", "markChunking", "markEmbedding", "upsert", "failLoad"}
             Stages == {"EXTRACTING", "CHUNKING", "EMBEDDING"}
  <2>1. PICK s \in Stages, l \in Next3 :
           /\ pc[w] \in TryPcs \ {"saveRows"} /\ Write(job[w], s) /\ Goto(w, l)
           /\ UNCHANGED <<content, jobs, rows, points, nextId, upload, deleters, crashes>>
    BY <1>3 DEF Marks, MarkExtracting, SaveExtracted, MarkChunking, MarkEmbedding, Update, Throw, TryPcs
  <2>2. /\ s \in Statuses /\ s # "INDEXED"
        /\ l \in WorkerPcs /\ l \in Responsible \ {"idle", "dead"}
        /\ l \notin {"saveRows", "markIndexed"}
    BY <2>1 DEF Statuses, WorkerPcs, Responsible, TryPcs, HandlerPcs
  <2> QED BY <2>1, <2>2, StatusWriteKeeps
<1> QED BY <1>1, <1>2, <1>3

LEMMA ClaimSelectKeeps ==
  ASSUME IngestionInv, TypeInv', NEW w \in Workers, ClaimSelect(w)
  PROVE  IngestionInv'
<1> USE DEF IngestionInv
<1>1. PICK d \in Pending : job' = [job EXCEPT ![w] = d]
  BY DEF ClaimSelect
<1>2. /\ pc' = [pc EXCEPT ![w] = "claim"]
      /\ UNCHANGED <<stores, nextId, upload, broken, deleters, crashes>>
  BY DEF ClaimSelect
<1>3. d \in DocIds /\ status[d] # Absent
  BY DEF Pending, OneTransaction
<1>4. /\ pc'[w] = "claim" /\ job'[w] = d
      /\ \A v \in Workers \ {w} : pc'[v] = pc[v] /\ job'[v] = job[v]
  BY <1>1, <1>2 DEF TypeInv, TypeOK
<1>5. FreshIds'
  BY <1>2, <1>3, <1>4 DEF FreshIds, stores, deleters
<1>6. OneTransaction' /\ CheckStaysValid' /\ IndexedHasRows'
  BY <1>2 DEF OneTransaction, CheckStaysValid, ContentFree, IndexedHasRows, stores, deleters
<1>s. StoresAgree'
  BY <1>2, <1>4 DEF StoresAgree, ClaimSelect, stores, deleters
<1>7. PurgedFirst' /\ PassProgress'
  BY <1>2, <1>3, <1>4 DEF PurgedFirst, PassProgress, stores, deleters, TryPcs, HandlerPcs
<1>8. NothingAbandoned'
  <2>1. pc[w] = "idle" /\ "idle" \notin Responsible
    BY DEF ClaimSelect, Responsible, TryPcs
  <2> QED BY <1>2, <1>4, <2>1 DEF NothingAbandoned, stores
<1> QED BY <1>5, <1>6, <1>s, <1>7, <1>8

LEMMA ClaimCommitKeeps ==
  ASSUME IngestionInv, TypeInv', NEW w \in Workers, ClaimCommit(w)
  PROVE  IngestionInv'
<1> USE DEF IngestionInv
<1>1. PICK l \in {"load", "dead"} : Goto(w, l) /\ (l = "dead" => DbFaults)
  BY DEF ClaimCommit
<1>2. l \in WorkerPcs
  BY DEF WorkerPcs, TryPcs
<1>3. /\ jobs[job[w]] # "NONE" /\ jobs' = [jobs EXCEPT ![job[w]] = "PROCESSING"]
      /\ UNCHANGED <<status, content, rows, points, nextId, upload, deleters, crashes>>
  BY DEF ClaimCommit
<1>4. job[w] \in DocIds
  BY DEF ClaimCommit, TypeInv, TypeOK, Busy
<1>5. FreshIds' /\ PurgedFirst' /\ CheckStaysValid'
  BY <1>1, <1>2, <1>3, ThreadKeeps
<1>j. \A d \in DocIds : /\ jobs'[d] = "NONE" <=> jobs[d] = "NONE"
                        /\ jobs'[d] = "PENDING" => jobs[d] = "PENDING" /\ d # job[w]
  BY <1>3, <1>4 DEF TypeInv, TypeOK
<1>6. OneTransaction' /\ IndexedHasRows'
  BY <1>3, <1>j DEF OneTransaction, IndexedHasRows
<1>s. StoresAgree'
  BY <1>1, <1>2, <1>3, StoresKept DEF ClaimCommit
<1>7. PassProgress'
  <2> \A v \in Workers : pc[v] \in TryPcs \cup HandlerPcs => job[v] \in DocIds
    BY HeldTyped DEF TryPcs, HandlerPcs
  <2>1. pc'[w] = l /\ (l = "load" => job'[w] = job[w])
    BY <1>1, <1>2, GotoEffect
  <2>2. l = "load" => jobs'[job'[w]] # "PENDING"
    BY <1>4, <1>j, <2>1
  <2> SUFFICES ASSUME NEW v \in Workers
               PROVE  /\ pc'[v] \in TryPcs \cup HandlerPcs => jobs'[job'[v]] # "PENDING"
                      /\ pc'[v] = "saveRows" => <<job'[v], v>> \in points \/ job'[v] \in purged
                      /\ pc'[v] = "markIndexed" => <<job'[v], v>> \in rows \/ status[job'[v]] = Absent
    BY <1>3 DEF PassProgress, deleters
  <2>3. CASE v = w
    BY <1>1, <2>1, <2>2, <2>3 DEF TryPcs, HandlerPcs
  <2>4. CASE v # w
    BY <1>1, <1>2, <1>j, <2>4, GotoEffect DEF PassProgress
  <2> QED BY <2>3, <2>4
<1>8. NothingAbandoned'
  <2> SUFFICES ASSUME ~DbFaults, crashes = 0, NEW d \in DocIds, status[d] \in Statuses \ Settled,
                      jobs'[d] # "PENDING"
               PROVE  \E v \in Workers : job'[v] = d /\ pc'[v] \in Responsible
    BY <1>3 DEF NothingAbandoned
  <2>1. CASE d = job[w]
    BY <1>1, <1>2, <2>1, GotoEffect DEF Responsible, TryPcs
  <2>2. CASE d # job[w]
    <3>1. jobs[d] # "PENDING"
      BY <1>3, <2>2 DEF TypeInv, TypeOK
    <3>2. PICK v \in Workers : job[v] = d /\ pc[v] \in Responsible
      BY <3>1 DEF NothingAbandoned
    <3> QED BY <1>1, <1>2, <2>2, <3>2, GotoEffect
  <2> QED BY <2>1, <2>2
<1> QED BY <1>5, <1>6, <1>s, <1>7, <1>8

LEMMA UpsertKeeps ==
  ASSUME IngestionInv, TypeInv', NEW w \in Workers, Upsert(w)
  PROVE  IngestionInv'
<1> USE DEF IngestionInv
<1>1. PICK l \in {"saveRows", "failLoad"} : Goto(w, l)
  BY DEF Upsert, Throw
<1>2. l \in WorkerPcs /\ l \in Responsible
  BY DEF WorkerPcs, Responsible, TryPcs, HandlerPcs
<1>3. /\ pc[w] = "upsert" /\ points' = points \cup {<<job[w], w>>}
      /\ UNCHANGED <<status, content, jobs, rows, nextId, upload, deleters, crashes>>
  BY DEF Upsert
<1>4. FreshIds' /\ PurgedFirst' /\ CheckStaysValid'
  BY <1>1, <1>2, <1>3, ThreadKeeps
<1>5. OneTransaction' /\ IndexedHasRows'
  BY <1>3 DEF OneTransaction, IndexedHasRows
<1>6. /\ pc'[w] = l /\ job'[w] = job[w]
      /\ \A v \in Workers \ {w} : pc'[v] = pc[v] /\ job'[v] = job[v]
  BY <1>1, <1>2, GotoEffect
<1>7. StoresAgree'
  <2>1. job[w] \in DocIds /\ (status[job[w]] # Absent \/ job[w] \in purged)
    BY <1>3, HeldTyped DEF PurgedFirst
  <2>2. broken \subseteq broken' /\ (l = "failLoad" => <<job[w], w>> \in broken')
    BY <1>1 DEF Goto
  <2>3. pc'[w] = "saveRows" \/ <<job[w], w>> \in broken'
    BY <1>6, <2>2
  <2>4. \A d \in DocIds, v \in Workers :
           <<d, v>> \in points' <=> <<d, v>> \in points \/ (v = w /\ d = job[w])
    BY <1>3
  <2> QED BY <1>3, <1>6, <2>1, <2>2, <2>3, <2>4 DEF StoresAgree, deleters
<1>8. PassProgress'
  BY <1>1, <1>3, <1>6 DEF PassProgress, deleters, TryPcs
<1>9. NothingAbandoned'
  BY <1>2, <1>3, <1>6 DEF NothingAbandoned
<1> QED BY <1>4, <1>5, <1>7, <1>8, <1>9

LEMMA SaveRowsKeeps ==
  ASSUME IngestionInv, TypeInv', NEW w \in Workers, SaveRows(w)
  PROVE  IngestionInv'
<1> USE DEF IngestionInv
<1>1. PICK l \in {"markIndexed", "failLoad"} :
         /\ Goto(w, l)
         /\ l = "markIndexed" => <<job[w], w>> \in rows' \/ status[job[w]] = Absent
  BY DEF SaveRows, Throw
<1>2. l \in WorkerPcs /\ l \in Responsible
  BY DEF WorkerPcs, Responsible, TryPcs, HandlerPcs
<1>3. /\ pc[w] = "saveRows"
      /\ rows \subseteq rows' /\ rows' \subseteq rows \cup {<<job[w], w>>}
      /\ status[job[w]] = Absent => rows' = rows
      /\ UNCHANGED <<status, content, jobs, points, nextId, upload, deleters, crashes>>
  BY DEF SaveRows
<1>4. FreshIds' /\ PurgedFirst' /\ CheckStaysValid'
  BY <1>1, <1>2, <1>3, ThreadKeeps
<1>5. OneTransaction' /\ IndexedHasRows'
  BY <1>3 DEF OneTransaction, IndexedHasRows
<1>6. /\ pc'[w] = l /\ job'[w] = job[w]
      /\ \A v \in Workers \ {w} : pc'[v] = pc[v] /\ job'[v] = job[v]
  BY <1>1, <1>2, GotoEffect
<1>7. StoresAgree'
  <2>1. /\ broken \subseteq broken'
        /\ l = "failLoad" => <<job[w], w>> \in broken'
        /\ l = "markIndexed" => <<job[w], w>> \in rows' \/ job[w] \in purged
    BY <1>1, <1>3 DEF Goto, PurgedFirst, TypeInv, Busy
  <2>2. \A d \in DocIds \ purged, v \in Workers :
           /\ <<d, v>> \in rows' => <<d, v>> \in points
           /\ status[d] = Absent => <<d, v>> \notin points
    BY <1>3 DEF StoresAgree, PassProgress
  <2>3. \A d \in DocIds \ purged, v \in Workers :
           <<d, v>> \in points => \/ <<d, v>> \in rows'
                                  \/ job'[v] = d /\ pc'[v] = "saveRows"
                                  \/ <<d, v>> \in broken'
    BY <1>1, <1>3, <1>6, <2>1 DEF StoresAgree
  <2> QED BY <1>3, <2>2, <2>3 DEF StoresAgree, deleters
<1>8. PassProgress'
  BY <1>1, <1>3, <1>6 DEF PassProgress, deleters, TryPcs
<1>9. NothingAbandoned'
  BY <1>2, <1>3, <1>6 DEF NothingAbandoned
<1> QED BY <1>4, <1>5, <1>7, <1>8, <1>9

LEMMA FailJobCommitKeeps ==
  ASSUME IngestionInv, TypeInv', NEW w \in Workers, FailJobCommit(w)
  PROVE  IngestionInv'
<1> USE DEF IngestionInv
<1>1. PICK l \in {"idle", "dead"} : Goto(w, l)
  BY DEF FailJobCommit
<1>2. l \in WorkerPcs
  BY DEF WorkerPcs
<1>3. /\ pc[w] = "failJobCommit"
      /\ UNCHANGED <<status, content, rows, points, nextId, upload, deleters, crashes>>
      /\ \/ jobs' = jobs
         \/ jobs[job[w]] # "NONE" /\ jobs' = [jobs EXCEPT ![job[w]] = "FAILED"]
  BY DEF FailJobCommit
<1>4. \A d \in DocIds : /\ jobs'[d] = "NONE" <=> jobs[d] = "NONE"
                        /\ jobs'[d] = "PENDING" => jobs[d] = "PENDING"
                        /\ jobs[d] = "PENDING" => jobs'[d] = "PENDING"
  <2>1. jobs[job[w]] # "PENDING"
    BY <1>3 DEF PassProgress, HandlerPcs
  <2> QED BY <1>3, <2>1 DEF TypeInv, TypeOK
<1>5. FreshIds' /\ PurgedFirst' /\ CheckStaysValid'
  BY <1>1, <1>2, <1>3, ThreadKeeps
<1>6. OneTransaction' /\ IndexedHasRows'
  BY <1>3, <1>4 DEF OneTransaction, IndexedHasRows
<1>s. StoresAgree'
  BY <1>1, <1>2, <1>3, StoresKept
<1>7. /\ pc'[w] \in {"idle", "dead"} /\ \A v \in Workers \ {w} : pc'[v] = pc[v] /\ job'[v] = job[v]
  BY <1>1, <1>2, GotoEffect
<1>8. PassProgress'
  <2>1. \A v \in Workers : pc[v] \in TryPcs \cup HandlerPcs => job[v] \in DocIds
    BY HeldTyped DEF TryPcs, HandlerPcs
  <2> QED BY <1>3, <1>4, <1>7, <2>1 DEF PassProgress, deleters, TryPcs, HandlerPcs
<1>9. NothingAbandoned'
  <2>1. pc[w] \notin Responsible
    BY <1>3 DEF Responsible, TryPcs
  <2> QED BY <1>3, <1>4, <1>7, <2>1 DEF NothingAbandoned
<1> QED BY <1>5, <1>6, <1>s, <1>8, <1>9

LEMMA IngestKeeps ==
  ASSUME IngestionInv, TypeInv', IngestNext
  PROVE  IngestionInv'
<1> USE DEF IngestionInv
<1>1. UNCHANGED <<rows, points, workers, deleters, crashes>>
  BY DEF IngestNext, IngestCheck, IngestSave, IngestSaveFails, stores
<1>2. CASE \E h \in Contents : IngestCheck(h)
  <2> PICK h \in Contents : IngestCheck(h)
    BY <1>2
  <2>1. /\ upload' = [id |-> nextId, content |-> h] /\ nextId' = nextId + 1
        /\ ContentFree(h) /\ UNCHANGED stores
    BY DEF IngestCheck
  <2>2. FreshIds' /\ CheckStaysValid'
    BY <1>1, <2>1 DEF FreshIds, CheckStaysValid, ContentFree, stores, workers, deleters, TypeInv, TypeOK
  <2>3. OneTransaction' /\ PurgedFirst' /\ PassProgress'
    BY <1>1, <2>1 DEF OneTransaction, PurgedFirst, PassProgress, stores, workers, deleters
  <2>4. StoresAgree' /\ IndexedHasRows' /\ NothingAbandoned'
    BY <1>1, <2>1 DEF StoresAgree, IndexedHasRows, NothingAbandoned, stores, workers, deleters
  <2> QED BY <2>2, <2>3, <2>4
<1>3. CASE IngestSave
  <2> DEFINE u == upload.id
  <2>1. /\ u \in DocIds /\ upload.content \in Contents /\ status[u] = Absent
        /\ \A w \in Workers : job[w] # u
    <3>1. upload \in [id : DocIds, content : Contents]
      BY <1>3 DEF IngestSave, TypeInv, TypeOK, Uploads
    <3> QED BY <3>1 DEF FreshIds
  <2>2. /\ status' = [status EXCEPT ![u] = "UPLOADED"]
        /\ content' = [content EXCEPT ![u] = upload.content]
        /\ jobs' = [jobs EXCEPT ![u] = "PENDING"]
        /\ upload' = NoUpload /\ nextId' = nextId
    BY <1>3 DEF IngestSave
  <2>3. /\ status'[u] = "UPLOADED" /\ jobs'[u] = "PENDING" /\ content'[u] \in Contents
        /\ \A d \in DocIds \ {u} : /\ status'[d] = status[d] /\ jobs'[d] = jobs[d]
                                   /\ content'[d] = content[d]
    BY <2>1, <2>2 DEF TypeInv, TypeOK
  <2>4. u < nextId
    BY DEF FreshIds
  <2>5. FreshIds'
    BY <1>1, <2>1, <2>2, <2>3, <2>4 DEF FreshIds, NoUpload, workers, deleters, TypeInv, TypeOK
  <2>6. OneTransaction' /\ CheckStaysValid'
    BY <1>1, <2>1, <2>2, <2>3 DEF OneTransaction, CheckStaysValid
  <2>7. PurgedFirst' /\ PassProgress'
    <3>1. \A w \in Workers : job[w] # NoDoc => /\ status'[job[w]] = status[job[w]]
                                              /\ jobs'[job[w]] = jobs[job[w]]
      BY <2>1, <2>3 DEF TypeInv, TypeOK
    <3>2. \A w \in Workers : pc[w] \in TryPcs \cup HandlerPcs => job[w] # NoDoc
      BY HeldTyped DEF TryPcs, HandlerPcs
    <3> QED BY <1>1, <3>1, <3>2 DEF PurgedFirst, PassProgress, workers, deleters, TryPcs
  <2>8. StoresAgree' /\ IndexedHasRows' /\ NothingAbandoned'
    BY <1>1, <2>3 DEF StoresAgree, IndexedHasRows, NothingAbandoned, workers, deleters
  <2> QED BY <2>5, <2>6, <2>7, <2>8
<1>4. CASE IngestSaveFails
  <2>1. upload' = NoUpload /\ UNCHANGED <<stores, nextId>>
    BY <1>4 DEF IngestSaveFails
  <2>2. FreshIds' /\ CheckStaysValid'
    BY <1>1, <2>1 DEF FreshIds, CheckStaysValid, NoUpload, stores, workers, deleters, TypeInv, TypeOK
  <2>3. OneTransaction' /\ PurgedFirst' /\ PassProgress'
    BY <1>1, <2>1 DEF OneTransaction, PurgedFirst, PassProgress, stores, workers, deleters
  <2>4. StoresAgree' /\ IndexedHasRows' /\ NothingAbandoned'
    BY <1>1, <2>1 DEF StoresAgree, IndexedHasRows, NothingAbandoned, stores, workers, deleters
  <2> QED BY <2>2, <2>3, <2>4
<1> QED BY <1>2, <1>3, <1>4 DEF IngestNext

LEMMA DeleteKeeps ==
  ASSUME IngestionInv, TypeInv', DeleteNext
  PROVE  IngestionInv'
<1> USE DEF IngestionInv
<1> PICK x \in Deleters : \/ \E d \in DocIds : DeleteLoad(x, d)
                          \/ DeletePoints(x) \/ DeleteRow(x) \/ DeleteFails(x)
  BY DEF DeleteNext, DeleteStep
<1>1. UNCHANGED <<nextId, upload, workers, crashes>>
  BY DEF DeleteLoad, DeletePoints, DeleteRow, DeleteFails
<1>2. CASE \E d \in DocIds : DeleteLoad(x, d)
  <2> PICK d \in DocIds : DeleteLoad(x, d)
    BY <1>2
  <2>1. status[d] # Absent /\ UNCHANGED <<stores, purged>>
    BY DEF DeleteLoad
  <2>2. /\ delPc'[x] = "points" /\ delDoc'[x] = d
        /\ \A y \in Deleters \ {x} : delPc'[y] = delPc[y] /\ delDoc'[y] = delDoc[y]
    BY DEF DeleteLoad, TypeInv, TypeOK
  <2>3. FreshIds' /\ PurgedFirst'
    BY <1>1, <2>1, <2>2 DEF FreshIds, PurgedFirst, stores, workers
  <2>4. OneTransaction' /\ CheckStaysValid' /\ PassProgress'
    BY <1>1, <2>1 DEF OneTransaction, CheckStaysValid, ContentFree, PassProgress, stores, workers
  <2>5. StoresAgree' /\ IndexedHasRows' /\ NothingAbandoned'
    BY <1>1, <2>1 DEF StoresAgree, IndexedHasRows, NothingAbandoned, stores, workers
  <2> QED BY <2>3, <2>4, <2>5
<1>3. CASE DeletePoints(x)
  <2>1. /\ points' \subseteq points /\ \A b \in points : b[1] # delDoc[x] => b \in points'
        /\ purged' = purged \cup {delDoc[x]}
        /\ UNCHANGED <<status, content, jobs, rows>>
    BY <1>3 DEF DeletePoints
  <2>2. PICK l \in {"row", "idle"} : DelGoto(x, l)
    BY <1>3 DEF DeletePoints
  <2>3. /\ \A y \in Deleters : delDoc'[y] = delDoc[y] \/ delDoc'[y] = NoDoc
        /\ \A y \in Deleters : delPc'[y] = "row" => /\ delDoc'[y] = delDoc[y]
                                                    /\ y = x \/ delPc[y] = "row"
    BY <2>2 DEF DelGoto, TypeInv, TypeOK
  <2>4. FreshIds' /\ PurgedFirst'
    BY <1>1, <2>1, <2>3 DEF FreshIds, PurgedFirst, workers
  <2>5. OneTransaction' /\ CheckStaysValid'
    BY <1>1, <2>1 DEF OneTransaction, CheckStaysValid, ContentFree
  <2>6. PassProgress'
    <3>1. \A w \in Workers : <<job[w], w>> \in points => <<job[w], w>> \in points' \/ job[w] \in purged'
      BY <2>1
    <3> QED BY <1>1, <2>1, <3>1 DEF PassProgress, workers
  <2>7. StoresAgree' /\ IndexedHasRows' /\ NothingAbandoned'
    <3>1. \A d \in DocIds, w \in Workers : <<d, w>> \in points => <<d, w>> \in points' \/ d \in purged'
      BY <2>1
    <3> QED BY <1>1, <2>1, <3>1 DEF StoresAgree, IndexedHasRows, NothingAbandoned, workers
  <2> QED BY <2>4, <2>5, <2>6, <2>7
<1>4. CASE DeleteRow(x)
  <2> DEFINE g == delDoc[x]
  <2>1. /\ status' = [status EXCEPT ![g] = Absent]
        /\ content' = [content EXCEPT ![g] = NoContent]
        /\ jobs' = [jobs EXCEPT ![g] = "NONE"]
        /\ rows' = {b \in rows : b[1] # g}
        /\ DelGoto(x, "idle") /\ UNCHANGED <<points, purged>> /\ delPc[x] = "row"
    BY <1>4 DEF DeleteRow
  <2>2. g \in DocIds /\ g \in purged
    BY <2>1 DEF PurgedFirst, TypeInv, TypeOK, Busy
  <2>3. /\ status'[g] = Absent /\ content'[g] = NoContent /\ jobs'[g] = "NONE"
        /\ \A d \in DocIds \ {g} : /\ status'[d] = status[d] /\ jobs'[d] = jobs[d]
                                   /\ content'[d] = content[d]
        /\ \A d \in DocIds, w \in Workers : <<d, w>> \in rows' <=> <<d, w>> \in rows /\ d # g
    BY <2>1, <2>2 DEF TypeInv, TypeOK
  <2>4. \A y \in Deleters : /\ delDoc'[y] = delDoc[y] \/ delDoc'[y] = NoDoc
                            /\ delPc'[y] = "row" => delDoc'[y] = delDoc[y] /\ delPc[y] = "row"
    BY <2>1 DEF DelGoto, TypeInv, TypeOK
  <2>5. FreshIds' /\ PurgedFirst'
    <3>1. \A w \in Workers : job[w] \in DocIds \cup {NoDoc}
      BY DEF TypeInv, TypeOK
    <3> QED BY <1>1, <2>1, <2>2, <2>3, <2>4, <3>1 DEF FreshIds, PurgedFirst, workers
  <2>6. OneTransaction' /\ CheckStaysValid'
    BY <1>1, <2>2, <2>3 DEF OneTransaction, CheckStaysValid, ContentFree
  <2>7. PassProgress'
    <3>1. \A w \in Workers : pc[w] \in TryPcs \cup HandlerPcs => job[w] \in DocIds
      BY HeldTyped DEF TryPcs, HandlerPcs
    <3> QED BY <1>1, <2>1, <2>2, <2>3, <3>1 DEF PassProgress, workers, TryPcs
  <2>8. StoresAgree' /\ IndexedHasRows' /\ NothingAbandoned'
    BY <1>1, <2>1, <2>2, <2>3 DEF StoresAgree, IndexedHasRows, NothingAbandoned,
                                  workers, Statuses
  <2> QED BY <2>5, <2>6, <2>7, <2>8
<1>5. CASE DeleteFails(x)
  <2>1. DelGoto(x, "idle") /\ UNCHANGED <<stores, purged>>
    BY <1>5 DEF DeleteFails
  <2>2. \A y \in Deleters : /\ delDoc'[y] = delDoc[y] \/ delDoc'[y] = NoDoc
                            /\ delPc'[y] = "row" => delDoc'[y] = delDoc[y] /\ delPc[y] = "row"
    BY <2>1 DEF DelGoto, TypeInv, TypeOK
  <2>3. FreshIds' /\ PurgedFirst'
    BY <1>1, <2>1, <2>2 DEF FreshIds, PurgedFirst, stores, workers
  <2>4. OneTransaction' /\ CheckStaysValid' /\ PassProgress'
    BY <1>1, <2>1 DEF OneTransaction, CheckStaysValid, ContentFree, PassProgress, stores, workers
  <2>5. StoresAgree' /\ IndexedHasRows' /\ NothingAbandoned'
    BY <1>1, <2>1 DEF StoresAgree, IndexedHasRows, NothingAbandoned, stores, workers
  <2> QED BY <2>3, <2>4, <2>5
<1> QED BY <1>2, <1>3, <1>4, <1>5

LEMMA CrashKeeps ==
  ASSUME IngestionInv, TypeInv', Crash
  PROVE  IngestionInv'
<1> USE DEF IngestionInv
<1>1. /\ \A w \in Workers : pc'[w] = "idle" /\ job'[w] = NoDoc
      /\ \A x \in Deleters : delPc'[x] = "idle" /\ delDoc'[x] = NoDoc
      /\ upload' = NoUpload /\ crashes' = crashes + 1 /\ UNCHANGED <<stores, nextId, purged>>
  BY DEF Crash
<1>2. FreshIds' /\ CheckStaysValid'
  <2>1. nextId \in Nat /\ 0 < nextId
    BY DEF TypeInv, TypeOK
  <2>2. upload'.id = 0
    BY <1>1 DEF NoUpload
  <2>3. \A d \in DocIds, w \in Workers, x \in Deleters : job'[w] # d /\ delDoc'[x] # d
    BY <1>1
  <2>4. ASSUME NEW d \in DocIds, d >= nextId
        PROVE  status[d] = Absent /\ \A w \in Workers : <<d, w>> \notin points
    BY <2>4 DEF FreshIds
  <2>5. FreshIds'
    <3>1. \A d \in DocIds : d # upload'.id
      BY <2>2
    <3>2. nextId' = nextId /\ status' = status /\ points' = points
      BY <1>1 DEF stores
    <3> QED BY <1>1, <2>1, <2>2, <2>4, <3>1, <3>2 DEF FreshIds
  <2> QED BY <1>1, <2>5 DEF CheckStaysValid
<1>p. PurgedFirst'
  BY <1>1 DEF PurgedFirst
<1>3. OneTransaction' /\ IndexedHasRows'
  BY <1>1 DEF OneTransaction, IndexedHasRows, stores
<1>s. StoresAgree'
  <2>1. /\ broken \subseteq broken'
        /\ \A d \in DocIds, w \in Workers : job[w] = d => <<d, w>> \in broken'
    BY DEF Crash, Batches
  <2> QED BY <1>1, <2>1 DEF StoresAgree, stores
<1>4. PassProgress' /\ NothingAbandoned'
  BY <1>1 DEF PassProgress, NothingAbandoned, TryPcs, HandlerPcs, TypeInv, TypeOK
<1> QED BY <1>2, <1>p, <1>3, <1>s, <1>4

LEMMA IngestionInvInit == Init => IngestionInv
<1> SUFFICES ASSUME Init PROVE IngestionInv
  OBVIOUS
<1>1. TypeInv
  BY TypeInvInit
<1>2. FreshIds /\ OneTransaction /\ PurgedFirst /\ CheckStaysValid
  BY DEF Init, FreshIds, OneTransaction, PurgedFirst, CheckStaysValid, NoUpload
<1>3. PassProgress /\ StoresAgree /\ IndexedHasRows /\ NothingAbandoned
  BY DEF Init, PassProgress, StoresAgree, IndexedHasRows, NothingAbandoned,
         Statuses, TryPcs, HandlerPcs
<1> QED BY <1>1, <1>2, <1>3 DEF IngestionInv

LEMMA IngestionInvNext == IngestionInv /\ [Next]_vars => IngestionInv'
<1> SUFFICES ASSUME IngestionInv, [Next]_vars PROVE IngestionInv'
  OBVIOUS
<1>1. TypeInv'
  BY TypeInvNext DEF IngestionInv
<1>2. CASE UNCHANGED vars
  <2> USE <1>2 DEF IngestionInv, vars, stores, workers, deleters
  <2>1. FreshIds' /\ OneTransaction' /\ PurgedFirst' /\ PassProgress'
    BY DEF FreshIds, OneTransaction, PurgedFirst, PassProgress
  <2>2. CheckStaysValid' /\ StoresAgree' /\ IndexedHasRows' /\ NothingAbandoned'
    BY DEF CheckStaysValid, ContentFree, StoresAgree, IndexedHasRows, NothingAbandoned
  <2> QED BY <1>1, <2>1, <2>2
<1>3. CASE WorkerNext
  <2> PICK w \in Workers : WorkerStep(w) \/ WorkerFault(w)
    BY <1>3 DEF WorkerNext
  <2>1. \/ Quiet(w) \/ Marks(w) \/ ClaimSelect(w) \/ ClaimCommit(w)
        \/ Upsert(w) \/ SaveRows(w) \/ FailJobCommit(w)
    BY DEF WorkerStep, WorkerFault, Quiet, Marks
  <2> QED BY <1>1, <2>1, QuietKeeps, MarksKeep, ClaimSelectKeeps, ClaimCommitKeeps,
             UpsertKeeps, SaveRowsKeeps, FailJobCommitKeeps
<1> QED BY <1>1, <1>2, <1>3, IngestKeeps, DeleteKeeps, CrashKeeps DEF Next


-----------------------------------------------------------------------------
(* What follows from it.                                                   *)

\* The invariant of every part of the write side: the strengthening under
\* which the four properties below are preserved by every step.
THEOREM InvariantHolds == Spec => []IngestionInv
  BY IngestionInvInit, IngestionInvNext, PTL DEF Spec

\* The duplicate check of IngestDocument.execute is still true at repo.save.
THEOREM UploadsNeverCollide == Spec => []CheckStaysValid
<1>1. IngestionInv => CheckStaysValid
  BY DEF IngestionInv
<1> QED BY <1>1, InvariantHolds, PTL

\* Over a document that no DELETE has touched, Postgres and Qdrant differ only
\* by the vectors of a pass between its two writes or of one that failed.
THEOREM VectorsMatchRows == Spec => []StoresAgree
<1>1. IngestionInv => StoresAgree
  BY DEF IngestionInv
<1> QED BY <1>1, InvariantHolds, PTL

\* INDEXED is shown only with the chunks of a finished pass in Postgres.
THEOREM IndexedIsStored == Spec => []IndexedHasRows
<1>1. IngestionInv => IndexedHasRows
  BY DEF IngestionInv
<1> QED BY <1>1, InvariantHolds, PTL

\* Without a failure of Postgres or of the process, no document is forgotten
\* on its way to INDEXED or FAILED.
THEOREM NoDocumentForgotten == Spec => []NothingAbandoned
<1>1. IngestionInv => NothingAbandoned
  BY DEF IngestionInv
<1> QED BY <1>1, InvariantHolds, PTL

\* No step of any thread brings a deleted document back.
LEMMA StepsDoNotResurrect ==
  ASSUME IngestionInv, [Next]_vars, NEW d \in DocIds,
         status[d] = Absent, d < nextId, d # upload.id
  PROVE  status'[d] = Absent
<1> USE DEF IngestionInv
<1>1. CASE WorkerNext
  <2> PICK w \in Workers : WorkerStep(w) \/ WorkerFault(w)
    BY <1>1 DEF WorkerNext
  <2>1. CASE Marks(w)
    <3>1. PICK s \in Statuses : Write(job[w], s)
      BY <2>1 DEF Marks, MarkExtracting, SaveExtracted, MarkChunking, MarkEmbedding,
                  MarkIndexed, MarkFailed, Update, Statuses
    <3>2. job[w] \in DocIds
      BY <2>1, HeldTyped DEF Marks, MarkExtracting, SaveExtracted, MarkChunking,
         MarkEmbedding, MarkIndexed, MarkFailed, Update
    <3> QED BY <3>1, <3>2, WriteEffect
  <2>2. CASE ~Marks(w)
    <3>1. UNCHANGED status
      BY <2>2 DEF WorkerStep, WorkerFault, Marks, ClaimSelect, ClaimCommit, Load, Upsert, SaveRows,
              FailLoad, FailJob, FailJobCommit, ClaimFails, Raise, HandlerFails, stores
    <3> QED BY <3>1
  <2> QED BY <2>1, <2>2
<1>2. CASE IngestNext
  BY <1>2 DEF IngestNext, IngestCheck, IngestSave, IngestSaveFails, stores, TypeInv, TypeOK
<1>3. CASE DeleteNext
  BY <1>3 DEF DeleteNext, DeleteStep, DeleteLoad, DeletePoints, DeleteRow, DeleteFails, stores,
              TypeInv, TypeOK
<1>4. CASE Crash \/ UNCHANGED vars
  BY <1>4 DEF Crash, vars, stores
<1> QED BY <1>1, <1>2, <1>3, <1>4 DEF Next

THEOREM DeletedStaysDeleted == Spec => NoResurrection
<1> DEFINE Stay == \A d \in DocIds : status[d] = Absent /\ d < nextId /\ d # upload.id
                                     => status'[d] = Absent
<1>1. IngestionInv /\ [Next]_vars => [Stay]_vars
  BY StepsDoNotResurrect
<1>2. Spec => [][Stay]_vars
  BY <1>1, InvariantHolds, PTL DEF Spec
<1> QED BY <1>2 DEF NoResurrection
=============================================================================
