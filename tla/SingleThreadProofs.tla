------------------------- MODULE SingleThreadProofs -------------------------
(***************************************************************************)
(* With one ingestion thread the service implements DocumentLifecycle,     *)
(* whatever fails or crashes and however many clients delete documents.    *)
(***************************************************************************)
EXTENDS ThreadPoolProofs

USE IngestionAssumption, ContentAssumption
USE DEF NoDoc, DocIds, Absent, NoContent

OneThread == \A v, w \in Workers : v = w

LEMMA SoloInit == Init => SoloInv
  BY PendingInit DEF Init, SoloInv, StatusAsExpected, JobAgrees

\* Moving on without touching the stores keeps what the thread expects, if it
\* goes where the status it expects is among those expected there.
LEMMA SoloGoto ==
  ASSUME OneThread, IngestionInv, SoloInv, PendingUntouched',
         NEW w \in Workers, NEW l \in WorkerPcs, Goto(w, l),
         UNCHANGED <<status, jobs>>,
         l \notin {"idle", "dead"} =>
            /\ status[job[w]] \in {Absent} \cup Expected[l]
            /\ l # "claim" /\ jobs[job[w]] \in {"PROCESSING", "NONE"}
  PROVE  SoloInv'
<1> USE DEF IngestionInv, SoloInv
<1>1. StatusAsExpected'
  BY GotoEffect DEF StatusAsExpected, OneThread
<1>2. JobAgrees'
  BY DEF JobAgrees
<1> QED BY <1>1, <1>2

\* A write of the thread, on its way from pc[w] to l.
LEMMA SoloWrite ==
  ASSUME OneThread, IngestionInv, SoloInv, PendingUntouched',
         NEW w \in Workers, NEW s \in Statuses, NEW l \in WorkerPcs, Goto(w, l), Write(job[w], s),
         pc[w] \notin {"idle", "dead", "claim"},
         UNCHANGED jobs,
         l \notin {"idle", "dead"} => s \in Expected[l]
  PROVE  SoloInv'
<1> USE DEF IngestionInv, SoloInv
<1>1. job[w] \in DocIds
  BY HeldTyped
<1>2. jobs[job[w]] \in {"PROCESSING", "NONE"}
  BY <1>1 DEF StatusAsExpected
<1>3. status'[job[w]] \in {Absent, s}
  BY <1>1, WriteEffect
<1>4. StatusAsExpected'
  BY <1>1, <1>2, <1>3, GotoEffect DEF StatusAsExpected, OneThread
<1>5. JobAgrees'
  <2> SUFFICES ASSUME NEW d \in DocIds, jobs[d] = "FAILED" PROVE status'[d] = "FAILED"
    BY DEF JobAgrees
  <2>1. d # job[w]
    BY <1>2
  <2> QED BY <1>1, <2>1, WriteEffect DEF JobAgrees
<1> QED BY <1>4, <1>5

LEMMA SoloNext ==
  ASSUME OneThread, IngestionInv, SoloInv, [Next]_vars
  PROVE  SoloInv'
<1> USE DEF IngestionInv, SoloInv
<1>1. PendingUntouched'
  BY PendingNext
<1>2. CASE WorkerNext
  <2> PICK w \in Workers : WorkerStep(w) \/ WorkerFault(w)
    BY <1>2 DEF WorkerNext
  <2>0. job[w] # NoDoc => /\ status[job[w]] \in {Absent} \cup Expected[pc[w]]
                          /\ pc[w] # "claim" => jobs[job[w]] \in {"PROCESSING", "NONE"}
    BY DEF StatusAsExpected
  <2>1. CASE ClaimSelect(w)
    <3>1. PICK d \in Pending : job' = [job EXCEPT ![w] = d]
      BY <2>1 DEF ClaimSelect
    <3>2. pc' = [pc EXCEPT ![w] = "claim"] /\ UNCHANGED stores /\ status[d] = "UPLOADED"
      BY <2>1, <3>1 DEF ClaimSelect, PendingUntouched, Pending
    <3>3. \A v \in Workers : pc'[v] = "claim" /\ job'[v] = d
      BY <3>1, <3>2 DEF TypeInv, TypeOK, OneThread
    <3> QED BY <1>1, <3>2, <3>3 DEF StatusAsExpected, JobAgrees, Expected, stores
  <2>2. CASE ClaimCommit(w)
    <3>1. PICK l \in {"load", "dead"} : Goto(w, l)
      BY <2>2 DEF ClaimCommit
    <3>2. /\ pc[w] = "claim" /\ UNCHANGED status /\ jobs' = [jobs EXCEPT ![job[w]] = "PROCESSING"]
          /\ job[w] \in DocIds
      BY <2>2, HeldTyped DEF ClaimCommit
    <3>3. jobs'[job[w]] = "PROCESSING" /\ \A d \in DocIds \ {job[w]} : jobs'[d] = jobs[d]
      BY <3>2 DEF TypeInv, TypeOK
    <3>4. StatusAsExpected'
      <4>1. l \in WorkerPcs
        BY DEF WorkerPcs, TryPcs
      <4> QED BY <2>0, <3>1, <3>2, <3>3, <4>1, GotoEffect DEF StatusAsExpected, OneThread, Expected
    <3>5. JobAgrees'
      BY <3>2, <3>3 DEF JobAgrees
    <3> QED BY <1>1, <3>4, <3>5
  <2>3. CASE Quiet(w)
    <3>1. UNCHANGED <<status, jobs>>
      BY <2>3 DEF Quiet, ClaimFails, Load, Raise, FailLoad, FailJob, HandlerFails, stores
    <3>2. CASE ClaimFails(w) \/ HandlerFails(w)
      <4>1. Goto(w, "dead")
        BY <3>2 DEF ClaimFails, HandlerFails
      <4> QED BY <1>1, <3>1, <4>1, SoloGoto DEF WorkerPcs
    <3>3. CASE Load(w)
      <4>1. /\ pc[w] = "load" /\ job[w] # NoDoc
            /\ \/ Goto(w, "idle")
               \/ Goto(w, "markExtracting") /\ status[job[w]] = "UPLOADED"
        BY <2>0, <3>3, HeldTyped DEF Load, Expected, CanTransition, Transitions, Statuses, Settled
      <4> QED BY <1>1, <2>0, <3>1, <4>1, SoloGoto DEF WorkerPcs, TryPcs, Expected
    <3>4. CASE Raise(w)
      <4>1. pc[w] \in TryPcs /\ Goto(w, "failLoad") /\ job[w] # NoDoc
        BY <3>4, HeldTyped DEF Raise, Throw, TryPcs, StepPcs
      <4>2. status[job[w]] \in {Absent} \cup Expected["failLoad"]
        BY <2>0, <4>1 DEF TryPcs, Expected, Statuses
      <4> QED BY <1>1, <2>0, <3>1, <4>1, <4>2, SoloGoto DEF WorkerPcs, HandlerPcs, TryPcs
    <3>5. CASE FailLoad(w)
      <4>1. /\ pc[w] = "failLoad" /\ job[w] # NoDoc
            /\ \/ Goto(w, "failJob") /\ status[job[w]] = Absent
               \/ Goto(w, "markFailed") /\ status[job[w]] \in Statuses \ Settled
               \/ Goto(w, "dead")
        BY <3>5, HeldTyped DEF FailLoad, CanTransition, Transitions, Statuses, Settled
      <4> QED BY <1>1, <2>0, <3>1, <4>1, SoloGoto DEF WorkerPcs, HandlerPcs, Expected
    <3>6. CASE FailJob(w)
      <4>1. pc[w] = "failJob" /\ job[w] # NoDoc /\ (Goto(w, "idle") \/ Goto(w, "failJobCommit"))
        BY <3>6, HeldTyped DEF FailJob
      <4> QED BY <1>1, <2>0, <3>1, <4>1, SoloGoto DEF WorkerPcs, HandlerPcs, Expected
    <3> QED BY <2>3, <3>2, <3>3, <3>4, <3>5, <3>6 DEF Quiet
  <2>4. CASE Marks(w)
    <3> DEFINE Moves == { <<"EXTRACTING", "saveExtracted">>, <<"EXTRACTING", "markChunking">>,
                          <<"CHUNKING", "markEmbedding">>, <<"EMBEDDING", "upsert">>,
                          <<"INDEXED", "idle">>, <<"FAILED", "failJob">>, <<"FAILED", "dead">>,
                          <<"EXTRACTING", "failLoad">>, <<"CHUNKING", "failLoad">>,
                          <<"EMBEDDING", "failLoad">>, <<"INDEXED", "failLoad">> }
    <3>1. PICK m \in Moves : Write(job[w], m[1]) /\ Goto(w, m[2])
      BY <2>4 DEF Marks, MarkExtracting, SaveExtracted, MarkChunking, MarkEmbedding, MarkIndexed,
                  MarkFailed, Update, Throw
    <3>2. pc[w] \notin {"idle", "dead", "claim"} /\ UNCHANGED jobs
      BY <2>4 DEF Marks, MarkExtracting, SaveExtracted, MarkChunking, MarkEmbedding, MarkIndexed,
                  MarkFailed, Update
    <3>3. /\ m[1] \in Statuses /\ m[2] \in WorkerPcs
          /\ m[2] \notin {"idle", "dead"} => m[1] \in Expected[m[2]]
      BY DEF Statuses, WorkerPcs, TryPcs, HandlerPcs, Expected
    <3> QED BY <1>1, <3>1, <3>2, <3>3, SoloWrite
  <2>5. CASE Upsert(w) \/ SaveRows(w)
    <3>1. /\ pc[w] \in {"upsert", "saveRows"} /\ UNCHANGED <<status, jobs>>
          /\ Goto(w, "saveRows") \/ Goto(w, "markIndexed") \/ Goto(w, "failLoad")
      BY <2>5 DEF Upsert, SaveRows, Throw
    <3>2. job[w] # NoDoc /\ status[job[w]] \in {Absent, "EMBEDDING"}
      BY <2>0, <3>1, HeldTyped DEF Expected
    <3> QED BY <1>1, <2>0, <3>1, <3>2, SoloGoto DEF WorkerPcs, TryPcs, HandlerPcs, Expected, Statuses
  <2>6. CASE FailJobCommit(w)
    <3>1. PICK l \in {"idle", "dead"} : Goto(w, l)
      BY <2>6 DEF FailJobCommit
    <3>2. job[w] \in DocIds /\ status[job[w]] \in {Absent, "FAILED"} /\ UNCHANGED status
      BY <2>0, <2>6, HeldTyped DEF FailJobCommit, Expected
    <3>3. \A d \in DocIds : jobs'[d] = "FAILED" => jobs[d] = "FAILED" \/ (d = job[w] /\ jobs[d] # "NONE")
      BY <2>6, <3>2 DEF FailJobCommit, TypeInv, TypeOK
    <3>4. StatusAsExpected'
      <4>1. \A v \in Workers : job'[v] = NoDoc
        BY <3>1, GotoEffect DEF OneThread, WorkerPcs
      <4> QED BY <4>1 DEF StatusAsExpected
    <3>5. JobAgrees'
      BY <3>2, <3>3 DEF JobAgrees, OneTransaction
    <3> QED BY <1>1, <3>4, <3>5
  <2> QED BY <2>1, <2>2, <2>3, <2>4, <2>5, <2>6 DEF WorkerStep, WorkerFault, Quiet, Marks
<1>3. CASE IngestNext
  <2>1. \A d \in DocIds : \/ status'[d] = status[d] /\ jobs'[d] = jobs[d]
                          \/ d = upload.id /\ status'[d] = "UPLOADED" /\ jobs'[d] = "PENDING"
    <3>1. CASE IngestSave
      BY <3>1 DEF IngestSave, TypeInv, TypeOK
    <3>2. CASE ~IngestSave
      BY <1>3, <3>2 DEF IngestNext, IngestCheck, IngestSaveFails, stores
    <3> QED BY <3>1, <3>2
  <2>2. \A w \in Workers : job[w] # NoDoc => job[w] \in DocIds /\ job[w] # upload.id
    <3>1. \A w \in Workers : job[w] # NoDoc => job[w] \in DocIds
      BY DEF TypeInv, TypeOK
    <3> QED BY <3>1 DEF FreshIds
  <2>3. UNCHANGED workers
    BY <1>3 DEF IngestNext, IngestCheck, IngestSave, IngestSaveFails
  <2> QED BY <1>1, <2>1, <2>2, <2>3 DEF StatusAsExpected, JobAgrees, workers
<1>4. CASE DeleteNext
  <2>1. \A d \in DocIds : \/ status'[d] = status[d] /\ jobs'[d] = jobs[d]
                          \/ status'[d] = Absent /\ jobs'[d] = "NONE"
    BY <1>4 DEF DeleteNext, DeleteStep, DeleteLoad, DeletePoints, DeleteRow, DeleteFails, stores,
                TypeInv, TypeOK
  <2>2. UNCHANGED workers
    BY <1>4 DEF DeleteNext, DeleteStep, DeleteLoad, DeletePoints, DeleteRow, DeleteFails
  <2>3. \A w \in Workers : job[w] # NoDoc => job[w] \in DocIds
    BY DEF TypeInv, TypeOK
  <2> QED BY <1>1, <2>1, <2>2, <2>3 DEF StatusAsExpected, JobAgrees, workers
<1>5. CASE Crash \/ UNCHANGED vars
  BY <1>1, <1>5 DEF Crash, vars, stores, workers, StatusAsExpected, JobAgrees
<1> QED BY <1>2, <1>3, <1>4, <1>5 DEF Next

LEMMA SoloHolds == ASSUME OneThread PROVE Spec => []SoloInv
<1>1. IngestionInv /\ SoloInv /\ [Next]_vars => SoloInv'
  BY SoloNext
<1> QED BY <1>1, SoloInit, InvariantHolds, PTL DEF Spec

\* With one thread, a job is marked FAILED only if its document is.
THEOREM JobsAgreeWithDocuments == ASSUME OneThread PROVE Spec => []JobAgrees
<1>1. SoloInv => JobAgrees
  BY DEF SoloInv
<1> QED BY <1>1, SoloHolds, PTL
-----------------------------------------------------------------------------
(* The refinement.                                                         *)

USE DEF Contract!Registered, Contract!CanTransition, Contract!Transitions, Contract!Statuses,
        Contract!Settled, Contract!NoContent

LEMMA ContractInit == Init => Contract!LifeInit
  BY DEF Init, Contract!LifeInit, life, NoUpload

\* life only moves where status, nextId or upload do.
LEMMA ContractStutter ==
  ASSUME UNCHANGED <<status, content, nextId, upload>>
  PROVE  UNCHANGED Contract!lifeVars
  BY DEF Contract!lifeVars, life

\* Removing the row of d, or giving up its registration, is Retire(d).
LEMMA ContractRetire ==
  ASSUME IngestionInv, NEW d \in DocIds, life[d] # "GONE", life'[d] = "GONE",
         \A e \in DocIds \ {d} : life'[e] = life[e],
         content' = [content EXCEPT ![d] = NoContent]
  PROVE  Contract!Retire(d)
<1>1. life' = [life EXCEPT ![d] = "GONE"]
  BY DEF life
<1> QED BY <1>1 DEF Contract!Retire

LEMMA ContractNext ==
  ASSUME OneThread, IngestionInv, SoloInv, [Next]_vars
  PROVE  [Contract!LifeNext]_(Contract!lifeVars)
<1> USE DEF IngestionInv, SoloInv
<1>1. CASE WorkerNext
  <2> PICK w \in Workers : WorkerStep(w) \/ WorkerFault(w)
    BY <1>1 DEF WorkerNext
  <2>1. CASE Marks(w)
    <3> DEFINE From(at) == IF at = "markFailed" THEN "FAILED"
                           ELSE IF at = "markIndexed" THEN "INDEXED"
                           ELSE IF at = "markEmbedding" THEN "EMBEDDING"
                           ELSE IF at = "markChunking" THEN "CHUNKING" ELSE "EXTRACTING"
    <3>1. /\ Write(job[w], From(pc[w]))
          /\ pc[w] \in {"markExtracting", "saveExtracted", "markChunking", "markEmbedding",
                       "markIndexed", "markFailed"}
          /\ UNCHANGED <<content, nextId, upload>>
      BY <2>1 DEF Marks, MarkExtracting, SaveExtracted, MarkChunking, MarkEmbedding, MarkIndexed,
                  MarkFailed, Update
    <3>2. job[w] \in DocIds
      BY <3>1, HeldTyped
    <3>3. CASE status[job[w]] = Absent
      BY <3>1, <3>3, ContractStutter DEF Write
    <3>4. CASE status[job[w]] # Absent
      <4> DEFINE s == From(pc[w])
      <4>1. /\ s \in Statuses /\ status[job[w]] \in Statuses
            /\ status[job[w]] = s \/ CanTransition(status[job[w]], s)
        <5>1. status[job[w]] \in Expected[pc[w]]
          BY <3>2, <3>4 DEF StatusAsExpected
        <5> QED BY <3>1, <5>1 DEF Expected, CanTransition, Transitions, Statuses, Settled
      <4>2. status' = [status EXCEPT ![job[w]] = s]
        BY <3>1, <3>4 DEF Write
      <4>3. life' = [life EXCEPT ![job[w]] = s] /\ life[job[w]] = status[job[w]]
        BY <3>1, <3>2, <3>4, <4>1, <4>2 DEF life, TypeInv, TypeOK, Statuses
      <4>4. CASE status[job[w]] = s
        BY <3>1, <4>3, <4>4 DEF Contract!lifeVars, life
      <4>5. CASE CanTransition(status[job[w]], s)
        <5>1. Contract!Advance(job[w], s)
          BY <3>1, <4>1, <4>3, <4>5
             DEF Contract!Advance, CanTransition, Transitions, Statuses, Settled
        <5> QED BY <3>2, <4>1, <5>1 DEF Contract!LifeNext, Statuses
      <4> QED BY <4>1, <4>4, <4>5
    <3> QED BY <3>3, <3>4
  <2>2. CASE ~Marks(w)
    <3>1. UNCHANGED <<status, content, nextId, upload>>
      BY <2>2 DEF WorkerStep, WorkerFault, Marks, ClaimSelect, ClaimCommit, Load, Upsert, SaveRows,
              FailLoad, FailJob, FailJobCommit, ClaimFails, Raise, HandlerFails, stores
    <3> QED BY <3>1, ContractStutter
  <2> QED BY <2>1, <2>2
<1>2. CASE IngestNext
  <2>1. CASE \E h \in Contents : IngestCheck(h)
    <3> PICK h \in Contents : IngestCheck(h)
      BY <2>1
    <3>1. /\ upload = NoUpload /\ upload' = [id |-> nextId, content |-> h]
          /\ nextId' = nextId + 1 /\ nextId \in DocIds /\ UNCHANGED stores
      BY DEF IngestCheck
    <3>2. life' = life
      BY <3>1 DEF life, stores, NoUpload, FreshIds
    <3> QED BY <3>1, <3>2 DEF Contract!lifeVars, stores
  <2>2. CASE IngestSave
    <3> DEFINE u == upload.id
    <3>1. /\ u \in DocIds /\ upload.content \in Contents /\ status[u] = Absent
          /\ ContentFree(upload.content)
      <4>1. upload \in [id : DocIds, content : Contents]
        BY <2>2 DEF IngestSave, TypeInv, TypeOK, Uploads
      <4> QED BY <2>2, <4>1 DEF FreshIds, IngestSave
    <3>2. /\ status' = [status EXCEPT ![u] = "UPLOADED"]
          /\ content' = [content EXCEPT ![u] = upload.content]
          /\ upload' = NoUpload /\ nextId' = nextId
      BY <2>2 DEF IngestSave
    <3>3. life[u] = "NEW" /\ life' = [life EXCEPT ![u] = "UPLOADED"]
      <4>1. upload'.id = 0
        BY <3>2 DEF NoUpload
      <4>2. status'[u] = "UPLOADED" /\ \A e \in DocIds \ {u} : status'[e] = status[e]
        BY <3>1, <3>2 DEF TypeInv, TypeOK
      <4>3. life'[u] = "UPLOADED" /\ life[u] = "NEW"
        BY <3>1, <4>2 DEF life
      <4>4. \A e \in DocIds \ {u} : life'[e] = life[e]
        BY <3>2, <4>1, <4>2 DEF life
      <4> QED BY <3>1, <4>3, <4>4 DEF life
    <3>4. \A e \in DocIds : life[e] \in Statuses => content[e] # upload.content
      BY <3>1 DEF ContentFree, life, Statuses
    <3>5. Contract!Accept(u, upload.content)
      BY <3>1, <3>2, <3>3, <3>4 DEF Contract!Accept, Statuses
    <3> QED BY <3>1, <3>5 DEF Contract!LifeNext
  <2>3. CASE IngestSaveFails
    <3> DEFINE u == upload.id
    <3>1. u \in DocIds /\ status[u] = Absent /\ content[u] = NoContent /\ u < nextId
      <4>1. upload \in [id : DocIds, content : Contents]
        BY <2>3 DEF IngestSaveFails, TypeInv, TypeOK, Uploads
      <4> QED BY <4>1 DEF FreshIds, OneTransaction
    <3>2. upload' = NoUpload /\ UNCHANGED <<status, content, nextId>>
      BY <2>3 DEF IngestSaveFails, stores
    <3>3. /\ life[u] # "GONE" /\ life'[u] = "GONE"
          /\ \A e \in DocIds \ {u} : life'[e] = life[e]
      BY <3>1, <3>2 DEF life, NoUpload
    <3>4. content' = [content EXCEPT ![u] = NoContent]
      BY <3>1, <3>2 DEF TypeInv, TypeOK
    <3> QED BY <3>1, <3>3, <3>4, ContractRetire DEF Contract!LifeNext
  <2> QED BY <1>2, <2>1, <2>2, <2>3 DEF IngestNext
<1>3. CASE DeleteNext
  <2> PICK x \in Deleters : \/ \E d \in DocIds : DeleteLoad(x, d)
                            \/ DeletePoints(x) \/ DeleteRow(x) \/ DeleteFails(x)
    BY <1>3 DEF DeleteNext, DeleteStep
  <2>1. CASE DeleteRow(x)
    <3> DEFINE g == delDoc[x]
    <3>1. /\ status' = [status EXCEPT ![g] = Absent]
          /\ content' = [content EXCEPT ![g] = NoContent]
          /\ UNCHANGED <<nextId, upload>> /\ g # NoDoc
      BY <2>1 DEF DeleteRow, TypeInv, Busy
    <3>2. g \in DocIds /\ g < nextId /\ g # upload.id
      <4>1. g \in DocIds /\ nextId \in Nat
        BY <3>1 DEF TypeInv, TypeOK
      <4> QED BY <4>1 DEF FreshIds
    <3>3. life'[g] = "GONE" /\ \A e \in DocIds \ {g} : life'[e] = life[e]
      BY <3>1, <3>2 DEF life, TypeInv, TypeOK
    <3>4. CASE life[g] # "GONE"
      BY <3>1, <3>2, <3>3, <3>4, ContractRetire DEF Contract!LifeNext
    <3>5. CASE life[g] = "GONE"
      <4>1. status[g] = Absent /\ content[g] = NoContent
        BY <3>2, <3>5 DEF life, OneTransaction, TypeInv, TypeOK, Statuses
      <4>2. status' = status /\ content' = content
        BY <3>1, <3>2, <4>1 DEF TypeInv, TypeOK
      <4> QED BY <3>1, <4>2, ContractStutter
    <3> QED BY <3>4, <3>5
  <2>2. CASE ~DeleteRow(x)
    BY <2>2, ContractStutter DEF DeleteLoad, DeletePoints, DeleteFails, stores
  <2> QED BY <2>1, <2>2
<1>4. CASE Crash
  <2>1. upload' = NoUpload /\ UNCHANGED <<status, content, nextId>>
    BY <1>4 DEF Crash, stores
  <2>2. CASE upload = NoUpload
    BY <2>1, <2>2, ContractStutter
  <2>3. CASE upload # NoUpload
    <3> DEFINE u == upload.id
    <3>1. u \in DocIds /\ status[u] = Absent /\ content[u] = NoContent /\ u < nextId
      <4>1. upload \in [id : DocIds, content : Contents]
        BY <2>3 DEF TypeInv, TypeOK, Uploads
      <4> QED BY <4>1 DEF FreshIds, OneTransaction
    <3>2. /\ life[u] # "GONE" /\ life'[u] = "GONE"
          /\ \A e \in DocIds \ {u} : life'[e] = life[e]
      BY <2>1, <3>1 DEF life, NoUpload
    <3>3. content' = [content EXCEPT ![u] = NoContent]
      BY <2>1, <3>1 DEF TypeInv, TypeOK
    <3> QED BY <3>1, <3>2, <3>3, ContractRetire DEF Contract!LifeNext
  <2> QED BY <2>2, <2>3
<1>5. CASE UNCHANGED vars
  BY <1>5, ContractStutter DEF vars, stores
<1> QED BY <1>1, <1>2, <1>3, <1>4, <1>5 DEF Next

\* With one ingestion thread, the write side is a DocumentLifecycle: statuses
\* follow the table, content is accepted once, and what is deleted is gone.
THEOREM ImplementsLifecycle == ASSUME OneThread PROVE Spec => LifecycleContract
<1>1. IngestionInv /\ SoloInv /\ [Next]_vars => [Contract!LifeNext]_(Contract!lifeVars)
  BY ContractNext
<1> QED BY <1>1, ContractInit, InvariantHolds, SoloHolds, PTL
        DEF Spec, LifecycleContract, Contract!LifeSpec
=============================================================================
