-------------------------- MODULE ThreadPoolProofs --------------------------
(***************************************************************************)
(* However many threads share the job queue and claim each other's jobs,   *)
(* one of them survives.                                                   *)
(***************************************************************************)
EXTENDS IngestionProofs

USE IngestionAssumption, ContentAssumption
USE DEF NoDoc, DocIds, Absent, NoContent

\* Every write of a status but the first comes from a thread past its claim.
LEMMA PendingInit == Init => PendingUntouched
  BY DEF Init, PendingUntouched

LEMMA PendingNext ==
  ASSUME IngestionInv, PendingUntouched, [Next]_vars
  PROVE  PendingUntouched'
<1> USE DEF IngestionInv
<1>1. CASE WorkerNext
  <2> PICK w \in Workers : WorkerStep(w) \/ WorkerFault(w)
    BY <1>1 DEF WorkerNext
  <2>1. CASE Marks(w)
    <3>1. PICK s \in Statuses : Write(job[w], s)
      BY <2>1 DEF Marks, MarkExtracting, SaveExtracted, MarkChunking, MarkEmbedding,
                  MarkIndexed, MarkFailed, Update, Statuses
    <3>2. pc[w] \in TryPcs \cup HandlerPcs /\ UNCHANGED jobs
      BY <2>1 DEF Marks, MarkExtracting, SaveExtracted, MarkChunking, MarkEmbedding,
                  MarkIndexed, MarkFailed, Update, TryPcs, HandlerPcs
    <3>3. job[w] \in DocIds /\ jobs[job[w]] # "PENDING"
      BY <3>2, HeldTyped DEF PassProgress, TryPcs, HandlerPcs
    <3> QED BY <3>1, <3>2, <3>3, WriteEffect DEF PendingUntouched
  <2>2. CASE ClaimCommit(w) \/ FailJobCommit(w)
    BY <2>2 DEF ClaimCommit, FailJobCommit, PendingUntouched, TypeInv, TypeOK
  <2>3. CASE ~Marks(w) /\ ~ClaimCommit(w) /\ ~FailJobCommit(w)
    <3>1. UNCHANGED <<status, jobs>>
      BY <2>3 DEF WorkerStep, WorkerFault, Marks, ClaimSelect, Load, Upsert, SaveRows,
              FailLoad, FailJob, ClaimFails, Raise, HandlerFails, stores
    <3> QED BY <3>1 DEF PendingUntouched
  <2> QED BY <2>1, <2>2, <2>3
<1>2. CASE IngestNext
  BY <1>2 DEF IngestNext, IngestCheck, IngestSave, IngestSaveFails, stores, PendingUntouched,
              TypeInv, TypeOK
<1>3. CASE DeleteNext
  BY <1>3 DEF DeleteNext, DeleteStep, DeleteLoad, DeletePoints, DeleteRow, DeleteFails, stores,
              PendingUntouched, TypeInv, TypeOK
<1>4. CASE Crash \/ UNCHANGED vars
  BY <1>4 DEF Crash, vars, stores, PendingUntouched
<1> QED BY <1>1, <1>2, <1>3, <1>4 DEF Next

-----------------------------------------------------------------------------
(* The pool outlives its double claims.                                    *)

Undisturbed == Workers # {} /\ Deleters = {} /\ ~DbFaults

LEMMA PoolInit == Undisturbed /\ Init => PoolInv
  BY PendingInit DEF Undisturbed, Init, PoolInv, Survivor, Doomed, Responsible, TryPcs

\* A thread that is alive and not doomed is still there after a step, or the
\* thread that has just settled its document is.
LEMMA PoolNext ==
  ASSUME Undisturbed, IngestionInv, PoolInv, [Next]_vars
  PROVE  PoolInv'
<1> USE DEF IngestionInv, PoolInv, Undisturbed
<1>1. PendingUntouched'
  BY PendingNext
<1>2. PICK s \in Workers : pc[s] # "dead" /\ ~Doomed(s)
  BY DEF Survivor
<1>3. CASE WorkerNext
  <2> PICK w \in Workers : WorkerStep(w) \/ WorkerFault(w)
    BY <1>3 DEF WorkerNext
  <2>1. purged' = purged
    BY DEF WorkerStep, WorkerFault, ClaimSelect, ClaimCommit, Load, MarkExtracting,
           SaveExtracted, MarkChunking, MarkEmbedding, Upsert, SaveRows, MarkIndexed, FailLoad,
           MarkFailed, FailJob, FailJobCommit, ClaimFails, Raise, HandlerFails, Update, deleters
  <2>2. \A v \in Workers : pc[v] \notin {"idle", "dead"} =>
           /\ job[v] \in DocIds /\ status[job[v]] \in Statuses /\ jobs[job[v]] # "NONE"
    BY HeldTyped DEF PurgedFirst, OneTransaction, TypeInv, TypeOK
  <2>3. Survivor'
    <3>1. CASE MarkIndexed(w)
      <4>1. Goto(w, "idle")
        BY <3>1 DEF MarkIndexed, Update
      <4>2. pc'[w] = "idle"
        BY <4>1, GotoEffect DEF WorkerPcs
      <4> QED BY <4>2 DEF Survivor, Doomed, Responsible, TryPcs
    <3>2. CASE MarkFailed(w)
      <4>1. Goto(w, "failJob")
        BY <3>2 DEF MarkFailed
      <4>2. pc'[w] = "failJob"
        BY <4>1, GotoEffect DEF WorkerPcs, HandlerPcs
      <4> QED BY <4>2 DEF Survivor, Doomed, Responsible, TryPcs
    <3>3. CASE /\ Marks(w) /\ ~MarkIndexed(w) /\ ~MarkFailed(w)
      <4> DEFINE Stages == {"EXTRACTING", "CHUNKING", "EMBEDDING"}
                 Onward == {"saveExtracted", "markChunking", "markEmbedding", "upsert"}
      <4>1. PICK t \in Stages, l \in Onward :
              pc[w] \in TryPcs /\ Write(job[w], t) /\ Goto(w, l)
        BY <3>3 DEF Marks, MarkExtracting, SaveExtracted, MarkChunking, MarkEmbedding, Update, TryPcs
      <4>2. l \in WorkerPcs /\ t \in Statuses /\ t \notin Settled /\ l # "dead"
        BY <4>1 DEF WorkerPcs, TryPcs, Statuses, Settled
      <4>3. job[w] \in DocIds /\ status[job[w]] # Absent
        BY <2>2, <4>1 DEF TryPcs, Statuses
      <4>4. status'[job[w]] \notin Settled /\ \A d \in DocIds \ {job[w]} : status'[d] = status[d]
        BY <4>1, <4>2, <4>3, WriteEffect
      <4>5. pc'[w] = l /\ job'[w] = job[w]
        BY <4>1, <4>2, GotoEffect DEF Settled
      <4> QED BY <4>2, <4>4, <4>5 DEF Survivor, Doomed
    <3>4. CASE FailLoad(w) \/ ClaimFails(w)
      <4>1. FailLoad(w) /\ UNCHANGED <<stores>>
        BY <2>2, <3>4 DEF FailLoad, ClaimFails
      <4>2. \/ status[job[w]] \in Settled
            \/ Goto(w, "markFailed") /\ status[job[w]] \notin Settled
        BY <2>2, <4>1 DEF FailLoad, CanTransition, Transitions, Statuses
      <4>3. CASE status[job[w]] \in Settled
        <5>1. s # w
          BY <1>2, <4>1, <4>3 DEF FailLoad, Doomed, Responsible
        <5>2. pc'[s] = pc[s] /\ job'[s] = job[s]
          BY <4>1, <5>1 DEF FailLoad, Goto, TypeInv, TypeOK
        <5> QED BY <1>2, <4>1, <5>2 DEF Survivor, Doomed, stores
      <4>4. CASE Goto(w, "markFailed") /\ status[job[w]] \notin Settled
        <5>1. pc'[w] = "markFailed" /\ job'[w] = job[w]
          BY <4>4, GotoEffect DEF WorkerPcs, HandlerPcs
        <5> QED BY <4>1, <4>4, <5>1 DEF Survivor, Doomed, stores
      <4> QED BY <4>2, <4>3, <4>4
    <3>5. CASE ClaimSelect(w)
      <4>1. PICK d \in Pending : job' = [job EXCEPT ![w] = d]
        BY <3>5 DEF ClaimSelect
      <4>2. pc' = [pc EXCEPT ![w] = "claim"] /\ UNCHANGED stores /\ status[d] = "UPLOADED"
        BY <3>5, <4>1 DEF ClaimSelect, PendingUntouched, Pending
      <4>3. pc'[w] = "claim" /\ job'[w] = d
        BY <4>1, <4>2 DEF TypeInv, TypeOK
      <4> QED BY <4>2, <4>3 DEF Survivor, Doomed, Settled, stores
    <3>6. CASE ClaimCommit(w) \/ Load(w) \/ Upsert(w) \/ SaveRows(w) \/ Raise(w) \/ FailJob(w)
               \/ FailJobCommit(w)
      <4> DEFINE Onward == {"load", "markExtracting", "failLoad", "saveRows", "markIndexed",
                            "idle", "failJobCommit"}
      <4>1. UNCHANGED status /\ pc[w] \in {"claim"} \cup TryPcs \cup HandlerPcs
        BY <3>6 DEF ClaimCommit, Load, Upsert, SaveRows, Raise, FailJob, FailJobCommit, stores,
                    TryPcs, StepPcs, HandlerPcs
      <4>2. PICK l \in Onward : Goto(w, l)
        <5>1. jobs[job[w]] # "NONE"
          BY <2>2, <4>1 DEF TryPcs, HandlerPcs
        <5> QED BY <3>6, <5>1 DEF ClaimCommit, Load, Upsert, SaveRows, Raise, FailJob,
                                  FailJobCommit, Throw
      <4>3. l \in WorkerPcs
        BY DEF WorkerPcs, TryPcs, HandlerPcs
      <4>4. l \in Responsible => pc[w] \in Responsible
        <5>1. CASE FailJob(w) \/ FailJobCommit(w)
          <6>1. Goto(w, "idle") \/ Goto(w, "failJobCommit")
            BY <2>2, <3>6, <4>1, <5>1 DEF FailJob, FailJobCommit, HandlerPcs
          <6>2. l \in {"idle", "failJobCommit"}
            BY <4>2, <4>3, <6>1, GotoEffect DEF WorkerPcs, HandlerPcs
          <6> QED BY <6>2 DEF Responsible, TryPcs
        <5>2. CASE ~FailJob(w) /\ ~FailJobCommit(w)
          BY <3>6, <5>2 DEF ClaimCommit, Load, Upsert, SaveRows, Raise, Responsible, TryPcs, StepPcs
        <5> QED BY <5>1, <5>2
      <4>5. pc'[w] = l /\ l # "dead" /\ (l # "idle" => job'[w] = job[w])
        BY <4>2, <4>3, GotoEffect
      <4>6. CASE s = w
        BY <1>2, <4>1, <4>4, <4>5, <4>6 DEF Survivor, Doomed, Responsible, TryPcs
      <4>7. CASE s # w
        BY <1>2, <4>1, <4>2, <4>3, <4>7, GotoEffect DEF Survivor, Doomed
      <4> QED BY <4>6, <4>7
    <3> QED BY <3>1, <3>2, <3>3, <3>4, <3>5, <3>6
            DEF WorkerStep, WorkerFault, Marks, HandlerFails
  <2> QED BY <1>1, <2>1, <2>3
<1>4. CASE IngestNext
  <2>1. UNCHANGED <<workers, deleters>>
    BY <1>4 DEF IngestNext, IngestCheck, IngestSave, IngestSaveFails
  <2>2. \A d \in DocIds : status'[d] = status[d] \/ status'[d] = "UPLOADED"
    BY <1>4 DEF IngestNext, IngestCheck, IngestSave, IngestSaveFails, stores, TypeInv, TypeOK
  <2>3. pc[s] \in Responsible => job[s] \in DocIds
    BY HeldTyped DEF Responsible, TryPcs
  <2> QED BY <1>1, <1>2, <2>1, <2>2, <2>3 DEF Survivor, Doomed, Settled, workers, deleters
<1>5. CASE Crash
  BY <1>1, <1>5 DEF Crash, Survivor, Doomed, Responsible, TryPcs
<1>6. CASE UNCHANGED vars
  BY <1>1, <1>6 DEF vars, stores, workers, deleters, Survivor, Doomed
<1> QED BY <1>3, <1>4, <1>5, <1>6 DEF Next, DeleteNext

\* Threads that claim the same job end each other, but never the last one:
\* without deletions and faults of Postgres the pool goes on working, whatever
\* the extractor, the chunker, the embedder and Qdrant do.
THEOREM PoolNeverDies == ASSUME Undisturbed PROVE Spec => []PoolSurvives
<1>1. Init => PoolInv
  BY PoolInit
<1>2. IngestionInv /\ PoolInv /\ [Next]_vars => PoolInv'
  BY PoolNext
<1>3. PoolInv => PoolSurvives
  BY DEF PoolInv, Survivor, PoolSurvives
<1> QED BY <1>1, <1>2, <1>3, InvariantHolds, PTL DEF Spec
=============================================================================
