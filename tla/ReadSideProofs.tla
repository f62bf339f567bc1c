--------------------------- MODULE ReadSideProofs ---------------------------
(***************************************************************************)
(* What readers see of the stores while any number of threads, uploads,    *)
(* deletions and crashes go on between their reads.                        *)
(***************************************************************************)
EXTENDS ReadSide, SingleThreadProofs

\* d has been registered: it cannot come back once it is gone.
Known(d) == d < nextId /\ d # upload.id

\* A document that q has seen INDEXED comes with chunks that q has found.
Covered(q, d) ==
  q.seen[d] = "INDEXED" /\ status[d] # Absent => \E b \in q.found : b[1] = d

\* What holds of a request, q, at each of its reads and of its reply.
Sound(q) ==
  /\ \A d \in DocIds : q.seen[d] # Absent => Known(d)
  /\ \A d \in DocIds : q.seen[d] = "INDEXED" /\ status[d] # Absent => RowsOf(d) # {}
  /\ q.reply = "ok" => \A d \in DocIds : Covered(q, d)
  /\ q.at = "counts" => \A d \in DocIds \ q.left : Covered(q, d)
  /\ q.at = "rows" => \A d \in DocIds \ {q.doc} : q.seen[d] = Absent
  /\ q.at \in {"context", "owner"} => \A d \in DocIds : q.seen[d] = Absent
  /\ q.at \in ReadPoints => q.reply = "none"

\* All that q has seen, r had seen before or sees now.
Witnessed(q, r) == \A d \in DocIds : q.seen[d] \in {Absent, read[r].seen[d], status[d]}

ReadInv == ReadTypeOK /\ \A r \in Readers : Sound(read[r])

-----------------------------------------------------------------------------
(* Readers change no store.                                                *)

LEMMA ReadersOnlyRead == [ReadNext]_readVars => [Next]_vars
<1> SUFFICES ASSUME [ReadNext]_readVars PROVE [Next]_vars
  OBVIOUS
<1>1. CASE WriteStep \/ ReadCrash
  BY <1>1, Zenon DEF WriteStep, ReadCrash, Next
<1>2. ASSUME NEW r \in Readers,
             Request(r) \/ ReadStep(r) \/ ReadFails(r) \/ GivesUp(r) \/ TakeReply(r)
      PROVE  UNCHANGED vars
  BY <1>2, Zenon DEF Request, ReadStep, ReadFails, GivesUp, TakeReply, GetDocument,
     ListDocumentChunks, ReadDocument, ListDocuments, FetchChunk, Search, Raises, UnknownTool, ReadRows,
     CountChunks, FetchContext, FetchOwner, Serve
<1>3. CASE UNCHANGED readVars
  BY <1>3, Zenon DEF readVars
<1> QED
  BY <1>1, <1>2, <1>3, Zenon DEF ReadNext

\* The read side leaves the write side as it is: whatever is proved of
\* Ingestion holds with readers.
THEOREM ReadersKeepIngestion == ReadSpec => Spec
<1>1. ReadInit => Init
  BY DEF ReadInit
<1> QED
  BY <1>1, ReadersOnlyRead, PTL DEF ReadSpec, Spec

-----------------------------------------------------------------------------
(* The stores move on under a request.                                     *)

\* The chunks of a document go only with the document.
LEMMA RowsStay ==
  ASSUME IngestionInv, [Next]_vars, NEW d \in DocIds, status'[d] # Absent
  PROVE  RowsOf(d) \subseteq RowsOf(d)'
<1> USE DEF RowsOf, IngestionInv
<1>1. CASE WorkerNext
  <2> PICK w \in Workers : WorkerStep(w) \/ WorkerFault(w)
    BY <1>1 DEF WorkerNext
  <2>1. rows \subseteq rows'
    <3>1. CASE SaveRows(w)
      BY <3>1 DEF SaveRows
    <3>2. CASE ~ SaveRows(w)
      BY <3>2, Zenon DEF WorkerStep, WorkerFault, ClaimSelect, ClaimCommit, Load, MarkExtracting,
         SaveExtracted, MarkChunking, MarkEmbedding, MarkIndexed, MarkFailed, Update, Upsert,
         FailLoad, FailJob, FailJobCommit, ClaimFails, Raise, HandlerFails, stores
    <3> QED
      BY <3>1, <3>2
  <2> QED
    BY <2>1
<1>2. CASE IngestNext \/ Crash \/ UNCHANGED vars
  BY <1>2 DEF IngestNext, IngestCheck, IngestSave, IngestSaveFails, Crash, vars, stores
<1>3. CASE DeleteNext
  <2> PICK x \in Deleters : \/ \E e \in DocIds : DeleteLoad(x, e)
                            \/ DeletePoints(x) \/ DeleteRow(x) \/ DeleteFails(x)
    BY <1>3 DEF DeleteNext, DeleteStep
  <2>1. CASE DeleteRow(x)
    <3>1. status' = [status EXCEPT ![delDoc[x]] = Absent]
          /\ rows' = {b \in rows : b[1] # delDoc[x]}
      BY <2>1 DEF DeleteRow
    <3>2. d # delDoc[x]
      BY <3>1 DEF TypeInv, TypeOK
    <3> QED
      BY <3>1, <3>2
  <2>2. CASE ~ DeleteRow(x)
    BY <2>2 DEF DeleteLoad, DeletePoints, DeleteFails, stores
  <2> QED
    BY <2>1, <2>2
<1> QED
  BY <1>1, <1>2, <1>3 DEF Next

\* A registered document remains registered.
LEMMA KnownStays ==
  ASSUME IngestionInv, [Next]_vars, NEW d \in DocIds, Known(d)
  PROVE  Known(d)'
<1> USE DEF IngestionInv
<1>1. nextId \in Nat /\ upload.id \in Nat /\ NoUpload.id = 0 /\ d \in Nat \ {0}
  BY DEF TypeInv, TypeOK, Uploads, NoUpload, NoDoc, DocIds
<1>2. CASE WorkerNext
  <2>1. nextId' = nextId /\ upload' = upload
    BY <1>2, Zenon DEF WorkerNext, WorkerStep, WorkerFault, ClaimSelect, ClaimCommit, Load,
       MarkExtracting, SaveExtracted, MarkChunking, MarkEmbedding, MarkIndexed, MarkFailed,
       Update, Upsert, SaveRows, FailLoad, FailJob, FailJobCommit, ClaimFails, Raise,
       HandlerFails, stores
  <2> QED
    BY <2>1 DEF Known
<1>3. CASE IngestNext
  <2>1. \/ nextId' = nextId + 1 /\ upload'.id = nextId
        \/ nextId' = nextId /\ upload' = NoUpload
    BY <1>3 DEF IngestNext, IngestCheck, IngestSave, IngestSaveFails
  <2> QED
    BY <1>1, <2>1, SMT DEF Known
<1>4. CASE DeleteNext
  <2>1. nextId' = nextId /\ upload' = upload
    BY <1>4, Zenon DEF DeleteNext, DeleteStep, DeleteLoad, DeletePoints, DeleteRow, DeleteFails
  <2> QED
    BY <2>1 DEF Known
<1>5. CASE Crash \/ UNCHANGED vars
  <2>1. nextId' = nextId /\ (upload' = upload \/ upload' = NoUpload)
    BY <1>5 DEF Crash, vars
  <2> QED
    BY <1>1, <2>1 DEF Known
<1> QED
  BY <1>2, <1>3, <1>4, <1>5 DEF Next

\* Whatever the write side does between two reads, a request stays sound.
LEMMA SoundStays ==
  ASSUME IngestionInv, [Next]_vars, NEW q \in Reads, Sound(q)
  PROVE  Sound(q)'
<1>1. ASSUME NEW d \in DocIds, q.seen[d] # Absent, status'[d] # Absent
      PROVE  status[d] # Absent /\ RowsOf(d) \subseteq RowsOf(d)'
  <2>1. Known(d)
    BY <1>1 DEF Sound
  <2> QED
    BY <1>1, <2>1, RowsStay, StepsDoNotResurrect DEF Known
<1>2. \A d \in DocIds : q.seen[d] # Absent => Known(d)'
  BY KnownStays DEF Sound
<1>3. Absent # "INDEXED"
  BY DEF Absent
<1>4. \A d \in DocIds : q.seen[d] = "INDEXED" /\ status'[d] # Absent => RowsOf(d)' # {}
  BY <1>1, <1>3 DEF Sound
<1>5. \A d \in DocIds : Covered(q, d) => Covered(q, d)'
  BY <1>1, <1>3 DEF Covered
<1> QED
  BY <1>2, <1>4, <1>5 DEF Sound

-----------------------------------------------------------------------------
(* Each read leaves a sound request.                                       *)

\* A reply that carries nothing.
\* Requests and replies are records of the kind ReadTypeOK names.
LEMMA NoReadIsRead ==
  /\ NoRead \in Reads
  /\ NoRead.at = "idle" /\ NoRead.left = {} /\ NoRead.found = {} /\ NoRead.reply = "none"
  /\ \A d \in DocIds : NoRead.seen[d] = Absent
<1>1. NoStatuses \in [DocIds -> Statuses \cup {Absent}]
  BY DEF NoStatuses
<1>2. NoRead \in Reads
  BY <1>1 DEF NoRead, Reads
<1>3. \A d \in DocIds : NoRead.seen[d] = Absent
  BY DEF NoRead, NoStatuses
<1> QED
  BY <1>2, <1>3 DEF NoRead

LEMMA ReplyIsRead ==
  ASSUME NEW q \in Reads
  PROVE  /\ Done(q) \in Reads
         /\ Done(q).at = "answered" /\ Done(q).reply = "ok"
         /\ Done(q).seen = q.seen /\ Done(q).found = q.found
<1>1. \A p \in Reads :
        LET a == [p EXCEPT !.at = "answered", !.reply = "ok", !.seen = q.seen, !.found = q.found]
        IN  /\ a \in Reads /\ a.at = "answered" /\ a.reply = "ok"
            /\ a.seen = q.seen /\ a.found = q.found
  BY DEF Reads, Replies
<1> QED
  BY <1>1, NoReadIsRead DEF Done

\* A reply that carries nothing is sound.
LEMMA RefusedSound ==
  ASSUME NEW reply \in Replies \ {"ok"}
  PROVE  /\ Refused(reply) \in Reads /\ Sound(Refused(reply))
         /\ \A d \in DocIds : Refused(reply).seen[d] = Absent
<1>1. \A p \in Reads :
        LET a == [p EXCEPT !.at = "answered", !.reply = reply]
        IN  a \in Reads /\ a.at = "answered" /\ a.reply = reply /\ a.seen = p.seen
  BY DEF Reads
<1>2. /\ Refused(reply) \in Reads
      /\ Refused(reply).at = "answered" /\ Refused(reply).reply = reply
      /\ Refused(reply).seen = NoRead.seen
  BY <1>1, NoReadIsRead DEF Refused
<1>3. \A d \in DocIds : Refused(reply).seen[d] = Absent
  BY <1>2, NoReadIsRead
<1> HIDE DEF Refused
<1>4. Absent # "INDEXED"
  BY DEF Absent
<1> QED
  BY <1>2, <1>3, <1>4 DEF Sound, ReadPoints

\* A status that is read now is that of a registered document, and INDEXED only
\* with chunks.
LEMMA SeenNow ==
  ASSUME IngestionInv, NEW d \in DocIds
  PROVE  /\ status[d] # Absent => Known(d)
         /\ status[d] = "INDEXED" => RowsOf(d) # {}
<1>1. status[d] # Absent => Known(d)
  <2>1. nextId \in Nat /\ d \in Nat
    BY DEF IngestionInv, TypeInv, TypeOK, DocIds
  <2>2. status[d] # Absent => ~ (d >= nextId) /\ d # upload.id
    BY DEF IngestionInv, FreshIds
  <2> QED
    BY <2>1, <2>2 DEF Known
<1>2. status[d] = "INDEXED" => \E w \in Workers : <<d, w>> \in rows
  BY DEF IngestionInv, IndexedHasRows
<1>3. ASSUME NEW w \in Workers, <<d, w>> \in rows
      PROVE  <<d, w>> \in RowsOf(d)
  BY <1>3 DEF RowsOf
<1> QED
  BY <1>1, <1>2, <1>3

\* Whatever a reader asks, its request is sound.
LEMMA RequestSound ==
  ASSUME IngestionInv, ReadInv, NEW r \in Readers, Request(r)
  PROVE  \E q \in Reads : Sound(q) /\ Witnessed(q, r) /\ Serve(r, q)
<1>1. \A reply \in Replies \ {"ok"} : Serve(r, Refused(reply))
        => \E q \in Reads : Sound(q) /\ Witnessed(q, r) /\ Serve(r, q)
  BY RefusedSound DEF Witnessed
<1>2. "notFound" \in Replies \ {"ok"} /\ "toolError" \in Replies \ {"ok"}
      /\ "serverError" \in Replies \ {"ok"}
  BY DEF Replies
<1>3. Absent # "INDEXED" /\ \A d \in DocIds : status[d] \in Statuses \cup {Absent}
  BY DEF IngestionInv, TypeInv, TypeOK, Absent
<1>4. ASSUME NEW d \in DocIds, ReadDocument(r, d)
      PROVE  \E q \in Reads : Sound(q) /\ Witnessed(q, r) /\ Serve(r, q)
  <2> DEFINE q == [NoRead EXCEPT !.doc = d, !.at = "rows", !.seen[d] = status[d]]
  <2>1. CASE status[d] = Absent
    BY <1>1, <1>2, <1>4, <2>1 DEF ReadDocument, Missing
  <2>2. CASE status[d] # Absent
    <3>1. Serve(r, q)
      BY <1>4, <2>2, Zenon DEF ReadDocument
    <3>2. \A p \in Reads :
            LET a == [p EXCEPT !.doc = d, !.at = "rows", !.seen[d] = status[d]]
            IN  /\ a \in Reads /\ a.doc = d /\ a.at = "rows" /\ a.reply = p.reply
                /\ a.seen[d] = status[d] /\ \A e \in DocIds \ {d} : a.seen[e] = p.seen[e]
      BY <1>3 DEF Reads, ReadPoints
    <3>3. /\ q \in Reads /\ q.doc = d /\ q.at = "rows" /\ q.reply = "none"
          /\ q.seen[d] = status[d] /\ \A e \in DocIds \ {d} : q.seen[e] = Absent
      BY <3>2, NoReadIsRead
    <3> HIDE DEF q
    <3>4. Sound(q)
      BY <1>3, <3>3, SeenNow DEF Sound
    <3>5. Witnessed(q, r)
      BY <3>3 DEF Witnessed
    <3> QED
      BY <3>1, <3>3, <3>4, <3>5
  <2> QED
    BY <2>1, <2>2
<1>5. ASSUME NEW wanted \in Filters, ListDocuments(r, wanted)
      PROVE  \E q \in Reads : Sound(q) /\ Witnessed(q, r) /\ Serve(r, q)
  <2> DEFINE listed == {d \in DocIds : status[d] \in wanted}
             statuses == [d \in DocIds |-> IF d \in listed THEN status[d] ELSE Absent]
             q == [NoRead EXCEPT !.at = "counts", !.left = listed, !.seen = statuses]
  <2>1. Serve(r, IF listed = {} THEN Done(q) ELSE q)
    BY <1>5, Zenon DEF ListDocuments
  <2>2. statuses \in [DocIds -> Statuses \cup {Absent}]
    BY <1>3
  <2>3. \A d \in DocIds : /\ statuses[d] \in {status[d], Absent}
                          /\ d \notin listed => statuses[d] = Absent
    OBVIOUS
  <2>4. listed \in SUBSET DocIds
    OBVIOUS
  <2> HIDE DEF statuses, listed
  <2>5. \A p \in Reads :
          LET a == [p EXCEPT !.at = "counts", !.left = listed, !.seen = statuses]
          IN  /\ a \in Reads /\ a.at = "counts" /\ a.left = listed /\ a.seen = statuses
              /\ a.reply = p.reply
    BY <2>2, <2>4 DEF Reads, ReadPoints
  <2>6. q \in Reads /\ q.at = "counts" /\ q.left = listed /\ q.seen = statuses /\ q.reply = "none"
    BY <2>5, NoReadIsRead
  <2> HIDE DEF q
  <2>7. Sound(q)
    BY <1>3, <2>3, <2>6, SeenNow DEF Sound, Covered
  <2>8. listed = {} => Sound(Done(q))
    <3> SUFFICES ASSUME listed = {} PROVE Sound(Done(q))
      OBVIOUS
    <3>1. Done(q).at = "answered" /\ \A d \in DocIds : Done(q).seen[d] = Absent
      BY <2>3, <2>6, ReplyIsRead
    <3> QED
      BY <1>3, <3>1 DEF Sound, Covered, ReadPoints
  <2>9. Witnessed(q, r) /\ Witnessed(Done(q), r)
    BY <2>3, <2>6, ReplyIsRead DEF Witnessed
  <2> QED
    BY <2>1, <2>6, <2>7, <2>8, <2>9, ReplyIsRead
<1>6. ASSUME NEW b \in Batches, FetchChunk(r, b)
      PROVE  \E q \in Reads : Sound(q) /\ Witnessed(q, r) /\ Serve(r, q)
  <2> DEFINE q == [NoRead EXCEPT !.doc = b[1], !.at = "context", !.found = {b}]
  <2>1. CASE b \notin rows
    BY <1>1, <1>2, <1>6, <2>1 DEF FetchChunk, Missing
  <2>2. CASE b \in rows
    <3>1. Serve(r, q)
      BY <1>6, <2>2, Zenon DEF FetchChunk
    <3>2. b[1] \in DocIds
      BY DEF Batches
    <3>3. \A p \in Reads :
            LET a == [p EXCEPT !.doc = b[1], !.at = "context", !.found = {b}]
            IN  a \in Reads /\ a.at = "context" /\ a.reply = p.reply /\ a.seen = p.seen
      BY <3>2 DEF Reads, ReadPoints
    <3>4. /\ q \in Reads /\ q.at = "context" /\ q.reply = "none"
          /\ \A d \in DocIds : q.seen[d] = Absent
      BY <3>3, NoReadIsRead
    <3> HIDE DEF q
    <3>5. Sound(q)
      BY <1>3, <3>4 DEF Sound
    <3>6. Witnessed(q, r)
      BY <3>4 DEF Witnessed
    <3> QED
      BY <3>1, <3>4, <3>5, <3>6
  <2> QED
    BY <2>1, <2>2
<1>7. ASSUME NEW scope \in SUBSET DocIds, Search(r, scope)
      PROVE  \E q \in Reads : Sound(q) /\ Witnessed(q, r) /\ Serve(r, q)
  <2>1. PICK hits \in SUBSET points : Serve(r, Done([NoRead EXCEPT !.found = hits]))
    BY <1>7 DEF Search
  <2>2. hits \in SUBSET Batches
    BY DEF IngestionInv, TypeInv, TypeOK
  <2> DEFINE q == [NoRead EXCEPT !.found = hits]
  <2>3. \A p \in Reads :
          LET a == [p EXCEPT !.found = hits] IN a \in Reads /\ a.seen = p.seen
    BY <2>2 DEF Reads
  <2>4. q \in Reads /\ \A d \in DocIds : q.seen[d] = Absent
    BY <2>3, NoReadIsRead
  <2>5. Serve(r, Done(q))
    BY <2>1
  <2> HIDE DEF q
  <2>6. /\ Done(q) \in Reads /\ Done(q).at = "answered"
        /\ \A d \in DocIds : Done(q).seen[d] = Absent
    BY <2>4, ReplyIsRead
  <2>7. Sound(Done(q)) /\ Witnessed(Done(q), r)
    BY <1>3, <2>6 DEF Sound, Covered, ReadPoints, Witnessed
  <2> QED
    BY <2>5, <2>6, <2>7
<1> QED
  BY <1>1, <1>2, <1>4, <1>5, <1>6, <1>7
     DEF Request, GetDocument, ListDocumentChunks, Raises, UnknownTool

\* Whatever a reader reads next, its request remains sound.
LEMMA ReadSound ==
  ASSUME IngestionInv, ReadInv, NEW r \in Readers,
         ReadStep(r) \/ ReadFails(r) \/ GivesUp(r) \/ TakeReply(r)
  PROVE  \E q \in Reads : Sound(q) /\ Witnessed(q, r) /\ Serve(r, q)
<1>1. read[r] \in Reads /\ Sound(read[r])
  BY DEF ReadInv, ReadTypeOK
<1>2. Absent # "INDEXED" /\ rows \subseteq Batches
  BY DEF IngestionInv, TypeInv, TypeOK, Absent
<1>3. \A reply \in Replies \ {"ok"} : Serve(r, Refused(reply))
        => \E q \in Reads : Sound(q) /\ Witnessed(q, r) /\ Serve(r, q)
  BY RefusedSound DEF Witnessed
<1>4. {"toolError", "serverError", "lost"} \subseteq Replies \ {"ok"}
  BY DEF Replies
<1>5. ASSUME NEW p \in Reads, Sound(p), p.seen = read[r].seen,
             \A d \in DocIds : Covered(p, d)
      PROVE  Done(p) \in Reads /\ Sound(Done(p)) /\ Witnessed(Done(p), r)
  BY <1>5, ReplyIsRead DEF Sound, Covered, ReadPoints, Witnessed
<1>6. CASE ReadRows(r)
  <2> DEFINE q == [read[r] EXCEPT !.found = RowsOf(read[r].doc)]
  <2>1. read[r].at = "rows" /\ Serve(r, Done(q))
    BY <1>6 DEF ReadRows
  <2>2. RowsOf(read[r].doc) \in SUBSET Batches
    BY <1>2 DEF RowsOf
  <2>3. \A p \in Reads : \A rs \in SUBSET Batches :
          LET a == [p EXCEPT !.found = rs]
          IN  /\ a \in Reads /\ a.at = p.at /\ a.doc = p.doc /\ a.left = p.left
              /\ a.seen = p.seen /\ a.reply = p.reply /\ a.found = rs
    BY DEF Reads
  <2>4. /\ q \in Reads /\ q.at = "rows" /\ q.doc = read[r].doc /\ q.seen = read[r].seen
        /\ q.reply = read[r].reply /\ q.found = RowsOf(read[r].doc)
    BY <1>1, <2>1, <2>2, <2>3
  <2> HIDE DEF q
  <2>5. \A d \in DocIds : Covered(q, d)
    <3> SUFFICES ASSUME NEW d \in DocIds, q.seen[d] = "INDEXED", status[d] # Absent
                 PROVE  \E b \in q.found : b[1] = d
      BY DEF Covered
    <3>1. d = read[r].doc /\ RowsOf(d) # {}
      BY <1>1, <1>2, <2>1, <2>4 DEF Sound
    <3> QED
      BY <2>4, <3>1 DEF RowsOf
  <2>6. q.reply = "none"
    BY <1>1, <2>1, <2>4 DEF Sound, ReadPoints
  <2>7. Sound(q)
    BY <1>1, <2>1, <2>4, <2>5, <2>6 DEF Sound
  <2> QED
    BY <1>5, <2>1, <2>4, <2>5, <2>7
<1>7. CASE CountChunks(r)
  <2>1. PICK d \in read[r].left :
          LET q == [read[r] EXCEPT !.left = @ \ {d}, !.found = @ \cup RowsOf(d)]
          IN Serve(r, IF q.left = {} THEN Done(q) ELSE q)
    BY <1>7, Zenon DEF CountChunks
  <2> DEFINE q == [read[r] EXCEPT !.left = @ \ {d}, !.found = @ \cup RowsOf(d)]
  <2>2. read[r].at = "counts" /\ Serve(r, IF q.left = {} THEN Done(q) ELSE q)
    BY <1>7, <2>1 DEF CountChunks
  <2>3. RowsOf(d) \in SUBSET Batches
    BY <1>2 DEF RowsOf
  <2>4. \A p \in Reads : \A rs \in SUBSET Batches :
          LET a == [p EXCEPT !.left = @ \ {d}, !.found = @ \cup rs]
          IN  /\ a \in Reads /\ a.at = p.at /\ a.left = p.left \ {d}
              /\ a.seen = p.seen /\ a.reply = p.reply /\ a.found = p.found \cup rs
    BY DEF Reads
  <2>5. /\ q \in Reads /\ q.at = "counts" /\ q.left = read[r].left \ {d}
        /\ q.seen = read[r].seen /\ q.reply = read[r].reply
        /\ q.found = read[r].found \cup RowsOf(d)
    BY <1>1, <2>2, <2>3, <2>4
  <2> HIDE DEF q
  <2>6. q.reply = "none"
    BY <1>1, <2>2, <2>5 DEF Sound, ReadPoints
  <2>7. \A e \in DocIds \ q.left : Covered(q, e)
    <3> SUFFICES ASSUME NEW e \in DocIds \ q.left, q.seen[e] = "INDEXED", status[e] # Absent
                 PROVE  \E b \in q.found : b[1] = e
      BY DEF Covered
    <3>1. CASE e = d
      <4>1. RowsOf(d) # {}
        BY <1>1, <2>5, <3>1 DEF Sound
      <4> QED
        BY <2>5, <3>1, <4>1 DEF RowsOf
    <3>2. CASE e # d
      BY <1>1, <2>2, <2>5, <3>2 DEF Sound, Covered
    <3> QED
      BY <3>1, <3>2
  <2>8. Sound(q)
    BY <1>1, <2>5, <2>6, <2>7 DEF Sound
  <2>9. Witnessed(q, r)
    BY <2>5 DEF Witnessed
  <2> QED
    BY <1>5, <2>2, <2>5, <2>7, <2>8, <2>9
<1>8. CASE FetchContext(r)
  <2> DEFINE q == [read[r] EXCEPT !.at = "owner", !.found = @ \cup RowsOf(read[r].doc)]
  <2>1. read[r].at = "context" /\ Serve(r, q)
    BY <1>8 DEF FetchContext
  <2>2. RowsOf(read[r].doc) \in SUBSET Batches
    BY <1>2 DEF RowsOf
  <2>3. \A p \in Reads : \A rs \in SUBSET Batches :
          LET a == [p EXCEPT !.at = "owner", !.found = @ \cup rs]
          IN  a \in Reads /\ a.at = "owner" /\ a.seen = p.seen /\ a.reply = p.reply
    BY DEF Reads, ReadPoints
  <2>4. q \in Reads /\ q.at = "owner" /\ q.seen = read[r].seen /\ q.reply = read[r].reply
    BY <1>1, <2>2, <2>3
  <2> HIDE DEF q
  <2>5. q.reply = "none" /\ \A d \in DocIds : q.seen[d] = Absent
    BY <1>1, <2>1, <2>4 DEF Sound, ReadPoints
  <2>6. Sound(q) /\ Witnessed(q, r)
    BY <1>2, <2>4, <2>5 DEF Sound, Witnessed
  <2> QED
    BY <2>1, <2>4, <2>6
<1>9. CASE FetchOwner(r)
  <2>1. /\ read[r].at = "owner"
        /\ \/ Serve(r, Done(read[r]))
           \/ Serve(r, Refused("toolError")) \/ Serve(r, Refused("serverError"))
    BY <1>9, Zenon DEF FetchOwner
  <2>2. \A d \in DocIds : Covered(read[r], d)
    BY <1>1, <1>2, <2>1 DEF Sound, Covered
  <2> QED
    BY <1>1, <1>3, <1>4, <1>5, <2>1, <2>2
<1>10. CASE ReadFails(r)
  BY <1>3, <1>4, <1>10 DEF ReadFails
<1>11. CASE GivesUp(r)
  BY <1>3, <1>4, <1>11 DEF GivesUp
<1>12. CASE TakeReply(r)
  <2>1. Serve(r, NoRead)
    BY <1>12 DEF TakeReply
  <2>2. Sound(NoRead) /\ Witnessed(NoRead, r)
    BY <1>2, NoReadIsRead DEF Sound, ReadPoints, Witnessed
  <2> QED
    BY <2>1, <2>2, NoReadIsRead
<1> QED
  BY <1>6, <1>7, <1>8, <1>9, <1>10, <1>11, <1>12 DEF ReadStep

LEMMA ReadInvInit == ReadInit => ReadInv
<1> SUFFICES ASSUME ReadInit PROVE ReadInv
  OBVIOUS
<1>1. \A r \in Readers : read[r] = NoRead
  BY DEF ReadInit
<1>2. ReadTypeOK
  BY NoReadIsRead DEF ReadInit, ReadTypeOK
<1>3. Absent # "INDEXED"
  BY DEF Absent
<1>4. Sound(NoRead)
  BY <1>3, NoReadIsRead DEF Sound, ReadPoints
<1> QED
  BY <1>1, <1>2, <1>4 DEF ReadInv

\* One step of the system, readers included, keeps every request sound.
LEMMA ReadInvStep == IngestionInv /\ ReadInv /\ [ReadNext]_readVars => ReadInv'
<1> SUFFICES ASSUME IngestionInv, ReadInv, [ReadNext]_readVars PROVE ReadInv'
  OBVIOUS
<1>1. \A q \in Reads : Sound(q) => Sound(q)'
  BY ReadersOnlyRead, SoundStays
<1>2. read \in [Readers -> Reads] /\ \A r \in Readers : Sound(read[r])
  BY DEF ReadInv, ReadTypeOK
<1>3. read' \in [Readers -> Reads] /\ \A r \in Readers : Sound(read'[r])
  <2>1. ASSUME NEW r \in Readers, NEW q \in Reads, Sound(q), Serve(r, q)
        PROVE  read' \in [Readers -> Reads] /\ \A s \in Readers : Sound(read'[s])
    <3>1. read' = [read EXCEPT ![r] = q]
      BY <2>1 DEF Serve
    <3> QED
      BY <1>2, <2>1, <3>1
  <2>2. ASSUME NEW r \in Readers,
               Request(r) \/ ReadStep(r) \/ ReadFails(r) \/ GivesUp(r) \/ TakeReply(r)
        PROVE  \E q \in Reads : Sound(q) /\ Witnessed(q, r) /\ Serve(r, q)
    BY <2>2, RequestSound, ReadSound
  <2>3. CASE ReadCrash
    <3>1. "lost" \in Replies \ {"ok"}
      BY DEF Replies
    <3>2. Refused("lost") \in Reads /\ Sound(Refused("lost"))
      BY <3>1, RefusedSound
    <3>3. read' = [r \in Readers |-> IF Reading(r) THEN Refused("lost") ELSE read[r]]
      BY <2>3 DEF ReadCrash
    <3> QED
      BY <1>2, <3>2, <3>3
  <2>4. CASE WriteStep \/ UNCHANGED readVars
    BY <1>2, <2>4 DEF WriteStep, readVars
  <2> QED
    BY <2>1, <2>2, <2>3, <2>4, Zenon DEF ReadNext
<1>4. ReadTypeOK'
  BY <1>3 DEF ReadTypeOK
<1>5. \A r \in Readers : Sound(read[r])'
  BY <1>1, <1>3
<1> QED
  BY <1>4, <1>5 DEF ReadInv

\* Every request and every reply is sound at all times.
THEOREM RequestsAreSound == ReadSpec => [](IngestionInv /\ ReadInv)
<1>1. ReadSpec => []IngestionInv
  BY ReadersKeepIngestion, InvariantHolds, PTL
<1> QED
  BY <1>1, ReadInvInit, ReadInvStep, PTL DEF ReadSpec

\* A reply has the shape the clients read.
THEOREM ReadTypeCorrect == ReadSpec => []ReadTypeOK
<1>1. ReadInv => ReadTypeOK
  BY DEF ReadInv
<1> QED
  BY <1>1, RequestsAreSound, PTL

\* A reply that calls a document INDEXED comes with its chunks, however many
\* threads, deletions and crashes come between its reads.
THEOREM IndexedRepliesHaveChunks == ReadSpec => []IndexedReplyHasChunks
<1>1. ReadInv => IndexedReplyHasChunks
  BY DEF ReadInv, Sound, Covered, IndexedReplyHasChunks
<1> QED
  BY <1>1, RequestsAreSound, PTL

-----------------------------------------------------------------------------
(* One thread.                                                             *)

\* What q has seen is the past of what is stored.
Past(q) == \A d \in DocIds :
  q.seen[d] # Absent /\ status[d] # Absent => Precedes(q.seen[d], status[d])

\* The statuses of a document that is there move along the table.
LEMMA StatusMovesOn ==
  ASSUME OneThread, IngestionInv, SoloInv, [Next]_vars,
         NEW d \in DocIds, status[d] # Absent, status'[d] # Absent
  PROVE  status'[d] = status[d] \/ CanTransition(status[d], status'[d])
<1>1. [Contract!LifeNext]_(Contract!lifeVars)
  BY ContractNext
<1>2. status[d] \in Statuses /\ life[d] = status[d]
  BY DEF IngestionInv, TypeInv, TypeOK, life
<1>3. status'[d] \in Statuses /\ life'[d] = status'[d]
  <2>1. TypeInv'
    BY TypeInvNext DEF IngestionInv
  <2> QED
    BY <2>1 DEF TypeInv, TypeOK, life
<1>4. life \in [DocIds -> Statuses \cup {"NEW", "GONE"}]
  BY DEF life, IngestionInv, TypeInv, TypeOK
<1>5. CASE UNCHANGED life
  BY <1>2, <1>3, <1>5
<1>6. ASSUME NEW e \in DocIds, NEW s \in Statuses, Contract!Advance(e, s)
      PROVE  status'[d] = status[d] \/ CanTransition(status[d], status'[d])
  BY <1>2, <1>3, <1>4, <1>6
     DEF Contract!Advance, Contract!CanTransition, Contract!Transitions, Contract!Statuses,
         Contract!Settled, CanTransition, Transitions, Statuses, Settled
<1>7. ASSUME NEW e \in DocIds, Contract!Retire(e) \/ \E h \in Contents : Contract!Accept(e, h)
      PROVE  status'[d] = status[d]
  BY <1>2, <1>3, <1>4, <1>7 DEF Contract!Retire, Contract!Accept, Statuses
<1> QED
  BY <1>1, <1>5, <1>6, <1>7 DEF Contract!LifeNext, Contract!lifeVars, Contract!Statuses, Statuses

LEMMA PrecedesIsTransitive ==
  ASSUME NEW s \in Statuses, NEW t \in Statuses, NEW u \in Statuses,
         Precedes(s, t), t = u \/ CanTransition(t, u)
  PROVE  Precedes(s, u)
<1>1. t = u \/ Rank[t] < Rank[u]
  BY DEF CanTransition, Transitions, Settled, Statuses, Rank
<1>2. \A v \in Statuses : Rank[v] \in Nat
  BY DEF Statuses, Rank
<1> QED
  BY <1>1, <1>2 DEF Precedes

LEMMA PastStays ==
  ASSUME OneThread, IngestionInv, SoloInv, [Next]_vars, NEW q \in Reads, Sound(q), Past(q)
  PROVE  Past(q)'
<1> SUFFICES ASSUME NEW d \in DocIds, q.seen[d] # Absent, status'[d] # Absent
             PROVE  Precedes(q.seen[d], status'[d])
  BY DEF Past
<1>1. Known(d)
  BY DEF Sound
<1>2. status[d] # Absent
  BY <1>1, StepsDoNotResurrect DEF Known
<1>3. q.seen[d] \in Statuses /\ status[d] \in Statuses /\ status'[d] \in Statuses
  <2>1. TypeInv'
    BY TypeInvNext DEF IngestionInv
  <2> QED
    BY <1>2, <2>1 DEF IngestionInv, TypeInv, TypeOK, Reads
<1>4. Precedes(q.seen[d], status[d])
  BY <1>2 DEF Past
<1> QED
  BY <1>2, <1>3, <1>4, StatusMovesOn, PrecedesIsTransitive

\* The readers of one thread's documents see their past.
PastInv == \A r \in Readers : Past(read[r])

LEMMA PastStep ==
  ASSUME OneThread, IngestionInv, SoloInv, ReadInv, PastInv, [ReadNext]_readVars
  PROVE  PastInv'
<1>1. \A q \in Reads : Sound(q) /\ Past(q) => Past(q)'
  BY ReadersOnlyRead, PastStays
<1>2. /\ read \in [Readers -> Reads]
      /\ \A r \in Readers : Sound(read[r]) /\ Past(read[r])
  BY DEF ReadInv, ReadTypeOK, PastInv
<1>3. \A r \in Readers : read'[r] \in Reads /\ Sound(read'[r]) /\ Past(read'[r])
  <2>1. ASSUME NEW r \in Readers, NEW q \in Reads, Sound(q), Witnessed(q, r), Serve(r, q)
        PROVE  \A s \in Readers : read'[s] \in Reads /\ Sound(read'[s]) /\ Past(read'[s])
    <3>1. read' = [read EXCEPT ![r] = q]
      BY <2>1 DEF Serve
    <3>2. Past(q)
      BY <1>2, <2>1 DEF Witnessed, Past, Precedes
    <3> QED
      BY <1>2, <2>1, <3>1, <3>2
  <2>2. ASSUME NEW r \in Readers,
               Request(r) \/ ReadStep(r) \/ ReadFails(r) \/ GivesUp(r) \/ TakeReply(r)
        PROVE  \E q \in Reads : Sound(q) /\ Witnessed(q, r) /\ Serve(r, q)
    BY <2>2, RequestSound, ReadSound
  <2>3. CASE ReadCrash
    <3>1. "lost" \in Replies \ {"ok"}
      BY DEF Replies
    <3>2. /\ Refused("lost") \in Reads /\ Sound(Refused("lost"))
          /\ Past(Refused("lost"))
      BY <3>1, RefusedSound DEF Past
    <3>3. read' = [r \in Readers |-> IF Reading(r) THEN Refused("lost") ELSE read[r]]
      BY <2>3 DEF ReadCrash
    <3> QED
      BY <1>2, <3>2, <3>3
  <2>4. CASE WriteStep \/ UNCHANGED readVars
    BY <1>2, <2>4 DEF WriteStep, readVars
  <2> QED
    BY <2>1, <2>2, <2>3, <2>4, Zenon DEF ReadNext
<1> QED
  BY <1>1, <1>3 DEF PastInv

\* With one ingestion thread no reply contradicts a later one.
THEOREM StatusesSeenArePast == ASSUME OneThread PROVE ReadSpec => []SeenIsPast
<1>1. ReadInit => PastInv
  BY NoReadIsRead DEF ReadInit, PastInv, Past
<1>2. IngestionInv /\ SoloInv /\ ReadInv /\ PastInv /\ [ReadNext]_readVars => PastInv'
  BY PastStep
<1>3. PastInv => SeenIsPast
  BY DEF PastInv, Past, SeenIsPast
<1>4. ReadSpec => []SoloInv
  BY ReadersKeepIngestion, SoloHolds, PTL
<1> QED
  BY <1>1, <1>2, <1>3, <1>4, RequestsAreSound, PTL DEF ReadSpec
=============================================================================
