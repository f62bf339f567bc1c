------------------------------ MODULE ReadSide -------------------------------
(***************************************************************************)
(* The read side of document-index: the GET handlers and POST /search of   *)
(* delivery/rest.py and the JSON-RPC tools of delivery/tool_rpc.py, over   *)
(* the stores that Ingestion writes.  A request makes several reads, each  *)
(* in a session of its own; one action is one of them, so threads and      *)
(* deletions work between two reads of one request.                        *)
(*                                                                         *)
(*  - REST handlers are plain functions and run in the server's pool of    *)
(*    threads.  The tools endpoint is a coroutine that never awaits while  *)
(*    it reads: the event loop serves one such call at a time, and no      *)
(*    upload between its check and its save.                               *)
(*  - All documents belong to the default tenant, and there are fewer than *)
(*    the limit of a listing (50).                                         *)
(*  - A chunk is known by its batch; Qdrant may rank any of a document's   *)
(*    points high enough to be a hit, and any too low.                     *)
(***************************************************************************)
EXTENDS Ingestion

CONSTANTS RestReaders,  \* threads of the pool that serve GET and POST /search
          RpcReaders,   \* callers of POST /tools
          ReadFaults    \* Postgres, Qdrant and the embedder may fail a reader

Readers == RestReaders \cup RpcReaders

ASSUME ReadersAssumption == /\ RestReaders \cap RpcReaders = {}
                            /\ ReadFaults \in BOOLEAN

VARIABLE read  \* of each reader: the request that is being served, or its reply

NoStatuses == [d \in DocIds |-> Absent]
NoRead == [at    |-> "idle",      \* its next read
           doc   |-> NoDoc,       \* the document it is about
           left  |-> {},          \* documents listed and not yet counted
           seen  |-> NoStatuses,  \* statuses read
           found |-> {},          \* batches whose chunks were read
           reply |-> "none"]

ReadPoints == {"rows", "counts", "context", "owner"}
Replies == {"ok", "notFound", "toolError", "serverError", "lost"}
Reads == [at    : {"idle", "answered"} \cup ReadPoints,
          doc   : DocIds \cup {NoDoc},
          left  : SUBSET DocIds,
          seen  : [DocIds -> Statuses \cup {Absent}],
          found : SUBSET Batches,
          reply : {"none"} \cup Replies]

readVars == <<vars, read>>

Reading(r) == read[r].at \in ReadPoints
LoopReading == \E r \in RpcReaders : Reading(r)

\* A coroutine starts when the event loop is not inside another one.
CanStart(r) == /\ read[r] = NoRead
               /\ r \in RpcReaders => upload = NoUpload /\ ~LoopReading

Serve(r, request) == /\ read' = [read EXCEPT ![r] = request]
                     /\ UNCHANGED vars

Done(request) == [NoRead EXCEPT !.at = "answered", !.reply = "ok",
                                !.seen = request.seen, !.found = request.found]
\* An error reply carries nothing of what was read before.
Refused(reply) == [NoRead EXCEPT !.at = "answered", !.reply = reply]

\* What is not there: 404, or a tool result with isError.
Missing(r) == IF r \in RpcReaders THEN "toolError" ELSE "notFound"

RowsOf(d) == {b \in rows : b[1] = d}

-----------------------------------------------------------------------------
\* repo.get, for a request that goes on to read the document's chunks.
ReadDocument(r, d) ==
  /\ CanStart(r)
  /\ Serve(r, IF status[d] = Absent
              THEN Refused(Missing(r))
              ELSE [NoRead EXCEPT !.doc = d, !.at = "rows", !.seen[d] = status[d]])

\* GET /documents/{id}: then count_chunks.
GetDocument(r, d) == r \in RestReaders /\ ReadDocument(r, d)

\* GET /documents/{id}/chunks and the tool list_document_chunks: then get_chunks.
ListDocumentChunks(r, d) == ReadDocument(r, d)

ReadRows(r) == /\ read[r].at = "rows"
               /\ Serve(r, Done([read[r] EXCEPT !.found = RowsOf(read[r].doc)]))

\* Listings ask for one status, whichever, or for all.
Filters == {Statuses} \cup {{s} : s \in Statuses}

\* ListDocuments.execute: the rows of the documents ...
ListDocuments(r, wanted) ==
  /\ CanStart(r)
  /\ LET listed == {d \in DocIds : status[d] \in wanted}
         request == [NoRead EXCEPT !.at = "counts", !.left = listed,
                       !.seen = [d \in DocIds |-> IF d \in listed THEN status[d] ELSE Absent]]
     IN Serve(r, IF listed = {} THEN Done(request) ELSE request)

\* ... and, one after the other, the number of chunks of each.
CountChunks(r) ==
  /\ read[r].at = "counts"
  /\ \E d \in read[r].left :
       LET request == [read[r] EXCEPT !.left = @ \ {d}, !.found = @ \cup RowsOf(d)]
       IN Serve(r, IF request.left = {} THEN Done(request) ELSE request)

\* FetchChunk.execute.  get_chunk_neighbors first reads the chunk ...
FetchChunk(r, b) ==
  /\ CanStart(r)
  /\ Serve(r, IF b \in rows
              THEN [NoRead EXCEPT !.doc = b[1], !.at = "context", !.found = {b}]
              ELSE Refused(Missing(r)))

\* ... then all chunks of its document, for the text before and after it.  It
\* goes on without context when the chunk is no longer among them.
FetchContext(r) ==
  /\ read[r].at = "context"
  /\ Serve(r, [read[r] EXCEPT !.at = "owner", !.found = @ \cup RowsOf(read[r].doc)])

\* Then repo.get.  rest.py does not catch DocumentNotFoundError; the tools do.
FetchOwner(r) ==
  /\ read[r].at = "owner"
  /\ LET d == read[r].doc
     IN Serve(r, IF status[d] # Absent
                 THEN Done(read[r])
                 ELSE Refused(IF r \in RpcReaders THEN "toolError" ELSE "serverError"))

\* Qdrant is searched within the documents of scope, or within all if it is
\* empty.  Postgres is not asked.
Search(r, scope) ==
  /\ CanStart(r)
  /\ \E hits \in SUBSET {b \in points : scope = {} \/ b[1] \in scope} :
       Serve(r, Done([NoRead EXCEPT !.found = hits]))

\* An id that is no UUID, a store or the embedder that raises: 500.
Raises(r) == CanStart(r) /\ Serve(r, Refused("serverError"))

\* An unknown method, an unknown tool or a missing argument: a JSON-RPC error.
UnknownTool(r) == /\ r \in RpcReaders
                  /\ CanStart(r)
                  /\ Serve(r, Refused("toolError"))

\* Postgres fails between two reads.
ReadFails(r) == /\ ReadFaults
                /\ Reading(r)
                /\ Serve(r, Refused("serverError"))

\* The client of a REST handler gives up after its timeout.  The handler goes on
\* reading, to no effect.
GivesUp(r) == r \in RestReaders /\ Reading(r) /\ Serve(r, Refused("lost"))

\* The caller takes the reply.
TakeReply(r) == read[r].at = "answered" /\ Serve(r, NoRead)

-----------------------------------------------------------------------------
ReadInit == Init /\ read = [r \in Readers |-> NoRead]

ReadStep(r) == ReadRows(r) \/ CountChunks(r) \/ FetchContext(r) \/ FetchOwner(r)

Request(r) == \/ \E d \in DocIds : GetDocument(r, d) \/ ListDocumentChunks(r, d)
              \/ \E wanted \in Filters : ListDocuments(r, wanted)
              \/ \E b \in Batches : FetchChunk(r, b)
              \/ \E scope \in SUBSET DocIds : Search(r, scope)
              \/ Raises(r) \/ UnknownTool(r)

\* The write side goes on; an upload starts when the event loop is free.
WriteStep == /\ IngestNext \/ WorkerNext \/ DeleteNext
             /\ LoopReading => upload' = upload
             /\ UNCHANGED read

\* Requests that were being served get no reply.
ReadCrash == /\ Crash
             /\ read' = [r \in Readers |-> IF Reading(r)
                                           THEN Refused("lost")
                                           ELSE read[r]]

ReadNext == \/ WriteStep
            \/ ReadCrash
            \/ \E r \in Readers : \/ Request(r) \/ ReadStep(r) \/ ReadFails(r)
                                 \/ GivesUp(r) \/ TakeReply(r)

ReadSpec == ReadInit /\ [][ReadNext]_readVars

-----------------------------------------------------------------------------
(* Properties.                                                             *)

ReadTypeOK == read \in [Readers -> Reads]

\* A reply that calls a document INDEXED comes with its chunks, though status
\* and chunks are read at different times and other threads may hold the same
\* job; unless the document was deleted in between (rest.py:127-138,
\* list_documents.py:28-39).
IndexedReplyHasChunks ==
  \A r \in Readers : read[r].reply = "ok" =>
    \A d \in DocIds : read[r].seen[d] = "INDEXED" /\ status[d] # Absent
                        => \E b \in read[r].found : b[1] = d

\* With one ingestion thread, documents only move on: a status read at any time
\* is that of the document still, or one it has passed through, and no two
\* reads of a client contradict each other (rest.py:127-138).
Rank == [UPLOADED |-> 0, EXTRACTING |-> 1, CHUNKING |-> 2, EMBEDDING |-> 3,
         INDEXED |-> 4, FAILED |-> 4]
Precedes(s, t) == s = t \/ Rank[s] < Rank[t]
SeenIsPast ==
  \A r \in Readers, d \in DocIds :
    read[r].seen[d] # Absent /\ status[d] # Absent => Precedes(read[r].seen[d], status[d])

\* The plan's tool searches "indexed document chunks" (tool_rpc.py:20): no hit
\* belongs to a document whose ingestion has FAILED.
SearchSkipsFailed ==
  [][\A r \in Readers : \A scope \in SUBSET DocIds : Search(r, scope) =>
       \A b \in read'[r].found : status[b[1]] # "FAILED"]_readVars
=============================================================================
