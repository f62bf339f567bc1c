------------------------------- MODULE Console -------------------------------
(***************************************************************************)
(* document-console (ui.py over api_client.py): the page, a client of      *)
(* document-index like any other.  Each function of ui.py that a button is *)
(* bound to is a listener; Gradio runs one call of each at a time, and     *)
(* different ones side by side.  A call makes one or more requests, which  *)
(* ReadSide and Ingestion serve step by step, while threads and other      *)
(* clients go on.  Calls share nothing but the server and the page.        *)
(*                                                                         *)
(*  - The requests of a listener are those of the reader of its name, and  *)
(*    a DELETE is that of the deleter "delete_doc".                        *)
(*  - Documents are what the user names: an id typed wrong is a request    *)
(*    that raises.  Of a page of text, the status it shows is kept.        *)
(***************************************************************************)
EXTENDS ReadSide

CONSTANTS Listeners,  \* those of the page that are used
          Together,   \* bound: sets of listeners and readers that run side by side
          MaxPolls    \* bound: how often a wait polls before its deadline

Callbacks == {"upload_file", "poll_status", "wait_for_indexed", "refresh_documents",
              "document_detail", "delete_doc", "run_search", "show_chunk"}

ASSUME ConsoleAssumption ==
  /\ Listeners \subseteq Callbacks \cap RestReaders
  /\ "delete_doc" \in Listeners => "delete_doc" \in Deleters
  /\ Together \subseteq SUBSET Readers
  /\ MaxPolls \in Nat

VARIABLES
  \* Of each listener:
  page,    \* where its call is
  about,   \* the document it is about
  shown,   \* what it returned last, and during a wait its local "last"
  known,   \* history: what had been called deleted when it started
  \* Of wait_for_indexed:
  tested,  \* the status in detail
  polls,   \* iterations so far
  \* Of the page:
  told     \* history: documents that it has called deleted

WaitPages == {"waitTest", "waitDetail", "waitRead", "waitText"}
RefreshPages == {"refresh", "refreshDeleted", "refreshKept"}
Pages == {"idle", "upload", "poll", "delete", "search", "chunk"} \cup WaitPages \cup RefreshPages

\* A "wait" is the detail that ends a wait, a "timeout" one that did not.
Blank == [kind |-> "none", doc |-> NoDoc, status |-> Absent, table |-> NoStatuses, hits |-> {}]
Outputs == [kind   : {"none", "detail", "wait", "timeout", "list", "hits", "chunk", "deleted",
                      "error"},
            doc    : DocIds \cup {NoDoc},
            status : Statuses \cup {Absent},
            table  : [DocIds -> Statuses \cup {Absent}],
            hits   : SUBSET Batches]

waiting == <<tested, polls>>
pageVars == <<page, about, shown, known, waiting, told>>
consoleVars == <<readVars, pageVars>>

ConsoleInit == /\ ReadInit
               /\ page = [l \in Listeners |-> "idle"]
               /\ about = [l \in Listeners |-> NoDoc]
               /\ shown = [l \in Listeners |-> Blank]
               /\ known = [l \in Listeners |-> {}]
               /\ tested = Absent
               /\ polls = 0
               /\ told = {}

On(l, p) == l \in Listeners /\ page[l] = p

\* Listeners that have been called and other readers that are being served, and
\* whether r may join them.
InUse == {l \in Listeners : page[l] # "idle" \/ shown[l] # Blank}
           \cup {r \in Readers \ Listeners : read[r] # NoRead}
Joins(r) == \E S \in Together : InUse \cup {r} \subseteq S

\* A call starts: until it returns, its outputs are pending.
Starts(l, p, d) == /\ On(l, "idle")
                   /\ Joins(l)
                   /\ page' = [page EXCEPT ![l] = p]
                   /\ about' = [about EXCEPT ![l] = d]
                   /\ shown' = [shown EXCEPT ![l] = Blank]
                   /\ known' = [known EXCEPT ![l] = told]
                   /\ UNCHANGED <<waiting, told>>

\* It goes on to its next request.
GoesOn(l, p) == page' = [page EXCEPT ![l] = p] /\ UNCHANGED <<about, known, told>>

\* It returns what is shown next.
Returns(l, output) ==
  /\ page' = [page EXCEPT ![l] = "idle"]
  /\ about' = [about EXCEPT ![l] = NoDoc]
  /\ shown' = [shown EXCEPT ![l] = output]
  /\ IF l = "wait_for_indexed" THEN tested' = Absent /\ polls' = 0 ELSE UNCHANGED waiting
  /\ UNCHANGED known

Answered(l) == read[l].at = "answered" /\ TakeReply(l)
Succeeded(l) == read[l].reply = "ok"

Message(l, kind) == [Blank EXCEPT !.kind = kind, !.doc = about[l]]
\* What poll_status makes of a reply.
Detail(l, kind) ==
  IF Succeeded(l) THEN [Message(l, kind) EXCEPT !.status = read[l].seen[about[l]]]
  ELSE Message(l, "error")

\* client.get_document.
AskDocument(l, d) == GetDocument(l, d) \/ Raises(l)

-----------------------------------------------------------------------------
\* upload_file: POST /ingest; the file is read and its duplicate looked up ...
Upload(h) == /\ Starts("upload_file", "upload", nextId)
             /\ ~LoopReading
             /\ IngestCheck(h)
             /\ UNCHANGED read

\* ... and its document saved, which answers with the id, or raises.
UploadEnds ==
  /\ On("upload_file", "upload")
  /\ \/ IngestSave /\ Returns("upload_file", Message("upload_file", "detail"))
     \/ IngestSaveFails /\ Returns("upload_file", Message("upload_file", "error"))
  /\ UNCHANGED <<read, told>>

\* poll_status, and document_detail, which calls it.
Poll(l, d) == Starts(l, "poll", d) /\ AskDocument(l, d)

PollEnds(l) == /\ On(l, "poll")
               /\ Answered(l)
               /\ Returns(l, Detail(l, "detail"))
               /\ UNCHANGED told

-----------------------------------------------------------------------------
(* wait_for_indexed: a loop of two requests and a sleep.                   *)

Waiter == "wait_for_indexed"

Wait(d) == Starts(Waiter, "waitTest", d) /\ UNCHANGED readVars

\* time.time() has passed the deadline: the last text, and that it timed out.
WaitTimesOut ==
  /\ On(Waiter, "waitTest")
  /\ Returns(Waiter, [shown[Waiter] EXCEPT !.kind = "timeout", !.doc = about[Waiter]])
  /\ UNCHANGED <<readVars, told>>

\* Variant: the deadline is tested after the iteration only.
WaitAsksLate == /\ On(Waiter, "waitTest")
                /\ polls <= MaxPolls
                /\ AskDocument(Waiter, about[Waiter])
                /\ GoesOn(Waiter, "waitDetail")
                /\ UNCHANGED <<waiting, shown>>

WaitAsks == /\ On(Waiter, "waitTest")
            /\ polls < MaxPolls
            /\ AskDocument(Waiter, about[Waiter])
            /\ GoesOn(Waiter, "waitDetail")
            /\ UNCHANGED <<waiting, shown>>

\* detail = client.get_document(...), where an error ends the wait.
WaitTests == /\ On(Waiter, "waitDetail")
             /\ Answered(Waiter)
             /\ \/ /\ Succeeded(Waiter)
                   /\ tested' = read[Waiter].seen[about[Waiter]]
                   /\ GoesOn(Waiter, "waitRead")
                   /\ UNCHANGED <<polls, shown>>
                \/ ~Succeeded(Waiter) /\ Returns(Waiter, Message(Waiter, "error")) /\ UNCHANGED told

\* last = poll_status(document_id): the document is read again.
WaitReads == /\ On(Waiter, "waitRead")
             /\ AskDocument(Waiter, about[Waiter])
             /\ GoesOn(Waiter, "waitText")
             /\ UNCHANGED <<waiting, shown>>

\* The loop goes round, with its last text.
WaitGoesOn == /\ shown' = [shown EXCEPT ![Waiter] = Detail(Waiter, "detail")]
              /\ GoesOn(Waiter, "waitTest")

\* Variant: an iteration does not bring the deadline nearer.
WaitDecidesForEver ==
  /\ On(Waiter, "waitText")
  /\ Answered(Waiter)
  /\ \/ tested \in Settled /\ Returns(Waiter, Detail(Waiter, "wait")) /\ UNCHANGED told
     \/ tested \notin Settled /\ WaitGoesOn /\ UNCHANGED waiting

\* Variant: a document that has chunks is taken for indexed.
WaitDecidesOnChunks ==
  /\ On(Waiter, "waitText")
  /\ Answered(Waiter)
  /\ LET ends == tested \in Settled \/ read[Waiter].found # {}
     IN \/ ends /\ Returns(Waiter, Detail(Waiter, "wait")) /\ UNCHANGED told
        \/ ~ends /\ WaitGoesOn /\ tested' = Absent /\ polls' = polls + 1

\* The text is of the second reply, the decision on the first.
WaitDecides ==
  /\ On(Waiter, "waitText")
  /\ Answered(Waiter)
  /\ \/ tested \in Settled /\ Returns(Waiter, Detail(Waiter, "wait")) /\ UNCHANGED told
     \/ tested \notin Settled /\ WaitGoesOn /\ tested' = Absent /\ polls' = polls + 1

-----------------------------------------------------------------------------
Remover == "delete_doc"

\* refresh_documents, at the press of a button or when the page is loaded ...
Refresh == /\ Starts("refresh_documents", "refresh", NoDoc)
           /\ ListDocuments("refresh_documents", Statuses) \/ Raises("refresh_documents")

\* ... or at the end of delete_doc.
RefreshAfterDelete == /\ On(Remover, "refreshDeleted") \/ On(Remover, "refreshKept")
                      /\ ListDocuments(Remover, Statuses) \/ Raises(Remover)
                      /\ UNCHANGED pageVars

\* An error empties the table.  delete_doc returns its message with the table.
RefreshEnds(l) ==
  /\ page[l] \in RefreshPages
  /\ Answered(l)
  /\ LET kind == CASE page[l] = "refresh" -> "list"
                   [] page[l] = "refreshDeleted" -> "deleted"
                   [] page[l] = "refreshKept" -> "error"
     IN Returns(l, [Message(l, kind) EXCEPT !.table = read[l].seen])
  /\ told' = IF page[l] = "refreshDeleted" THEN told \cup {about[l]} ELSE told

\* delete_doc: DELETE, answered with 404 at once, ...
Delete(d) == \/ Starts(Remover, "delete", d) /\ DeleteLoad(Remover, d) /\ UNCHANGED read
             \/ status[d] = Absent /\ Starts(Remover, "refreshKept", d) /\ UNCHANGED readVars

\* Variant: the console announces the deletion when the row is still to go.
DeleteGoesOnEagerly ==
  /\ On(Remover, "delete")
  /\ \/ DeleteRow(Remover) /\ GoesOn(Remover, "refreshDeleted")
     \/ /\ DeletePoints(Remover)
        /\ GoesOn(Remover, IF delPc'[Remover] = "idle" THEN "refreshDeleted" ELSE "delete")
     \/ DeleteFails(Remover) /\ GoesOn(Remover, "refreshKept")
  /\ UNCHANGED <<read, waiting, shown>>

\* ... or when both stores have been asked, or one has failed.
DeleteGoesOn ==
  /\ On(Remover, "delete")
  /\ \/ DeleteRow(Remover) /\ GoesOn(Remover, "refreshDeleted")
     \/ /\ DeletePoints(Remover)
        /\ GoesOn(Remover, IF delPc'[Remover] = "idle" THEN "refreshKept" ELSE "delete")
     \/ DeleteFails(Remover) /\ GoesOn(Remover, "refreshKept")
  /\ UNCHANGED <<read, waiting, shown>>

\* run_search.
RunSearch == /\ Starts("run_search", "search", NoDoc)
             /\ Search("run_search", {}) \/ Raises("run_search")

SearchEnds(l) == /\ On(l, "search")
                 /\ Answered(l)
                 /\ Returns(l, [Message(l, "hits") EXCEPT !.hits = read[l].found])
                 /\ UNCHANGED told

\* show_chunk, for an id from the table of results.
ShowChunk(b) == /\ Starts("show_chunk", "chunk", b[1])
                /\ FetchChunk("show_chunk", b) \/ Raises("show_chunk")

ShowChunkEnds(l) == /\ On(l, "chunk")
                    /\ Answered(l)
                    /\ Returns(l, Message(l, IF Succeeded(l) THEN "chunk" ELSE "error"))
                    /\ UNCHANGED told

-----------------------------------------------------------------------------
\* httpx gives up after 120 s.  What the server was doing it goes on doing.
RequestTimesOut(l) ==
  \/ GivesUp(l) /\ UNCHANGED pageVars
  \/ On(l, "upload") /\ Returns(l, Message(l, "error")) /\ UNCHANGED <<readVars, told>>
  \/ On(l, "delete") /\ GoesOn(l, "refreshKept") /\ UNCHANGED <<readVars, waiting, shown>>

\* The server goes down: every request under way fails.
ServerCrash ==
  /\ ReadCrash
  /\ page' = [l \in Listeners |-> CASE page[l] = "upload" -> "idle"
                                    [] page[l] = "delete" -> "refreshKept"
                                    [] OTHER -> page[l]]
  /\ about' = [l \in Listeners |-> IF page[l] = "upload" THEN NoDoc ELSE about[l]]
  /\ shown' = [l \in Listeners |-> IF page[l] = "upload" THEN Message(l, "error") ELSE shown[l]]
  /\ UNCHANGED <<known, waiting, told>>

\* Threads, other clients, and the server's work on the page's reads.
Elsewhere == /\ \/ WriteStep
                \/ \E r \in Readers : ReadStep(r) \/ ReadFails(r)
                \/ \E r \in Readers \ Listeners : \/ Joins(r) /\ Request(r)
                                               \/ GivesUp(r) \/ TakeReply(r)
             /\ On("upload_file", "upload") => upload' = upload
             /\ On(Remover, "delete") => delPc'[Remover] = delPc[Remover]
             /\ UNCHANGED pageVars

\* The table of results, from which ids are copied.
Results == IF "run_search" \in Listeners THEN shown["run_search"].hits ELSE {}

Callback == \/ \E h \in Contents : Upload(h)
            \/ \E d \in DocIds : \/ Poll("poll_status", d) \/ Poll("document_detail", d)
                                 \/ Wait(d) \/ Delete(d)
            \/ Refresh \/ RunSearch
            \/ \E b \in Results : ShowChunk(b)

WaitStep == WaitTimesOut \/ WaitAsks \/ WaitTests \/ WaitReads \/ WaitDecides

CallbackStep ==
  \/ UploadEnds \/ WaitStep \/ RefreshAfterDelete \/ DeleteGoesOn
  \/ \E l \in Listeners : \/ PollEnds(l) \/ RefreshEnds(l) \/ SearchEnds(l) \/ ShowChunkEnds(l)
                          \/ RequestTimesOut(l)

ConsoleNext == Callback \/ CallbackStep \/ ServerCrash \/ Elsewhere

ConsoleSpec == ConsoleInit /\ [][ConsoleNext]_consoleVars

\* A wait runs on, and the server serves its reads; users start what they like.
ConsoleFairness == /\ WF_consoleVars(WaitStep)
                   /\ WF_consoleVars(ReadStep(Waiter) /\ UNCHANGED pageVars)

ConsoleFairSpec == ConsoleSpec /\ ConsoleFairness

-----------------------------------------------------------------------------
(* Properties.                                                             *)

ConsoleTypeOK == /\ ReadTypeOK
                 /\ page \in [Listeners -> Pages]
                 /\ about \in [Listeners -> DocIds \cup {NoDoc}]
                 /\ shown \in [Listeners -> Outputs]
                 /\ known \in [Listeners -> SUBSET told]
                 /\ tested \in Statuses \cup {Absent}
                 /\ polls \in 0 .. MaxPolls
                 /\ told \subseteq DocIds

\* With one ingestion thread, a wait that returns a status without having timed
\* out returns a settled one, though it tests one reply and shows another
\* (ui.py:52-55).
WaitShowsSettled ==
  Waiter \in Listeners /\ shown[Waiter].kind = "wait" => shown[Waiter].status \in Settled

\* The table that comes with the message that a document was deleted does not have
\* it; and no call of any listener that is started later shows it in a table, as a
\* detail or by one of its chunks, whatever thread was still working on it
\* (ui.py:71-81, 102-116).  Calls that were running when the message appeared may
\* still show it, and so may the hits of a search: its points can outlive it
\* (Ingestion, DeleteRemovesPoints).
DeletedStaysOffThePage ==
  \A l \in Listeners :
    /\ shown[l].kind = "deleted" => shown[l].table[shown[l].doc] = Absent
    /\ \A d \in known[l] :
         /\ shown[l].table[d] = Absent
         /\ shown[l].doc = d => shown[l].status = Absent /\ shown[l].kind # "chunk"

\* With one ingestion thread, a chunk found by a search can be shown unless its
\* document is not INDEXED (any more, or yet).
FoundChunkCanBeShown ==
  [][On("show_chunk", "idle") /\ page'["show_chunk"] = "chunk"
       /\ read'["show_chunk"].reply = "notFound"
       => status[about'["show_chunk"]] # "INDEXED"]_consoleVars

\* A wait ends, by a settled status, an error or its deadline.
WaitEnds == (Waiter \in Listeners /\ page[Waiter] \in WaitPages) ~> On(Waiter, "idle")
=============================================================================
