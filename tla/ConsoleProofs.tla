---------------------------- MODULE ConsoleProofs ----------------------------
(***************************************************************************)
(* What a user of the console is told, while its other calls, threads,     *)
(* other clients, time-outs and restarts go on between the requests of a   *)
(* call.                                                                   *)
(***************************************************************************)
EXTENDS Console, ReadSideProofs

\* The event loop is inside an upload or inside a call of the tools.
LoopAlone == upload # NoUpload => ~LoopReading

-----------------------------------------------------------------------------
(* The console is a client like any other.                                 *)

LEMMA ListenersRead ==
  /\ \A l \in Listeners : l \in RestReaders /\ l \in Readers
  /\ Remover \in Listeners => Remover \in Deleters
BY ConsoleAssumption DEF Readers, Remover

LEMMA AskIsRequest ==
  ASSUME NEW l \in Readers
  PROVE  /\ \A d \in DocIds : AskDocument(l, d) => Request(l)
         /\ ListDocuments(l, Statuses) \/ Raises(l) => Request(l)
         /\ Search(l, {}) \/ Raises(l) => Request(l)
         /\ \A b \in Batches : FetchChunk(l, b) \/ Raises(l) => Request(l)
<1>1. Statuses \in Filters /\ {} \in SUBSET DocIds
  BY DEF Filters
<1> QED
  BY <1>1, Zenon DEF AskDocument, Request

\* A step of a call of l.
StartOf(l) == \/ l = "upload_file" /\ \E h \in Contents : Upload(h)
              \/ l \in {"poll_status", "document_detail"} /\ \E d \in DocIds : Poll(l, d)
              \/ l = Waiter /\ \E d \in DocIds : Wait(d)
              \/ l = Remover /\ \E d \in DocIds : Delete(d)
              \/ l = "refresh_documents" /\ Refresh
              \/ l = "run_search" /\ RunSearch
              \/ l = "show_chunk" /\ \E b \in Results : ShowChunk(b)

EndOf(l) == \/ l = "upload_file" /\ UploadEnds
            \/ PollEnds(l) \/ RefreshEnds(l) \/ SearchEnds(l) \/ ShowChunkEnds(l)

StepOf(l) == \/ StartOf(l) \/ EndOf(l)
             \/ l = Waiter /\ WaitStep
             \/ l = Remover /\ (RefreshAfterDelete \/ DeleteGoesOn)
             \/ RequestTimesOut(l)

LEMMA WhoseStep ==
  ASSUME [ConsoleNext]_consoleVars
  PROVE  \/ \E l \in Listeners : StepOf(l)
         \/ ServerCrash \/ Elsewhere \/ UNCHANGED consoleVars
<1>1. CASE Callback
  <2>1. ASSUME NEW l, StartOf(l) PROVE l \in Listeners
    BY <2>1, Zenon DEF StartOf, Upload, Poll, Wait, Delete, Refresh, RunSearch, ShowChunk, Starts, On,
       Waiter, Remover
  <2>2. \E l : StartOf(l)
    BY <1>1, Zenon DEF Callback, StartOf
  <2> QED
    BY <2>1, <2>2, Zenon DEF StepOf
<1>2. CASE CallbackStep
  <2>1. CASE UploadEnds
    <3>1. "upload_file" \in Listeners
      BY <2>1, Zenon DEF UploadEnds, On
    <3> QED
      BY <2>1, <3>1, Zenon DEF StepOf, EndOf
  <2>2. CASE WaitStep
    <3>1. Waiter \in Listeners
      BY <2>2, Zenon DEF WaitStep, WaitTimesOut, WaitAsks, WaitTests, WaitReads, WaitDecides, On
    <3> QED
      BY <2>2, <3>1, Zenon DEF StepOf
  <2>3. CASE RefreshAfterDelete \/ DeleteGoesOn
    <3>1. Remover \in Listeners
      BY <2>3, Zenon DEF RefreshAfterDelete, DeleteGoesOn, On
    <3> QED
      BY <2>3, <3>1, Zenon DEF StepOf
  <2> QED
    BY <1>2, <2>1, <2>2, <2>3, Zenon DEF CallbackStep, StepOf, EndOf
<1> QED
  BY <1>1, <1>2, Zenon DEF ConsoleNext

\* Every step of the console's world is one of the server's, or none.
LEMMA ConsoleStepIsReadStep ==
  ASSUME LoopAlone, Results \subseteq Batches,
         Waiter \in Listeners /\ page[Waiter] \in WaitPages => about[Waiter] \in DocIds,
         [ConsoleNext]_consoleVars
  PROVE  [ReadNext]_readVars
<1>1. \A l \in Listeners : Request(l) \/ ReadStep(l) \/ ReadFails(l) \/ GivesUp(l) \/ TakeReply(l)
        => ReadNext
  BY ListenersRead, Zenon DEF ReadNext
<1>2. ASSUME NEW l \in Listeners, StartOf(l) PROVE [ReadNext]_readVars
  <2>1. ASSUME NEW h \in Contents, Upload(h) PROVE ReadNext
    BY <2>1, Zenon DEF Upload, ReadNext, WriteStep, IngestNext
  <2>2. ASSUME NEW d \in DocIds, Poll(l, d) PROVE ReadNext
    BY <1>1, <2>2, AskIsRequest, ListenersRead, Zenon DEF Poll
  <2>3. ASSUME NEW d \in DocIds, Wait(d) PROVE [ReadNext]_readVars
    BY <2>3, Zenon DEF Wait
  <2>4. ASSUME NEW d \in DocIds, l = Remover, Delete(d) PROVE [ReadNext]_readVars
    <3>1. CASE DeleteLoad(Remover, d) /\ UNCHANGED read
      <4>1. upload' = upload
        BY <3>1 DEF DeleteLoad
      <4> QED
        BY <2>4, <3>1, <4>1, ListenersRead, Zenon DEF ReadNext, WriteStep, DeleteNext
    <3> QED
      BY <2>4, <3>1, Zenon DEF Delete
  <2>5. CASE (l = "refresh_documents" /\ Refresh) \/ (l = "run_search" /\ RunSearch)
    BY <1>1, <2>5, AskIsRequest, ListenersRead, Zenon DEF Refresh, RunSearch
  <2>6. ASSUME l = "show_chunk", NEW b \in Results, ShowChunk(b) PROVE ReadNext
    BY <1>1, <2>6, AskIsRequest, ListenersRead DEF ShowChunk
  <2> QED
    BY <1>2, <2>1, <2>2, <2>3, <2>4, <2>5, <2>6, Zenon DEF StartOf
<1>3. ASSUME NEW l \in Listeners, EndOf(l) PROVE ReadNext
  <2>1. CASE UploadEnds
    <3>1. IngestSave \/ IngestSaveFails
      BY <2>1, Zenon DEF UploadEnds
    <3>2. ~LoopReading
      BY <3>1, Zenon DEF LoopAlone, IngestSave, IngestSaveFails
    <3>3. UNCHANGED read
      BY <2>1, Zenon DEF UploadEnds
    <3> QED
      BY <3>1, <3>2, <3>3, Zenon DEF ReadNext, WriteStep, IngestNext
  <2> QED
    BY <1>1, <1>3, <2>1, Zenon DEF EndOf, PollEnds, RefreshEnds, SearchEnds, ShowChunkEnds, Answered
<1>4. ASSUME Waiter \in Listeners, WaitStep PROVE [ReadNext]_readVars
  <2>1. CASE WaitTests \/ WaitDecides
    BY <1>1, <1>4, <2>1, Zenon DEF WaitTests, WaitDecides, Answered
  <2>2. CASE WaitTimesOut
    BY <2>2, Zenon DEF WaitTimesOut
  <2>3. CASE WaitAsks \/ WaitReads
    <3>1. about[Waiter] \in DocIds
      BY <1>4, <2>3 DEF WaitAsks, WaitReads, WaitPages, On
    <3> QED
      BY <1>1, <1>4, <2>3, <3>1, AskIsRequest, ListenersRead, Zenon DEF WaitAsks, WaitReads
  <2> QED
    BY <1>4, <2>1, <2>2, <2>3, Zenon DEF WaitStep
<1>5. ASSUME Remover \in Listeners, RefreshAfterDelete PROVE ReadNext
  BY <1>1, <1>5, AskIsRequest, ListenersRead, Zenon DEF RefreshAfterDelete
<1>6. ASSUME Remover \in Listeners, DeleteGoesOn PROVE ReadNext
  <2>1. DeleteRow(Remover) \/ DeletePoints(Remover) \/ DeleteFails(Remover)
    BY <1>6, Zenon DEF DeleteGoesOn
  <2>2. UNCHANGED <<upload, read>>
    BY <1>6, <2>1, Zenon DEF DeleteGoesOn, DeleteRow, DeletePoints, DeleteFails
  <2> QED
    BY <1>6, <2>1, <2>2, ListenersRead, Zenon DEF ReadNext, WriteStep, DeleteNext, DeleteStep
<1>7. ASSUME NEW l \in Listeners, RequestTimesOut(l) PROVE [ReadNext]_readVars
  BY <1>1, <1>7, Zenon DEF RequestTimesOut
<1>8. CASE ServerCrash
  BY <1>8, Zenon DEF ServerCrash, ReadNext
<1>9. CASE Elsewhere
  <2>1. ASSUME NEW r \in Readers,
               Request(r) \/ ReadStep(r) \/ ReadFails(r) \/ GivesUp(r) \/ TakeReply(r)
        PROVE  ReadNext
    BY <2>1, Zenon DEF ReadNext
  <2>2. CASE WriteStep
    BY <2>2, Zenon DEF ReadNext
  <2> QED
    BY <1>9, <2>1, <2>2, Zenon DEF Elsewhere
<1>10. CASE UNCHANGED consoleVars
  BY <1>10, Zenon DEF consoleVars
<1> QED
  BY <1>2, <1>3, <1>4, <1>5, <1>6, <1>7, <1>8, <1>9, <1>10, WhoseStep, Zenon DEF StepOf

\* A call of the tools starts when no upload is under way, and an upload when
\* no call is.
LEMMA LoopAloneStep ==
  ASSUME LoopAlone, [ReadNext]_readVars
  PROVE  LoopAlone'
<1>1. CASE WriteStep
  <2>1. UNCHANGED read /\ (LoopReading => upload' = upload)
    BY <1>1, Zenon DEF WriteStep
  <2>2. LoopReading' <=> LoopReading
    BY <2>1 DEF LoopReading, Reading
  <2> QED
    BY <2>1, <2>2 DEF LoopAlone
<1>2. CASE ReadCrash
  BY <1>2 DEF ReadCrash, Crash, LoopAlone, NoUpload
<1>3. ASSUME NEW r \in Readers,
             Request(r) \/ ReadStep(r) \/ ReadFails(r) \/ GivesUp(r) \/ TakeReply(r)
      PROVE  LoopAlone'
  <2>1. PICK q : Serve(r, q)
    BY <1>3, Zenon DEF Request, ReadStep, ReadFails, GivesUp, TakeReply, GetDocument,
       ListDocumentChunks, ReadDocument, ListDocuments, FetchChunk, Search, Raises, UnknownTool,
       ReadRows, CountChunks, FetchContext, FetchOwner
  <2>2. upload' = upload /\ read' = [read EXCEPT ![r] = q]
    BY <2>1 DEF Serve, vars
  <2>3. CASE Request(r)
    <3>1. CanStart(r)
      BY <2>3, Zenon DEF Request, GetDocument, ListDocumentChunks, ReadDocument, ListDocuments,
         FetchChunk, Search, Raises, UnknownTool
    <3>2. r \in RpcReaders => upload = NoUpload
      BY <3>1 DEF CanStart
    <3>3. ASSUME r \notin RpcReaders PROVE LoopReading' => LoopReading
      BY <2>2, <3>3 DEF LoopReading, Reading
    <3>4. (NoUpload)' = NoUpload
      BY DEF NoUpload
    <3> QED
      BY <2>2, <3>2, <3>3, <3>4 DEF LoopAlone
  <2>4. CASE Reading(r)
    <3>1. LoopReading' => LoopReading
      BY <2>2, <2>4 DEF LoopReading, Reading
    <3> QED
      BY <2>2, <3>1 DEF LoopAlone
  <2>5. CASE TakeReply(r)
    <3>1. read' = [read EXCEPT ![r] = NoRead]
      BY <2>5 DEF TakeReply, Serve
    <3>2. LoopReading' => LoopReading
      BY <3>1, NoReadIsRead DEF LoopReading, Reading, ReadPoints
    <3> QED
      BY <2>2, <3>2 DEF LoopAlone
  <2> QED
    BY <1>3, <2>3, <2>4, <2>5 DEF ReadStep, ReadRows, CountChunks, FetchContext, FetchOwner,
       ReadFails, GivesUp, Reading, ReadPoints
<1>4. CASE UNCHANGED readVars
  BY <1>4 DEF readVars, vars, LoopAlone, LoopReading, Reading
<1> QED
  BY <1>1, <1>2, <1>3, <1>4, Zenon DEF ReadNext

-----------------------------------------------------------------------------
(* What the page holds is well typed.                                      *)

AboutPages == WaitPages \cup {"poll", "delete", "refreshDeleted"}
Kinds == {"none", "detail", "wait", "timeout", "list", "hits", "chunk", "deleted", "error"}

\* The page's own variables; a wait that goes on to its next request may poll.
PageTyped == /\ page \in [Listeners -> Pages]
             /\ about \in [Listeners -> DocIds \cup {NoDoc}]
             /\ shown \in [Listeners -> Outputs]
             /\ known \in [Listeners -> SUBSET told]
             /\ tested \in Statuses \cup {Absent}
             /\ polls \in 0 .. MaxPolls
             /\ told \subseteq DocIds
             /\ \A l \in Listeners : page[l] \in AboutPages => about[l] \in DocIds
             /\ Waiter \in Listeners /\ page[Waiter] \in {"waitDetail", "waitRead", "waitText"}
                  => polls < MaxPolls

PageInv == PageTyped /\ LoopAlone

LEMMA BlankIsOutput ==
  /\ Blank \in Outputs /\ Blank.status = Absent /\ Blank.hits = {} /\ Blank.kind = "none"
  /\ Blank.doc = NoDoc
  /\ \A d \in DocIds : Blank.table[d] = Absent
<1>1. NoStatuses \in [DocIds -> Statuses \cup {Absent}] /\ \A d \in DocIds : NoStatuses[d] = Absent
  BY DEF NoStatuses
<1>2. Blank.table = NoStatuses
  BY DEF Blank
<1>3. Blank \in Outputs
  BY <1>1 DEF Blank, Outputs
<1> QED
  BY <1>1, <1>2, <1>3 DEF Blank

LEMMA OutputExcept ==
  ASSUME NEW o \in Outputs
  PROVE  /\ \A s \in Statuses \cup {Absent} :
              /\ [o EXCEPT !.status = s] \in Outputs
              /\ [o EXCEPT !.status = s].status = s
              /\ [o EXCEPT !.status = s].kind = o.kind
              /\ [o EXCEPT !.status = s].doc = o.doc
              /\ [o EXCEPT !.status = s].table = o.table
              /\ [o EXCEPT !.status = s].hits = o.hits
         /\ \A t \in [DocIds -> Statuses \cup {Absent}] :
              /\ [o EXCEPT !.table = t] \in Outputs
              /\ [o EXCEPT !.table = t].table = t
              /\ [o EXCEPT !.table = t].kind = o.kind
              /\ [o EXCEPT !.table = t].doc = o.doc
              /\ [o EXCEPT !.table = t].status = o.status
         /\ \A b \in SUBSET Batches :
              /\ [o EXCEPT !.hits = b] \in Outputs
              /\ [o EXCEPT !.hits = b].kind = o.kind
              /\ [o EXCEPT !.hits = b].status = o.status
              /\ [o EXCEPT !.hits = b].table = o.table
         /\ \A d \in DocIds \cup {NoDoc} :
              /\ [o EXCEPT !.kind = "timeout", !.doc = d] \in Outputs
              /\ [o EXCEPT !.kind = "timeout", !.doc = d].kind = "timeout"
              /\ [o EXCEPT !.kind = "timeout", !.doc = d].doc = d
              /\ [o EXCEPT !.kind = "timeout", !.doc = d].status = o.status
              /\ [o EXCEPT !.kind = "timeout", !.doc = d].table = o.table
BY DEF Outputs

LEMMA MessageIsOutput ==
  ASSUME NEW l \in Listeners, about[l] \in DocIds \cup {NoDoc}, NEW kind \in Kinds
  PROVE  /\ Message(l, kind) \in Outputs
         /\ Message(l, kind).kind = kind /\ Message(l, kind).doc = about[l]
         /\ Message(l, kind).status = Absent
         /\ \A d \in DocIds : Message(l, kind).table[d] = Absent
<1>1. \A o \in Outputs :
        LET m == [o EXCEPT !.kind = kind, !.doc = about[l]]
        IN  /\ m \in Outputs /\ m.kind = kind /\ m.doc = about[l]
            /\ m.status = o.status /\ m.table = o.table /\ m.hits = o.hits
  BY DEF Outputs, Kinds
<1> QED
  BY <1>1, BlankIsOutput DEF Message

\* The text of poll_status: the status it read, or an error.
LEMMA DetailIsOutput ==
  ASSUME ReadTypeOK, NEW l \in Listeners, about[l] \in DocIds, NEW kind \in Kinds
  PROVE  /\ Detail(l, kind) \in Outputs
         /\ Detail(l, kind).doc = about[l]
         /\ Detail(l, kind).kind \in {kind, "error"}
         /\ Detail(l, kind).kind = kind /\ kind # "error" => read[l].reply = "ok"
         /\ read[l].reply = "ok" => Detail(l, kind).status = read[l].seen[about[l]]
         /\ Detail(l, kind).status \in {Absent, read[l].seen[about[l]]}
         /\ \A d \in DocIds : Detail(l, kind).table[d] = Absent
<1> DEFINE s == read[l].seen[about[l]]
<1>1. s \in Statuses \cup {Absent}
  BY ListenersRead DEF ReadTypeOK, Reads
<1>2. "error" \in Kinds
  BY DEF Kinds
<1>3. Detail(l, kind) = IF read[l].reply = "ok"
                        THEN [Message(l, kind) EXCEPT !.status = s]
                        ELSE Message(l, "error")
  BY Zenon DEF Detail, Succeeded
<1>4. CASE read[l].reply = "ok"
  <2> DEFINE o == Message(l, kind)
  <2>1. /\ o \in Outputs /\ o.kind = kind /\ o.doc = about[l]
        /\ \A d \in DocIds : o.table[d] = Absent
    BY MessageIsOutput
  <2>2. Detail(l, kind) = [o EXCEPT !.status = s]
    BY <1>3, <1>4, Zenon
  <2> HIDE DEF o, s
  <2>3. /\ [o EXCEPT !.status = s] \in Outputs
        /\ [o EXCEPT !.status = s].doc = about[l] /\ [o EXCEPT !.status = s].kind = kind
        /\ [o EXCEPT !.status = s].status = s /\ [o EXCEPT !.status = s].table = o.table
    BY <1>1, <2>1, OutputExcept
  <2>4. /\ Detail(l, kind) \in Outputs /\ Detail(l, kind).doc = about[l]
        /\ Detail(l, kind).kind = kind /\ Detail(l, kind).status = s
        /\ \A d \in DocIds : Detail(l, kind).table[d] = Absent
    BY <2>1, <2>2, <2>3, Zenon
  <2> QED
    BY <1>4, <2>4 DEF s
<1>5. CASE read[l].reply # "ok"
  <2>1. Detail(l, kind) = Message(l, "error")
    BY <1>3, <1>5, Zenon
  <2> QED
    BY <1>2, <1>5, <2>1, MessageIsOutput
<1> QED
  BY <1>4, <1>5

\* The table of a listing, and the hits of a search.
LEMMA TableIsOutput ==
  ASSUME ReadTypeOK, NEW l \in Listeners, about[l] \in DocIds \cup {NoDoc}, NEW kind \in Kinds
  PROVE  LET o == [Message(l, kind) EXCEPT !.table = read[l].seen]
         IN  /\ o \in Outputs /\ o.kind = kind /\ o.doc = about[l]
             /\ o.status = Absent /\ o.table = read[l].seen
<1> DEFINE m == Message(l, kind)
<1>1. m \in Outputs /\ m.kind = kind /\ m.doc = about[l] /\ m.status = Absent
  BY MessageIsOutput
<1>2. read[l].seen \in [DocIds -> Statuses \cup {Absent}]
  BY ListenersRead DEF ReadTypeOK, Reads
<1> HIDE DEF m
<1>3. LET o == [m EXCEPT !.table = read[l].seen]
      IN  /\ o \in Outputs /\ o.kind = kind /\ o.doc = about[l]
          /\ o.status = Absent /\ o.table = read[l].seen
  BY <1>1, <1>2, OutputExcept
<1> QED
  BY <1>3 DEF m

LEMMA HitsAreOutput ==
  ASSUME ReadTypeOK, NEW l \in Listeners, about[l] \in DocIds \cup {NoDoc}
  PROVE  LET o == [Message(l, "hits") EXCEPT !.hits = read[l].found]
         IN  /\ o \in Outputs /\ o.kind = "hits" /\ o.status = Absent
             /\ \A d \in DocIds : o.table[d] = Absent
<1> DEFINE m == Message(l, "hits")
<1>1. /\ m \in Outputs /\ m.kind = "hits" /\ m.status = Absent
      /\ \A d \in DocIds : m.table[d] = Absent
  BY MessageIsOutput DEF Kinds
<1>2. read[l].found \in SUBSET Batches
  BY ListenersRead DEF ReadTypeOK, Reads
<1> HIDE DEF m
<1>3. LET o == [m EXCEPT !.hits = read[l].found]
      IN  /\ o \in Outputs /\ o.kind = "hits" /\ o.status = Absent /\ o.table = m.table
  BY <1>1, <1>2, OutputExcept
<1>4. LET o == [m EXCEPT !.hits = read[l].found]
      IN  \A d \in DocIds : o.table[d] = Absent
  BY <1>1, <1>3
<1> QED
  BY <1>3, <1>4 DEF m

LEMMA PageInit == ConsoleInit => PageInv
<1> SUFFICES ASSUME ConsoleInit PROVE PageInv
  OBVIOUS
<1>1. LoopAlone
  BY DEF ConsoleInit, ReadInit, Init, LoopAlone
<1>2. shown \in [Listeners -> Outputs]
  BY BlankIsOutput DEF ConsoleInit
<1>3. polls \in 0 .. MaxPolls
  BY ConsoleAssumption DEF ConsoleInit
<1> QED
  BY <1>1, <1>2, <1>3 DEF ConsoleInit, PageInv, PageTyped, Pages, AboutPages, WaitPages

\* What a call of l leaves of the page when it returns, starts or goes on.
LEMMA ReturnsTyped ==
  ASSUME PageTyped, NEW l \in Listeners, NEW o \in Outputs, Returns(l, o),
         told' \subseteq DocIds, told \subseteq told'
  PROVE  PageTyped'
<1>1. /\ page' = [page EXCEPT ![l] = "idle"] /\ about' = [about EXCEPT ![l] = NoDoc]
      /\ shown' = [shown EXCEPT ![l] = o] /\ known' = known
  BY DEF Returns
<1>2. tested' \in Statuses \cup {Absent} /\ polls' \in 0 .. MaxPolls
  BY ConsoleAssumption DEF Returns, waiting, PageTyped
<1>3. page' \in [Listeners -> Pages]
  BY <1>1 DEF PageTyped, Pages
<1>4. known' \in [Listeners -> SUBSET told']
  BY <1>1 DEF PageTyped
<1>5. \A m \in Listeners : page'[m] = IF m = l THEN "idle" ELSE page[m]
  BY <1>1 DEF PageTyped
<1>6. \A m \in Listeners : page'[m] \in AboutPages => about'[m] \in DocIds
  BY <1>1, <1>5 DEF PageTyped, AboutPages, WaitPages
<1>7. Waiter \in Listeners /\ page'[Waiter] \in {"waitDetail", "waitRead", "waitText"}
        => polls' < MaxPolls
  <2>1. Waiter # l => polls' = polls
    BY DEF Returns, waiting, Waiter
  <2> QED
    BY <1>5, <2>1 DEF PageTyped
<1> QED
  BY <1>1, <1>2, <1>3, <1>4, <1>6, <1>7 DEF PageTyped

LEMMA StartsTyped ==
  ASSUME PageTyped, NEW l \in Listeners, NEW p \in Pages, NEW d \in DocIds \cup {NoDoc},
         Starts(l, p, d), p \in AboutPages => d \in DocIds,
         p \notin {"waitDetail", "waitRead", "waitText"}
  PROVE  PageTyped'
<1>1. /\ page' = [page EXCEPT ![l] = p] /\ about' = [about EXCEPT ![l] = d]
      /\ shown' = [shown EXCEPT ![l] = Blank] /\ known' = [known EXCEPT ![l] = told]
      /\ tested' = tested /\ polls' = polls /\ told' = told
  BY DEF Starts, waiting
<1>2. known' \in [Listeners -> SUBSET told']
  BY <1>1 DEF PageTyped
<1>3. shown' \in [Listeners -> Outputs]
  BY <1>1, BlankIsOutput DEF PageTyped
<1>4. \A m \in Listeners : page'[m] = (IF m = l THEN p ELSE page[m])
                           /\ about'[m] = (IF m = l THEN d ELSE about[m])
  BY <1>1 DEF PageTyped
<1>5. page' \in [Listeners -> Pages] /\ about' \in [Listeners -> DocIds \cup {NoDoc}]
  BY <1>1 DEF PageTyped
<1> QED
  BY <1>1, <1>2, <1>3, <1>4, <1>5 DEF PageTyped

LEMMA GoesOnTyped ==
  ASSUME PageTyped, NEW l \in Listeners, NEW p \in Pages, GoesOn(l, p),
         p \in AboutPages => about[l] \in DocIds,
         shown' \in [Listeners -> Outputs],
         tested' \in Statuses \cup {Absent}, polls' \in 0 .. MaxPolls,
         Waiter \in Listeners /\ page'[Waiter] \in {"waitDetail", "waitRead", "waitText"}
           => polls' < MaxPolls
  PROVE  PageTyped'
<1>1. page' = [page EXCEPT ![l] = p] /\ about' = about /\ known' = known /\ told' = told
  BY DEF GoesOn
<1>2. page' \in [Listeners -> Pages]
  BY <1>1 DEF PageTyped
<1>3. \A m \in Listeners : page'[m] = IF m = l THEN p ELSE page[m]
  BY <1>1 DEF PageTyped
<1> QED
  BY <1>1, <1>2, <1>3 DEF PageTyped

LEMMA SamePageTyped ==
  ASSUME PageTyped, UNCHANGED pageVars PROVE PageTyped'
BY DEF PageTyped, pageVars, waiting

LEMMA StartIsTyped ==
  ASSUME PageTyped, NEW l \in Listeners, StartOf(l)
  PROVE  PageTyped'
<1> USE DEF Pages, WaitPages, RefreshPages, AboutPages
<1>1. ASSUME NEW h \in Contents, l = "upload_file", Upload(h) PROVE PageTyped'
  <2>1. nextId \in DocIds /\ Starts(l, "upload", nextId)
    BY <1>1 DEF Upload, IngestCheck
  <2> QED
    BY <2>1, StartsTyped
<1>2. ASSUME NEW d \in DocIds, Poll(l, d) PROVE PageTyped'
  BY <1>2, StartsTyped DEF Poll
<1>3. ASSUME NEW d \in DocIds, l = Waiter, Wait(d) PROVE PageTyped'
  BY <1>3, StartsTyped DEF Wait
<1>4. ASSUME NEW d \in DocIds, l = Remover, Delete(d) PROVE PageTyped'
  <2>1. PICK p \in {"delete", "refreshKept"} : Starts(l, p, d)
    BY <1>4, Zenon DEF Delete
  <2> QED
    BY <2>1, StartsTyped
<1>5. CASE (l = "refresh_documents" /\ Refresh) \/ (l = "run_search" /\ RunSearch)
  BY <1>5, StartsTyped DEF Refresh, RunSearch
<1>6. ASSUME l = "show_chunk", NEW b \in Results, ShowChunk(b) PROVE PageTyped'
  <2>1. b[1] \in DocIds
    BY DEF Results, PageTyped, Outputs, Batches
  <2> QED
    BY <1>6, <2>1, StartsTyped DEF ShowChunk
<1> QED
  BY <1>1, <1>2, <1>3, <1>4, <1>5, <1>6, Zenon DEF StartOf

LEMMA EndIsTyped ==
  ASSUME ReadTypeOK, PageTyped, NEW l \in Listeners, EndOf(l) \/ RequestTimesOut(l)
  PROVE  PageTyped'
<1> USE DEF Kinds
<1>1. about[l] \in DocIds \cup {NoDoc} /\ told \subseteq DocIds
  BY DEF PageTyped
<1>2. \A kind \in Kinds : Message(l, kind) \in Outputs
  BY <1>1, MessageIsOutput
<1>3. ASSUME NEW o \in Outputs, Returns(l, o), UNCHANGED told PROVE PageTyped'
  BY <1>1, <1>3, ReturnsTyped
<1>4. CASE (l = "upload_file" /\ UploadEnds) \/ ShowChunkEnds(l)
  <2>1. PICK kind \in Kinds : Returns(l, Message(l, kind)) /\ UNCHANGED told
    BY <1>4 DEF UploadEnds, ShowChunkEnds
  <2> QED
    BY <1>2, <1>3, <2>1
<1>5. CASE PollEnds(l)
  <2>1. about[l] \in DocIds
    BY <1>5 DEF PollEnds, On, PageTyped, AboutPages
  <2>2. Detail(l, "detail") \in Outputs
    BY <2>1, DetailIsOutput
  <2> QED
    BY <1>3, <1>5, <2>2 DEF PollEnds
<1>6. CASE RefreshEnds(l)
  <2>1. \A kind \in Kinds : [Message(l, kind) EXCEPT !.table = read[l].seen] \in Outputs
    BY <1>1, TableIsOutput
  <2>2. PICK kind \in Kinds : Returns(l, [Message(l, kind) EXCEPT !.table = read[l].seen])
    BY <1>6 DEF RefreshEnds, RefreshPages
  <2>3. told' \subseteq DocIds /\ told \subseteq told'
    BY <1>6 DEF RefreshEnds, PageTyped, AboutPages
  <2> QED
    BY <2>1, <2>2, <2>3, ReturnsTyped
<1>7. CASE SearchEnds(l)
  <2>1. [Message(l, "hits") EXCEPT !.hits = read[l].found] \in Outputs
    BY <1>1, HitsAreOutput
  <2> QED
    BY <1>3, <1>7, <2>1 DEF SearchEnds
<1>8. CASE RequestTimesOut(l)
  <2>1. CASE GivesUp(l) /\ UNCHANGED pageVars
    BY <2>1, SamePageTyped
  <2>2. CASE Returns(l, Message(l, "error")) /\ UNCHANGED told
    BY <1>2, <1>3, <2>2
  <2>3. CASE On(l, "delete") /\ GoesOn(l, "refreshKept") /\ UNCHANGED <<waiting, shown>>
    <3>1. page'[Waiter] \in {"waitDetail", "waitRead", "waitText"} /\ Waiter \in Listeners
            => page[Waiter] = page'[Waiter]
      BY <2>3 DEF GoesOn, PageTyped
    <3> QED
      BY <2>3, <3>1, GoesOnTyped DEF PageTyped, waiting, Pages, RefreshPages, AboutPages, WaitPages
  <2> QED
    BY <1>8, <2>1, <2>2, <2>3 DEF RequestTimesOut
<1> QED
  BY <1>4, <1>5, <1>6, <1>7, <1>8, Zenon DEF EndOf

LEMMA WaitIsTyped ==
  ASSUME ReadTypeOK, PageTyped, Waiter \in Listeners, WaitStep
  PROVE  PageTyped'
<1> DEFINE l == Waiter
<1> USE DEF On, Pages, WaitPages, RefreshPages, AboutPages, Kinds
<1>1. /\ page[l] \in WaitPages /\ about[l] \in DocIds /\ shown[l] \in Outputs
      /\ MaxPolls \in Nat
  BY ConsoleAssumption
     DEF WaitStep, WaitTimesOut, WaitAsks, WaitTests, WaitReads, WaitDecides, PageTyped
<1>2. \A kind \in Kinds : Message(l, kind) \in Outputs /\ Detail(l, kind) \in Outputs
  BY <1>1, MessageIsOutput, DetailIsOutput
<1>3. ASSUME NEW o \in Outputs, Returns(l, o), UNCHANGED told PROVE PageTyped'
  BY <1>3, ReturnsTyped DEF PageTyped
<1>4. ASSUME NEW p \in {"waitDetail", "waitText"}, GoesOn(l, p), UNCHANGED <<waiting, shown>>,
             polls < MaxPolls
      PROVE  PageTyped'
  BY <1>1, <1>4, GoesOnTyped DEF PageTyped, waiting
<1>5. CASE WaitTimesOut
  <2>1. [shown[l] EXCEPT !.kind = "timeout", !.doc = about[l]] \in Outputs
    BY <1>1, OutputExcept
  <2> QED
    BY <1>3, <1>5, <2>1 DEF WaitTimesOut
<1>6. CASE WaitAsks
  BY <1>4, <1>6 DEF WaitAsks
<1>7. CASE WaitTests
  <2>1. CASE /\ tested' = read[l].seen[about[l]]
             /\ GoesOn(l, "waitRead")
             /\ UNCHANGED <<polls, shown>>
    <3>1. read[l].seen[about[l]] \in Statuses \cup {Absent}
      BY <1>1, ListenersRead DEF ReadTypeOK, Reads
    <3>2. polls < MaxPolls
      BY <1>7 DEF WaitTests, PageTyped
    <3> QED
      BY <1>1, <2>1, <3>1, <3>2, GoesOnTyped DEF PageTyped
  <2>2. CASE Returns(l, Message(l, "error")) /\ UNCHANGED told
    BY <1>2, <1>3, <2>2
  <2> QED
    BY <1>7, <2>1, <2>2, Zenon DEF WaitTests
<1>8. CASE WaitReads
  BY <1>4, <1>8 DEF WaitReads, PageTyped
<1>9. CASE WaitDecides
  <2>1. CASE Returns(l, Detail(l, "wait")) /\ UNCHANGED told
    BY <1>2, <1>3, <2>1
  <2>2. CASE WaitGoesOn /\ tested' = Absent /\ polls' = polls + 1
    <3>1. polls < MaxPolls
      BY <1>9 DEF WaitDecides, PageTyped
    <3>2. shown' \in [Listeners -> Outputs]
      BY <1>2, <2>2 DEF WaitGoesOn, PageTyped
    <3>3. page'[l] = "waitTest" /\ GoesOn(l, "waitTest")
      BY <2>2 DEF WaitGoesOn, GoesOn, PageTyped
    <3> QED
      BY <1>1, <2>2, <3>1, <3>2, <3>3, GoesOnTyped DEF PageTyped
  <2> QED
    BY <1>9, <2>1, <2>2, Zenon DEF WaitDecides
<1> QED
  BY <1>5, <1>6, <1>7, <1>8, <1>9, Zenon DEF WaitStep

LEMMA RemoverIsTyped ==
  ASSUME PageTyped, Remover \in Listeners, RefreshAfterDelete \/ DeleteGoesOn
  PROVE  PageTyped'
<1>1. CASE RefreshAfterDelete
  BY <1>1, SamePageTyped DEF RefreshAfterDelete
<1>2. CASE DeleteGoesOn
  <2>1. PICK p \in {"delete", "refreshDeleted", "refreshKept"} : GoesOn(Remover, p)
    BY <1>2 DEF DeleteGoesOn
  <2>2. about[Remover] \in DocIds /\ UNCHANGED <<waiting, shown>>
    BY <1>2 DEF DeleteGoesOn, On, PageTyped, AboutPages
  <2>3. page'[Waiter] \in {"waitDetail", "waitRead", "waitText"} /\ Waiter \in Listeners
          => page[Waiter] = page'[Waiter]
    BY <2>1 DEF GoesOn, PageTyped
  <2> QED
    BY <2>1, <2>2, <2>3, GoesOnTyped
       DEF PageTyped, waiting, Pages, WaitPages, RefreshPages, AboutPages
<1> QED
  BY <1>1, <1>2

LEMMA CrashIsTyped == PageTyped /\ ServerCrash => PageTyped'
<1> SUFFICES ASSUME PageTyped, ServerCrash PROVE PageTyped'
  OBVIOUS
<1> USE DEF ServerCrash, PageTyped, waiting
<1>1. \A l \in Listeners : /\ page'[l] \in {"idle", "refreshKept", page[l]}
                           /\ about'[l] = IF page[l] = "upload" THEN NoDoc ELSE about[l]
                           /\ page'[l] # "idle" => page[l] # "upload"
  OBVIOUS
<1>2. page' \in [Listeners -> Pages]
  BY DEF Pages, RefreshPages
<1>3. about' \in [Listeners -> DocIds \cup {NoDoc}]
  OBVIOUS
<1>4. shown' \in [Listeners -> Outputs]
  <2>1. \A l \in Listeners : Message(l, "error") \in Outputs
    BY MessageIsOutput DEF Kinds
  <2> QED
    BY <2>1
<1>5. \A l \in Listeners : page'[l] \in AboutPages => about'[l] \in DocIds
  <2>1. ASSUME NEW l \in Listeners, page'[l] \in AboutPages
        PROVE  page'[l] = page[l] /\ about'[l] = about[l]
    BY <1>1, <2>1 DEF AboutPages, WaitPages
  <2> QED
    BY <2>1
<1>6. Waiter \in Listeners /\ page'[Waiter] \in {"waitDetail", "waitRead", "waitText"}
        => polls' < MaxPolls
  BY <1>1
<1> QED
  BY <1>2, <1>3, <1>4, <1>5, <1>6

LEMMA PageStep ==
  ASSUME ReadInv, PageTyped, [ConsoleNext]_consoleVars
  PROVE  PageTyped'
<1>1. ReadTypeOK
  BY DEF ReadInv
<1>2. ASSUME NEW l \in Listeners, StepOf(l) PROVE PageTyped'
  BY <1>1, <1>2, StartIsTyped, EndIsTyped, WaitIsTyped, RemoverIsTyped, Zenon DEF StepOf
<1>3. CASE Elsewhere \/ UNCHANGED consoleVars
  BY <1>3, SamePageTyped, Zenon DEF Elsewhere, consoleVars
<1> QED
  BY <1>2, <1>3, CrashIsTyped, WhoseStep

ClientInv == IngestionInv /\ ReadInv /\ PageInv

LEMMA ClientInvHolds == ConsoleSpec => ReadSpec /\ []ClientInv
<1>1. ConsoleInit => ReadInit /\ ClientInv
  BY IngestionInvInit, ReadInvInit, PageInit DEF ConsoleInit, ReadInit, ClientInv
<1>2. ClientInv /\ [ConsoleNext]_consoleVars => [ReadNext]_readVars /\ ClientInv'
  <2> SUFFICES ASSUME ClientInv, [ConsoleNext]_consoleVars
               PROVE  [ReadNext]_readVars /\ ClientInv'
    OBVIOUS
  <2>1. Results \subseteq Batches
    BY DEF ClientInv, PageInv, PageTyped, Results, Outputs
  <2>2. Waiter \in Listeners /\ page[Waiter] \in WaitPages => about[Waiter] \in DocIds
    BY DEF ClientInv, PageInv, PageTyped, AboutPages
  <2>3. [ReadNext]_readVars
    BY <2>1, <2>2, ConsoleStepIsReadStep DEF ClientInv, PageInv
  <2>4. IngestionInv'
    BY <2>3, ReadersOnlyRead, IngestionInvNext DEF ClientInv
  <2>5. ReadInv'
    BY <2>3, ReadInvStep DEF ClientInv
  <2>6. PageInv'
    BY <2>3, PageStep, LoopAloneStep DEF ClientInv, PageInv
  <2> QED
    BY <2>3, <2>4, <2>5, <2>6 DEF ClientInv
<1> QED
  BY <1>1, <1>2, PTL DEF ConsoleSpec, ReadSpec

\* The console is one more client: whatever is proved of the read side, and of
\* ingestion with it, holds with a console, whichever of its calls overlap.
THEOREM ConsoleKeepsReadSide == ConsoleSpec => ReadSpec
BY ClientInvHolds, PTL

\* The page and its replies are well typed, and a wait polls MaxPolls times at most.
THEOREM ConsoleTypeCorrect == ConsoleSpec => []ConsoleTypeOK
<1>1. ClientInv => ConsoleTypeOK
  BY DEF ClientInv, ReadInv, PageInv, PageTyped, ConsoleTypeOK
<1> QED
  BY <1>1, ClientInvHolds, PTL

-----------------------------------------------------------------------------
(* Calls of the page share nothing but the server.                         *)

\* The call of l is where it was.
Still(l) == /\ page'[l] = page[l] /\ about'[l] = about[l]
            /\ shown'[l] = shown[l] /\ known'[l] = known[l]

\* A step of a call starts it, ends it, takes it to its next request, or is
\* a request or a time-out that the page does not show.
LEMMA HowCallsMove ==
  ASSUME NEW l \in Listeners, StepOf(l)
  PROVE  \/ \E p, d : Starts(l, p, d)
         \/ \E o : Returns(l, o)
         \/ /\ \E p : GoesOn(l, p)
            /\ UNCHANGED shown \/ \E o : shown' = [shown EXCEPT ![l] = o]
            /\ l # Waiter => UNCHANGED waiting
         \/ UNCHANGED pageVars
<1>1. CASE StartOf(l)
  BY <1>1, Zenon DEF StartOf, Upload, Poll, Wait, Delete, Refresh, RunSearch, ShowChunk, Waiter,
     Remover
<1>2. CASE EndOf(l)
  BY <1>2, Zenon DEF EndOf, UploadEnds, PollEnds, RefreshEnds, SearchEnds, ShowChunkEnds
<1>3. CASE l = Waiter /\ WaitStep
  BY <1>3, Zenon DEF WaitStep, WaitTimesOut, WaitAsks, WaitTests, WaitReads, WaitDecides, WaitGoesOn
<1>4. CASE l = Remover /\ (RefreshAfterDelete \/ DeleteGoesOn)
  <2>1. DeleteGoesOn => (\E p : GoesOn(Remover, p)) /\ UNCHANGED shown /\ UNCHANGED waiting
    BY Zenon DEF DeleteGoesOn
  <2> QED
    BY <1>4, <2>1, Zenon DEF RefreshAfterDelete
<1>5. CASE RequestTimesOut(l)
  BY <1>5, Zenon DEF RequestTimesOut
<1> QED
  BY <1>1, <1>2, <1>3, <1>4, <1>5, Zenon DEF StepOf

\* It changes no other call ...
LEMMA OthersStill ==
  ASSUME PageTyped, NEW m \in Listeners, StepOf(m), NEW l \in Listeners, l # m
  PROVE  Still(l) /\ (l = Waiter => UNCHANGED waiting)
<1> USE DEF PageTyped, Still
<1>1. ASSUME NEW p, NEW d, Starts(m, p, d) PROVE Still(l) /\ UNCHANGED waiting
  BY <1>1 DEF Starts
<1>2. ASSUME NEW o, Returns(m, o) PROVE Still(l) /\ (l = Waiter => UNCHANGED waiting)
  BY <1>2 DEF Returns, Waiter
<1>3. ASSUME NEW p, GoesOn(m, p), m # Waiter => UNCHANGED waiting,
             UNCHANGED shown \/ \E o : shown' = [shown EXCEPT ![m] = o]
      PROVE  Still(l) /\ (l = Waiter => UNCHANGED waiting)
  BY <1>3 DEF GoesOn
<1>4. CASE UNCHANGED pageVars
  BY <1>4 DEF pageVars
<1> QED
  BY <1>1, <1>2, <1>3, <1>4, HowCallsMove

\* ... and no other read, and a DELETE only if it is delete_doc's.
LEMMA OthersUnread ==
  ASSUME IngestionInv, ReadInv, PageTyped, NEW m \in Listeners, StepOf(m)
  PROVE  /\ \A r \in Readers \ {m} : read'[r] = read[r]
         /\ m # Remover => UNCHANGED <<delPc, delDoc>>
<1>1. m \in Readers /\ read \in [Readers -> Reads]
  BY ListenersRead DEF ReadInv, ReadTypeOK
<1>2. ASSUME Request(m) \/ GivesUp(m) \/ TakeReply(m)
      PROVE  (\A r \in Readers \ {m} : read'[r] = read[r]) /\ UNCHANGED <<delPc, delDoc>>
  <2>1. PICK q \in Reads : Serve(m, q)
    BY <1>1, <1>2, RequestSound, ReadSound
  <2> QED
    BY <1>1, <2>1 DEF Serve, vars, deleters
<1>3. CASE StartOf(m)
  <2>1. ASSUME NEW h \in Contents, Upload(h) PROVE UNCHANGED <<read, delPc, delDoc>>
    BY <2>1 DEF Upload, IngestCheck, deleters
  <2>2. ASSUME NEW d \in DocIds, Poll(m, d) PROVE Request(m)
    BY <1>1, <2>2, AskIsRequest DEF Poll
  <2>3. ASSUME NEW d \in DocIds, Wait(d) PROVE UNCHANGED <<read, delPc, delDoc>>
    BY <2>3 DEF Wait, readVars, vars, deleters
  <2>4. ASSUME NEW d \in DocIds, Delete(d) PROVE UNCHANGED read
    BY <2>4, Zenon DEF Delete, readVars
  <2>5. CASE (m = "refresh_documents" /\ Refresh) \/ (m = "run_search" /\ RunSearch)
    BY <1>1, <1>2, <2>5, AskIsRequest DEF Refresh, RunSearch
  <2>6. ASSUME m = "show_chunk", NEW b \in Results, ShowChunk(b) PROVE Request(m)
    <3>1. b \in Batches
      BY DEF PageTyped, Results, Outputs
    <3> QED
      BY <1>1, <2>6, <3>1, AskIsRequest DEF ShowChunk
  <2> QED
    BY <1>2, <1>3, <2>1, <2>2, <2>3, <2>4, <2>5, <2>6, Zenon DEF StartOf
<1>4. CASE EndOf(m)
  <2>1. CASE UploadEnds
    BY <2>1 DEF UploadEnds, IngestSave, IngestSaveFails, deleters
  <2> QED
    BY <1>2, <1>4, <2>1, Zenon DEF EndOf, PollEnds, RefreshEnds, SearchEnds, ShowChunkEnds, Answered
<1>5. CASE m = Waiter /\ WaitStep
  <2>1. CASE WaitTests \/ WaitDecides
    BY <1>2, <1>5, <2>1, Zenon DEF WaitTests, WaitDecides, Answered
  <2>2. CASE WaitTimesOut
    BY <2>2 DEF WaitTimesOut, readVars, vars, deleters
  <2>3. CASE WaitAsks \/ WaitReads
    <3>1. about[m] \in DocIds
      BY <1>5, <2>3 DEF WaitAsks, WaitReads, On, PageTyped, AboutPages, WaitPages
    <3> QED
      BY <1>1, <1>2, <1>5, <2>3, <3>1, AskIsRequest DEF WaitAsks, WaitReads
  <2> QED
    BY <1>5, <2>1, <2>2, <2>3 DEF WaitStep
<1>6. CASE m = Remover /\ RefreshAfterDelete
  BY <1>1, <1>2, <1>6, AskIsRequest DEF RefreshAfterDelete
<1>7. CASE m = Remover /\ DeleteGoesOn
  BY <1>7, Zenon DEF DeleteGoesOn
<1>8. CASE RequestTimesOut(m)
  <2>1. CASE UNCHANGED readVars
    BY <2>1 DEF readVars, vars, deleters
  <2>2. CASE GivesUp(m)
    BY <1>2, <2>2
  <2>3. CASE On(m, "delete") /\ UNCHANGED readVars
    BY <2>1, <2>3
  <2> QED
    BY <1>8, <2>1, <2>2, <2>3, Zenon DEF RequestTimesOut
<1> QED
  BY <1>3, <1>4, <1>5, <1>6, <1>7, <1>8, Zenon DEF StepOf

\* Of all steps, those of its own reads change what a reader has seen.
LEMMA SeenStep ==
  ASSUME IngestionInv, ReadInv, [ReadNext]_readVars, NEW r \in Readers
  PROVE  \A d \in DocIds : read'[r].seen[d] \in {Absent, read[r].seen[d], status[d]}
<1>1. CASE WriteStep \/ UNCHANGED readVars
  BY <1>1 DEF WriteStep, readVars
<1>2. CASE ReadCrash
  <2>1. \A d \in DocIds : Refused("lost").seen[d] = Absent
    BY RefusedSound DEF Replies
  <2>2. read'[r] \in {read[r], Refused("lost")}
    BY <1>2 DEF ReadCrash
  <2> QED
    BY <2>1, <2>2
<1>3. ASSUME NEW s \in Readers,
             Request(s) \/ ReadStep(s) \/ ReadFails(s) \/ GivesUp(s) \/ TakeReply(s)
      PROVE  \A d \in DocIds : read'[r].seen[d] \in {Absent, read[r].seen[d], status[d]}
  <2>1. PICK q \in Reads : Witnessed(q, s) /\ Serve(s, q)
    BY <1>3, RequestSound, ReadSound
  <2>2. read'[r] = IF s = r THEN q ELSE read[r]
    BY <2>1 DEF Serve, ReadInv, ReadTypeOK
  <2> QED
    BY <2>1, <2>2 DEF Witnessed
<1> QED
  BY <1>1, <1>2, <1>3, Zenon DEF ReadNext

\* Without a request of its own, a listener that reads nothing goes on so.
LEMMA UnreadStays ==
  ASSUME IngestionInv, ReadInv, NEW l \in Listeners, ~Reading(l),
         Elsewhere \/ ServerCrash \/ UNCHANGED consoleVars
  PROVE  read'[l] = read[l]
<1>1. l \in Readers
  BY ListenersRead
<1>2. CASE WriteStep \/ UNCHANGED consoleVars
  BY <1>2 DEF WriteStep, consoleVars, readVars
<1>3. CASE ServerCrash
  BY <1>1, <1>3 DEF ServerCrash, ReadCrash
<1>4. ASSUME NEW r \in Readers \ {l},
             Request(r) \/ ReadStep(r) \/ ReadFails(r) \/ GivesUp(r) \/ TakeReply(r)
      PROVE  read'[l] = read[l]
  <2>1. PICK q \in Reads : Serve(r, q)
    BY <1>4, RequestSound, ReadSound
  <2> QED
    BY <1>1, <2>1 DEF Serve, ReadInv, ReadTypeOK
<1>5. ~ReadStep(l) /\ ~ReadFails(l)
  BY DEF ReadStep, ReadFails, ReadRows, CountChunks, FetchContext, FetchOwner, Reading, ReadPoints
<1>6. CASE Elsewhere
  <2>1. WriteStep \/ \E r \in Readers \ {l} :
          Request(r) \/ ReadStep(r) \/ ReadFails(r) \/ GivesUp(r) \/ TakeReply(r)
    BY <1>5, <1>6, Zenon DEF Elsewhere
  <2> QED
    BY <1>2, <1>4, <2>1
<1> QED
  BY <1>2, <1>3, <1>6

-----------------------------------------------------------------------------
(* Deletion.                                                               *)

\* Pages whose call is not waiting for a reply to a read.
UnaskedPages == {"idle", "upload", "delete", "waitTest", "waitRead"}
Unasked == \A l \in Listeners : page[l] \in UnaskedPages => read[l] = NoRead

\* What becomes of a call's page when the server goes down, or works on.
LEMMA PageElsewhere ==
  ASSUME PageTyped, NEW l \in Listeners, Elsewhere \/ ServerCrash \/ UNCHANGED consoleVars
  PROVE  /\ known'[l] = known[l]
         /\ \/ page'[l] = page[l] /\ about'[l] = about[l] /\ shown'[l] = shown[l]
            \/ /\ page[l] = "upload" /\ page'[l] = "idle"
               /\ shown'[l] = Message(l, "error")
            \/ page[l] = "delete" /\ page'[l] = "refreshKept" /\ shown'[l] = shown[l]
<1>1. CASE ServerCrash
  BY <1>1 DEF ServerCrash, PageTyped
<1>2. CASE Elsewhere \/ UNCHANGED consoleVars
  BY <1>2, Zenon DEF Elsewhere, consoleVars, pageVars
<1> QED
  BY <1>1, <1>2

LEMMA UnaskedStep ==
  ASSUME IngestionInv, ReadInv, PageTyped, Unasked, [ConsoleNext]_consoleVars
  PROVE  Unasked'
<1> SUFFICES ASSUME NEW l \in Listeners, page'[l] \in UnaskedPages PROVE read'[l] = NoRead
  BY DEF Unasked, UnaskedPages
<1> USE DEF UnaskedPages, PageTyped, On
<1>1. l \in Readers /\ read \in [Readers -> Reads] /\ NoRead.at = "idle"
  BY ListenersRead, NoReadIsRead DEF ReadInv, ReadTypeOK
<1>2. ASSUME page[l] \in UnaskedPages, UNCHANGED read PROVE read'[l] = NoRead
  BY <1>2 DEF Unasked
<1>3. ASSUME Answered(l) PROVE read'[l] = NoRead
  BY <1>1, <1>3 DEF Answered, TakeReply, Serve
<1>4. CASE StartOf(l)
  <2>1. ASSUME NEW p, NEW d, Starts(l, p, d), p \notin UnaskedPages PROVE FALSE
    BY <2>1 DEF Starts
  <2>2. ASSUME NEW p, NEW d, Starts(l, p, d), UNCHANGED read PROVE read'[l] = NoRead
    BY <1>2, <2>2 DEF Starts
  <2>3. ASSUME l = "upload_file", NEW h \in Contents, Upload(h) PROVE read'[l] = NoRead
    BY <2>2, <2>3 DEF Upload
  <2>4. ASSUME l = Waiter, NEW d \in DocIds, Wait(d) PROVE read'[l] = NoRead
    BY <2>2, <2>4 DEF Wait, readVars
  <2>5. ASSUME l = Remover, NEW d \in DocIds, Delete(d) PROVE read'[l] = NoRead
    BY <2>2, <2>5 DEF Delete, readVars
  <2>6. ASSUME NEW d \in DocIds, Poll(l, d) PROVE FALSE
    BY <2>1, <2>6 DEF Poll
  <2>7. ~(l = "refresh_documents" /\ Refresh) /\ ~(l = "run_search" /\ RunSearch)
    BY <2>1 DEF Refresh, RunSearch
  <2>8. ASSUME l = "show_chunk", NEW b \in Results, ShowChunk(b) PROVE FALSE
    BY <2>1, <2>8 DEF ShowChunk
  <2> QED
    BY <1>4, <2>3, <2>4, <2>5, <2>6, <2>7, <2>8, Zenon DEF StartOf
<1>5. CASE EndOf(l)
  <2>1. CASE l = "upload_file" /\ UploadEnds
    BY <1>2, <2>1 DEF UploadEnds
  <2> QED
    BY <1>3, <1>5, <2>1, Zenon DEF EndOf, PollEnds, RefreshEnds, SearchEnds, ShowChunkEnds
<1>6. CASE l = Waiter /\ WaitStep
  <2>1. CASE WaitTests \/ WaitDecides
    BY <1>3, <1>6, <2>1, Zenon DEF WaitTests, WaitDecides
  <2>2. CASE WaitTimesOut
    BY <1>2, <1>6, <2>2 DEF WaitTimesOut, readVars
  <2>3. ~WaitAsks /\ ~WaitReads
    BY <1>6 DEF WaitAsks, WaitReads, GoesOn
  <2> QED
    BY <1>6, <2>1, <2>2, <2>3 DEF WaitStep
<1>7. CASE l = Remover /\ (RefreshAfterDelete \/ DeleteGoesOn)
  <2>1. ~RefreshAfterDelete
    BY <1>7 DEF RefreshAfterDelete, pageVars
  <2> QED
    BY <1>2, <1>7, <2>1, Zenon DEF DeleteGoesOn
<1>8. CASE RequestTimesOut(l)
  <2>1. CASE GivesUp(l) /\ UNCHANGED pageVars
    <3>1. Reading(l) /\ page[l] \in UnaskedPages
      BY <2>1 DEF GivesUp, pageVars
    <3> QED
      BY <1>1, <3>1 DEF Unasked, Reading, ReadPoints
  <2>2. CASE page[l] \in {"upload", "delete"} /\ UNCHANGED readVars
    BY <1>2, <2>2 DEF readVars
  <2> QED
    BY <1>8, <2>1, <2>2 DEF RequestTimesOut
<1>9. ASSUME NEW m \in Listeners, m # l, StepOf(m) PROVE read'[l] = NoRead
  <2>1. page'[l] = page[l] /\ read'[l] = read[l]
    BY <1>1, <1>9, OthersStill, OthersUnread DEF Still
  <2> QED
    BY <2>1 DEF Unasked
<1>10. CASE Elsewhere \/ ServerCrash \/ UNCHANGED consoleVars
  <2>1. page[l] \in UnaskedPages
    BY <1>10, PageElsewhere
  <2>2. read[l] = NoRead /\ ~Reading(l)
    BY <1>1, <2>1 DEF Unasked, Reading, ReadPoints
  <2> QED
    BY <1>10, <2>2, UnreadStays
<1> QED
  BY <1>4, <1>5, <1>6, <1>7, <1>8, <1>9, <1>10, WhoseStep DEF StepOf

\* d was a document and is none: it never comes back.
Gone(d) == d \in DocIds /\ Known(d) /\ status[d] = Absent

\* While a deletion runs, its handler has the document that the call is about.
Deleting == Remover \in Listeners /\ page[Remover] = "delete" =>
              /\ Known(about[Remover])
              /\ delPc[Remover] # "idle" /\ delDoc[Remover] = about[Remover]
Deleted == \A l \in Listeners : page[l] = "refreshDeleted" =>
             Gone(about[l]) /\ read[l].seen[about[l]] = Absent
ToldAreGone == \A d \in told : Gone(d)
\* A call has seen nothing of the documents that were deleted before it started.
KnownUnseen == \A l \in Listeners : \A d \in known[l] : read[l].seen[d] = Absent
KnownChunk == \A l \in Listeners : page[l] = "chunk" /\ about[l] \in known[l] =>
                read[l].at = "answered" /\ read[l].reply # "ok"
\* The last text of a wait is about the document waited for.
WaitsForOne == Waiter \in Listeners /\ page[Waiter] \in WaitPages =>
                 shown[Waiter].doc = about[Waiter] \/ shown[Waiter].status = Absent

DeletionInv == /\ Unasked
               /\ Deleting
               /\ Deleted
               /\ ToldAreGone
               /\ KnownUnseen
               /\ KnownChunk
               /\ WaitsForOne
               /\ DeletedStaysOffThePage

LEMMA DeletingStep ==
  ASSUME ClientInv, Deleting, [ConsoleNext]_consoleVars, [Next]_vars
  PROVE  Deleting'
<1> DEFINE l == Remover
<1> SUFFICES ASSUME l \in Listeners, page'[l] = "delete"
             PROVE  Known(about[l])' /\ delPc'[l] # "idle" /\ delDoc'[l] = about'[l]
  BY DEF Deleting
<1> USE DEF On
<1>1. /\ IngestionInv /\ ReadInv /\ PageTyped /\ l \in Deleters
      /\ delPc \in [Deleters -> {"idle", "points", "row"}]
      /\ delDoc \in [Deleters -> DocIds \cup {NoDoc}]
  BY ListenersRead DEF ClientInv, PageInv, IngestionInv, TypeInv, TypeOK
\* The same call, and its handler where it was or at its next call of a store.
<1>2. ASSUME page[l] = "delete", about'[l] = about[l],
             delPc'[l] # "idle", delDoc'[l] = delDoc[l]
      PROVE  Known(about[l])' /\ delPc'[l] # "idle" /\ delDoc'[l] = about'[l]
  <2>1. \A d \in DocIds : Known(d) => Known(d)'
    BY <1>1, KnownStays
  <2>2. about[l] \in DocIds
    BY <1>1, <1>2 DEF PageTyped, AboutPages
  <2> QED
    BY <1>2, <2>1, <2>2 DEF Deleting, Known
<1>3. CASE \E d \in DocIds : Delete(d)
  <2>1. PICK d \in DocIds : Starts(l, "delete", d) /\ DeleteLoad(l, d)
    BY <1>1, <1>3 DEF Delete, Starts, PageTyped
  <2>2. Known(d)' /\ about'[l] = d
    BY <1>1, <2>1, SeenNow, KnownStays DEF Starts, DeleteLoad, PageTyped
  <2>3. delPc'[l] # "idle" /\ delDoc'[l] = d
    BY <1>1, <2>1 DEF DeleteLoad
  <2> QED
    BY <2>2, <2>3 DEF Known
<1>4. CASE DeleteGoesOn
  <2>1. DeletePoints(l) /\ page[l] = "delete" /\ about'[l] = about[l] /\ delPc'[l] # "idle"
    BY <1>1, <1>4 DEF DeleteGoesOn, GoesOn, PageTyped
  <2>2. delDoc'[l] = delDoc[l]
    BY <1>1, <2>1 DEF DeletePoints, DelGoto
  <2> QED
    BY <1>2, <2>1, <2>2
<1>5. ~(l = Remover /\ RefreshAfterDelete) /\ ~EndOf(l) /\ ~(l = Waiter /\ WaitStep)
  <2>1. \A o : ~Returns(l, o)
    BY <1>1 DEF Returns, PageTyped
  <2>2. ~RefreshAfterDelete
    BY <1>1 DEF RefreshAfterDelete, pageVars
  <2>3. l # Waiter /\ l # "upload_file"
    BY DEF Waiter, Remover
  <2> QED
    BY <2>1, <2>2, <2>3, Zenon DEF EndOf, PollEnds, RefreshEnds, SearchEnds, ShowChunkEnds
<1>6. CASE RequestTimesOut(l)
  <2>1. GivesUp(l) /\ page[l] = "delete" /\ about'[l] = about[l]
    BY <1>1, <1>6 DEF RequestTimesOut, Returns, GoesOn, PageTyped, pageVars
  <2> QED
    BY <1>2, <2>1 DEF GivesUp, Serve, vars, deleters, Deleting
<1>7. StartOf(l) => \E d \in DocIds : Delete(d)
  BY Zenon DEF StartOf, Remover, Waiter
<1>8. ASSUME NEW m \in Listeners, m # l, StepOf(m)
      PROVE  Known(about[l])' /\ delPc'[l] # "idle" /\ delDoc'[l] = about'[l]
  <2>1. Still(l) /\ UNCHANGED <<delPc, delDoc>>
    BY <1>1, <1>8, OthersStill, OthersUnread
  <2> QED
    BY <1>2, <2>1 DEF Still, Deleting
<1>9. CASE Elsewhere
  <2>1. page[l] = "delete" /\ about'[l] = about[l] /\ delPc'[l] = delPc[l]
    BY <1>9 DEF Elsewhere, pageVars
  <2>2. delDoc'[l] = delDoc[l]
    <3>1. CASE DeleteNext
      <4>1. PICK x \in Deleters : \/ \E d \in DocIds : DeleteLoad(x, d)
                                 \/ DeleteStep(x) \/ DeleteFails(x)
        BY <3>1 DEF DeleteNext
      <4>2. delPc'[x] # delPc[x]
        BY <1>1, <4>1 DEF DeleteLoad, DeleteStep, DeletePoints, DeleteRow, DeleteFails, DelGoto
      <4>3. x # l
        BY <2>1, <4>2
      <4> QED
        BY <1>1, <4>1, <4>3 DEF DeleteLoad, DeleteStep, DeletePoints, DeleteRow, DeleteFails,
           DelGoto
    <3>2. CASE WorkerNext
      BY <3>2, Zenon DEF WorkerNext, WorkerStep, WorkerFault, ClaimSelect, ClaimCommit, Load,
         MarkExtracting, SaveExtracted, MarkChunking, MarkEmbedding, MarkIndexed, Update, Upsert,
         SaveRows, FailLoad, MarkFailed, FailJob, FailJobCommit, ClaimFails, Raise, HandlerFails,
         deleters
    <3>3. CASE IngestNext
      BY <3>3, Zenon DEF IngestNext, IngestCheck, IngestSave, IngestSaveFails, deleters
    <3>4. ASSUME NEW r \in Readers,
                 Request(r) \/ ReadStep(r) \/ ReadFails(r) \/ GivesUp(r) \/ TakeReply(r)
          PROVE  delDoc'[l] = delDoc[l]
      <4>1. PICK q : Serve(r, q)
        BY <1>1, <3>4, RequestSound, ReadSound
      <4> QED
        BY <4>1 DEF Serve, vars, deleters
    <3> QED
      BY <1>9, <3>1, <3>2, <3>3, <3>4, Zenon DEF Elsewhere, WriteStep
  <2> QED
    BY <1>2, <2>1, <2>2 DEF Deleting
<1>10. CASE UNCHANGED consoleVars
  BY <1>2, <1>10 DEF consoleVars, readVars, pageVars, vars, deleters, Deleting
<1>11. ~ServerCrash
  BY <1>1 DEF ServerCrash, PageTyped
<1> QED
  BY <1>3, <1>4, <1>5, <1>6, <1>7, <1>8, <1>9, <1>10, <1>11, WhoseStep, Zenon DEF StepOf

\* What is gone stays gone, and what a reader has not seen of it stays unseen.
LEMMA GoneStays ==
  ASSUME ClientInv, [ReadNext]_readVars, NEW d, Gone(d)
  PROVE  /\ Gone(d)'
         /\ \A r \in Readers : read[r].seen[d] = Absent => read'[r].seen[d] = Absent
<1>1. [Next]_vars /\ IngestionInv /\ ReadInv /\ d \in DocIds
  BY ReadersOnlyRead DEF ClientInv, Gone
<1>2. Gone(d)'
  BY <1>1, KnownStays, StepsDoNotResurrect DEF Gone, Known
<1>3. ASSUME NEW r \in Readers, read[r].seen[d] = Absent PROVE read'[r].seen[d] = Absent
  BY <1>1, <1>3, SeenStep DEF Gone
<1> QED
  BY <1>2, <1>3

\* Where the call of l is after a step: where the step took it, or where it was.
LEMMA HowPageMoves ==
  ASSUME PageTyped, [ConsoleNext]_consoleVars, NEW l \in Listeners
  PROVE  \/ StartOf(l) /\ page[l] = "idle" /\ known'[l] = told /\ told' = told
                       /\ shown'[l] = Blank
         \/ /\ known'[l] = known[l]
            /\ \/ page'[l] = "idle" /\ StepOf(l)
               \/ l = Waiter /\ WaitStep
               \/ l = Remover /\ DeleteGoesOn
               \/ page[l] = "delete" /\ page'[l] = "refreshKept" /\ shown'[l] = shown[l]
               \/ page[l] = "upload" /\ page'[l] = "idle" /\ shown'[l] = Message(l, "error")
               \/ page'[l] = page[l] /\ about'[l] = about[l] /\ shown'[l] = shown[l]
<1> USE DEF PageTyped
<1>1. ASSUME NEW o, Returns(l, o) PROVE page'[l] = "idle" /\ known'[l] = known[l]
  BY <1>1 DEF Returns
<1>2. CASE StartOf(l)
  <2>1. ASSUME NEW p, NEW d, Starts(l, p, d)
        PROVE  page[l] = "idle" /\ known'[l] = told /\ told' = told /\ shown'[l] = Blank
    BY <2>1 DEF Starts, On
  <2>2. \E p, d : Starts(l, p, d)
    BY <1>2, Zenon DEF StartOf, Upload, Poll, Wait, Delete, Refresh, RunSearch, ShowChunk, Waiter,
       Remover
  <2> QED
    BY <1>2, <2>1, <2>2
<1>3. CASE EndOf(l)
  <2>1. \E o : Returns(l, o)
    BY <1>3, Zenon DEF EndOf, UploadEnds, PollEnds, RefreshEnds, SearchEnds, ShowChunkEnds
  <2> QED
    BY <1>1, <1>3, <2>1 DEF StepOf
<1>4. CASE l = Waiter /\ WaitStep
  <2>1. known'[l] = known[l]
    BY <1>4 DEF WaitStep, WaitTimesOut, WaitAsks, WaitTests, WaitReads, WaitDecides, WaitGoesOn,
       GoesOn, Returns
  <2> QED
    BY <1>4, <2>1
<1>5. CASE l = Remover /\ (RefreshAfterDelete \/ DeleteGoesOn)
  <2>1. DeleteGoesOn => known'[l] = known[l]
    BY DEF DeleteGoesOn, GoesOn
  <2> QED
    BY <1>5, <2>1 DEF RefreshAfterDelete, pageVars
<1>6. CASE RequestTimesOut(l)
  <2>1. CASE GivesUp(l) /\ UNCHANGED pageVars
    BY <2>1 DEF pageVars
  <2>2. CASE Returns(l, Message(l, "error"))
    BY <1>1, <1>6, <2>2 DEF StepOf
  <2>3. CASE On(l, "delete") /\ GoesOn(l, "refreshKept") /\ UNCHANGED shown
    BY <2>3 DEF On, GoesOn
  <2> QED
    BY <1>6, <2>1, <2>2, <2>3 DEF RequestTimesOut
<1>7. ASSUME NEW m \in Listeners, m # l, StepOf(m)
      PROVE  /\ known'[l] = known[l] /\ page'[l] = page[l] /\ about'[l] = about[l]
             /\ shown'[l] = shown[l]
  BY <1>7, OthersStill DEF Still
<1>8. CASE Elsewhere \/ ServerCrash \/ UNCHANGED consoleVars
  BY <1>8, PageElsewhere
<1> QED
  BY <1>2, <1>3, <1>4, <1>5, <1>6, <1>7, <1>8, WhoseStep DEF StepOf

\* The table after a deletion is asked for when the row is gone, and is still
\* asked for about the same document.
LEMMA DeletedStep ==
  ASSUME ClientInv, Unasked, Deleting, Deleted, [ConsoleNext]_consoleVars, [ReadNext]_readVars
  PROVE  Deleted'
<1> SUFFICES ASSUME NEW l \in Listeners, page'[l] = "refreshDeleted"
             PROVE  Gone(about[l])' /\ read'[l].seen[about'[l]] = Absent
  BY DEF Deleted, Gone
<1>1. PageTyped /\ l \in Readers /\ [Next]_vars /\ IngestionInv
  BY ListenersRead, ReadersOnlyRead DEF ClientInv, PageInv
<1>2. CASE page'[l] = page[l] /\ about'[l] = about[l]
  <2>1. Gone(about[l]) /\ read[l].seen[about[l]] = Absent
    BY <1>2 DEF Deleted
  <2>2. Gone(about[l])' /\ read'[l].seen[about[l]] = Absent
    <3>1. ASSUME NEW d, d = about[l] PROVE Gone(d)' /\ read'[l].seen[d] = Absent
      BY <1>1, <2>1, <3>1, GoneStays
    <3> QED
      BY <1>2, <3>1 DEF Gone, Known
  <2> QED
    BY <1>2, <2>2
<1>3. CASE l = Remover /\ DeleteGoesOn
  <2>1. DeleteRow(l) /\ page[l] = "delete" /\ about'[l] = about[l] /\ read' = read
    BY <1>1, <1>3 DEF DeleteGoesOn, GoesOn, On, PageTyped
  <2>2. about[l] \in DocIds /\ Known(about[l]) /\ delDoc[l] = about[l]
    BY <1>1, <1>3, <2>1 DEF Deleting, PageTyped, AboutPages
  <2>3. Known(about[l])'
    <3>1. \A d \in DocIds : Known(d) => Known(d)'
      BY <1>1, KnownStays
    <3> QED
      BY <2>1, <2>2, <3>1 DEF Known
  <2>4. status'[about'[l]] = Absent
    BY <2>1, <2>2 DEF DeleteRow, ClientInv, IngestionInv, TypeInv, TypeOK
  <2>5. read'[l].seen[about'[l]] = Absent
    BY <2>1, <2>2, NoReadIsRead DEF Unasked, UnaskedPages
  <2> QED
    BY <2>1, <2>2, <2>3, <2>4, <2>5 DEF Gone
<1>4. ~(l = Waiter /\ WaitStep)
  BY <1>1 DEF WaitStep, WaitTimesOut, WaitAsks, WaitTests, WaitReads, WaitDecides, WaitGoesOn,
     GoesOn, Returns, PageTyped
<1>5. ~StartOf(l)
  <2>1. ASSUME NEW p, NEW d, Starts(l, p, d), p # "refreshDeleted" PROVE FALSE
    BY <1>1, <2>1 DEF Starts, PageTyped
  <2> QED
    BY <2>1, Zenon DEF StartOf, Upload, Poll, Wait, Delete, Refresh, RunSearch, ShowChunk, Waiter,
       Remover
<1> QED
  BY <1>1, <1>2, <1>3, <1>4, <1>5, HowPageMoves

LEMMA ToldAreGoneStep ==
  ASSUME ClientInv, Deleted, ToldAreGone, [ConsoleNext]_consoleVars, [ReadNext]_readVars
  PROVE  ToldAreGone'
<1>1. ASSUME NEW l \in Listeners, RefreshEnds(l)
      PROVE  \A d \in told' : Gone(d)
  BY <1>1 DEF RefreshEnds, ToldAreGone, Deleted
<1>2. ASSUME NEW l \in Listeners, StepOf(l), ~RefreshEnds(l) PROVE told' = told
  <2>1. CASE StartOf(l)
    BY <2>1, Zenon DEF StartOf, Upload, Poll, Wait, Delete, Refresh, RunSearch, ShowChunk, Starts
  <2>2. CASE EndOf(l)
    BY <1>2, <2>2, Zenon DEF EndOf, UploadEnds, PollEnds, SearchEnds, ShowChunkEnds
  <2>3. CASE WaitStep
    BY <2>3, Zenon DEF WaitStep, WaitTimesOut, WaitAsks, WaitTests, WaitReads, WaitDecides,
       WaitGoesOn, GoesOn
  <2>4. CASE RefreshAfterDelete \/ DeleteGoesOn \/ RequestTimesOut(l)
    BY <2>4 DEF RefreshAfterDelete, DeleteGoesOn, RequestTimesOut, GoesOn, pageVars
  <2> QED
    BY <1>2, <2>1, <2>2, <2>3, <2>4, Zenon DEF StepOf
<1>3. Elsewhere \/ ServerCrash \/ UNCHANGED consoleVars => told' = told
  BY DEF Elsewhere, ServerCrash, consoleVars, pageVars
<1>4. \A d \in told' : Gone(d)
  BY <1>1, <1>2, <1>3, WhoseStep DEF ToldAreGone
<1>5. ASSUME NEW d \in told' PROVE d \in DocIds /\ Known(d)' /\ status'[d] = Absent
  BY <1>4, GoneStays DEF Gone
<1> QED
  BY <1>5 DEF ToldAreGone, Gone

LEMMA KnownUnseenStep ==
  ASSUME ClientInv, Unasked, ToldAreGone, KnownUnseen, [ConsoleNext]_consoleVars,
         [ReadNext]_readVars
  PROVE  KnownUnseen'
<1> SUFFICES ASSUME NEW l \in Listeners, NEW d \in known'[l] PROVE read'[l].seen[d] = Absent
  BY DEF KnownUnseen
<1>1. PageTyped /\ l \in Readers
  BY ListenersRead DEF ClientInv, PageInv
<1>2. d \in told /\ (page[l] = "idle" \/ d \in known[l])
  BY <1>1, HowPageMoves DEF PageTyped
<1>3. Gone(d) /\ d \in DocIds
  BY <1>2 DEF ToldAreGone, Gone
<1>4. read[l].seen[d] = Absent
  BY <1>2, <1>3, NoReadIsRead DEF KnownUnseen, Unasked, UnaskedPages
<1> QED
  BY <1>1, <1>3, <1>4, GoneStays

LEMMA RefusedReply ==
  ASSUME NEW reply \in Replies
  PROVE  Refused(reply).at = "answered" /\ Refused(reply).reply = reply
<1>1. \A p \in Reads : LET a == [p EXCEPT !.at = "answered", !.reply = reply]
                       IN  a.at = "answered" /\ a.reply = reply
  BY DEF Reads
<1> QED
  BY <1>1, NoReadIsRead DEF Refused

\* A chunk of a deleted document is not found.
LEMMA KnownChunkStep ==
  ASSUME ClientInv, ToldAreGone, KnownChunk, [ConsoleNext]_consoleVars
  PROVE  KnownChunk'
<1> SUFFICES ASSUME NEW l \in Listeners, page'[l] = "chunk", about'[l] \in known'[l]
             PROVE  read'[l].at = "answered" /\ read'[l].reply # "ok"
  BY DEF KnownChunk
<1>1. /\ PageTyped /\ IngestionInv /\ ReadInv /\ l \in RestReaders /\ l \in Readers
      /\ read \in [Readers -> Reads]
  BY ListenersRead DEF ClientInv, PageInv, ReadInv, ReadTypeOK
<1>2. ASSUME NEW b \in Results, ShowChunk(b), l = "show_chunk"
      PROVE  read'[l].at = "answered" /\ read'[l].reply # "ok"
  <2>1. Starts(l, "chunk", b[1]) /\ (FetchChunk(l, b) \/ Raises(l))
    BY <1>2 DEF ShowChunk
  <2>2. b[1] \in told
    BY <1>1, <2>1 DEF Starts, PageTyped
  <2>3. b \notin rows
    <3>1. b \in Batches /\ Gone(b[1])
      BY <1>1, <2>2 DEF ToldAreGone, PageTyped, Results, Outputs
    <3> QED
      BY <1>1, <3>1 DEF IngestionInv, OneTransaction, Gone, Batches
  <2>4. PICK reply \in {"notFound", "serverError"} : Serve(l, Refused(reply))
    BY <1>1, <2>1, <2>3, ReadersAssumption DEF FetchChunk, Raises, Missing
  <2> QED
    BY <1>1, <2>4, RefusedReply DEF Serve, Replies
<1>3. StartOf(l) => l = "show_chunk" /\ \E b \in Results : ShowChunk(b)
  <2>1. ASSUME NEW p, NEW d, Starts(l, p, d), p # "chunk" PROVE FALSE
    BY <1>1, <2>1 DEF Starts, PageTyped
  <2> QED
    BY <2>1, Zenon DEF StartOf, Upload, Poll, Wait, Delete, Refresh, RunSearch, Waiter, Remover
<1>4. ~(l = Waiter /\ WaitStep) /\ ~(l = Remover /\ DeleteGoesOn)
  BY <1>1 DEF WaitStep, WaitTimesOut, WaitAsks, WaitTests, WaitReads, WaitDecides, WaitGoesOn,
     DeleteGoesOn, GoesOn, Returns, PageTyped
<1>5. CASE ~StartOf(l)
  <2>1. page[l] = "chunk" /\ about[l] \in known[l]
    BY <1>1, <1>4, <1>5, HowPageMoves
  <2>2. read[l].at = "answered" /\ read[l].reply # "ok" /\ ~Reading(l)
    BY <2>1 DEF KnownChunk, Reading, ReadPoints
  <2>3. read'[l] = read[l]
    <3>1. ASSUME NEW m \in Listeners, m # l, StepOf(m) PROVE read'[l] = read[l]
      BY <1>1, <3>1, OthersUnread
    <3>2. CASE StepOf(l)
      <4>1. ~EndOf(l)
        <5>1. \A o : ~Returns(l, o)
          BY <1>1 DEF Returns, PageTyped
        <5> QED
          BY <5>1, Zenon DEF EndOf, UploadEnds, PollEnds, RefreshEnds, SearchEnds, ShowChunkEnds
      <4>2. ~(l = Remover /\ RefreshAfterDelete)
        BY <2>1 DEF RefreshAfterDelete, On
      <4>3. ~RequestTimesOut(l)
        BY <2>1, <2>2 DEF RequestTimesOut, GivesUp, On
      <4> QED
        BY <1>4, <1>5, <3>2, <4>1, <4>2, <4>3 DEF StepOf
    <3> QED
      BY <1>1, <2>2, <3>1, <3>2, UnreadStays, WhoseStep
  <2> QED
    BY <2>2, <2>3
<1> QED
  BY <1>2, <1>3, <1>5

\* The page shows nothing new of a document that was deleted before the call started.
LEMMA ShownStep ==
  ASSUME ClientInv, Deleted, ToldAreGone, KnownUnseen, KnownChunk, WaitsForOne,
         DeletedStaysOffThePage, [ConsoleNext]_consoleVars
  PROVE  DeletedStaysOffThePage'
<1> SUFFICES ASSUME NEW l \in Listeners
             PROVE  /\ shown'[l].kind = "deleted" => shown'[l].table[shown'[l].doc] = Absent
                    /\ \A d \in known'[l] :
                         /\ shown'[l].table[d] = Absent
                         /\ shown'[l].doc = d => shown'[l].status = Absent /\ shown'[l].kind # "chunk"
  BY DEF DeletedStaysOffThePage
<1> DEFINE OffThePage == /\ shown'[l].kind = "deleted" => shown'[l].table[shown'[l].doc] = Absent
                         /\ \A d \in known'[l] :
                              /\ shown'[l].table[d] = Absent
                              /\ shown'[l].doc = d
                                   => shown'[l].status = Absent /\ shown'[l].kind # "chunk"
<1> SUFFICES OffThePage
  OBVIOUS
<1>1. /\ ReadTypeOK /\ PageTyped /\ shown[l] \in Outputs /\ about[l] \in DocIds \cup {NoDoc}
      /\ known[l] \subseteq DocIds /\ told \subseteq DocIds
  BY DEF ClientInv, ReadInv, PageInv, PageTyped
<1>2. \A kind \in Kinds : /\ Message(l, kind) \in Outputs /\ Message(l, kind).kind = kind
                          /\ Message(l, kind).doc = about[l] /\ Message(l, kind).status = Absent
                          /\ \A d \in DocIds : Message(l, kind).table[d] = Absent
  BY <1>1, MessageIsOutput
\* It shows what it showed.
<1>3. ASSUME known'[l] = known[l], shown'[l] = shown[l] PROVE OffThePage
  BY <1>3 DEF DeletedStaysOffThePage
\* It shows a message.
<1>4. ASSUME known'[l] = known[l], NEW kind \in Kinds \ {"deleted", "chunk"},
             shown'[l] = Message(l, kind)
      PROVE  OffThePage
  BY <1>1, <1>2, <1>4 DEF DeletedStaysOffThePage
\* It shows what was read of the document it is about.
<1>5. ASSUME known'[l] = known[l], about[l] \in DocIds, NEW kind \in {"detail", "wait"},
             shown'[l] = Detail(l, kind)
      PROVE  OffThePage
  <2>1. /\ shown'[l].doc = about[l] /\ shown'[l].status \in {Absent, read[l].seen[about[l]]}
        /\ shown'[l].kind \in {kind, "error"}
        /\ \A d \in DocIds : shown'[l].table[d] = Absent
    BY <1>1, <1>5, DetailIsOutput DEF Kinds
  <2> QED
    BY <1>1, <1>5, <2>1 DEF KnownUnseen
<1>6. CASE shown'[l] = Blank /\ known'[l] = told
  BY <1>1, <1>6, BlankIsOutput
<1>7. ASSUME NEW o, Returns(l, o) PROVE shown'[l] = o /\ known'[l] = known[l]
  BY <1>1, <1>7 DEF Returns, PageTyped
<1>8. CASE EndOf(l)
  <2>1. CASE l = "upload_file" /\ UploadEnds
    <3>1. PICK kind \in {"detail", "error"} : Returns(l, Message(l, kind))
      BY <2>1 DEF UploadEnds
    <3> QED
      BY <1>4, <1>7, <3>1 DEF Kinds
  <2>2. CASE PollEnds(l)
    <3>1. about[l] \in DocIds /\ Returns(l, Detail(l, "detail"))
      BY <1>1, <2>2 DEF PollEnds, On, PageTyped, AboutPages
    <3> QED
      BY <1>5, <1>7, <3>1
  <2>3. CASE RefreshEnds(l)
    <3>1. PICK kind \in {"list", "deleted", "error"} :
            /\ Returns(l, [Message(l, kind) EXCEPT !.table = read[l].seen])
            /\ kind = "deleted" => page[l] = "refreshDeleted"
      BY <2>3 DEF RefreshEnds, RefreshPages
    <3>2. shown'[l] = [Message(l, kind) EXCEPT !.table = read[l].seen] /\ known'[l] = known[l]
      BY <1>7, <3>1
    <3>3. /\ shown'[l].kind = kind /\ shown'[l].doc = about[l]
          /\ shown'[l].status = Absent /\ shown'[l].table = read[l].seen
      <4>1. kind \in Kinds
        BY DEF Kinds
      <4>2. LET o == [Message(l, kind) EXCEPT !.table = read[l].seen]
            IN  o.kind = kind /\ o.doc = about[l] /\ o.status = Absent /\ o.table = read[l].seen
        BY <1>1, <4>1, TableIsOutput
      <4> QED
        BY <3>2, <4>2, Zenon
    <3>4. kind = "deleted" => read[l].seen[about[l]] = Absent
      BY <3>1 DEF Deleted
    <3>5. \A d \in known[l] : read[l].seen[d] = Absent
      BY DEF KnownUnseen
    <3> QED
      BY <3>2, <3>3, <3>4, <3>5
  <2>4. CASE SearchEnds(l)
    <3>1. shown'[l] = [Message(l, "hits") EXCEPT !.hits = read[l].found] /\ known'[l] = known[l]
      BY <1>7, <2>4 DEF SearchEnds
    <3>2. /\ shown'[l].kind = "hits" /\ shown'[l].status = Absent
          /\ \A d \in DocIds : shown'[l].table[d] = Absent
      BY <1>1, <3>1, HitsAreOutput
    <3> QED
      BY <1>1, <3>1, <3>2
  <2>5. CASE ShowChunkEnds(l)
    <3>1. PICK kind \in {"chunk", "error"} :
            Returns(l, Message(l, kind)) /\ (kind = "chunk" => Succeeded(l) /\ page[l] = "chunk")
      BY <2>5 DEF ShowChunkEnds, On
    <3>2. shown'[l] = Message(l, kind) /\ known'[l] = known[l]
      BY <1>7, <3>1
    <3>3. kind = "chunk" => about[l] \notin known[l]
      BY <3>1 DEF Succeeded, KnownChunk
    <3> QED
      BY <1>1, <1>2, <3>2, <3>3 DEF Kinds
  <2> QED
    BY <1>8, <2>1, <2>2, <2>3, <2>4, <2>5 DEF EndOf
<1>9. CASE l = Waiter /\ WaitStep
  <2>1. CASE WaitTimesOut
    <3>1. /\ shown'[l] = [shown[l] EXCEPT !.kind = "timeout", !.doc = about[l]]
          /\ known'[l] = known[l] /\ page[l] \in WaitPages
      BY <1>7, <1>9, <2>1 DEF WaitTimesOut, On, WaitPages
    <3>2. /\ shown'[l].kind = "timeout" /\ shown'[l].doc = about[l]
          /\ shown'[l].status = shown[l].status /\ shown'[l].table = shown[l].table
      <4> DEFINE s == shown[l]
                 d == about[l]
      <4>1. s \in Outputs /\ d \in DocIds \cup {NoDoc}
            /\ shown'[l] = [s EXCEPT !.kind = "timeout", !.doc = d]
        BY <1>1, <3>1
      <4> HIDE DEF s, d
      <4>2. shown'[l].kind = "timeout" /\ shown'[l].doc = d
            /\ shown'[l].status = s.status /\ shown'[l].table = s.table
        <5>1. \A o \in Outputs, e \in DocIds \cup {NoDoc} :
                LET t == [o EXCEPT !.kind = "timeout", !.doc = e]
                IN  t.kind = "timeout" /\ t.doc = e /\ t.status = o.status /\ t.table = o.table
          BY OutputExcept
        <5> QED
          BY <4>1, <5>1
      <4> QED
        BY <4>2 DEF s, d
    <3> QED
      BY <1>9, <3>1, <3>2 DEF WaitsForOne, DeletedStaysOffThePage
  <2>2. CASE WaitAsks \/ WaitReads
    BY <1>3, <2>2 DEF WaitAsks, WaitReads, GoesOn
  <2>3. CASE WaitTests
    <3>1. CASE GoesOn(l, "waitRead") /\ shown' = shown
      BY <1>3, <3>1 DEF GoesOn
    <3>2. CASE Returns(l, Message(l, "error"))
      BY <1>4, <1>7, <3>2 DEF Kinds
    <3> QED
      BY <1>9, <2>3, <3>1, <3>2 DEF WaitTests
  <2>4. CASE WaitDecides
    <3>1. about[l] \in DocIds
      BY <1>1, <1>9, <2>4 DEF WaitDecides, On, PageTyped, AboutPages, WaitPages
    <3>2. \E kind \in {"detail", "wait"} : shown'[l] = Detail(l, kind) /\ known'[l] = known[l]
      BY <1>1, <1>7, <1>9, <2>4 DEF WaitDecides, WaitGoesOn, GoesOn, PageTyped
    <3> QED
      BY <1>5, <3>1, <3>2
  <2> QED
    BY <1>9, <2>1, <2>2, <2>3, <2>4 DEF WaitStep
<1>10. CASE l = Remover /\ DeleteGoesOn
  BY <1>3, <1>10 DEF DeleteGoesOn, GoesOn
<1>11. CASE RequestTimesOut(l)
  <2>1. CASE Returns(l, Message(l, "error"))
    BY <1>4, <1>7, <2>1 DEF Kinds
  <2>2. CASE GoesOn(l, "refreshKept") /\ UNCHANGED shown
    BY <1>3, <2>2 DEF GoesOn
  <2>3. CASE UNCHANGED pageVars
    BY <1>3, <2>3 DEF pageVars
  <2> QED
    BY <1>11, <2>1, <2>2, <2>3 DEF RequestTimesOut
<1>12. CASE l = Remover /\ RefreshAfterDelete
  BY <1>3, <1>12 DEF RefreshAfterDelete, pageVars
<1>13. CASE StartOf(l)
  <2>1. \E p, d : Starts(l, p, d)
    BY <1>13, Zenon DEF StartOf, Upload, Poll, Wait, Delete, Refresh, RunSearch, ShowChunk,
       Waiter, Remover
  <2> QED
    BY <1>1, <1>6, <2>1 DEF Starts, PageTyped
<1>14. CASE StepOf(l)
  BY <1>8, <1>9, <1>10, <1>11, <1>12, <1>13, <1>14 DEF StepOf
<1>15. CASE ~StepOf(l)
  <2>1. \/ known'[l] = known[l] /\ shown'[l] = shown[l]
        \/ known'[l] = known[l] /\ shown'[l] = Message(l, "error")
    BY <1>1, <1>15, HowPageMoves DEF StepOf
  <2> QED
    BY <1>3, <1>4, <2>1 DEF Kinds
<1> QED
  BY <1>14, <1>15

LEMMA WaitsForOneStep ==
  ASSUME ClientInv, WaitsForOne, [ConsoleNext]_consoleVars
  PROVE  WaitsForOne'
<1> DEFINE l == Waiter
<1> SUFFICES ASSUME l \in Listeners, page'[l] \in WaitPages
             PROVE  shown'[l].doc = about'[l] \/ shown'[l].status = Absent
  BY DEF WaitsForOne
<1> USE DEF WaitPages
<1>1. PageTyped /\ ReadTypeOK
  BY DEF ClientInv, ReadInv, PageInv
<1>2. CASE shown'[l] = Blank
  BY <1>2, BlankIsOutput
<1>3. CASE page'[l] = page[l] /\ about'[l] = about[l] /\ shown'[l] = shown[l]
  BY <1>3 DEF WaitsForOne
<1>4. CASE WaitStep
  <2>1. CASE WaitAsks \/ WaitTests \/ WaitReads
    <3>1. page[l] \in WaitPages /\ about' = about /\ shown' = shown
      BY <1>1, <2>1 DEF WaitAsks, WaitTests, WaitReads, GoesOn, Returns, On, PageTyped
    <3> QED
      BY <3>1 DEF WaitsForOne
  <2>2. CASE WaitDecides
    <3>1. about[l] \in DocIds /\ page[l] = "waitText"
      BY <1>1, <2>2 DEF WaitDecides, On, PageTyped, AboutPages
    <3>2. shown'[l] = Detail(l, "detail") /\ about'[l] = about[l]
      BY <1>1, <2>2 DEF WaitDecides, WaitGoesOn, GoesOn, Returns, PageTyped
    <3> QED
      BY <1>1, <3>1, <3>2, DetailIsOutput DEF Kinds
  <2>3. ~WaitTimesOut
    BY <1>1 DEF WaitTimesOut, Returns, PageTyped
  <2> QED
    BY <1>4, <2>1, <2>2, <2>3 DEF WaitStep
<1>5. l # Remover
  BY DEF Waiter, Remover
<1> QED
  BY <1>1, <1>2, <1>3, <1>4, <1>5, HowPageMoves

\* The table that comes with the message of a deletion does not have the
\* document, and no call that is started later shows it, whichever calls of the
\* page overlap: not in a table, not as a detail and not by one of its chunks.
THEOREM DeletedIsNotShown == ConsoleSpec => []DeletedStaysOffThePage
<1>1. ConsoleInit => DeletionInv
  <2> SUFFICES ASSUME ConsoleInit PROVE DeletionInv
    OBVIOUS
  <2>1. \A l \in Listeners : read[l] = NoRead /\ page[l] = "idle" /\ known[l] = {}
                             /\ shown[l] = Blank
    BY ListenersRead DEF ConsoleInit, ReadInit
  <2>2. told = {}
    BY DEF ConsoleInit
  <2> QED
    BY <2>1, <2>2, BlankIsOutput
       DEF DeletionInv, Unasked, Deleting, Deleted, ToldAreGone, KnownUnseen, KnownChunk,
           WaitsForOne, WaitPages, DeletedStaysOffThePage
<1>2. ClientInv /\ DeletionInv /\ [ConsoleNext]_consoleVars /\ [ReadNext]_readVars => DeletionInv'
  BY ReadersOnlyRead, UnaskedStep, DeletingStep, DeletedStep, ToldAreGoneStep, KnownUnseenStep,
     KnownChunkStep, ShownStep, WaitsForOneStep
     DEF DeletionInv, ClientInv, PageInv
<1>3. DeletionInv => DeletedStaysOffThePage
  BY DEF DeletionInv
<1> QED
  BY <1>1, <1>2, <1>3, ClientInvHolds, PTL DEF ConsoleSpec, ReadSpec


-----------------------------------------------------------------------------
(* One ingestion thread.                                                   *)

\* A chunk in Qdrant that is not in Postgres is of a document that is not INDEXED.
LEMMA ShowFindsIndexed ==
  ASSUME OneThread, ClientInv, [ConsoleNext]_consoleVars,
         On("show_chunk", "idle"), page'["show_chunk"] = "chunk",
         read'["show_chunk"].reply = "notFound"
  PROVE  status[about'["show_chunk"]] # "INDEXED"
<1> DEFINE l == "show_chunk"
<1>1. PageTyped /\ l \in Listeners /\ l \in Readers /\ read \in [Readers -> Reads]
  BY ListenersRead DEF ClientInv, PageInv, ReadInv, ReadTypeOK, On
<1>2. PICK b \in Results : ShowChunk(b)
  <2>1. StartOf(l)
    BY <1>1, HowPageMoves DEF On, Waiter, Remover
  <2> QED
    BY <2>1, Zenon DEF StartOf, Waiter, Remover
<1>3. b \in Batches
  BY <1>1, <1>2 DEF PageTyped, Results, Outputs
<1>4. ~Raises(l)
  BY <1>1, RefusedReply DEF Raises, Serve, Replies
<1>5. FetchChunk(l, b) /\ about'[l] = b[1]
  BY <1>1, <1>2, <1>4 DEF ShowChunk, Starts, PageTyped
<1>6. b \notin rows
  <2>1. \A p \in Reads : \A d \in DocIds, found \in SUBSET Batches :
          [p EXCEPT !.doc = d, !.at = "context", !.found = found].reply = p.reply
    BY DEF Reads
  <2>2. b[1] \in DocIds /\ {b} \in SUBSET Batches
    BY <1>3 DEF Batches
  <2>3. b \in rows => read'[l] = [NoRead EXCEPT !.doc = b[1], !.at = "context", !.found = {b}]
    BY <1>1, <1>3, <1>5 DEF FetchChunk, Serve
  <2>4. b \in rows => read'[l].reply = NoRead.reply
    BY <2>1, <2>2, <2>3, NoReadIsRead
  <2> QED
    BY <2>4, NoReadIsRead
<1>7. status[b[1]] = "INDEXED" => \E w \in Workers : <<b[1], w>> \in rows
  BY <1>3 DEF ClientInv, IngestionInv, IndexedHasRows, Batches
<1>8. \A w \in Workers : b = <<b[1], w>>
  BY <1>3 DEF OneThread, Batches
<1> QED
  BY <1>5, <1>6, <1>7, <1>8

\* With one ingestion thread, a chunk that was found can be shown, unless its
\* document is not INDEXED.
THEOREM FoundChunksAreShown == ASSUME OneThread PROVE ConsoleSpec => FoundChunkCanBeShown
<1> DEFINE Shown == On("show_chunk", "idle") /\ page'["show_chunk"] = "chunk"
                    /\ read'["show_chunk"].reply = "notFound"
                      => status[about'["show_chunk"]] # "INDEXED"
<1>1. ClientInv /\ [ConsoleNext]_consoleVars => [Shown]_consoleVars
  BY ShowFindsIndexed
<1>2. ConsoleSpec => [][Shown]_consoleVars
  BY <1>1, ClientInvHolds, PTL DEF ConsoleSpec
<1> QED
  BY <1>2 DEF FoundChunkCanBeShown

\* The request of a wait, its reply and the document it is about.
Waits(pages) == Waiter \in Listeners /\ page[Waiter] \in pages
Reply == read[Waiter]
Wanted == about[Waiter]

\* The reply to a request for a document: being read, a status, or none.
Awaited == Waits({"waitDetail", "waitText"}) =>
             /\ Reply.at \in {"rows", "answered"}
             /\ Reply.reply \in {"none", "ok"} => Reply.seen[Wanted] # Absent

\* The status that wait_for_indexed has tested is one of those that came
\* before what it shows.
Tested == Waits({"waitRead", "waitText"}) =>
            /\ tested # Absent /\ Known(Wanted)
            /\ status[Wanted] # Absent => Precedes(tested, status[Wanted])
            /\ page[Waiter] = "waitText" /\ Reply.seen[Wanted] # Absent
                 => Precedes(tested, Reply.seen[Wanted])

WaitInv == Awaited /\ Tested /\ WaitShowsSettled

LEMMA AskEffect ==
  ASSUME ReadTypeOK, Waiter \in Listeners, NEW d \in DocIds, AskDocument(Waiter, d)
  PROVE  /\ Reply'.at \in {"rows", "answered"}
         /\ Reply'.reply \in {"none", "ok"} => Reply'.seen[d] # Absent
         /\ Reply'.seen[d] \in {Absent, status[d]}
<1>1. read \in [Readers -> Reads] /\ Waiter \in Readers
  BY ListenersRead DEF ReadTypeOK
<1>2. \A reply \in Replies \ {"ok"} :
        /\ Refused(reply).at = "answered" /\ Refused(reply).reply = reply
        /\ Refused(reply).seen[d] = Absent
  BY RefusedReply, RefusedSound
<1>3. CASE Raises(Waiter)
  BY <1>1, <1>2, <1>3 DEF Raises, Serve, Reply, Replies
<1>4. CASE GetDocument(Waiter, d) /\ status[d] = Absent
  BY <1>1, <1>2, <1>4, ReadersAssumption
     DEF GetDocument, ReadDocument, Serve, Reply, Replies, Missing
<1>5. CASE GetDocument(Waiter, d) /\ status[d] # Absent
  <2>1. \A p \in Reads : \A s :
          /\ [p EXCEPT !.doc = d, !.at = "rows", !.seen[d] = s].at = "rows"
          /\ [p EXCEPT !.doc = d, !.at = "rows", !.seen[d] = s].seen[d] = s
    BY DEF Reads
  <2>2. Reply' = [NoRead EXCEPT !.doc = d, !.at = "rows", !.seen[d] = status[d]]
    BY <1>1, <1>5 DEF GetDocument, ReadDocument, Serve, Reply
  <2> QED
    BY <1>5, <2>1, <2>2, NoReadIsRead
<1> QED
  BY <1>3, <1>4, <1>5 DEF AskDocument

\* A step in which a wait stays where it is: the server's, that of another
\* call, or none.
Stays == /\ \/ Elsewhere \/ ServerCrash \/ GivesUp(Waiter) \/ UNCHANGED consoleVars
            \/ \E m \in Listeners \ {Waiter} : StepOf(m)
         /\ Still(Waiter) /\ UNCHANGED waiting

\* What becomes of a reply while the callback waits for it.
LEMMA ReplyGoesOn ==
  ASSUME IngestionInv, ReadInv, PageTyped, Waiter \in Listeners,
         Reply.at \in {"rows", "answered"}, Stays
  PROVE  /\ Reply'.at \in {"rows", "answered"}
         /\ \/ Reply'.seen = Reply.seen /\ (Reply'.reply = "none" => Reply.reply = "none")
                 /\ (Reply'.reply = "ok" => Reply.reply \in {"none", "ok"})
            \/ /\ Reply'.reply \notin {"none", "ok"}
               /\ \A d \in DocIds : Reply'.seen[d] = Absent
<1>1. read \in [Readers -> Reads] /\ Waiter \in Readers /\ Reply \in Reads
  BY ListenersRead DEF ReadInv, ReadTypeOK, Reply
<1>2. CASE GivesUp(Waiter) \/ ReadFails(Waiter) \/ (ServerCrash /\ Reading(Waiter))
  <2>1. PICK reply \in {"lost", "serverError"} : Reply' = Refused(reply)
    <3>1. CASE GivesUp(Waiter) \/ ReadFails(Waiter)
      BY <1>1, <3>1 DEF GivesUp, ReadFails, Serve, Reply
    <3>2. CASE ServerCrash /\ Reading(Waiter)
      BY <1>1, <3>2 DEF ServerCrash, ReadCrash, Reply
    <3> QED
      BY <1>2, <3>1, <3>2
  <2>2. reply \in Replies
    BY DEF Replies
  <2> QED
    BY <2>1, <2>2, RefusedReply, RefusedSound
<1>3. CASE ReadStep(Waiter)
  <2>1. ReadRows(Waiter)
    BY <1>3 DEF ReadStep, CountChunks, FetchContext, FetchOwner, Reply
  <2>2. Reply.at = "rows" /\ Reply.reply = "none"
    BY <1>1, <2>1 DEF ReadRows, ReadInv, Sound, Reply, ReadPoints
  <2> DEFINE found == RowsOf(Reply.doc)
             q == [Reply EXCEPT !.found = found]
  <2>3. Reply' = Done(q)
    BY <1>1, <2>1 DEF ReadRows, Serve, Reply
  <2>4. \A p \in Reads : \A b \in SUBSET Batches :
          [p EXCEPT !.found = b] \in Reads /\ [p EXCEPT !.found = b].seen = p.seen
    BY DEF Reads
  <2>5. found \in SUBSET Batches
    BY DEF RowsOf, IngestionInv, TypeInv, TypeOK
  <2>6. q \in Reads /\ q.seen = Reply.seen
    BY <1>1, <2>4, <2>5
  <2>7. Done(q).at = "answered" /\ Done(q).reply = "ok" /\ Done(q).seen = q.seen
    <3> HIDE DEF q
    <3> QED
      BY <2>6, ReplyIsRead
  <2> HIDE DEF q
  <2> QED
    BY <2>1, <2>2, <2>3, <2>6, <2>7
<1>4. ASSUME Reply' = Reply
      PROVE  /\ Reply'.at = Reply.at /\ Reply'.seen = Reply.seen /\ Reply'.reply = Reply.reply
  BY <1>4
<1>5. CASE WriteStep \/ UNCHANGED consoleVars
  BY <1>4, <1>5 DEF WriteStep, consoleVars, readVars, Reply
<1>6. CASE ServerCrash /\ ~Reading(Waiter)
  <2>1. Reply' = Reply
    BY <1>1, <1>6 DEF ServerCrash, ReadCrash, Reply
  <2> QED
    BY <1>4, <2>1
<1>7. ASSUME NEW r \in Readers \ {Waiter},
             Request(r) \/ ReadStep(r) \/ ReadFails(r) \/ GivesUp(r) \/ TakeReply(r)
      PROVE  Reply' = Reply
  <2>1. PICK q \in Reads : Serve(r, q)
    BY <1>7, RequestSound, ReadSound
  <2> QED
    BY <1>1, <2>1 DEF Serve, Reply
<1>8. ASSUME NEW m \in Listeners \ {Waiter}, StepOf(m) PROVE Reply' = Reply
  BY <1>1, <1>8, OthersUnread DEF Reply
<1>9. CASE Elsewhere
  BY <1>2, <1>3, <1>4, <1>5, <1>7, <1>9 DEF Elsewhere
<1> QED
  BY <1>2, <1>4, <1>5, <1>6, <1>8, <1>9 DEF Stays

LEMMA WaitPageMoves ==
  ASSUME PageTyped, Waiter \in Listeners, [ConsoleNext]_consoleVars
  PROVE  /\ page'[Waiter] = "waitDetail" => WaitAsks \/ Stays
         /\ page'[Waiter] = "waitRead"   => WaitTests \/ Stays
         /\ page'[Waiter] = "waitText"   => WaitReads \/ Stays
<1> USE DEF PageTyped
<1>1. ASSUME NEW m \in Listeners \ {Waiter}, StepOf(m) PROVE Stays
  BY <1>1, OthersStill DEF Stays
<1>2. CASE StartOf(Waiter)
  <2>1. \E d : Starts(Waiter, "waitTest", d)
    BY <1>2 DEF StartOf, Wait, Waiter, Remover
  <2> QED
    BY <2>1 DEF Starts
<1>3. CASE EndOf(Waiter)
  <2>1. \E o : Returns(Waiter, o)
    BY <1>3, Zenon DEF EndOf, UploadEnds, PollEnds, RefreshEnds, SearchEnds, ShowChunkEnds, Waiter
  <2> QED
    BY <2>1 DEF Returns
<1>4. CASE WaitStep
  BY <1>4 DEF WaitStep, WaitTimesOut, WaitAsks, WaitTests, WaitReads, WaitDecides, WaitGoesOn,
     GoesOn, Returns
<1>5. CASE RequestTimesOut(Waiter)
  BY <1>5 DEF RequestTimesOut, GoesOn, Returns, Stays, Still, pageVars
<1>6. CASE StepOf(Waiter)
  BY <1>2, <1>3, <1>4, <1>5, <1>6 DEF StepOf, Waiter, Remover
<1>7. CASE ServerCrash
  BY <1>7 DEF ServerCrash, Stays, Still
<1>8. CASE Elsewhere \/ UNCHANGED consoleVars
  BY <1>8 DEF Elsewhere, Stays, Still, consoleVars, pageVars
<1> QED
  BY <1>1, <1>6, <1>7, <1>8, WhoseStep

LEMMA AwaitedStep ==
  ASSUME ClientInv, Awaited, [ConsoleNext]_consoleVars
  PROVE  Awaited'
<1> SUFFICES ASSUME Waiter \in Listeners, page'[Waiter] \in {"waitDetail", "waitText"}
             PROVE  /\ Reply'.at \in {"rows", "answered"}
                    /\ Reply'.reply \in {"none", "ok"} => Reply'.seen[about'[Waiter]] # Absent
  BY DEF Awaited, Waits, Reply, Wanted
<1>1. PageTyped
  BY DEF ClientInv, PageInv
<1>2. CASE WaitAsks \/ WaitReads
  <2>1. Wanted \in DocIds /\ AskDocument(Waiter, Wanted) /\ about'[Waiter] = Wanted
    BY <1>1, <1>2 DEF WaitAsks, WaitReads, GoesOn, On, PageTyped, AboutPages, WaitPages, Wanted
  <2> QED
    BY <2>1, AskEffect DEF ClientInv, ReadInv
<1>3. CASE Stays
  <2>1. Reply.at \in {"rows", "answered"} /\ about'[Waiter] = Wanted
        /\ (Reply.reply \in {"none", "ok"} => Reply.seen[Wanted] # Absent)
    BY <1>3 DEF Awaited, Waits, Stays, Still, Wanted
  <2>2. Wanted \in DocIds
    BY <1>1, <1>3 DEF PageTyped, AboutPages, WaitPages, Wanted, Stays, Still
  <2> QED
    BY <1>1, <1>3, <2>1, <2>2, ReplyGoesOn DEF ClientInv
<1> QED
  BY <1>1, <1>2, <1>3, WaitPageMoves

\* The document waited for moves on from the status that was tested.
LEMMA TestedStays ==
  ASSUME OneThread, ClientInv, SoloInv, [Next]_vars, NEW d \in DocIds,
         NEW s \in Statuses, Known(d), status[d] # Absent => Precedes(s, status[d])
  PROVE  Known(d)' /\ (status'[d] # Absent => Precedes(s, status'[d]))
<1>1. Known(d)'
  BY KnownStays DEF ClientInv
<1>2. ASSUME status'[d] # Absent PROVE Precedes(s, status'[d])
  <2>1. status[d] # Absent
    BY <1>2, StepsDoNotResurrect DEF Known, ClientInv
  <2>2. status[d] \in Statuses /\ status'[d] \in Statuses
    <3>1. TypeInv'
      BY TypeInvNext DEF ClientInv, IngestionInv
    <3> QED
      BY <1>2, <2>1, <3>1 DEF ClientInv, IngestionInv, TypeInv, TypeOK
  <2> QED
    BY <1>2, <2>1, <2>2, StatusMovesOn, PrecedesIsTransitive DEF ClientInv
<1> QED
  BY <1>1, <1>2

LEMMA TestedStep ==
  ASSUME OneThread, ClientInv, SoloInv, SeenIsPast, Awaited, Tested,
         [ConsoleNext]_consoleVars, [Next]_vars
  PROVE  Tested'
<1> DEFINE wanted == about'[Waiter]
<1> SUFFICES ASSUME Waiter \in Listeners, page'[Waiter] \in {"waitRead", "waitText"}
             PROVE  /\ tested' # Absent /\ Known(Wanted)'
                    /\ status'[wanted] # Absent => Precedes(tested', status'[wanted])
                    /\ page'[Waiter] = "waitText" /\ Reply'.seen[wanted] # Absent
                         => Precedes(tested', Reply'.seen[wanted])
  BY DEF Tested, Reply, Waits, Wanted, Known
<1>1. PageTyped /\ Waiter \in Readers /\ Reply \in Reads /\ Sound(Reply)
  BY ListenersRead DEF ClientInv, PageInv, ReadInv, ReadTypeOK, Reply
<1>2. CASE WaitTests /\ page'[Waiter] = "waitRead"
  <2>1. /\ page[Waiter] = "waitDetail" /\ Wanted \in DocIds /\ wanted = Wanted
        /\ Reply.reply = "ok" /\ tested' = Reply.seen[Wanted] /\ TakeReply(Waiter)
    BY <1>1, <1>2 DEF WaitTests, Answered, Succeeded, GoesOn, Returns, On, PageTyped, AboutPages,
       WaitPages, Wanted, Reply
  <2>2. tested' # Absent /\ Known(Wanted)
    BY <1>1, <2>1 DEF Awaited, Waits, Sound
  <2>3. status[Wanted] # Absent => Precedes(tested', status[Wanted])
    BY <1>1, <2>1, <2>2 DEF SeenIsPast, Reply
  <2>4. status' = status /\ nextId' = nextId /\ upload' = upload
    BY <2>1 DEF TakeReply, Serve, vars, stores
  <2> QED
    BY <1>2, <2>1, <2>2, <2>3, <2>4 DEF Known, Wanted
<1>3. ASSUME page[Waiter] \in {"waitRead", "waitText"}, wanted = Wanted, tested' = tested
      PROVE  /\ tested' # Absent /\ Known(Wanted)'
             /\ status'[wanted] # Absent => Precedes(tested', status'[wanted])
  <2>1. Wanted \in DocIds /\ tested \in Statuses
    BY <1>1, <1>3 DEF PageTyped, AboutPages, WaitPages, Tested, Waits, Wanted
  <2>2. Known(Wanted) /\ (status[Wanted] # Absent => Precedes(tested, status[Wanted]))
    BY <1>3 DEF Tested, Waits
  <2>3. \A d \in DocIds : Known(d) /\ (status[d] # Absent => Precedes(tested, status[d]))
          => d < nextId' /\ d # upload'.id /\ (status'[d] # Absent => Precedes(tested, status'[d]))
    BY <2>1, TestedStays DEF Known
  <2> QED
    BY <1>3, <2>1, <2>2, <2>3 DEF Tested, Waits, Known, Wanted
<1>4. CASE WaitReads
  <2>1. /\ page[Waiter] = "waitRead" /\ Wanted \in DocIds /\ AskDocument(Waiter, Wanted)
        /\ wanted = Wanted /\ tested' = tested
    BY <1>1, <1>4 DEF WaitReads, GoesOn, On, waiting, PageTyped, AboutPages, WaitPages, Wanted
  <2>2. Reply'.seen[Wanted] \in {Absent, status[Wanted]}
    BY <2>1, AskEffect DEF ClientInv, ReadInv
  <2> QED
    BY <1>3, <2>1, <2>2 DEF Tested, Waits
<1>5. CASE Stays
  <2>1. wanted = Wanted /\ tested' = tested /\ page[Waiter] \in {"waitRead", "waitText"}
        /\ page'[Waiter] = page[Waiter]
    BY <1>5 DEF Stays, Still, waiting, Wanted
  <2>2. ASSUME page[Waiter] = "waitText" PROVE Reply'.seen[Wanted] \in {Absent, Reply.seen[Wanted]}
    <3>1. Reply.at \in {"rows", "answered"} /\ Wanted \in DocIds
      BY <1>1, <2>2 DEF Awaited, Waits, PageTyped, AboutPages, WaitPages, Wanted
    <3> QED
      BY <1>1, <1>5, <3>1, ReplyGoesOn DEF ClientInv
  <2> QED
    BY <1>3, <2>1, <2>2 DEF Tested, Waits
<1> QED
  BY <1>1, <1>2, <1>4, <1>5, WaitPageMoves

LEMMA WaitShownStep ==
  ASSUME ClientInv, Awaited, Tested, WaitShowsSettled, [ConsoleNext]_consoleVars
  PROVE  WaitShowsSettled'
<1> DEFINE l == Waiter
<1> SUFFICES ASSUME l \in Listeners, shown'[l].kind = "wait"
             PROVE  shown'[l].status \in Settled
  BY DEF WaitShowsSettled
<1>1. PageTyped /\ ReadTypeOK /\ Reply \in Reads /\ shown[l] \in Outputs
      /\ about[l] \in DocIds \cup {NoDoc}
  BY ListenersRead DEF ClientInv, PageInv, PageTyped, ReadInv, ReadTypeOK, Reply
<1>2. \A kind \in Kinds \ {"wait"} : shown'[l] # Message(l, kind)
  BY <1>1, MessageIsOutput
<1>3. CASE shown'[l] = shown[l]
  BY <1>3 DEF WaitShowsSettled
<1>4. ASSUME NEW o, Returns(l, o) PROVE shown'[l] = o
  BY <1>1, <1>4 DEF Returns, PageTyped
<1>5. CASE WaitDecides
  <2>1. page[l] = "waitText" /\ about[l] \in DocIds
    BY <1>1, <1>5 DEF WaitDecides, On, PageTyped, AboutPages, WaitPages
  <2>2. CASE tested \in Settled /\ shown'[l] = Detail(l, "wait")
    <3>1. Reply.reply = "ok" /\ shown'[l].status = Reply.seen[about[l]]
      BY <1>1, <2>1, <2>2, DetailIsOutput DEF Kinds, Reply
    <3>2. Precedes(tested, Reply.seen[about[l]]) /\ Reply.seen[about[l]] \in Statuses
      BY <1>1, <2>1, <3>1 DEF Awaited, Tested, Waits, Wanted, Reads
    <3>3. \A t \in Statuses : Precedes(tested, t) => t \in Settled
      BY <2>2 DEF Precedes, Rank, Settled, Statuses
    <3> QED
      BY <3>1, <3>2, <3>3
  <2>3. shown'[l] # Detail(l, "detail")
    BY <1>1, <2>1, DetailIsOutput DEF Kinds
  <2> QED
    BY <1>1, <1>4, <1>5, <2>2, <2>3 DEF WaitDecides, WaitGoesOn, PageTyped
<1>6. CASE WaitStep /\ ~WaitDecides
  <2>1. CASE WaitTimesOut
    <3>1. shown'[l] = [shown[l] EXCEPT !.kind = "timeout", !.doc = about[l]]
      BY <1>4, <2>1 DEF WaitTimesOut
    <3> DEFINE s == shown[l]
    <3>2. s \in Outputs /\ shown'[l] = [s EXCEPT !.kind = "timeout", !.doc = about[l]]
      BY <1>1, <3>1
    <3> HIDE DEF s
    <3>3. \A o \in Outputs, d \in DocIds \cup {NoDoc} :
            [o EXCEPT !.kind = "timeout", !.doc = d].kind = "timeout"
      BY OutputExcept
    <3> QED
      BY <1>1, <3>2, <3>3
  <2>2. CASE WaitAsks \/ WaitReads
    BY <1>3, <2>2 DEF WaitAsks, WaitReads
  <2>3. CASE WaitTests
    <3>1. shown' = shown \/ shown'[l] = Message(l, "error")
      BY <1>4, <2>3 DEF WaitTests
    <3> QED
      BY <1>2, <1>3, <3>1 DEF Kinds
  <2> QED
    BY <1>6, <2>1, <2>2, <2>3 DEF WaitStep
<1>7. CASE shown'[l] = Blank
  BY <1>7, BlankIsOutput
<1>8. CASE StepOf(l) /\ ~WaitStep
  <2>1. CASE StartOf(l)
    <3>1. \E d : Starts(l, "waitTest", d)
      BY <2>1 DEF StartOf, Wait, Waiter, Remover
    <3> QED
      BY <1>1, <1>7, <3>1 DEF Starts, PageTyped
  <2>2. CASE EndOf(l)
    <3>1. CASE PollEnds(l)
      <4>1. about[l] \in DocIds /\ shown'[l] = Detail(l, "detail")
        BY <1>1, <1>4, <3>1 DEF PollEnds, On, PageTyped, AboutPages
      <4> QED
        BY <1>1, <4>1, DetailIsOutput DEF Kinds
    <3>2. CASE RefreshEnds(l)
      <4>1. PICK kind \in Kinds \ {"wait"} :
              shown'[l] = [Message(l, kind) EXCEPT !.table = read[l].seen]
        BY <1>4, <3>2 DEF RefreshEnds, RefreshPages, Kinds
      <4> QED
        BY <1>1, <4>1, TableIsOutput
    <3>3. CASE SearchEnds(l)
      <4>1. shown'[l] = [Message(l, "hits") EXCEPT !.hits = read[l].found]
        BY <1>4, <3>3 DEF SearchEnds
      <4> QED
        BY <1>1, <4>1, HitsAreOutput
    <3>4. CASE ShowChunkEnds(l)
      <4>1. PICK kind \in Kinds \ {"wait"} : shown'[l] = Message(l, kind)
        BY <1>4, <3>4 DEF ShowChunkEnds, Kinds
      <4> QED
        BY <1>2, <4>1
    <3> QED
      BY <2>2, <3>1, <3>2, <3>3, <3>4 DEF EndOf, Waiter
  <2>3. CASE RequestTimesOut(l)
    <3>1. shown' = shown \/ shown'[l] = Message(l, "error")
      BY <1>4, <2>3 DEF RequestTimesOut, pageVars
    <3> QED
      BY <1>2, <1>3, <3>1 DEF Kinds
  <2> QED
    BY <1>8, <2>1, <2>2, <2>3 DEF StepOf, Waiter, Remover
<1> QED
  BY <1>1, <1>2, <1>3, <1>5, <1>6, <1>7, <1>8, HowPageMoves DEF Kinds, Remover, Waiter

\* With one ingestion thread, a wait that returns without having timed out
\* returns INDEXED or FAILED, though it shows another reply than it tested.
THEOREM WaitsShowSettled == ASSUME OneThread PROVE ConsoleSpec => []WaitShowsSettled
<1>1. ConsoleInit => WaitInv
  BY BlankIsOutput DEF ConsoleInit, WaitInv, Awaited, Tested, Waits, WaitShowsSettled
<1>2. ClientInv /\ SoloInv /\ SeenIsPast /\ WaitInv
        /\ [ConsoleNext]_consoleVars /\ [ReadNext]_readVars => WaitInv'
  BY ReadersOnlyRead, AwaitedStep, TestedStep, WaitShownStep DEF WaitInv
<1>3. WaitInv => WaitShowsSettled
  BY DEF WaitInv
<1>4. ReadSpec => []SoloInv
  BY ReadersKeepIngestion, SoloHolds, PTL
<1>5. ReadSpec => []SeenIsPast
  BY StatusesSeenArePast
<1> QED
  BY <1>1, <1>2, <1>3, <1>4, <1>5, ClientInvHolds, PTL DEF ConsoleSpec, ReadSpec

=============================================================================
