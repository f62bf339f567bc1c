# NLQ in TLA+

TLA+ specifications of the NLQ services (`document-index`, `query-agent`,
`document-console`), the TLC configurations that check them on small instances,
and TLAPS proofs of the results that hold for every instance.

    tlc -config ingest_pool.cfg MCIngestion      # one run of TLC
    tlapm IngestionProofs.tla                    # one module of proofs

`PROJECT.json` maps every definition to the lines it models and lists the runs,
the theorems, the hazards and the disagreements found between the code and its
documents.

## 1. The system

| component | keeps | operations | meets |
|---|---|---|---|
| Ingestion (`document-index/app/usecases/ingest_document.py`, `delivery/worker.py`, `adapters/repo`, `adapters/vector`, DELETE of `delivery/rest.py`) | Postgres tables `documents`, `chunks`, `ingestion_jobs`; a Qdrant collection; a directory of uploads; one in-memory `Document` per thread | POST /ingest, claim a job, extract, chunk, embed, upsert, save, mark; DELETE | Postgres, Qdrant, Tika or Docling, the embedder |
| Read side (`usecases/fetch_chunk.py`, `list_documents.py`, `search_documents.py`, `delivery/rest.py`, `delivery/tool_rpc.py`) | nothing but the request being served | GET documents, chunks; POST /search; JSON-RPC tools | both stores, each read in a session of its own |
| Adapters: extractors, chunker, embedder, reranker | nothing | pure functions and HTTP calls | called by the two above |
| Agent graph (`query-agent/app/graph`) | the state of one run | classify, chitchat, retrieve (with refinement), generate | the LLM, document-index over HTTP |
| Answers and query preparation (`query-agent/app/usecases`) | nothing | grounding and abstention, citations, context budget, parsing of chat messages | called by the graph and the routers |
| Conversation (`delivery/ask.py`, `adapters/conversation_history.py`) | Postgres tables `sessions`, `messages` | POST /ask: read memory, run the graph, save two messages | Postgres, the graph |
| OpenAI-compatible API (`delivery/openai_compat.py`) | nothing | POST /v1/chat/completions | the graph |
| LLM adapter (`adapters/llm_langchain.py`) | the client | structured calls with fallbacks | the model server |
| Document console (`document-console/app`) | widgets | upload, poll until settled, delete, search | document-index over HTTP |
| Scripts, evals, perf, compose | - | smoke test, mock model, load test | all services |

What is hard in it:

* **Two stores, no common transaction.** A document's chunks are in Postgres and
  in Qdrant, written one after the other by a thread and removed one after the
  other by a DELETE handler that does not know the thread.
* **A queue without locks.** `claim_pending_job` selects a PENDING job and
  updates it by primary key, so both default threads can claim one job.
* **In-memory documents.** A thread decides each transition on the `Document`
  it loaded at the start and writes it over whatever the row holds by then.
* **An exception handler that can raise.** Nothing above it catches, so the
  thread ends; a claim that raises ends it too.
* **Restarts.** Jobs left PROCESSING are not looked at again.
* **The agent's loop** between retrieval and refinement, in which any call may
  fail, some failures are swallowed, and the state is passed from node to node.
* **Replies made of several reads**, each in a session of its own, between which
  threads, deletions and restarts go on.
* **A page that waits**, lists and deletes over those replies, several of its calls at
  once, gives up after its timeouts, and shows what it read last.
* **Conversations** whose two messages are saved in two transactions and read
  back by the time at which they were written, by requests that overlap.
* **An event loop that is held** while a coroutine runs the agent.
* **Boundaries** of windows, limits and prefetches in the pure functions.

What makes each part correct: documents settle and agree with both stores
(ingestion); readers never report what no store held (read side); a run ends, with
bounded calls, grounded answers have citations, abstention has none (agent); a
session's memory is made of whole exchanges in order (conversation); a waiting
client learns the truth or times out (console).

## 2. Modules

| module | what it is |
|---|---|
| `DocumentStatus` | the statuses and the transition table of `domain/document.py` |
| `DocumentLifecycle` | abstract specification: what ingestion promises about documents, whatever threads and stores do the work |
| `Ingestion` | the write side of document-index: uploads, threads, deletions, crashes, over the two stores |
| `IngestionInvariant` | the inductive invariants of `Ingestion`, part by part |
| `MCIngestion` | `Ingestion` for TLC |
| `IngestionProofs` | type correctness, the inductive invariant and the safety theorems |
| `ThreadPoolProofs` | a pool of threads never dies out |
| `SingleThreadProofs` | with one thread, job and document agree, and `Ingestion` implements `DocumentLifecycle` |
| `AnswerContract` | abstract specification: what a run of the agent promises to who asked |
| `QueryAgent` | one run of the agent graph, with its inductive invariant |
| `MCQueryAgent` | `QueryAgent` for TLC |
| `QueryAgentProofs` | the invariant of a run, its budget of model calls, and the answer contract |
| `ReadSide` | the read side of document-index: requests of several reads, over `Ingestion` |
| `MCReadSide` | `ReadSide` for TLC |
| `ReadSideProofs` | readers change nothing; what a reply may say, for any threads and readers |
| `Console` | the page of document-console, whose callbacks are clients of `ReadSide` and `Ingestion` |
| `MCConsole` | `Console`, and all it is composed of, for TLC |
| `ConsoleProofs` | the console is one more client; what its user is told |
| `Conversation` | POST /ask over the tables of a session, beside the chat completions that share its event loop |
| `MCConversation` | `Conversation` for TLC |
| `ConversationProofs` | what the two tables hold, whatever overlaps and fails |
| `ContextBudget` | the functions of `usecases/context_budget.py` |
| `Rankings` | sorting and cutting, by who comes before whom |
| `Chunks` | numbering of chunks and the neighbours of one |
| `Retrieval` | prefetch, fusion, threshold, reranking, and merging of hits |
| `ChatMessages` | question, files and memory of the messages of a chat completion |
| `FunctionCalls` | calls of the functions of `ContextBudget`, `Chunks`, `Retrieval` and `ChatMessages`, with any arguments of their types |
| `MCFunctions` | `FunctionCalls` for TLC, over small sets of arguments |
| `FunctionProofs` | what the functions compute, for all arguments |

`ReadSide` EXTENDS `Ingestion` and `Console` EXTENDS `ReadSide`: the stores are the
same variables, read and written by the same actions, so the runs of the console
check the composition of the three. query-agent shares nothing with them but the
HTTP API, which `QueryAgent` sees as calls with any answer; `Conversation` sees a
run of the agent as one call that returns or raises, which is what `AnswerContract`
and `RunEnds` promise of it.

### How `Ingestion` corresponds to the code

One action is one call to a store with the in-memory work around it. Calls of
different threads interleave; each call is atomic (one transaction, one Qdrant
request), except that a call may take effect and still raise, as when a reply
is lost.

* `status`, `content`, `jobs`, `rows` are the tables, `points` the Qdrant
  collection. A document is numbered in the order of `new_id()`; `content` is
  the pair (tenant, hash) that the UNIQUE constraint ranges over.
* The chunks of one pass of one thread are one batch `<<document, thread>>`,
  because `upsert_chunks` and `save_chunks` write them in one request and one
  transaction. Two passes over one document have different chunk ids. A batch
  may be empty: a document may have no text.
* `pc[w]` is the next call of a thread: `idle`, `claim` (between the SELECT and
  the commit of `claim_pending_job`), the eight calls of `_process`, the four of
  the exception handler, and `dead` for a thread whose loop ended in an
  exception. The in-memory document is a function of `pc`: at each point of
  `_process` its status is the one that the next `update` writes.
* `upload` is the one upload between its duplicate check and its save. The
  handler is a coroutine that calls `execute` without awaiting, so the event loop
  runs one upload at a time. DELETE is a synchronous handler, so the web
  server's thread pool runs several: `delPc`, `delDoc`.
* `purged`, `broken` and `crashes` are history: documents that a DELETE has removed from
  Qdrant, batches of passes that an exception or a crash ended, restarts.
* Left out: file names, sizes, error texts, page counts and other columns that
  no property is about; the size limit of an upload; answers that change nothing
  (404, 409); `stop()`, which only ends idle threads at shutdown.

### How `QueryAgent` corresponds to the code

A run of the graph is sequential and shares no state with other runs, so one run is
the whole model. What is hard in it is that every call may fail or return anything,
that a node may be entered again with what the last pass left in `AgentState`, and
that three nodes decide together what an answer rests on.

* One action is one call to the language model or to document-index, with the work up
  to the next call. `pc` is the next call: `classify`; `listNames` and `reply` of
  `chitchat_node`; `list`, `prepare`, `fetch`, `search`, `supplement`, `fallback` and
  `reformulate` of `retrieve_node`; `generate` and `retry`, the two attempts of
  `build_answer`.
* `attached` and `memory` are the request. The memory is the documents its
  citations name; name matching is abstracted to the document found, which must be
  one of those just listed.
* `intent`, `message`, `query`, `question`, `hits`, `refines`, `tokens` are the fields
  of `AgentState` that a node reads later; `listed` and `prep` are locals of
  `retrieve_node`. A hit is known by its document.
* The two or more searches of one `_search` are one action with any set of hits, since
  each may fail and is skipped.
* An answer of the model costs one token. `_invoke_tokens` returns the tokens, but
  they are lost when the answer then cannot be parsed (`Unusable`): in `classify`,
  which falls back to FILE_QUERY, in the first attempt of `build_answer`, and where
  the error ends the run.
* `calls` and `resolved` are history.
* Left out: texts, scores, thresholds, `steps`, timings and the order of hits.

### How `ReadSide` corresponds to the code

* `read[r]` is the request that reader `r` serves, or its reply until the caller takes
  it: `at` is the next read, `seen` the statuses and `found` the batches read so far.
  Each action is one call to a repository, which opens a session of its own:
  `ReadDocument` then `ReadRows` (GET a document, GET its chunks, the tools of both),
  `ListDocuments` then one `CountChunks` per document, `FetchChunk` then
  `FetchContext` then `FetchOwner`, and `Search`, which asks Qdrant only.
* REST handlers are plain functions of the server's pool (`RestReaders`). The tools
  endpoint is a coroutine that does not await while it reads: `CanStart` and
  `WriteStep` keep its calls apart from each other and from uploads.
* A search returns any set of points of the right documents; which of them is the
  matter of `Retrieval`.
* `Raises` covers a malformed id, which the code hands to the database, and failing
  stores; `Refused("serverError")` is a 500, also where a document goes away between
  `FetchContext` and `FetchOwner` of a REST request.
* Left out: contents of replies other than status and chunks, paging (fewer than 50
  documents), other tenants.

### How `Console` corresponds to the code

* A listener is one of the functions of `ui.py` that a button (or the loading of the page)
  is bound to. Gradio queues the calls of one function one after the other (its default
  limit, which counts per function, also where two events share `refresh_documents`) and
  runs calls of different functions side by side. So every listener has a call of its own:
  `page[l]` is where it is, `about[l]` its document, `shown[l]` what it last returned. The
  calls share nothing but the server and what the user copies from one output to another
  input (`Results`).
* Each listener is a reader of its own name, and `delete_doc` a deleter; uploads are those
  of `Ingestion`. Other clients are further readers and deleters.
* `wait_for_indexed` is `Wait`, `WaitAsks`, `WaitTests`, `WaitReads`, `WaitDecides`,
  `WaitTimesOut`: each iteration reads the document twice, decides on the first reply and
  keeps the text of the second. `delete_doc` is `Delete`, `DeleteGoesOn`,
  `RefreshAfterDelete`, `RefreshEnds`.
* `RequestTimesOut` is httpx giving up: the server goes on with an upload or a
  deletion that nobody waits for any more. `ServerCrash` is a restart of document-index.
* `told` and `known` are history: documents whose deletion the page has announced, so far
  and when a call started. Texts, widgets and the slept seconds are left out; a deadline may
  pass at any test of it.

### How `Conversation` corresponds to the code

* `at[a]` is the next call of request `a`: `create_session`, `get_memory_context`, the
  run of the agent, two `save_message`. A row is stamped when it is built, in the action
  before the one that commits it; `clock` orders the stamps.
* `ask` is a plain function: requests overlap. `chat_completions` is a coroutine that
  runs the agent without awaiting, so `LoopFree` holds up new requests and replies.
* A session id comes from an earlier reply or is made up (`Ghost`), which nothing tests
  until the foreign key refuses the first row.
* The ORM declares the ids as String and sends them as VARCHAR; `init.sql`, which makes the
  tables, declares them UUID, and Postgres converts no VARCHAR to UUID by itself. The
  constant `UuidColumns` says which tables there are. With UUID columns every call that
  binds an id raises (`TableCalls`), a made-up id already at the SELECT; with the tables that
  the ORM declares they work as written.
* `disturbed` is history. Left out: the text of messages, citations and confidence.

### How the functions correspond to the code

* `ContextBudget`: a text is its length, the place of the first word of the question in it
  and that word's length; a slice is its ends and its markers. Lower-casing is taken to keep
  lengths.
* `Chunks`: blocks come as the pieces that the chunking library made of them. A document has
  the rows of every pass that saved its chunks (`Stored`), in any order where ordinals are
  equal: passes over one file are taken to cut it alike, and a pass saves all its rows or
  none. A distance is any integer; `At` is Python's indexing, with `Raised` for IndexError.
* `Retrieval`: a point is a chunk with four scores. A score is taken together with how the
  store broke ties with it, so that no two points score the same (`Untied`): only the
  order of scores, their comparison with the threshold and whether a sparse score is
  positive (Qdrant returns no point that shares no term with the query) matter. Hits always have chunk
  ids; their scores may tie, and `_merge_hits` sorts them stably.
* `Rankings`: an order is a function from an element to those before it. The k first are
  those with fewer than k before them; sorting puts an element with r before it in place
  r + 1.
* `ChatMessages`: of a text, the question in it, its `<source>` files and whether it has
  markup; a text may be empty or all spaces.

## 3. Runs

| run | instance | shows |
|---|---|---|
| `ingest_pool` | 2 uploads, 2 contents, 2 threads, 2 deleters, steps may raise | type correctness; the duplicate check stays valid; the two stores differ only by passes between their two writes, failed passes and documents a deletion took out of Qdrant first (`StoresAgree`); no document is abandoned; no deleted document comes back |
| `ingest_faults` | 3 uploads, 2 contents, 1 thread, 1 deleter, both stores may fail before or after their effect, 1 restart | INDEXED has its rows; the stores agree, as above; job and document agree; `Ingestion` implements `DocumentLifecycle` |
| `ingest_progress` | 2 uploads, 2 threads, steps may raise, fairness | some thread survives; every upload settles for good |
| `ingest_double_claim` | 1 upload, 2 threads | *violated*: statuses follow `_VALID_TRANSITIONS` |
| `ingest_delete_race` | 1 upload, 1 thread, 1 deleter | *violated*: DELETE removes the points |
| `ingest_restart` | 1 upload, 1 thread, 1 restart, fairness | *violated*: every upload settles |
| `agent_run` | 2 documents, 2 refinements, every request, fairness | type correctness; tokens lost and calls spent are bounded; `QueryAgent` implements `AnswerContract`; each call brings the end of a run closer (`RunShortens`), every run ends, and only the model can deny it an answer |
| `agent_followup` | 1 document, 1 refinement (the default) | *violated*: a resolved follow-up is answered as it was resolved |
| `console` | 1 upload, 1 thread, the page, a browser and a caller of the tools, side by side in the groups of `MCTogether`; other clients upload and delete; steps and reads may fail, requests time out, 1 restart, 2 polls per wait, fairness | types of the page; INDEXED comes with chunks and replies do not contradict each other; a wait ends, and shows a settled status if not its deadline or an error; what was called deleted is not shown by calls started later; a chunk that was found can be shown while its document is INDEXED |
| `search_failed` | 1 upload, 1 thread, 1 caller of the tools, steps may raise | *violated*: a search finds no chunk of a FAILED document |
| `conversation` | the tables of the ORM, 3 questions, 1 chat completion, a made-up session id, a window of 1 turn, failures of Postgres and the agent, fairness | every answer has its question; what was answered is stored; an undisturbed session is remembered in whole turns; every request is answered |
| `functions` | all small inputs, with markers of 2, a floor of 12 and a multiplier of 2 | hits keep the word they were cut for, up to `LongestWord` letters, and fit; neighbours are adjacent, after one pass or several; a search finds as many hits as it should; merging keeps the best; the question of a chat, and when it is not in the memory |

Bounds. Two threads are the default of `ingest_worker_concurrency`, and enough
for every conflict of two claims; two documents let one thread work on the next
job while the other still holds the first; a third one in `ingest_faults` lets
content be uploaded again after a deletion and again after a failed save; two
deleters race each other and the threads. `MaxCrashes` bounds restarts, `MaxDocs`
uploads; nothing else is unbounded, because no job returns to PENDING. The
theorems of section 4 hold for all bounds. Threads, contents and deleters are
interchangeable, so runs of safety use them as a symmetry set; the run with
liveness does not.

For the agent, two documents are what `requires_multi_document` distinguishes, and
two refinements let a pass follow a refined pass that prepared its query again
(a blank rephrasing) and one that did not. The default is one refinement; more than
22 exceed the 25 steps LangGraph allows a run, hence `AgentAssumption`.

`console` has one ingestion thread: with the default of two, the double claim of
`ingest_double_claim` breaks `SeenIsPast` and all that a wait relies on.
Two polls are enough to pass from an iteration that does not settle to one that does, or to
a deadline; one document and one restart let an upload, a wait, a deletion and a pass meet.
All readers at once are too many states: the bound `Together` names the sets of listeners and
other readers that run side by side in one behaviour. `MCTogether` has those that have
something to do with each other: an upload and a wait, and `delete_doc` with what shows
documents in a table, as a detail or by their chunks. `document_detail` only calls
`poll_status`, and other readers are alone with the threads and the clients that delete.
With `Together` the set of all sets of readers the bound is none: `IndexedReplyHasChunks`,
`SeenIsPast`, `DeletedStaysOffThePage`, `FoundChunkCanBeShown`, `WaitShowsSettled` and the
types are proved for any `Together`.

In `conversation` three questions make two turns and a reader of the memory, or two
that overlap and a third that follows; a window of one turn is smaller than that. It has the
tables that the ORM declares: over those of `init.sql` nothing is ever stored
(the theorem `UuidColumnsStoreNothing`), so its properties are about what the
handler does once column types agree. In `functions`, lengths and limits are scaled
down with the marker and the floor so that all orders of start, end, limit, length and word
occur, words longer than `LongestWord` among them; documents are saved by up to three passes,
and distances are from -2 to 4.

Deadlock is not checked: ingestion rests when clients send nothing more, a run of
the agent when it has its outcome, a conversation when all requests are over; a
behaviour of `functions` is one call.

Fairness. A thread whose next call can be made makes it (`WF` of a worker's
steps, of a deleter's, of the save of an upload): these are threads of one
process, blocking calls have timeouts or answer, and an idle thread polls every
second. No fairness is assumed of clients, faults or crashes. `EveryUploadSettles`
is checked without database errors, because one of those in a claim ends a thread for good
(`ClaimFails`, worker.py:47); `ingest_restart` shows it needs a process that is never
restarted.

The agent's fairness is `WF_vars(Next)`: the graph goes on to the next call, and each
call returns or raises (the clients of the model and of document-index have
timeouts). Which of the two happens is left open.

The console's: a wait goes on when its reply has come or its deadline, and the server serves
its reads (`WF` of `WaitStep`, and of `ReadStep(Waiter)`). Users and the other listeners need not do
anything. Whether a wait ends by a settled document or its deadline is left open.

The conversation's: each request goes on to its next call, and a chat completion ends
(`WF` of `AskStep` and `FinishChat`), because the run of the agent ends (`RunEnds` of
`QueryAgent`) and clients have timeouts. Weak fairness is enough for replies although
`LoopFree` may be lost again: each chat completion comes once.

Every property of a passing run has a mutant in `PROJECT.json`: a variant of one
definition, written next to it in the module under the comment *Variant*, under
which TLC finds the property violated. Variants are used nowhere else.

## 4. Proofs

Assumptions: `IngestionAssumption` and `ContentAssumption` (the bounds are
naturals, the switches Boolean, "none" is no content). Nothing else is assumed of
the sets of threads, deleters and contents: they may be infinite or empty.

`IngestionProofs` proves `Spec => []P` for `TypeOK`, `CheckStaysValid`,
`StoresAgree`, `IndexedHasRows` and `NothingAbandoned`, and the action
property `NoResurrection`. None of the middle four is inductive alone; `IngestionInv`
adds what the threads rely on between calls:

* `FreshIds`: nothing refers to an id before its document is saved;
* `OneTransaction`: a document, its job, its content and its rows come and go
  together (the cascade);
* `PurgedFirst`: a row goes only after Qdrant was asked to forget the document,
  so a thread that holds a deleted document holds a purged one;
* `PassProgress`: a thread about to save rows has its points, one about to mark
  INDEXED has its rows, unless a deletion came between, and a claimed job is
  not PENDING.

`TypeInvNext` is proved first; every other lemma takes `TypeInv'` as given. Then
one lemma per action or group of actions shows `IngestionInv'`.

`ThreadPoolProofs` proves `PoolSurvives` for deployments without deletions and
database errors, any number of threads and restarts. A thread dies only when its
handler finds the document settled by another thread; `Survivor` says that some
living thread is not about to find that, and the thread that settles a document
is such a thread.

`SingleThreadProofs` assumes one thread and proves, under deletions, crashes and
failures of both stores, `JobAgrees` and the refinement `Spec => LifecycleContract`.
The invariant `SoloInv` says that the stored status is the one the thread has in
memory (`StatusAsExpected`), which is exactly what a second thread destroys: see
`ingest_double_claim`. The mapping sends a row to its status, an id that was
issued and has no row to GONE, the others (the pending upload included) to NEW.

`QueryAgentProofs` assumes `AgentAssumption` and that the two values standing for
"attached" and "no target" are no documents. It proves `TypeOK`, `TokensAddUp`,
`CallsBounded`, `RunShortens` and the refinement `Spec => AnswerContract`, for any set of
documents and any admissible number of refinements. `RunShortens` is the part of `RunEnds`
that is a safety property: `CallsLeft`, a weight of the next call plus six calls for every
refinement left, is never negative and falls with each step, so a run has at most
`9 + 6 * MaxRefines` of them, whatever the model and the searches answer; that a step is
taken at all is the fairness of the run. `AgentInv` adds what makes them inductive:
`AttachedFirst` (a run with attached sources never refines and comes to the answer
with exactly them), `AtCall` (what holds before each call, such as a refinement being
left before `reformulate`), `OutcomeLast` (outcome and citations come with the last
step), `CallBudget` (how many answers the model has given at each point, in terms of
`refines`) and `TokenLag` (how many of them went unreported). In the refinement, only
the last step of a run is a step of the contract; all others stutter, because `basis`
is empty until there is an outcome.

`ReadSideProofs` first shows that readers change no store (`ReadersKeepIngestion`), so
that every theorem about `Ingestion` holds with readers. `RequestsAreSound` proves the
inductive invariant `ReadInv`: what a request has seen belongs to registered documents
(`Known`: these cannot come back once gone), and a document it has seen INDEXED either
still has its rows or is deleted (`Sound`), so that rows read later are there. Each read
of a request yields a sound request whose statuses were seen before or are stored now
(`Witnessed`). From it follow `ReadTypeOK` and `IndexedReplyHasChunks` for any number of
threads, readers, deleters and restarts. With one thread, `SeenIsPast` follows from
`StatusMovesOn`, which rests on the refinement of `SingleThreadProofs`.

`ConsoleProofs` shows that every step of the console's world is one of the read side's
(`ConsoleKeepsReadSide`); the only difficulty is an upload that is saved while a call of
the tools is in progress, which `LoopAlone` excludes. A step is of one listener
(`WhoseStep`), which moves only that one's call and reply (`OthersStill`, `OthersUnread`). It
then proves `ConsoleTypeOK` and `DeletedStaysOffThePage` for any listeners, threads and
clients that overlap as they like: `Unasked` (no stale reply is left when a call starts),
`Deleting` (the handler has the document the call is about), `Deleted` and `ToldAreGone` (what
is announced is `Gone`, and the reply in progress has not seen it), `KnownUnseen` and
`KnownChunk` (no request of a call started since has seen the document or found its chunk),
`WaitsForOne`. With one thread it proves `FoundChunkCanBeShown`, from `IndexedHasRows`, and
`WaitShowsSettled`: the status that was tested precedes the stored one and the one shown
(`Tested`), and nothing follows a settled status.

`ConversationProofs` proves `TypeOK`, `AnswerAfterQuestion` and `AnsweredIsStored` for any
number of requests that overlap and fail: `ConversationInv` says which rows of a request
are in the table at each of its calls, and that stamps do not exceed the clock.
`WholeTurns` needs more, the invariant `TurnsInv`: in an undisturbed session one request
is in progress at a time and none has failed (`OneAtATime`); the rows of an answered
request are exactly its two (`RowsAsSaved`, `RowsStamped`), all stamped before or all
after those of any other (`InOrder`); and while the agent runs nothing of its session is
saved, so what was read is still the latest (`MemoryIsCurrent`). Exchanges being pairs in
order, counting rows is counting exchanges twice (`RowsAfter`): the latest 2 * `Window`
rows are the rows of the latest `Window` exchanges. The theorem speaks of requests that get
as far as the agent, which exist over the tables the ORM declares only:
`UuidColumnsStoreNothing` proves that over UUID columns no row is ever stored. TLC found `TurnsInv` to hold in all
states of the instance of `conversation` before it was proved.

`FunctionProofs` proves the properties of the functions for all arguments, and then for
every call that `FunctionCalls` makes (`CallsAssumption` gives the calls the types the
code gives them, finite sets of untied points among them):

* `focus_text` keeps the whole of the word it looked for if that is no longer than
  `LongestWord`, which is what the smallest limit has room for behind the quarter that may
  precede the word, beside two markers (1089 letters with the code's 1500 and 18); a longer
  word may be cut. It exceeds its limit by one marker at most, whenever the limit exceeds
  three markers (`BudgetAssumption`). Hence both properties of `prepare_hits`.
* Ranks: in a linear order of a finite set, the numbers of predecessors are 0, 1, ...
  without a gap, as they grow along the order and a one-to-one map between sets of equal
  size is onto (`RankIsBijection`). So the k first are k, and come before the others
  (`FirstOfFacts`), and sorting yields each element once, in order (`SortedFacts`).
* `SearchIsFilled`: a dense query cut to k and then to the threshold loses nothing, since
  a point that fails the threshold is better than all that were cut (`QueryFills`); the
  union of the two prefetches of a hybrid query has k points or all.
* `MergedIsBest`: each chunk has one first hit, by the least place that has it; what is
  cut off ranks behind what is kept.
* `ContextOfChunk`: texts between two chunks are counted by their ordinals
  (`TextsBetween`), for whatever blocks, blank or not, `FlattenSeq` joins. After p passes each
  chunk has p rows in a row (`Laid`), so rows n places apart are of chunks about n / p
  apart (`Reaching`): exactly n after one pass. It assumes n >= 0 (see section 5)
  and passes that cut the file alike.
* `QuestionOfChat`: the last message of a user is there and unique. `MemoryOfChat`: the lines
  of the memory are without it, and so are the messages before the last one if it is the last.

The library's induction theorems take an operator and cannot be cited; what they would
give is proved from the well-foundedness of < on the naturals: a nonempty set of naturals
has a least element (`Least`), so a property that fails somewhere fails at a least place.
`Flattening` is proved that way, twice: the recursion has a solution, and its values are
sequences.

Only model-checked: `EveryUploadSettles`, `RunEnds`, `WaitEnds` and `AskReplied`, which
are liveness: their proofs need ENABLED, which is out of the prover's reach (of `RunEnds`,
`RunShortens` is proved). Every other
property of a passing run is a theorem of its module.
The theorems about the functions take as given, as the modules do, that Qdrant
returns the best by a criterion and what the libraries make of a text.

## 5. Where code and documents disagree

Each of these has a run that shows it:

* `claim_pending_job` does not lock: two threads process one document and its
  stored status goes back or leaves INDEXED (`ingest_double_claim`).
* DELETE during ingestion can leave points in Qdrant that no document owns
  (`ingest_delete_race`).
* A restart strands the jobs in progress (`ingest_restart`).
* A pass that fails after it has written its points leaves them in Qdrant, and a search,
  which the tool describes as one of indexed chunks (`tool_rpc.py:20`), finds them
  (`search_failed`).
* After a refinement, `retrieve_node` no longer prepares the query and hands the
  question as it was typed to the answer, although `prompts/query_prep.py` and
  `tests/test_graph.py` have follow-ups resolved (`agent_followup`).

These are in the models, as the code has them, and no property claims the contrary:

* The ids of `sessions` and `messages` are UUID columns (`init.sql`) and are bound as VARCHAR
  (`conversation_history.py`), which Postgres refuses: POST /ask, which by the plan persists
  question and answer (IMPLEMENTATION_PLAN.md:690), answers 500. `UuidColumns` is this
  deployment, and `UuidColumnsStoreNothing` proves that it stores no session, no message and
  answers no question.
* A deletion empties Qdrant first and Postgres second, where the plan has it the other way
  round (IMPLEMENTATION_PLAN.md:304): in between (`delPc` at "row"), or if the second call
  fails, a document is listed whose points are gone. `StoresAgree` rests on the order of the
  code and excepts these documents (`purged`); with the order of the plan, points would be
  left without a document in between.
* An error of the database in `claim_pending_job` ends a thread for good, and nothing replaces
  it: with one thread, `EveryUploadSettles` fails as soon as `DbFaults` is set.
* After a double claim each ordinal has two rows, and the context of a chunk may be its own
  text, from the other pass, and not the previous and the next chunk
  (IMPLEMENTATION_PLAN.md:400). `NeighborsAreAdjacent` says how far n rows reach then.
* A negative number of neighbours (`rest.py:199`, `tool_rpc.py:57`) passes both guards and
  fetches from the other end, or raises IndexError. `Neighbors` does the same (`At`, `Raised`);
  the property is about n >= 0.
* The memory of a chat completion is ten lines whatever `OPENAI_COMPAT_MEMORY_WINDOW` says;
  only its default of five turns agrees with that (IMPLEMENTATION_PLAN.md:480). The window
  counts in the fallback only, where 0 takes the whole history (`Memory`).
* Where nothing but the question has text, the fallback takes messages by position, and the
  question itself if another message follows it, although the plan has the memory made of
  prior messages (IMPLEMENTATION_PLAN.md:480). `MemoryIsPrior` excepts exactly this case.
* A malformed id given to the JSON-RPC tools is a 500, not a tool error
  (IMPLEMENTATION_PLAN.md:349).

## 6. Not modelled

* Extractors and embedder: third-party computations, seen here as calls that return or
  raise. Of the chunker and the rerankers, numbering and cutting are modelled
  (`Chunks`, `Retrieval`), splitting and scoring are not.
* Prompts and the parsing of the model's answers: texts. `QueryAgent` takes any value the
  adapter lets through, and its failures and retries are in the graph's model.
* Tenant resolution and the object store adapter: not wired into the application.
* Widgets, scripts, evals, load tests and deployment files.

The order in which the modules were built, each on the ones before it: `Ingestion`,
`QueryAgent`, `Conversation`, `ReadSide`, `Console`, the functions. What a next step
could add: query-agent as a reader of `ReadSide`.
