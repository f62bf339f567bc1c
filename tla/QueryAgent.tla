----------------------------- MODULE QueryAgent -----------------------------
(***************************************************************************)
(* One run of the agent graph (graph/builder.py): classify, then chitchat, *)
(* or retrieve until something is found or the refinements are used up,    *)
(* and generate_answer.  Runs share no state.                              *)
(*                                                                         *)
(* One action is one call to the language model or to document-index, with *)
(* the work up to the next call; a call may raise.                         *)
(*  - A hit is known by its document: the hits of a search are a set of    *)
(*    documents, "attachment" stands for the <source> blocks of a message. *)
(*  - The searches of one _search, of which each may fail, are one action. *)
(*  - Name matching is abstracted to its result: the document that a name  *)
(*    in the memory or in the model's answer refers to, if there is one.   *)
(*  - An answer of the model costs one token; the LLM adapter reports it    *)
(*    only if it can parse the answer.                                     *)
(***************************************************************************)
EXTENDS Naturals

CONSTANTS Docs,       \* documents that document-index may know of
          MaxRefines  \* config["max_refines"]

\* LangGraph allows 25 steps: classify, MaxRefines + 1 passes, generate_answer.
ASSUME AgentAssumption == MaxRefines \in 0 .. 22

Attachment == "attachment"
NoTarget == "none"
ASSUME SourceAssumption == Attachment \notin Docs /\ NoTarget \notin Docs

Sources == Docs \cup {Attachment}
Intents == {"chitchat", "intro_capabilities", "file_query", "inventory", "off_topic"}

\* memory_context: the documents that its citations name, and the one that its
\* last citation names.
Memories == {[blank |-> TRUE, cited |-> {}, last |-> NoTarget]}
            \cup [blank : {FALSE}, cited : SUBSET Docs, last : Docs \cup {NoTarget}]

\* QueryPrepOutput: its flags, and the document that target_document_name names.
Preps == [mode : {"semantic", "full_document"}, scope : {"all", "cited_only"},
          needs : {"one", "several"}, target : Docs \cup {NoTarget}]
DefaultPrep == [mode |-> "semantic", scope |-> "all", needs |-> "one", target |-> NoTarget]

RetrievePcs == {"list", "prepare", "fetch", "search", "supplement", "fallback", "reformulate"}
AgentPcs == {"classify", "listNames", "reply", "generate", "retry", "end"} \cup RetrievePcs

VARIABLES
  attached, memory,    \* of the request: prefetched_hits, memory_context
  pc,                  \* the next call
  intent, message,     \* AgentState.intent, intent_message ("none" or "ready")
  listed, prep,        \* of this pass: the documents listed, the prepared query
  query,               \* AgentState.search_query: "unset" (or blank), "rephrased"
  question,            \* AgentState.effective_question: as asked, or made standalone
  hits, refines,       \* AgentState.hits (the local one, in a pass), refine_count
  tokens,              \* AgentState.total_tokens_used
  outcome, citations,  \* how the run ended; whose citations the answer has
  calls,               \* history: answers of the language model, usable or not
  resolved             \* history: the question as prepare_query resolved it, if it did

request == <<attached, memory>>
pass == <<listed, prep>>
answer == <<outcome, citations>>
vars == <<request, pc, intent, message, pass, query, question, hits, refines, tokens,
          answer, calls, resolved>>

Init == /\ attached \in {{}, {Attachment}}
        /\ memory \in Memories
        /\ pc = "classify"
        /\ intent = "none" /\ message = "none"
        /\ listed = {} /\ prep = DefaultPrep
        /\ query = "unset"
        /\ question = "asked"
        /\ hits = {}
        /\ refines = 0
        /\ tokens = 0
        /\ outcome = "pending" /\ citations = "none"
        /\ calls = 0
        /\ resolved = "asked"

\* The language model answers, and the node reports the tokens; it answers with
\* what cannot be parsed, and its tokens are lost, or there is no answer.
Returned == calls' = calls + 1 /\ tokens' = tokens + 1
NotCalled == UNCHANGED <<calls, tokens>>
Unusable == calls' \in {calls, calls + 1} /\ UNCHANGED tokens

-----------------------------------------------------------------------------
(* classify and chitchat.                                                  *)

\* route_after_classify.
RouteIntent == pc' = IF intent' = "file_query" THEN "list" ELSE "listNames"

\* Attached sources are a question about files; the model is not asked.
ClassifyAttached == /\ pc = "classify"
                    /\ attached # {}
                    /\ intent' = "file_query"
                    /\ RouteIntent
                    /\ NotCalled
                    /\ UNCHANGED <<request, message, pass, query, question, hits, refines,
                                   answer, resolved>>

\* Variant: OFF_TOPIC is passed on, and the question is not looked up.
ClassifyOffTopic == /\ pc = "classify"
                    /\ attached = {}
                    /\ intent' \in Intents
                    /\ message' \in {"none", "ready"}
                    /\ Returned
                    /\ RouteIntent
                    /\ UNCHANGED <<request, pass, query, question, hits, refines, answer,
                                   resolved>>

\* ClassifyIntent takes OFF_TOPIC, or no usable answer, for FILE_QUERY.
Classify == /\ pc = "classify"
            /\ attached = {}
            /\ \/ /\ intent' \in Intents \ {"off_topic"}
                  /\ message' \in {"none", "ready"}
                  /\ Returned
               \/ intent' = "file_query" /\ message' = "none" /\ (Returned \/ Unusable)
            /\ RouteIntent
            /\ UNCHANGED <<request, pass, query, question, hits, refines, answer, resolved>>

\* list_documents; a failure is an empty list.
ListNames == /\ pc = "listNames"
             /\ listed' \in SUBSET Docs
             /\ pc' = "reply"
             /\ NotCalled
             /\ UNCHANGED <<request, intent, message, prep, query, question, hits, refines,
                            answer, resolved>>

\* Only small talk without a ready message, over a list of documents, asks the
\* model; chitchat_reply has fixed texts for the rest.
AsksModel == intent = "chitchat" /\ message = "none" /\ listed # {}
Reply == /\ pc = "reply"
         /\ outcome' = "smalltalk"
         /\ pc' = "end"
         /\ IF AsksModel THEN Returned ELSE NotCalled
         /\ UNCHANGED <<request, intent, message, pass, query, question, hits, refines,
                        citations, resolved>>

-----------------------------------------------------------------------------
(* retrieve.                                                               *)

\* Variant: the corpus is preferred, attached sources are a fallback.
EndRetrieveCorpusFirst(found) ==
  /\ hits' = IF found = {} THEN attached ELSE found
  /\ pc' = IF hits' = {} /\ refines < MaxRefines THEN "reformulate" ELSE "generate"

\* Variant: one refinement too many.
EndRetrieveOnceMore(found) ==
  /\ hits' = IF attached # {} THEN attached ELSE found
  /\ pc' = IF hits' = {} /\ refines <= MaxRefines THEN "reformulate" ELSE "generate"

\* The end of a pass: attached sources replace what was found, and with nothing
\* at all another pass follows while refinements are left.
EndRetrieve(found) ==
  /\ hits' = IF attached # {} THEN attached ELSE found
  /\ pc' = IF hits' = {} /\ refines < MaxRefines THEN "reformulate" ELSE "generate"

\* list_documents; a failure is an empty list.  A rephrased query is used as it
\* is, with the default flags and the question as it was asked.
ListDocuments ==
  /\ pc = "list"
  /\ listed' \in SUBSET Docs
  /\ prep' = DefaultPrep
  /\ question' = "asked"
  /\ pc' = IF query = "unset" /\ (~memory.blank \/ listed' # {}) THEN "prepare" ELSE "search"
  /\ NotCalled
  /\ UNCHANGED <<request, intent, message, query, hits, refines, answer, resolved>>

\* find_document_by_name, for the model's target and then the last citation.
Target(p) == IF p.target \in listed THEN p.target
             ELSE IF memory.last \in listed THEN memory.last
             ELSE NoTarget

PrepareQuery ==
  /\ pc = "prepare"
  /\ \E p \in Preps :
       /\ prep' = [p EXCEPT !.target = Target(p)]
       /\ \/ p.mode = "semantic" /\ pc' = "search" /\ UNCHANGED hits
          \/ p.mode = "full_document" /\ Target(p) # NoTarget /\ pc' = "fetch" /\ UNCHANGED hits
          \/ p.mode = "full_document" /\ Target(p) = NoTarget /\ EndRetrieve({})
  /\ question' = "standalone"
  /\ resolved' = "standalone"
  /\ Returned
  /\ UNCHANGED <<request, intent, message, listed, query, refines, answer>>

\* Variant: an error of document-index reaches the graph.
FetchChunksRaising ==
  /\ pc = "fetch"
  /\ \/ \E found \in {{}, {prep.target}} : EndRetrieve(found) /\ UNCHANGED outcome
     \/ outcome' = "index raised" /\ pc' = "end" /\ UNCHANGED hits
  /\ NotCalled
  /\ UNCHANGED <<request, intent, message, pass, query, question, refines, citations,
                 resolved>>

\* list_document_chunks: a document deleted since it was listed, one without
\* chunks and a failure all give no hits.
FetchChunks == /\ pc = "fetch"
               /\ \E found \in {{}, {prep.target}} : EndRetrieve(found)
               /\ NotCalled
               /\ UNCHANGED <<request, intent, message, pass, query, question, refines,
                              answer, resolved>>

\* document_ids_for_memory: no filter if the citations name no listed document.
Scope == IF prep.scope = "cited_only" /\ memory.cited \cap listed # {}
         THEN memory.cited \cap listed
         ELSE Docs

\* After a search: fewer than two documents for a question that needs them, or
\* nothing at all, and another search follows.
AfterSearch(found, next) == pc' = next /\ hits' = found
NeedsMore(found) == prep.needs = "several" /\ \A d, e \in found : d = e

Search == /\ pc = "search"
          /\ \E found \in SUBSET Scope :
               IF NeedsMore(found) THEN AfterSearch(found, "supplement")
               ELSE IF found = {} THEN AfterSearch(found, "fallback")
               ELSE EndRetrieve(found)
          /\ NotCalled
          /\ UNCHANGED <<request, intent, message, pass, query, question, refines, answer,
                         resolved>>

\* _merge_hits keeps the best top_k of both searches.
Supplement == /\ pc = "supplement"
              /\ \E more \in SUBSET Docs :
                   \E found \in SUBSET (hits \cup more) :
                      /\ found = {} => hits \cup more = {}
                      /\ IF found = {} THEN AfterSearch(found, "fallback") ELSE EndRetrieve(found)
              /\ NotCalled
              /\ UNCHANGED <<request, intent, message, pass, query, question, refines,
                             answer, resolved>>

\* The same queries with a lower threshold, over all documents.
Fallback == /\ pc = "fallback"
            /\ \E found \in SUBSET Docs : EndRetrieve(found)
            /\ NotCalled
            /\ UNCHANGED <<request, intent, message, pass, query, question, refines, answer,
                           resolved>>

\* Variant: the tokens of reformulate_query are not reported.
ReformulateUncounted ==
  /\ pc = "reformulate"
  /\ query' \in {"unset", "rephrased"}
  /\ refines' = refines + 1
  /\ calls' = calls + 1
  /\ pc' = "list"
  /\ UNCHANGED <<request, intent, message, pass, question, hits, tokens, answer, resolved>>

\* Variant: a blank answer does not count as a refinement.
ReformulateBlankFree ==
  /\ pc = "reformulate"
  /\ query' \in {"unset", "rephrased"}
  /\ refines' = IF query' = "unset" THEN refines ELSE refines + 1
  /\ Returned
  /\ pc' = "list"
  /\ UNCHANGED <<request, intent, message, pass, question, hits, answer, resolved>>

\* reformulate_query; a blank answer leaves search_query unset.  Then
\* route_after_retrieve starts another pass.
Reformulate == /\ pc = "reformulate"
               /\ query' \in {"unset", "rephrased"}
               /\ refines' = refines + 1
               /\ Returned
               /\ pc' = "list"
               /\ UNCHANGED <<request, intent, message, pass, question, hits, answer, resolved>>

-----------------------------------------------------------------------------
(* generate_answer.                                                        *)

\* Without hits, a fixed text and no call.
AbstainOnEmpty == /\ pc = "generate"
                  /\ hits = {}
                  /\ outcome' = "abstained"
                  /\ pc' = "end"
                  /\ NotCalled
                  /\ UNCHANGED <<request, intent, message, pass, query, question, hits,
                                 refines, citations, resolved>>

\* Variant: citations are those of the model only.
BuildAnswerAsCited ==
  /\ pc \in {"generate", "retry"}
  /\ hits # {}
  /\ \/ outcome' = "abstained" /\ UNCHANGED citations
     \/ outcome' = "grounded" /\ citations' \in {"none", "model"}
  /\ pc' = "end"
  /\ Returned
  /\ UNCHANGED <<request, intent, message, pass, query, question, hits, refines, resolved>>

\* The model's citations, whatever they name, or else the first hits.  An
\* answer below min_confidence is replaced by the abstention.
BuildAnswer == /\ pc \in {"generate", "retry"}
               /\ hits # {}
               /\ \/ outcome' = "abstained" /\ UNCHANGED citations
                  \/ outcome' = "grounded" /\ citations' \in {"model", "hits"}
               /\ pc' = "end"
               /\ Returned
               /\ UNCHANGED <<request, intent, message, pass, query, question, hits, refines,
                              resolved>>

\* The first of two attempts gives no usable answer: the next has half the context.
RetryAnswer == /\ pc = "generate"
               /\ hits # {}
               /\ pc' = "retry"
               /\ Unusable
               /\ UNCHANGED <<request, intent, message, pass, query, question, hits, refines,
                              answer, resolved>>

\* A call of the model that no node catches raises: there is no answer, or, where
\* JSON is expected, an answer that is none.
LlmFailure == /\ \/ pc \in {"prepare", "retry"} /\ Unusable
                 \/ pc = "reformulate" /\ NotCalled
                 \/ pc = "reply" /\ AsksModel /\ NotCalled
              /\ outcome' = "llm raised"
              /\ pc' = "end"
              /\ UNCHANGED <<request, intent, message, pass, query, question, hits, refines,
                             citations, resolved>>

Step == \/ ClassifyAttached \/ Classify \/ ListNames \/ Reply
        \/ ListDocuments \/ PrepareQuery \/ FetchChunks \/ Search \/ Supplement \/ Fallback
        \/ Reformulate \/ AbstainOnEmpty \/ RetryAnswer \/ BuildAnswer

Next == Step \/ LlmFailure

Spec == Init /\ [][Next]_vars

\* Calls have timeouts: each returns or raises.
FairSpec == Spec /\ WF_vars(Next)

-----------------------------------------------------------------------------
(* Properties.                                                             *)

TypeOK == /\ attached \in {{}, {Attachment}}
          /\ memory \in Memories
          /\ pc \in AgentPcs
          /\ intent \in ({"none"} \cup Intents) \ {"off_topic"}
          /\ message \in {"none", "ready"}
          /\ listed \in SUBSET Docs
          /\ prep \in Preps
          /\ query \in {"unset", "rephrased"}
          /\ question \in {"asked", "standalone"}
          /\ hits \in SUBSET Sources
          /\ refines \in 0 .. MaxRefines
          /\ tokens \in Nat
          /\ outcome \in {"pending", "grounded", "abstained", "smalltalk", "llm raised"}
          /\ citations \in {"none", "model", "hits"}
          /\ calls \in Nat
          /\ resolved \in {"asked", "standalone"}

\* The run implements the contract: grounded answers rest on hits and cite,
\* abstentions do not cite, attached sources are neither ignored nor mixed with
\* the corpus, and there is exactly one outcome.
basis == IF outcome \in {"grounded", "abstained"} THEN hits ELSE {}
contractOutcome == IF outcome = "llm raised" THEN "failed" ELSE outcome
contractCites == IF citations = "none" THEN "no" ELSE "yes"
Contract == INSTANCE AnswerContract WITH outcome <- contractOutcome, cites <- contractCites
AnswerContract == Contract!ContractSpec

\* total_tokens_used of an answer counts every answer of the model, over all
\* nodes and passes, but two at most: those of classify and of the first attempt
\* of build_answer, when they could not be parsed.
TokensAddUp == outcome \in {"grounded", "abstained", "smalltalk"} =>
                  tokens <= calls /\ calls <= tokens + 2

\* A question costs at most this many answers of the model, however the searches
\* turn out: classify, two per pass but one in the last, and two attempts.
CallsBounded == calls <= 2 * MaxRefines + 4

\* Every run ends, and only the language model can make it end without an
\* answer: failures of document-index never do.
RunEnds == <>(outcome \in {"grounded", "abstained", "smalltalk", "llm raised"})

\* The calls, of either kind, that the run can still make before it ends: from its
\* next call on, and in each of the passes that refinements may add.
CallsToEnd == [classify |-> 9, listNames |-> 2, reply |-> 1, list |-> 8, prepare |-> 7,
               search |-> 6, supplement |-> 5, fallback |-> 4, fetch |-> 4,
               reformulate |-> 3, generate |-> 2, retry |-> 1, end |-> 0]
CallsLeft == CallsToEnd[pc] + 6 * (MaxRefines - refines)

\* Each call, failed or not, blank or not, brings the end of the run closer: the
\* retrieve node's loop back to itself cannot go round for nothing, and no run
\* makes more than 9 + 6 * MaxRefines calls (the searches of one _search are one).
RunShortens == [][CallsLeft' >= 0 /\ CallsLeft' < CallsLeft]_vars

\* Once prepare_query has resolved a follow-up, the model is asked to answer the
\* standalone question.
FollowUpResolved == pc = "generate" /\ hits # {} => question = resolved

-----------------------------------------------------------------------------
(* The inductive invariant behind the safety properties.                   *)

\* A run with attached sources retrieves; the sources replace every search
\* before the answer, and refinement never starts.
AttachedFirst == attached # {} =>
                    /\ pc \notin {"listNames", "reply", "reformulate"}
                    /\ pc \in {"generate", "retry"} => hits = attached

\* What holds before each call.
AtCall == /\ pc = "fetch" => prep.target \in Docs
          /\ pc = "supplement" => hits \in SUBSET Docs
          /\ pc = "reformulate" => refines < MaxRefines
          /\ pc = "retry" => hits # {}

\* The outcome is set with the last step, and only then the citations.
OutcomeLast == /\ outcome = "pending" <=> pc # "end"
               /\ citations # "none" => outcome = "grounded"

CallBudget == /\ pc = "classify" => calls = 0
              /\ pc \in {"listNames", "reply"} => calls <= 1
              /\ pc \in {"list", "prepare"} => calls <= 1 + 2 * refines
              /\ pc \in {"fetch", "search", "supplement", "fallback", "reformulate",
                         "generate"} => calls <= 2 + 2 * refines
              /\ pc = "retry" => calls <= 3 + 2 * refines

\* The answers whose tokens are lost: at most one before build_answer.
TokenLag == /\ tokens <= calls
            /\ pc = "classify" => calls = tokens
            /\ pc \notin {"retry", "end"} => calls <= tokens + 1
            /\ pc = "retry" => calls <= tokens + 2

AgentInv == /\ TypeOK
            /\ AttachedFirst
            /\ AtCall
            /\ OutcomeLast
            /\ CallBudget
            /\ TokenLag
            /\ TokensAddUp
            /\ CallsBounded
=============================================================================
