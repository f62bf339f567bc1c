-------------------------- MODULE QueryAgentProofs --------------------------
(***************************************************************************)
(* For every set of documents and every admissible number of refinements:  *)
(* the agent's run is well typed, its token count and its bound on calls   *)
(* of the language model hold, each call brings its end closer, and it     *)
(* implements AnswerContract.                                              *)
(***************************************************************************)
EXTENDS QueryAgent, TLAPS

USE AgentAssumption, SourceAssumption

LEMMA MaxRefinesNat == MaxRefines \in Nat
  OBVIOUS

LEMMA AgentInvInit == Init => AgentInv
<1> SUFFICES ASSUME Init PROVE AgentInv
  OBVIOUS
<1>1. DefaultPrep \in Preps
  BY DEF DefaultPrep, Preps
<1>2. TypeOK
  BY <1>1 DEF Init, TypeOK, AgentPcs
<1>3. AttachedFirst /\ AtCall /\ OutcomeLast /\ CallBudget /\ CallsBounded
  BY DEF Init, AttachedFirst, AtCall, OutcomeLast, CallBudget, CallsBounded
<1>4. TokenLag /\ TokensAddUp
  BY DEF Init, TokenLag, TokensAddUp
<1> QED BY <1>2, <1>3, <1>4 DEF AgentInv

\* What the end of a pass leaves, whatever was found.
LEMMA EndRetrieveKeeps ==
  ASSUME AgentInv, NEW found \in SUBSET Docs, EndRetrieve(found)
  PROVE  /\ hits' \in SUBSET Sources
         /\ pc' \in {"reformulate", "generate"}
         /\ attached # {} => pc' = "generate" /\ hits' = attached
         /\ pc' = "reformulate" => refines < MaxRefines
  BY DEF EndRetrieve, Sources, AgentInv, TypeOK

\* A chosen target is a listed document.
LEMMA TargetListed ==
  ASSUME AgentInv, NEW p \in Preps
  PROVE  Target(p) \in Docs \cup {NoTarget}
  BY DEF Target, AgentInv, TypeOK, Preps

LEMMA AgentInvNext == AgentInv /\ [Next]_vars => AgentInv'
<1> SUFFICES ASSUME AgentInv, [Next]_vars PROVE AgentInv'
  OBVIOUS
<1> USE DEF AgentInv
<1>0. refines \in Nat /\ refines <= MaxRefines /\ tokens \in Nat /\ calls \in Nat
  <2>1. refines \in 0 .. MaxRefines /\ tokens \in Nat /\ calls \in Nat
    BY DEF TypeOK
  <2> QED BY <2>1
<1>d. CASE UNCHANGED vars
  <2>1. /\ attached' = attached /\ memory' = memory /\ pc' = pc /\ intent' = intent
        /\ message' = message /\ listed' = listed /\ prep' = prep /\ query' = query
        /\ question' = question /\ hits' = hits /\ refines' = refines /\ tokens' = tokens
        /\ outcome' = outcome /\ citations' = citations /\ calls' = calls
        /\ resolved' = resolved
    BY <1>d DEF vars, request, pass, answer
  <2>2. TypeOK'
    BY <2>1 DEF TypeOK
  <2> QED BY <2>1, <2>2 DEF AttachedFirst, AtCall, OutcomeLast, CallBudget, TokenLag,
                TokensAddUp, CallsBounded
<1>a. CASE ClassifyAttached \/ Classify
  <2>1. /\ intent' \in Intents \ {"off_topic"} /\ message' \in {"none", "ready"}
        /\ attached # {} => intent' = "file_query"
        /\ pc' = IF intent' = "file_query" THEN "list" ELSE "listNames"
        /\ \/ calls' = calls + 1 /\ tokens' \in {tokens, tokens + 1}
           \/ calls' = calls /\ tokens' = tokens
    BY <1>a DEF ClassifyAttached, Classify, RouteIntent, Returned, NotCalled, Unusable, TypeOK,
                Intents
  <2>2. pc = "classify" /\ outcome = "pending"
    BY <1>a DEF ClassifyAttached, Classify, OutcomeLast
  <2>3. /\ attached' = attached /\ memory' = memory /\ listed' = listed /\ prep' = prep
        /\ query' = query /\ question' = question /\ hits' = hits /\ refines' = refines
        /\ outcome' = outcome /\ citations' = citations /\ resolved' = resolved
    BY <1>a DEF ClassifyAttached, Classify, request, pass, answer
  <2>4. refines' \in 0 .. MaxRefines /\ tokens' \in Nat /\ calls' \in Nat
    BY <1>0, <2>1, <2>3
  <2>5. TypeOK'
    BY <2>1, <2>3, <2>4 DEF TypeOK, AgentPcs, RetrievePcs, Intents
  <2>6. AttachedFirst' /\ AtCall' /\ OutcomeLast'
    BY <2>1, <2>2, <2>3 DEF AttachedFirst, AtCall, OutcomeLast
  <2>7. CallBudget' /\ TokenLag' /\ TokensAddUp' /\ CallsBounded'
    BY <1>0, <2>1, <2>2, <2>3 DEF CallBudget, TokenLag, TokensAddUp, CallsBounded
  <2> QED BY <2>5, <2>6, <2>7
<1>b. CASE ListNames \/ Reply
  <2>1. /\ attached' = attached /\ memory' = memory /\ intent' = intent
        /\ message' = message /\ prep' = prep /\ query' = query /\ question' = question
        /\ hits' = hits /\ refines' = refines /\ citations' = citations
        /\ resolved' = resolved
    BY <1>b DEF ListNames, Reply, request, pass, answer
  <2>2. /\ listed' \in SUBSET Docs
        /\ \/ pc = "listNames" /\ pc' = "reply" /\ outcome' = outcome
           \/ pc = "reply" /\ pc' = "end" /\ outcome' = "smalltalk"
        /\ \/ calls' = calls + 1 /\ tokens' = tokens + 1 /\ pc' = "end"
           \/ calls' = calls /\ tokens' = tokens
    BY <1>b DEF ListNames, Reply, Returned, NotCalled, pass, answer, TypeOK
  <2>3. refines' \in 0 .. MaxRefines /\ tokens' \in Nat /\ calls' \in Nat
    BY <1>0, <2>1, <2>2
  <2>4. TypeOK'
    BY <2>1, <2>2, <2>3 DEF TypeOK, AgentPcs
  <2>5. AttachedFirst' /\ AtCall' /\ OutcomeLast'
    BY <2>1, <2>2 DEF AttachedFirst, AtCall, OutcomeLast
  <2>6. CallBudget' /\ TokenLag' /\ TokensAddUp' /\ CallsBounded'
    BY <1>0, <2>1, <2>2 DEF CallBudget, TokenLag, TokensAddUp, CallsBounded, OutcomeLast
  <2> QED BY <2>4, <2>5, <2>6
<1>c. CASE ListDocuments
  <2>1. DefaultPrep \in Preps
    BY DEF DefaultPrep, Preps
  <2>2. TypeOK'
    BY <1>c, <2>1 DEF ListDocuments, NotCalled, request, answer, TypeOK, AgentPcs, RetrievePcs
  <2> QED BY <1>c, <2>2 DEF ListDocuments, NotCalled, request, answer, TypeOK, AttachedFirst,
                AtCall, OutcomeLast, CallBudget, TokenLag, TokensAddUp, CallsBounded
<1>e. CASE PrepareQuery
  <2>1. PICK p \in Preps :
          /\ prep' = [p EXCEPT !.target = Target(p)]
          /\ \/ p.mode = "semantic" /\ pc' = "search" /\ UNCHANGED hits
             \/ p.mode = "full_document" /\ Target(p) # NoTarget /\ pc' = "fetch" /\ UNCHANGED hits
             \/ p.mode = "full_document" /\ Target(p) = NoTarget /\ EndRetrieve({})
    BY <1>e DEF PrepareQuery
  <2>2. prep' \in Preps /\ prep'.target = Target(p)
    BY <2>1, TargetListed DEF Preps
  <2>3. /\ hits' \in SUBSET Sources
        /\ pc' \in {"search", "fetch", "reformulate", "generate"}
        /\ attached # {} => pc' # "reformulate" /\ (pc' = "generate" => hits' = attached)
        /\ pc' = "reformulate" => refines < MaxRefines
        /\ pc' = "fetch" => prep'.target \in Docs
    <3>1. CASE p.mode = "full_document" /\ Target(p) = NoTarget
      BY <2>1, <3>1, EndRetrieveKeeps
    <3>2. CASE ~(p.mode = "full_document" /\ Target(p) = NoTarget)
      BY <2>1, <2>2, <3>2, TargetListed DEF TypeOK
    <3> QED BY <3>1, <3>2
  <2>4. /\ attached' = attached /\ memory' = memory /\ intent' = intent /\ message' = message
        /\ listed' = listed /\ query' = query /\ refines' = refines /\ outcome' = outcome
        /\ citations' = citations
        /\ question' = "standalone" /\ resolved' = "standalone"
        /\ pc = "prepare" /\ calls' = calls + 1 /\ tokens' = tokens + 1
    BY <1>e DEF PrepareQuery, Returned, request, answer
  <2>5. refines' \in 0 .. MaxRefines /\ tokens' \in Nat /\ calls' \in Nat
    BY <1>0, <2>4
  <2>6. TypeOK'
    BY <2>2, <2>3, <2>4, <2>5 DEF TypeOK, AgentPcs, RetrievePcs
  <2>7. AttachedFirst' /\ AtCall' /\ OutcomeLast'
    BY <2>3, <2>4 DEF AttachedFirst, AtCall, OutcomeLast
  <2>8. CallBudget' /\ TokenLag' /\ TokensAddUp' /\ CallsBounded'
    BY <1>0, <2>3, <2>4 DEF CallBudget, TokenLag, TokensAddUp, CallsBounded, OutcomeLast
  <2> QED BY <2>6, <2>7, <2>8
<1>f. CASE FetchChunks \/ Search \/ Supplement \/ Fallback
  <2>1. \/ \E found \in SUBSET Docs : EndRetrieve(found)
        \/ \E found \in SUBSET Docs, next \in {"supplement", "fallback"} : AfterSearch(found, next)
    <3>1. CASE FetchChunks
      BY <3>1 DEF FetchChunks, AtCall
    <3>2. CASE Search
      <4>1. Scope \subseteq Docs
        BY Zenon DEF Scope, TypeOK
      <4> QED BY <3>2, <4>1 DEF Search
    <3>3. CASE Supplement
      BY <3>3 DEF Supplement, AtCall
    <3>4. CASE Fallback
      BY <3>4 DEF Fallback
    <3> QED BY <1>f, <3>1, <3>2, <3>3, <3>4
  <2>2. /\ hits' \in SUBSET Sources
        /\ pc' \in {"supplement", "fallback", "reformulate", "generate"}
        /\ attached # {} => pc' # "reformulate" /\ (pc' = "generate" => hits' = attached)
        /\ pc' = "reformulate" => refines < MaxRefines
        /\ pc' = "supplement" => hits' \in SUBSET Docs
    BY <2>1, EndRetrieveKeeps DEF AfterSearch, Sources
  <2>3. /\ pc \in {"fetch", "search", "supplement", "fallback"}
        /\ UNCHANGED <<request, intent, message, pass, query, question, refines, answer,
                       resolved, calls, tokens>>
    BY <1>f DEF FetchChunks, Search, Supplement, Fallback, NotCalled
  <2> QED BY <2>2, <2>3 DEF request, pass, answer, TypeOK, AttachedFirst, AtCall, OutcomeLast,
                CallBudget, TokenLag, TokensAddUp, CallsBounded, AgentPcs, RetrievePcs
<1>g. CASE Reformulate
  <2>1. /\ attached' = attached /\ memory' = memory /\ intent' = intent
        /\ message' = message /\ listed' = listed /\ prep' = prep /\ question' = question
        /\ hits' = hits /\ outcome' = outcome /\ citations' = citations
        /\ resolved' = resolved
    BY <1>g DEF Reformulate, request, pass, answer
  <2>2. /\ pc = "reformulate" /\ pc' = "list" /\ query' \in {"unset", "rephrased"}
        /\ refines' = refines + 1 /\ calls' = calls + 1 /\ tokens' = tokens + 1
    BY <1>g DEF Reformulate, Returned
  <2>3. refines' \in 0 .. MaxRefines /\ tokens' \in Nat /\ calls' \in Nat
    BY <1>0, <2>2 DEF AtCall
  <2>4. TypeOK'
    BY <2>1, <2>2, <2>3 DEF TypeOK, AgentPcs, RetrievePcs
  <2>5. AttachedFirst' /\ AtCall' /\ OutcomeLast'
    BY <2>1, <2>2 DEF AttachedFirst, AtCall, OutcomeLast
  <2>6. CallBudget' /\ TokenLag' /\ TokensAddUp' /\ CallsBounded'
    BY <1>0, <2>1, <2>2 DEF AtCall, CallBudget, TokenLag, TokensAddUp, CallsBounded, OutcomeLast
  <2> QED BY <2>4, <2>5, <2>6
<1>h. CASE AbstainOnEmpty \/ RetryAnswer \/ BuildAnswer
  <2>1. /\ attached' = attached /\ memory' = memory /\ intent' = intent
        /\ message' = message /\ listed' = listed /\ prep' = prep /\ query' = query
        /\ question' = question /\ hits' = hits /\ refines' = refines
        /\ resolved' = resolved
    BY <1>h DEF AbstainOnEmpty, RetryAnswer, BuildAnswer, request, pass
  <2>2. /\ pc \in {"generate", "retry"}
        /\ \/ pc' = "end" /\ outcome' = "abstained" /\ citations' = citations
           \/ pc' = "end" /\ outcome' = "grounded" /\ citations' \in {"model", "hits"}
           \/ /\ pc = "generate" /\ pc' = "retry" /\ hits # {}
              /\ outcome' = outcome /\ citations' = citations
        /\ \/ calls' = calls + 1 /\ tokens' = tokens + 1
           \/ calls' = calls + 1 /\ tokens' = tokens /\ pc = "generate" /\ pc' = "retry"
           \/ calls' = calls /\ tokens' = tokens
    BY <1>0, <1>h DEF AbstainOnEmpty, RetryAnswer, BuildAnswer, Returned, NotCalled, Unusable, answer
  <2>3. refines' \in 0 .. MaxRefines /\ tokens' \in Nat /\ calls' \in Nat
    BY <1>0, <2>1, <2>2
  <2>4. TypeOK'
    BY <2>1, <2>2, <2>3 DEF TypeOK, AgentPcs
  <2>5. AttachedFirst' /\ AtCall' /\ OutcomeLast'
    BY <2>1, <2>2 DEF TypeOK, AttachedFirst, AtCall, OutcomeLast
  <2>6. CallBudget' /\ TokenLag' /\ TokensAddUp' /\ CallsBounded'
    BY <1>0, <2>1, <2>2 DEF CallBudget, TokenLag, TokensAddUp, CallsBounded, OutcomeLast
  <2> QED BY <2>4, <2>5, <2>6
<1>i. CASE LlmFailure
  <2>1. /\ attached' = attached /\ memory' = memory /\ intent' = intent
        /\ message' = message /\ listed' = listed /\ prep' = prep /\ query' = query
        /\ question' = question /\ hits' = hits /\ refines' = refines
        /\ citations' = citations /\ resolved' = resolved
    BY <1>i DEF LlmFailure, request, pass
  <2>2. /\ pc \in {"prepare", "retry", "reformulate", "reply"}
        /\ pc' = "end" /\ outcome' = "llm raised"
    BY <1>i DEF LlmFailure
  <2>3. /\ tokens' = tokens
        /\ calls' = calls \/ (calls' = calls + 1 /\ pc \in {"prepare", "retry"})
    BY <1>i DEF LlmFailure, NotCalled, Unusable
  <2>4. refines' \in 0 .. MaxRefines /\ tokens' \in Nat /\ calls' \in Nat
    <3>1. refines' \in 0 .. MaxRefines
      BY <1>0, <2>1
    <3>2. tokens' \in Nat /\ calls' \in Nat
      BY <1>0, <2>3
    <3> QED BY <3>1, <3>2
  <2>5. TypeOK'
    BY <2>1, <2>2, <2>4 DEF TypeOK, AgentPcs
  <2>6. AttachedFirst' /\ AtCall' /\ OutcomeLast'
    BY <2>1, <2>2 DEF TypeOK, AttachedFirst, AtCall, OutcomeLast
  <2>7. CallBudget' /\ TokenLag' /\ TokensAddUp' /\ CallsBounded'
    <3>1. CallBudget' /\ TokensAddUp'
      BY <2>2 DEF CallBudget, TokensAddUp
    <3>2. TokenLag'
      <4>1. tokens <= calls
        BY DEF TokenLag
      <4>2. tokens' <= calls'
        BY <1>0, <2>3, <4>1
      <4> QED BY <2>2, <4>2 DEF TokenLag
    <3>3. CallsBounded'
      <4>1. calls <= 2 * MaxRefines + 4
        BY DEF CallsBounded
      <4>2. pc \in {"prepare", "retry"} => calls + 1 <= 2 * MaxRefines + 4
        BY <1>0 DEF CallBudget
      <4> QED BY <2>3, <4>1, <4>2 DEF CallsBounded
    <3> QED BY <3>1, <3>2, <3>3
  <2> QED BY <2>5, <2>6, <2>7
<1> QED BY <1>a, <1>b, <1>c, <1>d, <1>e, <1>f, <1>g, <1>h, <1>i DEF Next, Step

\* The invariant of the graph holds at every call of every run.
THEOREM AgentInvariant == Spec => []AgentInv
  BY AgentInvInit, AgentInvNext, PTL DEF Spec

\* Every state of a run is well typed; in particular OFF_TOPIC never leaves
\* ClassifyIntent and refine_count never exceeds max_refines.
THEOREM AgentTyped == Spec => []TypeOK
<1>1. AgentInv => TypeOK
  BY DEF AgentInv
<1> QED BY <1>1, AgentInvariant, PTL

\* total_tokens_used of an answer misses two answers of the model at most.
THEOREM TokensReported == Spec => []TokensAddUp
<1>1. AgentInv => TokensAddUp
  BY DEF AgentInv
<1> QED BY <1>1, AgentInvariant, PTL

\* A run costs at most 2 * max_refines + 4 answers of the language model.
THEOREM FewCalls == Spec => []CallsBounded
<1>1. AgentInv => CallsBounded
  BY DEF AgentInv
<1> QED BY <1>1, AgentInvariant, PTL

-----------------------------------------------------------------------------
\* Where a run can go next, and at which cost in refinements.
LEMMA NextCall ==
  ASSUME AgentInv, Next
  PROVE  /\ pc \in AgentPcs /\ pc' \in AgentPcs
         /\ \/ refines' = refines /\ CallsToEnd[pc'] < CallsToEnd[pc]
            \/ refines' = refines + 1 /\ pc = "reformulate" /\ pc' = "list"
<1> USE DEF CallsToEnd
<1>1. pc \in AgentPcs /\ pc' \in AgentPcs
  BY AgentInvNext DEF AgentInv, TypeOK
<1>2. CASE ClassifyAttached \/ Classify \/ ListNames \/ Reply
  BY <1>1, <1>2 DEF ClassifyAttached, Classify, RouteIntent, ListNames, Reply
<1>3. CASE ListDocuments
  BY <1>1, <1>3 DEF ListDocuments
<1>4. CASE PrepareQuery
  <2>1. pc = "prepare" /\ refines' = refines
        /\ pc' \in {"search", "fetch", "reformulate", "generate"}
    BY <1>4 DEF PrepareQuery, EndRetrieve
  <2> QED BY <1>1, <2>1
<1>5. CASE FetchChunks \/ Fallback
  <2>1. pc \in {"fetch", "fallback"} /\ refines' = refines
        /\ pc' \in {"reformulate", "generate"}
    BY <1>5 DEF FetchChunks, Fallback, EndRetrieve
  <2> QED BY <1>1, <2>1
<1>6. CASE Search \/ Supplement
  <2>1. refines' = refines
        /\ \/ pc = "search" /\ pc' \in {"supplement", "fallback", "reformulate", "generate"}
           \/ pc = "supplement" /\ pc' \in {"fallback", "reformulate", "generate"}
    BY <1>6 DEF Search, Supplement, AfterSearch, EndRetrieve
  <2> QED BY <1>1, <2>1
<1>7. CASE Reformulate
  BY <1>1, <1>7 DEF Reformulate
<1>8. CASE AbstainOnEmpty \/ RetryAnswer \/ BuildAnswer \/ LlmFailure
  <2>1. refines' = refines
        /\ \/ pc = "generate" /\ pc' \in {"retry", "end"}
           \/ pc \in {"prepare", "retry", "reformulate", "reply"} /\ pc' = "end"
    BY <1>8 DEF AbstainOnEmpty, RetryAnswer, BuildAnswer, LlmFailure
  <2> QED BY <1>1, <2>1
<1> QED BY <1>1, <1>2, <1>3, <1>4, <1>5, <1>6, <1>7, <1>8 DEF Next, Step

LEMMA StepShortens ==
  ASSUME AgentInv, AgentInv', [Next]_vars
  PROVE  [CallsLeft' >= 0 /\ CallsLeft' < CallsLeft]_vars
<1> SUFFICES ASSUME Next PROVE CallsLeft' >= 0 /\ CallsLeft' < CallsLeft
  OBVIOUS
<1>1. refines \in 0 .. MaxRefines /\ refines' \in 0 .. MaxRefines
  BY DEF AgentInv, TypeOK
<1>2. CallsToEnd[pc] \in Nat /\ CallsToEnd[pc'] \in Nat
  BY NextCall DEF AgentPcs, RetrievePcs, CallsToEnd
<1>3. CASE refines' = refines /\ CallsToEnd[pc'] < CallsToEnd[pc]
  BY <1>1, <1>2, <1>3 DEF CallsLeft
<1>4. CASE refines' = refines + 1 /\ pc = "reformulate" /\ pc' = "list"
  <2>1. CallsToEnd[pc] = 3 /\ CallsToEnd[pc'] = 8
    BY <1>4 DEF CallsToEnd
  <2> QED BY <1>1, <1>4, <2>1 DEF CallsLeft
<1> QED BY NextCall, <1>3, <1>4

\* Every call brings the end of a run closer, so a run makes at most
\* 9 + 6 * max_refines calls of the language model and of document-index, the
\* searches of one _search being one.
THEOREM RunsShorten == Spec => RunShortens
  BY AgentInvariant, StepShortens, PTL DEF Spec, RunShortens

-----------------------------------------------------------------------------
\* The outcome of the contract, and what it rests on, at each step.
LEMMA StepImplementsContract ==
  ASSUME AgentInv, AgentInv', [Next]_vars
  PROVE  [Contract!ContractNext]_Contract!contractVars
<1> USE DEF AgentInv, Contract!contractVars
<1>1. CASE BuildAnswer
  BY <1>1 DEF BuildAnswer, request, TypeOK, AttachedFirst, OutcomeLast, basis, contractOutcome, contractCites,
              Contract!ContractNext, Contract!Ground, Contract!Abstain
<1>2. CASE AbstainOnEmpty
  BY <1>2 DEF AbstainOnEmpty, request, TypeOK, AttachedFirst, OutcomeLast, basis,
              contractOutcome, contractCites, Contract!ContractNext, Contract!Abstain
<1>3. CASE Reply
  BY <1>3 DEF Reply, request, TypeOK, AttachedFirst, OutcomeLast, basis, contractOutcome, contractCites,
              Contract!ContractNext, Contract!SmallTalk
<1>4. CASE LlmFailure
  BY <1>4 DEF LlmFailure, request, TypeOK, OutcomeLast, basis, contractOutcome, contractCites,
              Contract!ContractNext, Contract!Fail
<1>5. ASSUME UNCHANGED <<attached, outcome, citations>>, outcome = "pending" \/ UNCHANGED hits
      PROVE  UNCHANGED Contract!contractVars
  BY <1>5 DEF basis, contractOutcome, contractCites
<1>6. CASE ClassifyAttached \/ Classify \/ ListNames \/ ListDocuments \/ PrepareQuery
           \/ FetchChunks \/ Search \/ Supplement \/ Fallback \/ Reformulate \/ RetryAnswer
           \/ UNCHANGED vars
  <2>1. UNCHANGED <<attached, outcome, citations>> /\ (pc # "end" \/ UNCHANGED hits)
    BY <1>6 DEF ClassifyAttached, Classify, ListNames, ListDocuments, PrepareQuery, FetchChunks,
                Search, Supplement, Fallback, Reformulate, RetryAnswer, vars, request, answer
  <2> QED BY <1>5, <2>1 DEF OutcomeLast
<1> QED BY <1>1, <1>2, <1>3, <1>4, <1>6 DEF Next, Step

\* A run of the agent implements the answer contract: grounded answers rest on
\* what was retrieved and cite, abstentions do not cite, and attached sources
\* are the only basis of an answer when there are any.
THEOREM ImplementsContract == Spec => AnswerContract
<1>1. Init => Contract!ContractInit
  BY DEF Init, Contract!ContractInit, basis, contractOutcome, contractCites
<1> QED BY <1>1, AgentInvariant, StepImplementsContract, PTL
        DEF Spec, AnswerContract, Contract!ContractSpec
=============================================================================
