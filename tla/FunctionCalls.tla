--------------------------- MODULE FunctionCalls ----------------------------
(***************************************************************************)
(* Calls of the functions of ContextBudget, Chunks, Retrieval and          *)
(* ChatMessages: a behaviour is one call, and the properties say of every  *)
(* call what its result must be.                                           *)
(***************************************************************************)
EXTENDS ContextBudget, Chunks, Retrieval, ChatMessages

CONSTANTS Ids,    \* of chunks and documents
          Words,  \* texts of pieces, questions, names of files
          \* The arguments of the calls.
          PrepareHitsCalls, NeighborsCalls, SearchCalls, MergeHitsCalls, ChatCalls

Points == [chunk : Ids, doc : Ids, dense : Int, sparse : Int, fused : Int, cross : Int]
Requests == [topK : Nat, minScore : Int, docs : SUBSET Ids, hybrid : BOOLEAN,
             reranker : {"cross", "off"}]
Hits == [chunk : Ids, score : Int]
ChatTexts ==
  {t \in [asked : Words \cup {NoText, Spaces}, files : SUBSET Words, markup : BOOLEAN] :
     t.markup => t.asked # Spaces}

ASSUME CallsAssumption ==
  /\ PrepareHitsCalls \subseteq [texts : Seq(Texts), maxChars : Int]
  /\ NeighborsCalls \subseteq [blocks : Seq(Seq(Words \cup {Blank})),
                               markdown : Seq(Words \cup {Blank}),
                               passes : Nat \ {0}, n : Int]
  /\ \A c \in SearchCalls : /\ c.points \subseteq Points /\ IsFiniteSet(c.points)
                            /\ Untied(c.points) /\ c.request \in Requests
  /\ MergeHitsCalls \subseteq [lists : Seq(Seq(Hits)), topK : Nat]
  /\ ChatCalls \subseteq Seq([role : {"user", "assistant", "system"}, text : ChatTexts])

VARIABLE call  \* the function, "none" before the call, and its arguments

Init == call = [of |-> "none"]

Make(function, args) == call' = [of |-> function, args |-> args]

Next ==
  /\ call.of = "none"
  /\ \/ \E c \in PrepareHitsCalls : Make("prepare_hits", c)
     \/ \E c \in NeighborsCalls : Make("neighbors", c)
     \/ \E c \in SearchCalls : Make("search", c)
     \/ \E c \in MergeHitsCalls : Make("merge_hits", c)
     \/ \E c \in ChatCalls : Make("messages", c)

Spec == Init /\ [][Next]_call

-----------------------------------------------------------------------------
(* The properties of the modules, of the call that was made.               *)

\* What is kept of a hit contains the word of the question it was chosen for, up to
\* the length of word that has room at the smallest share.
PreparedHitsKeepKeyword ==
  call.of = "prepare_hits" => KeywordKept(call.args.texts, call.args.maxChars)

\* No hit is longer than its share of the budget and one marker.
PreparedHitsFit ==
  call.of = "prepare_hits" => ShareKept(call.args.texts, call.args.maxChars)

\* The context of a chunk is text around it in its document, as far away as so many
\* rows reach when the document was saved by one pass or by several.
NeighborsAreAdjacent ==
  call.of = "neighbors" =>
    ContextIsAdjacent(call.args.blocks, call.args.markdown, call.args.passes, call.args.n)

\* A search finds as many hits as it should.
SearchIsComplete == call.of = "search" => SearchFills(call.args.points, call.args.request)

\* Merging keeps the best hits of all lists.
MergeIsBest == call.of = "merge_hits" => MergeKeepsBest(call.args.lists, call.args.topK)

\* The question is the last one that a user has asked.
QuestionIsCurrent == call.of = "messages" => QuestionIsLastAsked(call.args)

\* The question of a chat is not repeated in its memory, as a rule.
MemoryIsPrior == call.of = "messages" => MemoryWithoutQuestion(call.args)
=============================================================================
