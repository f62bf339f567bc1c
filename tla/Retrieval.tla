----------------------------- MODULE Retrieval ------------------------------
(***************************************************************************)
(* How hits are chosen: SearchDocuments and QdrantIndex.search of          *)
(* document-index, and _merge_hits of query-agent, which joins the hits of *)
(* several queries.  A point is a chunk with its document and a score by   *)
(* each criterion: dense (cosine), sparse, fused (Qdrant's fusion of the   *)
(* two), cross (the cross-encoder's).  A score stands for the score and    *)
(* for how ties with it were broken: no two points of a search score the   *)
(* same.  A sparse score is positive if the chunk shares a term with the   *)
(* query.  Qdrant's query_points is modelled as what it is asked for.      *)
(***************************************************************************)
EXTENDS Integers, SequencesExt, Rankings

CONSTANT Multiplier  \* settings.rerank_candidate_multiplier

ASSUME RetrievalAssumption == Multiplier \in Nat \ {0}

Criteria == {"dense", "sparse", "fused", "cross"}
Untied(points) == \A p, q \in points, by \in Criteria : p[by] = q[by] => p = q

\* The k points of S that score highest by a criterion.
Best(S, by, k) == FirstOf(S, [p \in S |-> {q \in S : q[by] > p[by]}], k)

\* _filter: no documents named, no restriction.
Filtered(points, request) ==
  {p \in points : request.docs = {} \/ p.doc \in request.docs}

\* The prefetches of a hybrid query.  One by sparse vectors returns none that has
\* no term of the query.
Fetched(eligible, limit) ==
  Best(eligible, "dense", limit) \cup Best({p \in eligible : p.sparse > 0}, "sparse", limit)

\* Variant: min_score, which is a cosine, is applied to fused scores.
QueryThresholded(points, request, k) ==
  LET eligible == Filtered(points, request)
  IN IF request.hybrid
     THEN {p \in Best(Fetched(eligible, 3 * k), "fused", k) : p.fused >= request.minScore}
     ELSE {p \in Best(eligible, "dense", k) : p.dense >= request.minScore}

\* QdrantIndex.search for k candidates.
Query(points, request, k) ==
  LET eligible == Filtered(points, request)
  IN IF request.hybrid
     THEN Best(Fetched(eligible, 3 * k), "fused", k)
     ELSE {p \in Best(eligible, "dense", k) : p.dense >= request.minScore}

\* SearchDocuments.execute.  There is always a reranker: the cross-encoder, or
\* one that passes on the first top_k.
Search(points, request) ==
  LET candidates == Query(points, request, request.topK * Multiplier)
  IN CASE request.reranker = "cross" -> Best(candidates, "cross", request.topK)
       [] request.reranker = "off" /\ request.hybrid -> Best(candidates, "fused", request.topK)
       [] OTHER -> Best(candidates, "dense", request.topK)

\* The first hit of each chunk, lists in their order.
FirstOfEach(hits) ==
  {i \in DOMAIN hits : \A j \in 1 .. i - 1 : hits[j].chunk # hits[i].chunk}

\* Of some hits, the places of those that come before each: sort is stable.
Above(hits, S) ==
  [i \in S |-> {j \in S : \/ hits[j].score > hits[i].score
                          \/ hits[j].score = hits[i].score /\ j < i}]

\* Variant: the hits are cut to top_k, then sorted.
MergeHitsCutFirst(lists, topK) ==
  LET hits == FlattenSeq(lists)
      all == FirstOfEach(hits)
      first == FirstOf(all, [i \in all |-> {j \in all : j < i}], topK)
      order == Sorted(first, Above(hits, first))
  IN [r \in DOMAIN order |-> hits[order[r]]]

\* _merge_hits.
MergeHits(lists, topK) ==
  LET hits == FlattenSeq(lists)
      first == FirstOfEach(hits)
      order == Sorted(first, Above(hits, first))
  IN [r \in {i \in DOMAIN order : i <= topK} |-> hits[order[r]]]

-----------------------------------------------------------------------------
(* Properties.                                                             *)

\* A search has as many hits as were asked for, or as many as there are: no
\* criterion that was applied on the way, prefetch, threshold or reranker,
\* loses a point that belongs to the hits (qdrant_index.py:119-171).
SearchFills(points, request) ==
  LET matching == {p \in points : /\ request.docs # {} => p.doc \in request.docs
                                  /\ ~ request.hybrid => p.dense >= request.minScore}
      n == Cardinality(matching)
  IN /\ Search(points, request) \subseteq matching
     /\ Cardinality(Search(points, request)) = IF n < request.topK THEN n ELSE request.topK

\* However the lists overlap, merging yields each chunk once, best scores
\* first, and leaves out no chunk that, by the score it was first found with,
\* is better than one it takes (nodes.py:18-30).
MergeKeepsBest(lists, topK) ==
  LET merged == MergeHits(lists, topK)
      hits == FlattenSeq(lists)
      chunks == {merged[i].chunk : i \in DOMAIN merged}
  IN /\ Cardinality(chunks) = Len(merged)
     /\ \A i, j \in DOMAIN merged : i < j => merged[i].score >= merged[j].score
     /\ Len(merged) < topK => {h.chunk : h \in ToSet(hits)} = chunks
     /\ \A i \in DOMAIN hits :
          (hits[i].chunk \notin chunks /\ \A j \in 1 .. i - 1 : hits[j].chunk # hits[i].chunk)
            => \A h \in ToSet(merged) : h.score >= hits[i].score
=============================================================================
