---------------------------- MODULE MCFunctions -----------------------------
(* FunctionCalls for TLC: small sets of arguments. *)
EXTENDS FunctionCalls

MCIds == 0 .. 7
MCWords == {"a", "b", "c", "d", "e", "f", "g", "q"}

\* Words that fit into the smallest window beside both markers, and one that does
\* not; texts below and above every limit.
Occurrences(lens, anchors) ==
  {t \in [len : lens, anchor : anchors, word : {0, 4, 5, 6}] :
     IF t.anchor = -1 THEN t.word = 0 ELSE t.word > 0 /\ t.anchor + t.word <= t.len}
MCPrepareHitsCalls ==
  [texts : {<<t>> : t \in Occurrences(0 .. 22, -1 .. 18)}, maxChars : {-1, 0} \cup 11 .. 20]
  \cup [texts : {<<s, t>> : s, t \in Occurrences({0, 4, 13, 22}, {-1, 0, 9, 17})},
        maxChars : {12, 25, 36, 44}]

\* The texts of a document differ; any of them may be blank.
Starts == {<<>>, <<"a">>, <<Blank>>, <<"b", "c">>, <<"b", Blank>>, <<Blank, "c">>}
Ends == {<<>>, <<"d">>, <<Blank>>, <<"d", "e">>}
MCNeighborsCalls == [blocks : {<<p, q>> : p \in Starts, q \in Ends},
                     markdown : {<<>>, <<"f">>, <<"f", Blank, "g">>},
                     passes : 1 .. 3, n : -2 .. 4]

\* Up to seven points, more than the prefetch of the smallest search; their
\* dense and sparse orders are opposite, and half of them share no term with the
\* query; the others turn.  Fused scores are far below cosines.
Turned(k) == [i \in 1 .. 7 |-> ((i + k) % 7) + 1]
Reversed(f) == [i \in 1 .. 7 |-> 8 - f[i]]
Ranks == {Turned(k) : k \in 0 .. 6} \cup {Reversed(Turned(k)) : k \in 0 .. 6}
Point(i, fused, cross) ==
  [chunk |-> i, doc |-> i % 2, dense |-> 10 + i, sparse |-> 4 - i, fused |-> fused[i],
   cross |-> cross[i]]
MCSearchCalls ==
  [points : {{Point(i, fused, cross) : i \in 1 .. n} :
               n \in 0 .. 7, fused \in Ranks, cross \in {Turned(0), Reversed(Turned(3))}},
   request : [topK : 1 .. 3, minScore : {0, 13, 17, 18}, docs : {{}, {0}, {0, 1}},
              hybrid : BOOLEAN, reranker : {"cross", "off"}]]

\* Lists of hits as searches return them: chunks differ, best scores first.
HitLists == {s \in BoundedSeq([chunk : 1 .. 3, score : 1 .. 3], 2) :
               \A i, j \in DOMAIN s : i < j => /\ s[i].chunk # s[j].chunk
                                               /\ s[i].score >= s[j].score}
MCMergeHitsCalls == [lists : {<<s, t>> : s, t \in HitLists}, topK : 1 .. 3]

PlainTexts == [asked : {NoText, Spaces, "q"}, files : {{}}, markup : {FALSE}]
MCChatTexts == PlainTexts
               \cup [asked : {NoText, "q"}, files : {{}, {"f"}, {"g"}}, markup : {TRUE}]
MCChatCalls ==
  BoundedSeq([role : {"user"}, text : MCChatTexts], 1)
  \cup UNION {[1 .. n -> [role : {"user", "assistant", "system"}, text : MCChatTexts]] :
                n \in 2 .. 3}
  \cup [1 .. 5 -> [role : {"user", "assistant"}, text : PlainTexts]]
=============================================================================
