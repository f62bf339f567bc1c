--------------------------- MODULE FunctionProofs ---------------------------
(***************************************************************************)
(* What the functions of ContextBudget, Chunks, Retrieval and ChatMessages *)
(* compute, for all their arguments: any budget and number of hits, any    *)
(* document, any points and request, any lists of hits, any chat.          *)
(*                                                                         *)
(*  - Sorting and cutting: an order of a finite set gives its elements the *)
(*    ranks 0, 1, ... without a gap (RankIsBijection), so that the first k *)
(*    are k (FirstOfFacts) and a sorted set has each element once          *)
(*    (SortedFacts).  All four modules rest on these.                      *)
(*  - Inductions, as that FlattenSeq yields a sequence, are by the least   *)
(*    counterexample, which exists as < is well founded (Least).           *)
(*  - The last theorems say the same of the calls that FunctionCalls makes,*)
(*    whatever the sets of arguments.                                      *)
(***************************************************************************)
EXTENDS FunctionCalls, FiniteSetTheorems, FunctionTheorems, SequenceTheorems, TLAPS

-----------------------------------------------------------------------------
(* Numbers, ranks, sorting.                                                *)

LessThan == {p \in Nat \X Nat : p[1] < p[2]}

\* < orders the natural numbers with no infinite descent.
LEMMA NatIsWellFounded == IsWellFoundedOn(LessThan, Nat)
  BY NatLessThanWellFounded DEF OpToRel, LessThan

\* A nonempty set of numbers has a least one.
LEMMA Least ==
  ASSUME NEW T \in SUBSET Nat, T # {}
  PROVE  \E x \in T : \A y \in T : x <= y
<1>1. PICK x \in T : \A y \in T : ~ (<<y, x>> \in LessThan)
  BY NatIsWellFounded, WFMin
<1>2. \A y, z \in Nat : ~ (<<y, z>> \in LessThan) => z <= y
  BY SMT DEF LessThan
<1> QED
  BY <1>1, <1>2

\* before[x] is the set of those of S that come before x, in a linear order.
Linear(S, before) ==
  /\ IsFiniteSet(S)
  /\ before \in [S -> SUBSET S]
  /\ \A x \in S : x \notin before[x] /\ \A y \in before[x] : before[y] \subseteq before[x]
  /\ \A x, y \in S : x # y => x \in before[y] \/ y \in before[x]

Rank(S, before) == [x \in S |-> Cardinality(before[x])]

\* Who comes before another has a smaller rank.
LEMMA RankGrows ==
  ASSUME NEW S, NEW before, Linear(S, before)
  PROVE  /\ Cardinality(S) \in Nat
         /\ \A x \in S : Rank(S, before)[x] \in 0 .. Cardinality(S) - 1
         /\ \A x, y \in S : y \in before[x] <=> Rank(S, before)[y] < Rank(S, before)[x]
<1> USE DEF Linear
<1>1. Cardinality(S) \in Nat
  BY FS_CardinalityType
<1>2. \A x \in S : IsFiniteSet(before[x]) /\ Cardinality(before[x]) \in Nat
  BY FS_Subset, FS_CardinalityType
<1>3. \A x \in S : Cardinality(before[x]) < Cardinality(S)
  <2> TAKE x \in S
  <2>1. before[x] \in SUBSET S /\ before[x] # S
    BY Zenon
  <2>2. Cardinality(before[x]) <= Cardinality(S) /\ Cardinality(before[x]) # Cardinality(S)
    BY <2>1, FS_Subset
  <2> QED
    BY <1>1, <1>2, <2>2, SMT
<1>4. \A x \in S : \A y \in before[x] : Cardinality(before[y]) < Cardinality(before[x])
  <2> TAKE x \in S
  <2> TAKE y \in before[x]
  <2>1. y \in S /\ before[y] \in SUBSET before[x] /\ before[y] # before[x]
    BY Zenon
  <2>2. Cardinality(before[y]) <= Cardinality(before[x])
        /\ Cardinality(before[y]) # Cardinality(before[x])
    BY <1>2, <2>1, FS_Subset
  <2> QED
    BY <1>2, <2>1, <2>2, SMT
<1>5. \A x, y \in S : y \notin before[x] =>
         ~ (Cardinality(before[y]) < Cardinality(before[x]))
  <2> TAKE x, y \in S
  <2>1. CASE y = x
    BY <1>2, <2>1, SMT
  <2>2. CASE x \in before[y]
    <3>1. Cardinality(before[x]) < Cardinality(before[y])
      BY <1>4, <2>2, Zenon
    <3> QED
      BY <1>2, <3>1, SMT
  <2> QED
    BY <2>1, <2>2, Zenon
<1> QED
  BY <1>1, <1>2, <1>3, <1>4, <1>5, SMT DEF Rank

\* The ranks are 0, 1, ... without a gap.
LEMMA RankIsBijection ==
  ASSUME NEW S, NEW before, Linear(S, before)
  PROVE  /\ Rank(S, before) \in [S -> 0 .. Cardinality(S) - 1]
         /\ \A x, y \in S : Rank(S, before)[x] = Rank(S, before)[y] => x = y
         /\ \A r \in 0 .. Cardinality(S) - 1 : \E x \in S : Rank(S, before)[x] = r
<1> DEFINE rank == Rank(S, before)
           T == 0 .. Cardinality(S) - 1
<1>1. rank \in [S -> T]
  BY RankGrows, SMT DEF Rank
<1>2. \A x, y \in S : rank[x] = rank[y] => x = y
  <2> TAKE x, y \in S
  <2>1. x # y => rank[x] < rank[y] \/ rank[y] < rank[x]
    BY RankGrows, Zenon DEF Linear
  <2>2. rank[x] \in Int /\ rank[y] \in Int
    BY RankGrows, SMT
  <2> HIDE DEF rank
  <2> QED
    BY <2>1, <2>2, SMT
<1>3. IsFiniteSet(T) /\ Cardinality(T) = Cardinality(S)
  <2>1. Cardinality(S) \in Nat
    BY RankGrows
  <2>2. \A a, b \in Int : IsFiniteSet(a .. b)
                          /\ Cardinality(a .. b) = IF a > b THEN 0 ELSE b - a + 1
    BY FS_Interval
  <2> QED
    BY <2>1, <2>2, SMT
<1>4. rank \in Surjection(S, T)
  <2> HIDE DEF rank, T
  <2>1. rank \in Injection(S, T)
    BY <1>1, <1>2, Fun_IsInj
  <2> QED
    BY <1>3, <2>1, FS_Injection DEF Linear
<1>5. \A r \in T : \E x \in S : rank[x] = r
  BY <1>4 DEF Surjection
<1> QED
  BY <1>1, <1>2, <1>5

\* Of the first k there are k, or all if there are not so many; the others come
\* after them.
LEMMA FirstOfFacts ==
  ASSUME NEW S, NEW before, Linear(S, before), NEW k \in Nat
  PROVE  /\ FirstOf(S, before, k) \subseteq S
         /\ IsFiniteSet(FirstOf(S, before, k))
         /\ Cardinality(FirstOf(S, before, k))
              = IF Cardinality(S) < k THEN Cardinality(S) ELSE k
         /\ Cardinality(FirstOf(S, before, k)) < k => FirstOf(S, before, k) = S
         /\ \A x \in FirstOf(S, before, k), y \in S \ FirstOf(S, before, k) : x \in before[y]
<1> DEFINE first == FirstOf(S, before, k)
           rank == Rank(S, before)
           m == IF Cardinality(S) < k THEN Cardinality(S) ELSE k
<1>1. first = {x \in S : rank[x] < k}
  BY Zenon DEF FirstOf, Rank
<1>2. /\ Cardinality(S) \in Nat
      /\ \A x \in S : rank[x] \in 0 .. Cardinality(S) - 1
      /\ \A x, y \in S : y \in before[x] <=> rank[y] < rank[x]
  BY RankGrows
<1>3. /\ \A x, y \in S : rank[x] = rank[y] => x = y
      /\ \A r \in 0 .. Cardinality(S) - 1 : \E x \in S : rank[x] = r
  BY RankIsBijection
<1> HIDE DEF first, rank
<1>4. first \subseteq S /\ IsFiniteSet(first)
  BY <1>1, FS_Subset DEF Linear
<1>5. Cardinality(first) = m
  <2> DEFINE ranks == [x \in first |-> rank[x]]
  <2>1. ranks \in Injection(first, 0 .. m - 1)
    <3>1. ranks \in [first -> 0 .. m - 1]
      BY <1>1, <1>2, SMT
    <3>2. \A x, y \in first : ranks[x] = ranks[y] => x = y
      BY <1>1, <1>3, SMT
    <3> HIDE DEF ranks
    <3> QED
      BY <3>1, <3>2, Fun_IsInj
  <2>2. ranks \in Surjection(first, 0 .. m - 1)
    <3>1. \A r \in 0 .. m - 1 : \E x \in first : ranks[x] = r
      BY <1>1, <1>2, <1>3, SMT
    <3>2. ranks \in [first -> 0 .. m - 1]
      BY <1>1, <1>2, SMT
    <3> HIDE DEF ranks
    <3> QED
      BY <3>1, <3>2, Fun_IsSurj
  <2> HIDE DEF ranks
  <2>3. IsFiniteSet(0 .. m - 1) /\ Cardinality(0 .. m - 1) = m
    <3>1. \A a, b \in Int : IsFiniteSet(a .. b)
                          /\ Cardinality(a .. b) = IF a > b THEN 0 ELSE b - a + 1
      BY FS_Interval
    <3>2. m \in Nat
      BY <1>2, SMT
    <3> HIDE DEF m
    <3> QED
      BY <3>1, <3>2, SMT
  <2> QED
    BY <2>1, <2>2, <2>3, FS_Injection
<1>6. Cardinality(first) < k => first = S
  <2>1. CASE Cardinality(S) < k
    BY <1>1, <1>2, <2>1, SMT
  <2> QED
    BY <1>2, <1>5, <2>1, SMT
<1>7. \A x \in first, y \in S \ first : x \in before[y]
  BY <1>1, <1>2, SMT
<1> QED
  BY <1>4, <1>5, <1>6, <1>7 DEF first

\* A sorted set has each of its elements once, each after those before it.
LEMMA SortedFacts ==
  ASSUME NEW S, NEW before, Linear(S, before)
  PROVE  LET order == Sorted(S, before)
         IN /\ Cardinality(S) \in Nat
            /\ order \in [1 .. Cardinality(S) -> S]
            /\ \A x \in S : \E r \in 1 .. Cardinality(S) : order[r] = x
            /\ \A r \in 1 .. Cardinality(S) : Cardinality(before[order[r]]) = r - 1
            /\ \A r, q \in 1 .. Cardinality(S) :
                 order[r] \in before[order[q]] <=> r < q
<1> DEFINE order == Sorted(S, before)
           rank == Rank(S, before)
           n == Cardinality(S)
<1>1. /\ n \in Nat
      /\ \A x \in S : rank[x] \in 0 .. n - 1
      /\ \A x, y \in S : y \in before[x] <=> rank[y] < rank[x]
  BY RankGrows
<1>2. /\ \A x, y \in S : rank[x] = rank[y] => x = y
      /\ \A r \in 0 .. n - 1 : \E x \in S : rank[x] = r
  BY RankIsBijection
<1>3. order = [r \in 1 .. n |-> CHOOSE x \in S : Cardinality(before[x]) = r - 1]
  BY DEF Sorted
<1>4. \A x \in S : rank[x] = Cardinality(before[x])
  BY Zenon DEF Rank
<1> HIDE DEF order, rank, n
<1>5. \A r \in 1 .. n : order[r] \in S /\ rank[order[r]] = r - 1
  <2> TAKE r \in 1 .. n
  <2>1. \E x \in S : rank[x] = r - 1
    BY <1>1, <1>2, SMT
  <2>2. order[r] = CHOOSE x \in S : Cardinality(before[x]) = r - 1
    BY <1>3, Zenon
  <2> QED
    BY <1>4, <2>1, <2>2, Zenon
<1>6. order \in [1 .. n -> S]
  BY <1>3, <1>5, Zenon
<1>7. \A x \in S : \E r \in 1 .. n : order[r] = x
  <2> TAKE x \in S
  <2>1. rank[x] + 1 \in 1 .. n
    BY <1>1, SMT
  <2>2. rank[order[rank[x] + 1]] = rank[x] /\ order[rank[x] + 1] \in S
    BY <1>1, <1>5, <2>1, SMT
  <2> QED
    BY <1>2, <2>1, <2>2, Zenon
<1>8. \A r, q \in 1 .. n : order[r] \in before[order[q]] <=> r < q
  BY <1>1, <1>5, SMT
<1> QED
  BY <1>1, <1>4, <1>5, <1>6, <1>7, <1>8 DEF order, n

\* The size of an interval.
LEMMA IntervalSize ==
  ASSUME NEW a \in Int, NEW b \in Int, a <= b + 1
  PROVE  IsFiniteSet(a .. b) /\ Cardinality(a .. b) = b - a + 1
<1>1. IsFiniteSet(a .. b) /\ Cardinality(a .. b) = IF a > b THEN 0 ELSE b - a + 1
  BY FS_Interval
<1> QED
  BY <1>1, SMT

\* A nonempty set of places in a sequence has a last one.
LEMMA Greatest ==
  ASSUME NEW n \in Nat, NEW T \in SUBSET (1 .. n), T # {}
  PROVE  \E x \in T : \A y \in T : y <= x
<1> DEFINE fromEnd == {n - x : x \in T}
<1>1. fromEnd \in SUBSET Nat /\ fromEnd # {}
  <2>1. \A x \in T : n - x \in Nat
    BY SMT
  <2> QED
    BY <2>1, Zenon
<1>2. PICK d \in fromEnd : \A e \in fromEnd : d <= e
  <2> HIDE DEF fromEnd
  <2> QED
    BY <1>1, Least
<1>3. PICK x \in T : d = n - x
  BY <1>2
<1>4. \A y \in T : n - x <= n - y
  BY <1>2, <1>3
<1> QED
  BY <1>4, SMT

\* A total order of a finite set, given by what it says of two of its elements.
LEMMA OrderIsLinear ==
  ASSUME NEW S, NEW before \in [S -> SUBSET S], IsFiniteSet(S),
         \A x \in S : x \notin before[x],
         \A x, y, z \in S : y \in before[x] /\ z \in before[y] => z \in before[x],
         \A x, y \in S : x # y => x \in before[y] \/ y \in before[x]
  PROVE  Linear(S, before)
<1>1. \A x \in S : \A y \in before[x] : before[y] \subseteq before[x]
  BY Zenon
<1> QED
  BY <1>1, Zenon DEF Linear

\* Places in a sequence are ordered from the first to the last and from the last
\* to the first.
LEMMA PlacesAreLinear ==
  ASSUME NEW n \in Nat, NEW S \in SUBSET (1 .. n)
  PROVE  /\ IsFiniteSet(S)
         /\ Linear(S, [i \in S |-> {j \in S : j < i}])
         /\ Linear(S, [i \in S |-> {j \in S : j > i}])
<1>1. IsFiniteSet(1 .. n)
  BY FS_Interval
<1>2. IsFiniteSet(S)
  BY <1>1, FS_Subset
<1>3. \A i, j \in S : i \in Int /\ j \in Int
  BY SMT
<1>4. Linear(S, [i \in S |-> {j \in S : j < i}])
  <2> DEFINE before == [i \in S |-> {j \in S : j < i}]
  <2>1. before \in [S -> SUBSET S] /\ \A i, j \in S : j \in before[i] <=> j < i
    OBVIOUS
  <2> HIDE DEF before
  <2>2. \A i \in S : i \notin before[i]
    BY <1>3, <2>1, SMT
  <2>3. \A i, j, k \in S : j \in before[i] /\ k \in before[j] => k \in before[i]
    BY <1>3, <2>1, SMT
  <2>4. \A i, j \in S : i # j => i \in before[j] \/ j \in before[i]
    BY <1>3, <2>1, SMT
  <2>5. Linear(S, before)
    BY <1>2, <2>1, <2>2, <2>3, <2>4, OrderIsLinear
  <2> QED
    BY <2>5 DEF before
<1>5. Linear(S, [i \in S |-> {j \in S : j > i}])
  <2> DEFINE before == [i \in S |-> {j \in S : j > i}]
  <2>1. before \in [S -> SUBSET S] /\ \A i, j \in S : j \in before[i] <=> j > i
    OBVIOUS
  <2> HIDE DEF before
  <2>2. \A i \in S : i \notin before[i]
    BY <1>3, <2>1, SMT
  <2>3. \A i, j, k \in S : j \in before[i] /\ k \in before[j] => k \in before[i]
    BY <1>3, <2>1, SMT
  <2>4. \A i, j \in S : i # j => i \in before[j] \/ j \in before[i]
    BY <1>3, <2>1, SMT
  <2>5. Linear(S, before)
    BY <1>2, <2>1, <2>2, <2>3, <2>4, OrderIsLinear
  <2> QED
    BY <2>5 DEF before
<1> QED
  BY <1>2, <1>4, <1>5

-----------------------------------------------------------------------------
(* ContextBudget.                                                          *)

\* For every text, and every limit that a hit may have: the slice starts no later
\* than the word that was found and contains it, if the word is no longer than what
\* the smallest limit has room for.
THEOREM FocusKeepsKeyword ==
  ASSUME NEW text \in Texts, NEW limit \in Int, limit >= Floor, text.anchor >= 0
  PROVE  LET kept == FocusText(text, limit)
         IN /\ kept.from <= text.anchor
            /\ text.word <= LongestWord => text.anchor + text.word <= kept.to
<1> USE BudgetAssumption
<1>1. text.len \in Nat /\ text.anchor \in Int /\ text.word \in Nat
      /\ text.anchor + text.word <= text.len
  BY DEF Texts
<1>2. CASE text.len <= limit
  BY <1>1, <1>2, SMT DEF FocusText, Whole
<1>3. CASE text.len > limit
  <2> DEFINE start == Start(text, limit)
             marks == MarkIf(start > 0) + MarkIf(Smaller(text.len, start + limit) < text.len)
  <2>1. limit \div 4 \in Int /\ Floor \div 4 \in Int /\ limit \div 4 >= 0
        /\ limit - limit \div 4 >= Floor - Floor \div 4
    BY SMT
  <2>2. start \in Int /\ start <= text.anchor /\ text.anchor <= start + limit \div 4
    BY <1>1, <2>1, SMT DEF Start, Larger
  <2>3. marks \in Int /\ 0 <= marks /\ marks <= 2 * Mark
    BY SMT DEF MarkIf
  <2>4. FocusText(text, limit).from = start
        /\ FocusText(text, limit).to = Smaller(text.len, start + Larger(0, limit - marks))
    BY <1>1, <1>3, SMT DEF FocusText
  <2>5. LongestWord \in Int /\ LongestWord + limit \div 4 <= limit - marks
    BY <2>1, <2>3, SMT DEF LongestWord
  <2> HIDE DEF start, marks
  <2>6. text.word <= LongestWord =>
          text.anchor + text.word <= start + Larger(0, limit - marks)
    BY <1>1, <2>1, <2>2, <2>3, <2>5, SMT DEF Larger
  <2>7. Larger(0, limit - marks) \in Int
    BY <2>3, SMT DEF Larger
  <2> QED
    BY <1>1, <2>2, <2>4, <2>6, <2>7, SMT DEF Smaller
<1> QED
  BY <1>1, <1>2, <1>3, SMT

\* A slice is longer than its limit by one marker at most.
THEOREM FocusFits ==
  ASSUME NEW text \in Texts, NEW limit \in Int, limit > 3 * Mark
  PROVE  Length(FocusText(text, limit)) <= limit + Mark
<1> USE BudgetAssumption
<1>1. CASE text.len <= limit
  BY <1>1, SMT DEF FocusText, Whole, Length, MarkIf, Texts
<1>2. CASE text.len > limit /\ text.anchor < 0
  BY <1>2, SMT DEF FocusText, Length, MarkIf, Larger, Texts
<1>3. CASE text.len > limit /\ text.anchor >= 0
  <2> DEFINE start == Start(text, limit)
             marks == MarkIf(start > 0) + MarkIf(Smaller(text.len, start + limit) < text.len)
             last == Smaller(text.len, start + Larger(0, limit - marks))
  <2>1. text.len \in Nat /\ start \in Int
    BY <1>3, SMT DEF Texts, Start, Larger
  <2>2. marks \in Int /\ MarkIf(start > 0) <= marks /\ marks <= 2 * Mark
        /\ MarkIf(start > 0) \in Int
    BY SMT DEF MarkIf
  <2>3. FocusText(text, limit) = [from |-> start, to |-> last, head |-> start > 0,
                                  tail |-> last < text.len]
    <3>1. ~ (limit <= 0 \/ text.len <= limit) /\ ~ (text.anchor < 0)
      BY <1>3, SMT DEF Texts
    <3> QED
      BY <3>1, Zenon DEF FocusText
  <2>4. last \in Int /\ last - start <= limit - marks
    BY <2>1, <2>2, SMT DEF Smaller, Larger
  <2>5. MarkIf(last < text.len) <= Mark /\ MarkIf(last < text.len) \in Int
    BY SMT DEF MarkIf
  <2>6. Length(FocusText(text, limit))
          = last - start + MarkIf(start > 0) + MarkIf(last < text.len)
    BY <2>3 DEF Length
  <2> HIDE DEF start, marks, last
  <2> QED
    BY <2>1, <2>2, <2>4, <2>5, <2>6, SMT
<1> QED
  BY <1>1, <1>2, <1>3, SMT DEF Texts

\* Of all hits: whatever their number and the budget, the word is kept if it has
\* room at the smallest share, and no hit exceeds its share by more than a marker.
THEOREM PreparedHits ==
  ASSUME NEW texts \in Seq(Texts), NEW maxChars \in Int
  PROVE  KeywordKept(texts, maxChars) /\ ShareKept(texts, maxChars)
<1> USE BudgetAssumption
<1> SUFFICES ASSUME NEW i \in DOMAIN texts
             PROVE  /\ texts[i].anchor >= 0 =>
                         LET kept == PrepareHits(texts, maxChars)[i]
                         IN /\ kept.from <= texts[i].anchor
                            /\ texts[i].word <= LongestWord =>
                                 texts[i].anchor + texts[i].word <= kept.to
                    /\ maxChars > 0 => Length(PrepareHits(texts, maxChars)[i])
                                         <= PerHit(Len(texts), maxChars) + Mark
  BY DEF KeywordKept, ShareKept
<1>1. texts[i] \in Texts /\ Len(texts) \in Nat /\ Len(texts) > 0
  BY SMT
<1>2. CASE maxChars <= 0
  BY <1>1, <1>2, SMT DEF PrepareHits, Whole, Texts
<1>3. CASE maxChars > 0
  <2>1. PerHit(Len(texts), maxChars) \in Int /\ PerHit(Len(texts), maxChars) >= Floor
        /\ PerHit(Len(texts), maxChars) > 3 * Mark
    BY <1>1, SMT DEF PerHit, Larger
  <2>2. PrepareHits(texts, maxChars)[i] = FocusText(texts[i], PerHit(Len(texts), maxChars))
    BY <1>3, SMT DEF PrepareHits
  <2> QED
    BY <1>1, <1>3, <2>1, <2>2, FocusKeepsKeyword, FocusFits
<1> QED
  BY <1>2, <1>3, SMT

-----------------------------------------------------------------------------
(* Flattening.                                                             *)

\* The pieces of the recursion that FlattenSeq is defined by.
Joined(seqs, g, k) ==
  /\ DOMAIN g = 1 .. k
  /\ \A i \in 1 .. k : g[i] = IF i = 1 THEN seqs[i] ELSE g[i - 1] \o seqs[i]

\* What the recursion has joined so far is a sequence over S: by the least place
\* where it would not be.
LEMMA JoinedIsSeq ==
  ASSUME NEW S, NEW seqs \in Seq(Seq(S)), NEW k \in 0 .. Len(seqs), NEW g, Joined(seqs, g, k)
  PROVE  \A i \in 1 .. k : g[i] \in Seq(S)
<1> DEFINE bad == {i \in 1 .. k : g[i] \notin Seq(S)}
<1> SUFFICES ASSUME bad # {} PROVE FALSE
  OBVIOUS
<1>1. Len(seqs) \in Nat /\ k \in Nat /\ \A i \in 1 .. k : seqs[i] \in Seq(S)
  BY SMT
<1>2. bad \in SUBSET Nat
  BY <1>1, SMT
<1>3. PICK i \in bad : \A j \in bad : i <= j
  <2> HIDE DEF bad
  <2> QED
    BY <1>2, Least
<1>4. i \in 1 .. k /\ g[i] \notin Seq(S)
  OBVIOUS
<1>5. CASE i = 1
  <2>1. g[i] = seqs[i]
    BY <1>4, <1>5, Zenon DEF Joined
  <2> QED
    BY <1>1, <1>4, <2>1
<1>6. CASE i # 1
  <2>1. i - 1 \in 1 .. k /\ ~ (i <= i - 1)
    BY <1>1, <1>4, <1>6, SMT
  <2>2. g[i - 1] \in Seq(S)
    BY <1>3, <2>1
  <2>3. g[i] = g[i - 1] \o seqs[i]
    BY <1>4, <1>6, Zenon DEF Joined
  <2> QED
    BY <1>1, <1>4, <2>2, <2>3, ConcatProperties
<1> QED
  BY <1>5, <1>6

\* The recursion can be carried to the end: by the least place where it could not.
LEMMA JoinedExists ==
  ASSUME NEW S, NEW seqs \in Seq(Seq(S))
  PROVE  \E g : Joined(seqs, g, Len(seqs))
<1> DEFINE bad == {k \in 0 .. Len(seqs) : ~ \E g : Joined(seqs, g, k)}
<1>1. Len(seqs) \in Nat /\ Len(seqs) \in 0 .. Len(seqs) /\ bad \in SUBSET Nat
  BY SMT
<1> SUFFICES ASSUME bad # {} PROVE FALSE
  BY <1>1, Zenon
<1>2. PICK k \in bad : \A j \in bad : k <= j
  <2> HIDE DEF bad
  <2> QED
    BY <1>1, Least
<1>3. k \in 0 .. Len(seqs) /\ ~ \E g : Joined(seqs, g, k)
  OBVIOUS
<1>4. CASE k = 0
  <2>1. Joined(seqs, [i \in 1 .. k |-> i], k)
    BY <1>4, SMT DEF Joined
  <2> QED
    BY <1>3, <2>1
<1>5. CASE k # 0
  <2>1. k - 1 \in 0 .. Len(seqs) /\ ~ (k <= k - 1)
    BY <1>1, <1>3, <1>5, SMT
  <2>2. PICK g : Joined(seqs, g, k - 1)
    BY <1>2, <2>1
  <2> DEFINE h == [i \in 1 .. k |-> IF i # k THEN g[i]
                                    ELSE IF k = 1 THEN seqs[k] ELSE g[k - 1] \o seqs[k]]
  <2>3. ASSUME NEW i \in 1 .. k
        PROVE  h[i] = IF i = 1 THEN seqs[i] ELSE h[i - 1] \o seqs[i]
    <3>1. i = 1 \/ (i - 1 \in 1 .. k /\ i - 1 # k)
      BY <1>1, <1>3, SMT
    <3>2. CASE i = k
      BY <3>1, <3>2, Zenon
    <3>3. CASE i # k
      <4>1. i \in 1 .. k - 1
        BY <1>1, <1>3, <3>3, SMT
      <4>2. g[i] = IF i = 1 THEN seqs[i] ELSE g[i - 1] \o seqs[i]
        BY <2>2, <4>1, Zenon DEF Joined
      <4> QED
        BY <3>1, <3>3, <4>2, Zenon
    <3> QED
      BY <3>2, <3>3
  <2>4. Joined(seqs, h, k)
    <3>1. DOMAIN h = 1 .. k
      OBVIOUS
    <3> HIDE DEF h
    <3> QED
      BY <2>3, <3>1, Zenon DEF Joined
  <2> QED
    BY <1>3, <2>4, Zenon
<1> QED
  BY <1>4, <1>5

\* FlattenSeq of sequences over S is one.
LEMMA Flattening ==
  ASSUME NEW S, NEW seqs \in Seq(Seq(S))
  PROVE  FlattenSeq(seqs) \in Seq(S)
<1> DEFINE n == Len(seqs)
           F(f) == [i \in 1 .. n |-> IF i = 1 THEN seqs[i] ELSE f[i - 1] \o seqs[i]]
           flatten == CHOOSE f : f = F(f)
<1>1. n \in Nat
  BY SMT
<1>2. CASE n = 0
  BY <1>2, EmptySeq, SMT DEF FlattenSeq
<1>3. CASE n # 0
  <2>1. PICK g : Joined(seqs, g, n) /\ g = F(g)
    <3>1. PICK g : Joined(seqs, g, n)
      BY JoinedExists
    <3> DEFINE f == F(g)
    <3>2. \A i \in 1 .. n : f[i] = g[i]
      BY <3>1, Zenon DEF Joined
    <3>3. DOMAIN f = 1 .. n
      BY Zenon
    <3>4. \A i \in 1 .. n : i = 1 \/ i - 1 \in 1 .. n
      BY <1>1, SMT
    <3>5. \A i \in 1 .. n : f[i] = IF i = 1 THEN seqs[i] ELSE f[i - 1] \o seqs[i]
      <4> HIDE DEF f, n
      <4> QED
        BY <3>1, <3>2, <3>4, Zenon DEF Joined
    <3>6. Joined(seqs, f, n)
      <4> HIDE DEF f, n
      <4> QED
        BY <3>3, <3>5, Zenon DEF Joined
    <3>7. f = F(f)
      <4>1. f = [i \in 1 .. n |-> f[i]]
        OBVIOUS
      <4> HIDE DEF f, n
      <4> QED
        BY <3>5, <4>1, Zenon
    <3> HIDE DEF f, F
    <3> QED
      BY <3>6, <3>7
  <2>2. flatten = F(flatten)
    <3> HIDE DEF F
    <3> QED
      BY <2>1, Zenon
  <2>3. Joined(seqs, flatten, n)
    <3>1. DOMAIN flatten = 1 .. n
      BY <2>2, Zenon
    <3>2. \A i \in 1 .. n :
            flatten[i] = IF i = 1 THEN seqs[i] ELSE flatten[i - 1] \o seqs[i]
      BY <2>2, Zenon
    <3> HIDE DEF flatten, n
    <3> QED
      BY <3>1, <3>2, Zenon DEF Joined
  <2>4. FlattenSeq(seqs) = flatten[n]
    BY <1>3 DEF FlattenSeq
  <2> HIDE DEF flatten
  <2>5. n \in 0 .. Len(seqs) /\ n \in 1 .. n
    BY <1>1, <1>3, SMT
  <2>6. \A i \in 1 .. n : flatten[i] \in Seq(S)
    BY <2>3, <2>5, JoinedIsSeq
  <2> QED
    BY <2>4, <2>5, <2>6
<1> QED
  BY <1>2, <1>3

-----------------------------------------------------------------------------
(* Chunks.                                                                 *)

Order(pieces) ==
  LET kept == Kept(pieces)
  IN Sorted(kept, [i \in kept |-> {j \in kept : j < i}])

\* Ordinals are 0, 1, ... in the order of the texts that are not blank.
LEMMA NumberFacts ==
  ASSUME NEW T, NEW pieces \in Seq(T)
  PROVE  LET kept == Kept(pieces)
             order == Order(pieces)
             n == Cardinality(kept)
             chunks == Number(pieces)
         IN /\ Len(pieces) \in Nat /\ kept \in SUBSET (1 .. Len(pieces))
            /\ IsFiniteSet(kept) /\ n \in Nat /\ (n = 0 <=> kept = {})
            /\ order \in [1 .. n -> kept]
            /\ \A i \in kept : \E r \in 1 .. n : order[r] = i
            /\ \A r, q \in 1 .. n : order[r] < order[q] <=> r < q
            /\ DOMAIN chunks = 1 .. n /\ Len(chunks) = n
            /\ \A r \in 1 .. n : chunks[r] = [ordinal |-> r - 1, text |-> pieces[order[r]]]
            /\ n # 0 => chunks # <<>>
            /\ n = 0 => chunks = <<>>
<1> DEFINE kept == Kept(pieces)
           before == [i \in kept |-> {j \in kept : j < i}]
           order == Order(pieces)
           n == Cardinality(kept)
           chunks == Number(pieces)
<1>1. Len(pieces) \in Nat /\ DOMAIN pieces = 1 .. Len(pieces)
  BY SMT
<1>2. kept \in SUBSET (1 .. Len(pieces))
  BY <1>1, Zenon DEF Kept
<1>3. order = Sorted(kept, before)
  BY DEF Order
<1>4. chunks = [r \in DOMAIN order |-> [ordinal |-> r - 1, text |-> pieces[order[r]]]]
  BY Zenon DEF Number, Order
<1>5. \A i, j \in kept : j \in before[i] <=> j < i
  OBVIOUS
<1> HIDE DEF order, chunks
<1>6. IsFiniteSet(kept) /\ Linear(kept, before)
  <2> HIDE DEF kept
  <2> QED
    BY <1>1, <1>2, PlacesAreLinear
<1>7. n = 0 <=> kept = {}
  BY <1>6, FS_EmptySet
<1> HIDE DEF kept, before
<1>8. /\ n \in Nat
      /\ order \in [1 .. n -> kept]
      /\ \A i \in kept : \E r \in 1 .. n : order[r] = i
      /\ \A r, q \in 1 .. n : order[r] \in before[order[q]] <=> r < q
  BY <1>3, <1>6, SortedFacts
<1>9. \A r, q \in 1 .. n : order[r] < order[q] <=> r < q
  BY <1>5, <1>8, Zenon
<1> HIDE DEF n
<1>10. /\ DOMAIN chunks = 1 .. n
       /\ \A r \in 1 .. n : chunks[r] = [ordinal |-> r - 1, text |-> pieces[order[r]]]
  <2>1. DOMAIN order = 1 .. n
    BY <1>8
  <2> QED
    BY <1>4, <2>1, Zenon
<1>11. Len(chunks) = n
  <2>1. chunks \in [1 .. n -> {chunks[r] : r \in 1 .. n}]
    <3>1. chunks = [r \in 1 .. n |-> chunks[r]]
      BY <1>4, <1>10, Zenon
    <3> QED
      BY <3>1, Zenon
  <2> QED
    BY <1>8, <2>1, SMT
<1>12. n # 0 => chunks # <<>>
  BY <1>11, SMT
<1>13. n = 0 => chunks = <<>>
  <2> SUFFICES ASSUME n = 0 PROVE chunks = <<>>
    OBVIOUS
  <2>1. chunks \in Seq({chunks[r] : r \in 1 .. n})
    <3>1. chunks = [r \in 1 .. n |-> chunks[r]]
      BY <1>4, <1>10, Zenon
    <3>2. chunks \in [1 .. n -> {chunks[r] : r \in 1 .. n}]
      BY <3>1, Zenon
    <3> QED
      BY <1>8, <3>2, SMT
  <2> QED
    BY <1>11, <2>1, EmptySeq, SMT
<1> QED
  BY <1>1, <1>2, <1>6, <1>7, <1>8, <1>9, <1>10, <1>11, <1>12, <1>13, Zenon
  DEF kept, order, n, chunks

\* order enumerates S, each element once.
Enumerates(order, S, n) ==
  /\ n \in Nat
  /\ order \in [1 .. n -> S]
  /\ \A x \in S : \E r \in 1 .. n : order[r] = x
  /\ \A r, q \in 1 .. n : order[r] = order[q] => r = q

\* The places of order from low to high are those after r, to q.
Spans(order, n, low, high, r, q) ==
  \A t \in 1 .. n : (low < order[t] /\ order[t] <= high) <=> (r < t /\ t <= q)

TextsOf(kept, low, high) == {k \in kept : low < k /\ k <= high}

\* From one text to another there are as many as between their ordinals.
LEMMA TextsBetween ==
  ASSUME NEW kept, NEW n, NEW order, Enumerates(order, kept, n),
         NEW r \in 0 .. n, NEW q \in r .. n, NEW low, NEW high,
         Spans(order, n, low, high, r, q)
  PROVE  Cardinality(TextsOf(kept, low, high)) = q - r
<1> DEFINE between == TextsOf(kept, low, high)
           places == r + 1 .. q
           f == [t \in places |-> order[t]]
<1> USE DEF Enumerates, Spans, TextsOf
<1>1. \A t \in places : t \in 1 .. n /\ r < t /\ t <= q
  BY SMT
<1>2. \A t \in 1 .. n : r < t /\ t <= q => t \in places
  BY SMT
<1>3. IsFiniteSet(places) /\ Cardinality(places) = q - r
  <2>1. r + 1 \in Int /\ q \in Int /\ r + 1 <= q + 1 /\ q - (r + 1) + 1 = q - r
    BY SMT
  <2> QED
    BY <2>1, IntervalSize
<1> HIDE DEF places
<1>4. f \in [places -> between]
  BY <1>1, Zenon
<1>5. \A t, u \in places : f[t] = f[u] => t = u
  BY <1>1, Zenon
<1>6. \A k \in between : \E t \in places : f[t] = k
  BY <1>2, Zenon
<1> HIDE DEF f, between
<1>7. f \in Bijection(places, between)
  BY <1>4, <1>5, <1>6, Fun_IsBij
<1>8. Cardinality(between) = Cardinality(places)
  BY <1>3, <1>7, FS_Bijection, Zenon DEF ExistsBijection
<1> QED
  BY <1>3, <1>8 DEF between

\* How often p goes into k, and what that says of comparing multiples of p.
LEMMA Dividing ==
  ASSUME NEW p \in Nat \ {0}, NEW k \in Nat
  PROVE  /\ k \div p \in Nat
         /\ p * (k \div p) \in Nat
         /\ p * (k \div p) <= k
         /\ k < p * (k \div p) + p
  BY SMT

LEMMA Multiples ==
  ASSUME NEW p \in Nat \ {0}, NEW a \in Int, NEW b \in Int
  PROVE  /\ p * a \in Int
         /\ p * (a - b) = p * a - p * b
         /\ p * (a - 1) = p * a - p
         /\ p * a < p * b => a < b
  BY SMT

\* Row k of a document that was saved by p passes is of chunk q: each chunk has p
\* rows, next to each other.
RowOf(p, k, q) == p * q - p <= k - 1 /\ k - 1 < p * q

\* Every row is of a chunk, and ids are places.
Laid(rows, chunks, size, p) ==
  /\ p * size \in Nat
  /\ DOMAIN rows = 1 .. p * size
  /\ Len(rows) = p * size
  /\ \A k \in 1 .. p * size :
       /\ rows[k].id = k
       /\ \E q \in 1 .. size : /\ RowOf(p, k, q)
                               /\ rows[k].ordinal = chunks[q].ordinal
                               /\ rows[k].text = chunks[q].text

\* get_chunks returns such rows.
LEMMA StoredFacts ==
  ASSUME NEW chunks, NEW size \in Nat, DOMAIN chunks = 1 .. size, Len(chunks) = size,
         NEW p \in Nat \ {0}
  PROVE  Laid(Stored(chunks, p), chunks, size, p)
<1> DEFINE rows == Stored(chunks, p)
           ChunkAt(k) == chunks[(k - 1) \div p + 1]
<1>1. p * size \in Nat
  BY SMT
<1>2. rows = [k \in 1 .. p * size |->
                [id |-> k, ordinal |-> ChunkAt(k).ordinal, text |-> ChunkAt(k).text]]
  BY DEF Stored
<1>3. DOMAIN rows = 1 .. p * size
  BY <1>2
<1>4. Len(rows) = p * size
  <2>1. rows \in [1 .. p * size -> {rows[k] : k \in 1 .. p * size}]
    BY <1>2, Zenon
  <2> HIDE DEF rows
  <2> QED
    BY <1>1, <2>1, SMT
<1>5. ASSUME NEW k \in 1 .. p * size
      PROVE  \E q \in 1 .. size : RowOf(p, k, q) /\ chunks[q] = ChunkAt(k)
  <2> DEFINE q == (k - 1) \div p
  <2>1. k - 1 \in Nat /\ k - 1 < p * size
    BY <1>1, SMT
  <2>2. q \in Nat /\ p * q \in Nat /\ p * q <= k - 1 /\ k - 1 < p * q + p
    BY <2>1, Dividing
  <2>3. ChunkAt(k) = chunks[q + 1]
    OBVIOUS
  <2> HIDE DEF q
  <2>4. p * q < p * size
    BY <1>1, <2>1, <2>2, SMT
  <2>5. q < size
    BY <2>2, <2>4, Multiples
  <2>6. q + 1 \in 1 .. size
    BY <2>2, <2>5, SMT
  <2>7. p * (q + 1) = p * q + p
    BY <2>2, SMT
  <2>8. RowOf(p, k, q + 1)
    BY <2>1, <2>2, <2>7, SMT DEF RowOf
  <2> QED
    BY <2>3, <2>6, <2>8
<1> HIDE DEF ChunkAt
<1>6. \A k \in 1 .. p * size : /\ rows[k].id = k /\ rows[k].ordinal = ChunkAt(k).ordinal
                               /\ rows[k].text = ChunkAt(k).text
  BY <1>2
<1>7. \A k \in 1 .. p * size :
        /\ rows[k].id = k
        /\ \E q \in 1 .. size : /\ RowOf(p, k, q)
                                /\ rows[k].ordinal = chunks[q].ordinal
                                /\ rows[k].text = chunks[q].text
  <2> HIDE DEF rows
  <2> TAKE k \in 1 .. p * size
  <2>1. PICK q \in 1 .. size : RowOf(p, k, q) /\ chunks[q] = ChunkAt(k)
    BY <1>5
  <2> QED
    BY <1>6, <2>1
<1> HIDE DEF rows
<1> QED
  BY <1>1, <1>3, <1>4, <1>7, Zenon DEF Laid, rows

\* Rows n places apart are of chunks about n / p apart.
LEMMA Reaching ==
  ASSUME NEW p \in Nat \ {0}, NEW n \in Nat, NEW k \in Int, NEW r \in Int, NEW q \in Int,
         RowOf(p, k, q), RowOf(p, k + n, r)
  PROVE  q <= r /\ n - p < p * (r - q) /\ p * (r - q) < n + p
<1>1. p * q \in Int /\ p * r \in Int /\ p * (r - q) = p * r - p * q
  BY Multiples
<1>2. p * q - p < p * r
  BY <1>1, SMT DEF RowOf
<1>3. q - 1 < r
  <2>1. p * (q - 1) = p * q - p
    BY Multiples
  <2>2. q - 1 \in Int
    BY SMT
  <2> QED
    BY <1>2, <2>1, <2>2, Multiples
<1> QED
  BY <1>1, <1>3, SMT DEF RowOf

\* Of every document, saved by any number of passes: no text is lost, and a row's
\* neighbours are texts before and after it, as far away as n rows reach, or none
\* if there are fewer (chonkie_chunker.py and get_chunk_neighbors of
\* postgres_document_repo.py).
THEOREM ContextOfChunk ==
  ASSUME NEW T, NEW blocks \in Seq(Seq(T)), NEW markdown \in Seq(T),
         NEW p \in Nat \ {0}, NEW n \in Int
  PROVE  ContextIsAdjacent(blocks, markdown, p, n)
<1> DEFINE chunks == Chunk(blocks, markdown)
           pieces == Pieces(blocks, markdown)
           kept == Kept(pieces)
           order == Order(pieces)
           size == Cardinality(kept)
           rows == Stored(chunks, p)
           texts(i, j) == Cardinality(TextsOf(kept, i, j))
           reached(m) == n - p < p * m /\ p * m < n + p
<1>1. FlattenSeq(blocks) \in Seq(T)
  BY Flattening
<1>2. pieces \in Seq(T)
  BY <1>1 DEF Pieces
<1>3. chunks = Number(pieces)
  <2>1. Number(FlattenSeq(blocks)) = <<>> <=> Kept(FlattenSeq(blocks)) = {}
    BY <1>1, NumberFacts, Zenon
  <2> QED
    BY <2>1, Zenon DEF Chunk, Pieces
<1> HIDE DEF chunks, pieces
<1>4. /\ Len(pieces) \in Nat /\ kept \in SUBSET (1 .. Len(pieces))
      /\ size \in Nat
      /\ order \in [1 .. size -> kept]
      /\ \A i \in kept : \E r \in 1 .. size : order[r] = i
      /\ \A r, q \in 1 .. size : order[r] < order[q] <=> r < q
      /\ DOMAIN chunks = 1 .. size /\ Len(chunks) = size
      /\ \A r \in 1 .. size : chunks[r] = [ordinal |-> r - 1, text |-> pieces[order[r]]]
  BY <1>2, <1>3, NumberFacts
<1> HIDE DEF kept, order, size
<1>5. \A r \in 1 .. size : /\ r \in Int /\ order[r] \in kept /\ order[r] \in Int
                           /\ 0 < order[r] /\ order[r] <= Len(pieces)
  <2>1. \A r \in 1 .. size : order[r] \in kept /\ order[r] \in 1 .. Len(pieces)
    BY <1>4, Zenon
  <2>2. \A x \in 1 .. Len(pieces) : x \in Int /\ 0 < x /\ x <= Len(pieces)
    BY <1>4, SMT
  <2>3. \A r \in 1 .. size : r \in Int
    BY <1>4, SMT
  <2> QED
    BY <2>1, <2>2, <2>3, Zenon
<1>6. \A r, q \in 1 .. size : /\ order[r] = order[q] => r = q
                              /\ order[r] <= order[q] <=> r <= q
  BY <1>4, <1>5, SMT
<1>7. Enumerates(order, kept, size)
  BY <1>4, <1>6, Zenon DEF Enumerates
<1>8. \A r \in 1 .. size : texts(0, order[r]) = r
  <2> TAKE r \in 1 .. size
  <2>1. 0 \in 0 .. size /\ r \in 0 .. size /\ r - 0 = r
    BY <1>4, SMT
  <2>2. \A t \in 1 .. size : 0 < order[t] /\ 0 < t
    BY <1>4, <1>5, SMT
  <2>3. Spans(order, size, 0, order[r], 0, r)
    BY <1>6, <2>2, Zenon DEF Spans
  <2>4. Cardinality(TextsOf(kept, 0, order[r])) = r - 0
    BY <1>7, <2>1, <2>3, TextsBetween
  <2> QED
    BY <2>1, <2>4
<1>9. \A r, q \in 1 .. size : r <= q => texts(order[r], order[q]) = q - r
  <2> SUFFICES ASSUME NEW r \in 1 .. size, NEW q \in 1 .. size, r <= q
               PROVE  texts(order[r], order[q]) = q - r
    BY Zenon
  <2>1. r \in 0 .. size /\ q \in r .. size
    BY <1>4, SMT
  <2>2. Spans(order, size, order[r], order[q], r, q)
    BY <1>4, <1>6, Zenon DEF Spans
  <2>3. Cardinality(TextsOf(kept, order[r], order[q])) = q - r
    BY <1>7, <2>1, <2>2, TextsBetween
  <2> QED
    BY <2>3
<1>10. \A r \in 1 .. size : texts(order[r], Len(pieces)) = size - r
  <2> TAKE r \in 1 .. size
  <2>1. r \in 0 .. size /\ size \in r .. size
    BY <1>4, SMT
  <2>2. \A t \in 1 .. size : t <= size
    BY <1>4, SMT
  <2>3. Spans(order, size, order[r], Len(pieces), r, size)
    BY <1>4, <1>5, <2>2, Zenon DEF Spans
  <2>4. Cardinality(TextsOf(kept, order[r], Len(pieces))) = size - r
    BY <1>7, <2>1, <2>3, TextsBetween
  <2> QED
    BY <2>4
<1> HIDE DEF texts, rows
<1>11. \A r \in 1 .. size : chunks[r].ordinal = r - 1 /\ chunks[r].text = pieces[order[r]]
  BY <1>4
<1>12. /\ p * size \in Nat /\ DOMAIN rows = 1 .. p * size /\ Len(rows) = p * size
       /\ \A k \in 1 .. p * size :
            /\ rows[k].id = k
            /\ \E q \in 1 .. size : /\ RowOf(p, k, q)
                                    /\ rows[k].ordinal = q - 1
                                    /\ rows[k].text = pieces[order[q]]
  <2>1. /\ p * size \in Nat /\ DOMAIN rows = 1 .. p * size /\ Len(rows) = p * size
        /\ \A k \in 1 .. p * size :
             /\ rows[k].id = k
             /\ \E q \in 1 .. size : /\ RowOf(p, k, q)
                                     /\ rows[k].ordinal = chunks[q].ordinal
                                     /\ rows[k].text = chunks[q].text
    <3>1. Laid(rows, chunks, size, p)
      BY <1>4, StoredFacts DEF rows
    <3> QED
      BY <3>1, Zenon DEF Laid
  <2>2. \A k \in 1 .. p * size : \A q \in 1 .. size :
          rows[k].ordinal = chunks[q].ordinal /\ rows[k].text = chunks[q].text
            => rows[k].ordinal = q - 1 /\ rows[k].text = pieces[order[q]]
    BY <1>11, Zenon
  <2> HIDE DEF rows
  <2> QED
    BY <2>1, <2>2, Zenon
<1>13. \A q \in 0 .. p * size - 1 : At(rows, q) = rows[q + 1] /\ q + 1 \in 1 .. p * size
  BY <1>12, SMT DEF At
<1>14. ASSUME NEW row \in ToSet(rows), n >= 0
       PROVE  \E i \in kept :
                LET around == Neighbors(rows, row, n)
                IN /\ row.text = pieces[i] /\ row.ordinal + 1 = texts(0, i)
                   /\ \/ around.before = NoChunk /\ p * (texts(0, i) - 1) < n
                      \/ \E j \in kept : /\ around.before.text = pieces[j]
                                         /\ j <= i /\ reached(texts(j, i))
                   /\ \/ around.after = NoChunk /\ p * texts(i, Len(pieces)) < n
                      \/ \E j \in kept : /\ around.after.text = pieces[j]
                                         /\ i <= j /\ reached(texts(i, j))
  <2>1. PICK k \in 1 .. p * size : row = rows[k]
    BY <1>12, Zenon DEF ToSet
  <2>2. PICK r \in 1 .. size : /\ RowOf(p, k, r) /\ row.ordinal = r - 1
                               /\ row.text = pieces[order[r]]
    BY <1>12, <2>1, Zenon
  <2>3. k \in Int /\ r \in Int /\ n \in Nat /\ k - 1 \in 0 .. p * size - 1 /\ k - 1 + 1 = k
    BY <1>4, <1>12, <1>14, SMT
  <2> DEFINE idx == CHOOSE q \in 0 .. Len(rows) - 1 : At(rows, q) = row
             around == Neighbors(rows, row, n)
             i == order[r]
  <2>4. idx = k - 1
    <3>1. At(rows, k - 1) = row
      BY <1>13, <2>1, <2>3, Zenon
    <3>2. ASSUME NEW q \in 0 .. p * size - 1, At(rows, q) = row PROVE q = k - 1
      <4>1. rows[q + 1].id = q + 1 /\ rows[q + 1] = rows[k] /\ rows[k].id = k
        BY <1>12, <1>13, <2>1, <3>2, Zenon
      <4> QED
        BY <2>3, <4>1, SMT
    <3> QED
      BY <1>12, <2>3, <3>1, <3>2, Zenon
  <2>5. around = [before |-> IF idx - n >= 0 THEN At(rows, idx - n) ELSE NoChunk,
                  after |-> IF idx + n < Len(rows) THEN At(rows, idx + n) ELSE NoChunk]
    BY Zenon DEF Neighbors
  <2> HIDE DEF idx, around
  <2>6. i \in kept /\ row.text = pieces[i] /\ row.ordinal + 1 = texts(0, i)
    <3>1. r - 1 + 1 = r
      BY SMT
    <3> QED
      BY <1>5, <1>8, <2>2, <3>1, Zenon
  <2>7. \/ around.before = NoChunk /\ p * (texts(0, i) - 1) < n
        \/ \E j \in kept : /\ around.before.text = pieces[j]
                           /\ j <= i /\ reached(texts(j, i))
    <3>1. CASE idx - n >= 0
      <4>1. idx - n \in 0 .. p * size - 1 /\ idx - n + 1 = k - n /\ k - n + n = k
            /\ k - n \in Int
        BY <1>12, <2>3, <2>4, <3>1, SMT
      <4>2. around.before = rows[k - n] /\ k - n \in 1 .. p * size
        BY <1>13, <2>5, <3>1, <4>1
      <4>3. PICK q \in 1 .. size : RowOf(p, k - n, q) /\ rows[k - n].text = pieces[order[q]]
        BY <1>12, <4>2, Zenon
      <4>4. q \in Int /\ RowOf(p, k - n + n, r)
        BY <2>2, <4>1
      <4>5. q <= r /\ reached(r - q)
        BY <2>3, <4>1, <4>3, <4>4, Reaching
      <4>6. order[q] \in kept /\ order[q] <= i /\ texts(order[q], i) = r - q
        BY <1>5, <1>6, <1>9, <4>5, Zenon
      <4> HIDE DEF i
      <4> QED
        BY <4>2, <4>3, <4>5, <4>6
    <3>2. CASE ~ (idx - n >= 0)
      <4>1. texts(0, i) = r
        BY <1>8
      <4>2. p * (r - 1) = p * r - p /\ p * r \in Int
        BY <2>3, Multiples
      <4>3. p * (r - 1) < n
        BY <2>2, <2>3, <2>4, <3>2, <4>2, SMT DEF RowOf
      <4> HIDE DEF i
      <4> QED
        BY <2>5, <3>2, <4>1, <4>3
    <3> QED
      BY <3>1, <3>2
  <2>8. \/ around.after = NoChunk /\ p * texts(i, Len(pieces)) < n
        \/ \E j \in kept : /\ around.after.text = pieces[j]
                           /\ i <= j /\ reached(texts(i, j))
    <3>1. CASE idx + n < Len(rows)
      <4>1. idx + n \in 0 .. p * size - 1 /\ idx + n + 1 = k + n
        BY <1>12, <2>3, <2>4, <3>1, SMT
      <4>2. around.after = rows[k + n] /\ k + n \in 1 .. p * size
        BY <1>13, <2>5, <3>1, <4>1
      <4>3. PICK q \in 1 .. size : RowOf(p, k + n, q) /\ rows[k + n].text = pieces[order[q]]
        BY <1>12, <4>2, Zenon
      <4>4. q \in Int
        OBVIOUS
      <4>5. r <= q /\ reached(q - r)
        BY <2>2, <2>3, <4>3, <4>4, Reaching
      <4>6. order[q] \in kept /\ i <= order[q] /\ texts(i, order[q]) = q - r
        BY <1>5, <1>6, <1>9, <4>5, Zenon
      <4> HIDE DEF i
      <4> QED
        BY <4>2, <4>3, <4>5, <4>6
    <3>2. CASE ~ (idx + n < Len(rows))
      <4>1. texts(i, Len(pieces)) = size - r
        BY <1>10
      <4>2. p * (size - r) = p * size - p * r /\ p * r \in Int
        BY <1>4, <2>3, Multiples
      <4>3. p * (size - r) < n
        BY <1>12, <2>2, <2>3, <2>4, <3>2, <4>2, SMT DEF RowOf
      <4> HIDE DEF i
      <4> QED
        BY <2>5, <3>2, <4>1, <4>3
    <3> QED
      BY <3>1, <3>2
  <2> HIDE DEF i
  <2> QED
    BY <2>6, <2>7, <2>8, Zenon DEF around
<1> QED
  BY <1>12, <1>14, Zenon
  DEF ContextIsAdjacent, TextsFrom, TextsOf, chunks, pieces, kept, size, texts, rows

-----------------------------------------------------------------------------
(* Retrieval.                                                              *)

\* Points of one search.
PointsOfSearch(S) == S \subseteq Points /\ IsFiniteSet(S) /\ Untied(S)

\* Some points of a search are points of a search.
LEMMA SubsetOfPoints ==
  ASSUME NEW S, PointsOfSearch(S), NEW T \in SUBSET S
  PROVE  PointsOfSearch(T) /\ Cardinality(T) \in Nat /\ Cardinality(T) <= Cardinality(S)
<1>1. IsFiniteSet(T) /\ Cardinality(T) <= Cardinality(S)
  BY FS_Subset DEF PointsOfSearch
<1>2. Untied(T)
  BY Zenon DEF PointsOfSearch, Untied
<1> QED
  BY <1>1, <1>2, FS_CardinalityType, Zenon DEF PointsOfSearch

\* A query for the k best by a criterion returns k, or all there are, and no
\* other point scores higher.
LEMMA BestFacts ==
  ASSUME NEW S, PointsOfSearch(S), NEW by \in Criteria, NEW k \in Nat
  PROVE  /\ Best(S, by, k) \in SUBSET S
         /\ Cardinality(Best(S, by, k)) = IF Cardinality(S) < k THEN Cardinality(S) ELSE k
         /\ Cardinality(Best(S, by, k)) < k => Best(S, by, k) = S
         /\ \A p \in Best(S, by, k), q \in S \ Best(S, by, k) : p[by] > q[by]
<1> DEFINE before == [p \in S |-> {q \in S : q[by] > p[by]}]
<1>1. \A p \in S : p[by] \in Int
  BY SMT DEF PointsOfSearch, Points, Criteria
<1>2. \A p, q \in S : p[by] = q[by] => p = q
  BY DEF PointsOfSearch, Untied
<1>3. before \in [S -> SUBSET S] /\ \A p, q \in S : q \in before[p] <=> q[by] > p[by]
  OBVIOUS
<1>4. Best(S, by, k) = FirstOf(S, before, k)
  BY DEF Best
<1> HIDE DEF before
<1>5. Linear(S, before)
  <2>1. \A p \in S : p \notin before[p]
    BY <1>1, <1>3, SMT
  <2>2. \A p, q, r \in S : q \in before[p] /\ r \in before[q] => r \in before[p]
    BY <1>1, <1>3, SMT
  <2>3. \A p, q \in S : p # q => p \in before[q] \/ q \in before[p]
    BY <1>1, <1>2, <1>3, SMT
  <2> QED
    BY <1>3, <2>1, <2>2, <2>3, OrderIsLinear DEF PointsOfSearch
<1>6. /\ FirstOf(S, before, k) \subseteq S
      /\ Cardinality(FirstOf(S, before, k)) = IF Cardinality(S) < k THEN Cardinality(S) ELSE k
      /\ Cardinality(FirstOf(S, before, k)) < k => FirstOf(S, before, k) = S
      /\ \A p \in FirstOf(S, before, k), q \in S \ FirstOf(S, before, k) : p \in before[q]
  BY <1>5, FirstOfFacts
<1> QED
  BY <1>3, <1>4, <1>6, Zenon

\* What is found when the vector index is asked for k candidates: those that
\* match, and k of them unless there are fewer.
Matching(points, request) ==
  {p \in points : /\ request.docs # {} => p.doc \in request.docs
                  /\ ~ request.hybrid => p.dense >= request.minScore}

\* The threshold of a dense query, and the union of the two prefetches of a hybrid
\* one, lose no point that matches as long as k are found.
LEMMA QueryFills ==
  ASSUME NEW points, PointsOfSearch(points), NEW request \in Requests, NEW k \in Nat
  PROVE  LET n == Cardinality(Matching(points, request))
         IN /\ Query(points, request, k) \subseteq Matching(points, request)
            /\ n \in Nat
            /\ Cardinality(Query(points, request, k)) = IF n < k THEN n ELSE k
<1> DEFINE eligible == Filtered(points, request)
           matching == Matching(points, request)
<1>1. eligible \in SUBSET points /\ matching \in SUBSET eligible
  BY Zenon DEF Filtered, Matching
<1>2. PointsOfSearch(eligible) /\ Cardinality(eligible) \in Nat
  BY <1>1, SubsetOfPoints
<1>3. Cardinality(matching) \in Nat /\ PointsOfSearch(matching)
  BY <1>1, SubsetOfPoints, Zenon
<1>4. CASE request.hybrid
  <2> DEFINE dense == Best(eligible, "dense", 3 * k)
             matched == {p \in eligible : p.sparse > 0}
             sparse == Best(matched, "sparse", 3 * k)
  <2>1. matching = eligible
    BY <1>4, Zenon DEF Matching, Filtered
  <2>2. Query(points, request, k) = Best(dense \cup sparse, "fused", k)
    BY <1>4 DEF Query, Fetched
  <2>3. 3 * k \in Nat
    BY SMT
  <2>4. /\ dense \in SUBSET eligible
        /\ Cardinality(dense) = IF Cardinality(eligible) < 3 * k THEN Cardinality(eligible)
                                ELSE 3 * k
        /\ sparse \in SUBSET eligible
    <3>1. PointsOfSearch(matched) /\ matched \in SUBSET eligible
      BY <1>2, SubsetOfPoints
    <3> HIDE DEF matched, eligible
    <3>2. sparse \in SUBSET matched
      BY <2>3, <3>1, BestFacts DEF Criteria
    <3> QED
      BY <1>2, <2>3, <3>1, <3>2, BestFacts DEF Criteria
  <2>5. /\ PointsOfSearch(dense \cup sparse)
        /\ Cardinality(dense \cup sparse) \in Nat
        /\ Cardinality(dense \cup sparse) <= Cardinality(eligible)
    <3>1. dense \cup sparse \in SUBSET eligible
      BY <2>4
    <3> QED
      BY <1>2, <3>1, SubsetOfPoints
  <2>6. Cardinality(dense) <= Cardinality(dense \cup sparse)
    <3>1. dense \in SUBSET (dense \cup sparse)
      BY Zenon
    <3> HIDE DEF dense, sparse
    <3> QED
      BY <2>5, <3>1, SubsetOfPoints
  <2> HIDE DEF dense, sparse, matched, eligible
  <2>7. /\ Best(dense \cup sparse, "fused", k) \in SUBSET (dense \cup sparse)
        /\ Cardinality(Best(dense \cup sparse, "fused", k))
             = IF Cardinality(dense \cup sparse) < k THEN Cardinality(dense \cup sparse) ELSE k
    BY <2>5, BestFacts DEF Criteria
  <2>8. Query(points, request, k) \subseteq matching
    BY <2>1, <2>2, <2>4, <2>7, Zenon
  <2>9. Cardinality(Query(points, request, k))
          = IF Cardinality(eligible) < k THEN Cardinality(eligible) ELSE k
    BY <1>2, <2>2, <2>4, <2>5, <2>6, <2>7, SMT
  <2> QED
    BY <1>3, <2>1, <2>8, <2>9
<1>5. CASE ~ request.hybrid
  <2> DEFINE dense == Best(eligible, "dense", k)
             query == {p \in dense : p.dense >= request.minScore}
  <2>1. matching = {p \in eligible : p.dense >= request.minScore}
    BY <1>5, Zenon DEF Matching, Filtered
  <2>2. Query(points, request, k) = query
    BY <1>5 DEF Query
  <2>3. /\ dense \in SUBSET eligible
        /\ Cardinality(dense) = IF Cardinality(eligible) < k THEN Cardinality(eligible) ELSE k
        /\ Cardinality(dense) < k => dense = eligible
        /\ \A p \in dense, q \in eligible \ dense : p["dense"] > q["dense"]
    BY <1>2, BestFacts DEF Criteria
  <2>4. \A p \in eligible : p.dense \in Int
    BY <1>2, SMT DEF PointsOfSearch, Points
  <2>5. request.minScore \in Int
    BY DEF Requests
  <2> HIDE DEF dense, eligible
  <2>6. query = matching \/ (query = dense /\ dense # eligible)
    <3>1. CASE dense = eligible
      BY <2>1, <3>1
    <3>2. CASE query # dense
      <4>1. PICK p \in dense : ~ (p.dense >= request.minScore)
        BY <3>2
      <4>2. \A q \in eligible \ dense : ~ (q.dense >= request.minScore)
        BY <2>3, <2>4, <2>5, <4>1, SMT
      <4> QED
        BY <2>1, <2>3, <4>2
    <3> QED
      BY <3>1, <3>2
  <2>7. query \in SUBSET matching
    BY <2>1, <2>3
  <2>8. Cardinality(query) \in Nat /\ Cardinality(query) <= Cardinality(matching)
        /\ Cardinality(matching) <= Cardinality(eligible)
    BY <1>1, <1>2, <1>3, <2>7, SubsetOfPoints DEF eligible
  <2>9. Cardinality(query) <= Cardinality(dense)
    BY <1>2, <2>3, SubsetOfPoints DEF query
  <2> HIDE DEF query
  <2>10. Cardinality(query) = IF Cardinality(matching) < k THEN Cardinality(matching) ELSE k
    <3>1. CASE query = matching
      BY <1>2, <1>3, <2>3, <2>9, <3>1, SMT
    <3>2. CASE query = dense /\ dense # eligible
      BY <1>2, <1>3, <2>3, <2>8, <3>2, SMT
    <3> QED
      BY <2>6, <3>1, <3>2
  <2> QED
    BY <1>3, <2>2, <2>7, <2>10
<1> QED
  BY <1>4, <1>5

\* Of every search: its hits match, and there are as many as were asked for or as
\* there are (SearchDocuments.execute and QdrantIndex.search).
THEOREM SearchIsFilled ==
  ASSUME NEW points, PointsOfSearch(points), NEW request \in Requests
  PROVE  SearchFills(points, request)
<1> DEFINE k == request.topK * Multiplier
           candidates == Query(points, request, k)
           matching == Matching(points, request)
           n == Cardinality(matching)
<1>1. request.topK \in Nat
  BY DEF Requests
<1>2. k \in Nat /\ k >= request.topK
  BY <1>1, RetrievalAssumption, SMT
<1>3. PICK by \in Criteria : Search(points, request) = Best(candidates, by, request.topK)
  BY Zenon DEF Search, Criteria
<1> HIDE DEF k
<1>4. /\ candidates \subseteq matching /\ n \in Nat
      /\ Cardinality(candidates) = IF n < k THEN n ELSE k
  BY <1>2, QueryFills
<1>5. PointsOfSearch(candidates) /\ Cardinality(candidates) \in Nat
  <2>1. candidates \in SUBSET points
    BY <1>4 DEF Matching
  <2> HIDE DEF candidates
  <2> QED
    BY <2>1, SubsetOfPoints
<1> HIDE DEF candidates, matching
<1>6. /\ Best(candidates, by, request.topK) \in SUBSET candidates
      /\ Cardinality(Best(candidates, by, request.topK))
           = IF Cardinality(candidates) < request.topK THEN Cardinality(candidates)
             ELSE request.topK
  BY <1>1, <1>5, BestFacts
<1>7. Search(points, request) \subseteq matching
  BY <1>3, <1>4, <1>6, Zenon
<1>8. Cardinality(Search(points, request)) = IF n < request.topK THEN n ELSE request.topK
  BY <1>1, <1>2, <1>3, <1>4, <1>6, SMT
<1> QED
  BY <1>7, <1>8, Zenon DEF SearchFills, Matching, matching

\* Every chunk has one first hit.
LEMMA FirstOfEachFacts ==
  ASSUME NEW hits \in Seq(Hits)
  PROVE  /\ Len(hits) \in Nat /\ FirstOfEach(hits) \in SUBSET (1 .. Len(hits))
         /\ \A i, j \in FirstOfEach(hits) : hits[i].chunk = hits[j].chunk => i = j
         /\ \A i \in 1 .. Len(hits) :
              \E j \in FirstOfEach(hits) : hits[j].chunk = hits[i].chunk
<1>1. Len(hits) \in Nat /\ DOMAIN hits = 1 .. Len(hits)
  BY SMT
<1>2. FirstOfEach(hits) \in SUBSET (1 .. Len(hits))
  BY <1>1, Zenon DEF FirstOfEach
<1>3. ASSUME NEW i \in FirstOfEach(hits), NEW j \in FirstOfEach(hits),
             hits[i].chunk = hits[j].chunk
      PROVE  i = j
  <2>1. \A k \in FirstOfEach(hits) :
          k \in 1 .. Len(hits) /\ \A l \in 1 .. k - 1 : hits[l].chunk # hits[k].chunk
    BY <1>1, Zenon DEF FirstOfEach
  <2>2. ~ (i \in 1 .. j - 1) /\ ~ (j \in 1 .. i - 1)
    BY <1>3, <2>1, Zenon
  <2>3. i \in 1 .. Len(hits) /\ j \in 1 .. Len(hits)
    BY <2>1, Zenon
  <2> QED
    BY <1>1, <2>2, <2>3, SMT
<1>4. ASSUME NEW i \in 1 .. Len(hits)
      PROVE  \E j \in FirstOfEach(hits) : hits[j].chunk = hits[i].chunk
  <2> DEFINE same == {j \in 1 .. Len(hits) : hits[j].chunk = hits[i].chunk}
  <2>1. same \in SUBSET Nat /\ i \in same
    BY <1>1, SMT
  <2>2. PICK j \in same : \A k \in same : j <= k
    <3> HIDE DEF same
    <3> QED
      BY <2>1, Least
  <2>3. \A k \in 1 .. j - 1 : k \in 1 .. Len(hits) /\ ~ (j <= k)
    BY <1>1, SMT
  <2>4. \A k \in 1 .. j - 1 : hits[k].chunk # hits[j].chunk
    BY <2>2, <2>3, Zenon
  <2>5. j \in FirstOfEach(hits)
    BY <1>1, <2>4, Zenon DEF FirstOfEach
  <2> QED
    BY <2>5
<1> QED
  BY <1>1, <1>2, <1>3, <1>4

\* A stable sort by score puts hits in a linear order.
LEMMA AboveIsLinear ==
  ASSUME NEW hits \in Seq(Hits), NEW S \in SUBSET (1 .. Len(hits))
  PROVE  Linear(S, Above(hits, S)) /\ Cardinality(S) \in Nat
<1> DEFINE before == Above(hits, S)
<1>1. Len(hits) \in Nat /\ \A i \in S : i \in Int /\ hits[i].score \in Int
  <2>1. \A i \in S : i \in Int /\ hits[i] \in Hits
    BY SMT
  <2>2. Len(hits) \in Nat
    BY SMT
  <2>3. \A h \in Hits : h.score \in Int
    BY DEF Hits
  <2> QED
    BY <2>1, <2>2, <2>3
<1>2. /\ before \in [S -> SUBSET S]
      /\ \A i, j \in S : j \in before[i] <=> \/ hits[j].score > hits[i].score
                                             \/ hits[j].score = hits[i].score /\ j < i
  BY Zenon DEF Above
<1>3. IsFiniteSet(S)
  BY <1>1, PlacesAreLinear
<1> HIDE DEF before
<1>4. \A i \in S : i \notin before[i]
  BY <1>1, <1>2, SMT
<1>5. \A i, j, k \in S : j \in before[i] /\ k \in before[j] => k \in before[i]
  BY <1>1, <1>2, SMT
<1>6. \A i, j \in S : i # j => i \in before[j] \/ j \in before[i]
  BY <1>1, <1>2, SMT
<1>7. Linear(S, before)
  BY <1>2, <1>3, <1>4, <1>5, <1>6, OrderIsLinear
<1> QED
  BY <1>3, <1>7, FS_CardinalityType DEF before

\* Of all lists of hits: merging has each chunk once, best scores first, leaves out
\* no better one, and all are there if they are fewer than topK (_merge_hits).
THEOREM MergedIsBest ==
  ASSUME NEW lists \in Seq(Seq(Hits)), NEW topK \in Nat
  PROVE  MergeKeepsBest(lists, topK)
<1> DEFINE hits == FlattenSeq(lists)
           first == FirstOfEach(hits)
           above == Above(hits, first)
           order == Sorted(first, above)
           n == Cardinality(first)
           m == IF n <= topK THEN n ELSE topK
           merged == MergeHits(lists, topK)
           chunks == {merged[i].chunk : i \in DOMAIN merged}
<1>1. hits \in Seq(Hits)
  BY Flattening
<1> HIDE DEF hits
<1>2. /\ Len(hits) \in Nat /\ first \in SUBSET (1 .. Len(hits))
      /\ \A i, j \in first : hits[i].chunk = hits[j].chunk => i = j
      /\ \A i \in 1 .. Len(hits) : \E j \in first : hits[j].chunk = hits[i].chunk
  BY <1>1, FirstOfEachFacts
<1>3. \A i \in 1 .. Len(hits) : hits[i] \in Hits /\ hits[i].score \in Int
  <2>1. \A i \in 1 .. Len(hits) : hits[i] \in Hits
    BY <1>1, SMT
  <2>2. \A h \in Hits : h.score \in Int
    BY DEF Hits
  <2> QED
    BY <2>1, <2>2
<1>4. DOMAIN hits = 1 .. Len(hits)
  BY <1>1, SMT
<1>5. \A i \in DOMAIN hits :
        (\A j \in 1 .. i - 1 : hits[j].chunk # hits[i].chunk) => i \in first
  BY Zenon DEF FirstOfEach
<1>6. Linear(first, above) /\ n \in Nat
  <2> HIDE DEF first
  <2> QED
    BY <1>1, <1>2, AboveIsLinear
<1>7. \A i, j \in first : j \in above[i] => hits[j].score >= hits[i].score
  <2>1. \A i, j \in first : j \in above[i] => \/ hits[j].score > hits[i].score
                                              \/ hits[j].score = hits[i].score /\ j < i
    BY Zenon DEF Above
  <2> HIDE DEF first, above
  <2> QED
    BY <1>2, <1>3, <2>1, SMT
<1> HIDE DEF first, above
<1>8. /\ order \in [1 .. n -> first]
      /\ \A i \in first : \E r \in 1 .. n : order[r] = i
      /\ \A r, q \in 1 .. n : order[r] \in above[order[q]] <=> r < q
  BY <1>6, SortedFacts
<1>9. merged = [r \in 1 .. m |-> hits[order[r]]]
  <2>1. merged = [r \in {i \in DOMAIN order : i <= topK} |-> hits[order[r]]]
    BY Zenon DEF MergeHits, hits, first, above
  <2>2. {i \in 1 .. n : i <= topK} = 1 .. m
    BY <1>6, SMT
  <2>3. DOMAIN order = 1 .. n
    BY <1>8
  <2> HIDE DEF order, n, m, merged
  <2> QED
    BY <2>1, <2>2, <2>3, Zenon
<1>10. m \in Nat /\ m <= n /\ m <= topK /\ (m < topK => m = n)
  BY <1>6, SMT
<1> HIDE DEF order, n, m
<1>11. \A r \in 1 .. m : r \in 1 .. n /\ order[r] \in first /\ order[r] \in 1 .. Len(hits)
  <2>1. \A r \in 1 .. m : r \in 1 .. n
    BY <1>6, <1>10, SMT
  <2> QED
    BY <1>2, <1>8, <2>1, Zenon
<1>12. /\ DOMAIN merged = 1 .. m
       /\ \A r \in 1 .. m : merged[r] = hits[order[r]]
  BY <1>9, Zenon
<1>13. Len(merged) = m
  <2>1. merged \in [1 .. m -> Hits]
    BY <1>3, <1>9, <1>11, Zenon
  <2> HIDE DEF merged
  <2> QED
    BY <1>10, <2>1, SMT
<1> HIDE DEF merged
<1>14. \A r, q \in 1 .. n : r < q => hits[order[r]].score >= hits[order[q]].score
                                     /\ order[r] # order[q]
  <2>1. \A r \in 1 .. n : order[r] \in first
    BY <1>8, Zenon
  <2>2. \A i \in first : i \notin above[i]
    BY <1>6, Zenon DEF Linear
  <2> QED
    BY <1>7, <1>8, <2>1, <2>2, Zenon
<1>15. Cardinality(chunks) = Len(merged)
  <2> DEFINE chunkOf == [r \in 1 .. m |-> merged[r].chunk]
  <2>1. chunkOf \in [1 .. m -> chunks]
    BY <1>12, Zenon
  <2>2. \A r, q \in 1 .. m : chunkOf[r] = chunkOf[q] => r = q
    <3>1. \A r, q \in 1 .. m : merged[r].chunk = merged[q].chunk => order[r] = order[q]
      <4> TAKE r, q \in 1 .. m
      <4>1. merged[r] = hits[order[r]] /\ merged[q] = hits[order[q]]
        BY <1>12, Zenon
      <4>2. order[r] \in first /\ order[q] \in first
        BY <1>11, Zenon
      <4> QED
        BY <1>2, <4>1, <4>2, Zenon
    <3>2. \A r, q \in 1 .. m : order[r] = order[q] => r = q
      BY <1>6, <1>10, <1>11, <1>14, SMT
    <3> QED
      BY <3>1, <3>2, Zenon
  <2>3. \A c \in chunks : \E r \in 1 .. m : chunkOf[r] = c
    BY <1>12, Zenon
  <2>4. IsFiniteSet(1 .. m) /\ Cardinality(1 .. m) = m
    <3>1. \A a, b \in Int : IsFiniteSet(a .. b)
                          /\ Cardinality(a .. b) = IF a > b THEN 0 ELSE b - a + 1
      BY FS_Interval
    <3> QED
      BY <1>10, <3>1, SMT
  <2> HIDE DEF chunkOf, chunks
  <2>5. chunkOf \in Bijection(1 .. m, chunks)
    BY <2>1, <2>2, <2>3, Fun_IsBij
  <2>6. Cardinality(chunks) = Cardinality(1 .. m)
    BY <2>4, <2>5, FS_Bijection, Zenon DEF ExistsBijection
  <2> QED
    BY <1>13, <2>4, <2>6
<1>16. \A i, j \in DOMAIN merged : i < j => merged[i].score >= merged[j].score
  BY <1>11, <1>12, <1>14, Zenon
<1>17. Len(merged) < topK => {h.chunk : h \in ToSet(hits)} = chunks
  <2> SUFFICES ASSUME Len(merged) < topK
               PROVE  {h.chunk : h \in ToSet(hits)} = chunks
    OBVIOUS
  <2>1. m = n
    BY <1>10, <1>13
  <2>2. ASSUME NEW h \in ToSet(hits) PROVE h.chunk \in chunks
    <3>1. PICK i \in 1 .. Len(hits) : h = hits[i]
      BY <1>4, Zenon DEF ToSet
    <3>2. PICK j \in first : hits[j].chunk = hits[i].chunk
      BY <1>2, Zenon
    <3>3. PICK r \in 1 .. m : order[r] = j
      BY <1>8, <2>1, Zenon
    <3> QED
      BY <1>12, <3>1, <3>2, <3>3, Zenon
  <2>3. ASSUME NEW c \in chunks PROVE \E h \in ToSet(hits) : c = h.chunk
    <3>1. PICK r \in 1 .. m : c = merged[r].chunk
      BY <1>12, Zenon
    <3>2. merged[r] = hits[order[r]] /\ order[r] \in DOMAIN hits
      BY <1>4, <1>11, <1>12, Zenon
    <3> QED
      BY <3>1, <3>2, Zenon DEF ToSet
  <2> QED
    BY <2>2, <2>3, Zenon
<1>18. ASSUME NEW i \in DOMAIN hits, hits[i].chunk \notin chunks,
              \A j \in 1 .. i - 1 : hits[j].chunk # hits[i].chunk
       PROVE  \A h \in ToSet(merged) : h.score >= hits[i].score
  <2>1. PICK r \in 1 .. n : order[r] = i
    BY <1>5, <1>8, <1>18, Zenon
  <2>2. ~ (r \in 1 .. m)
    BY <1>12, <1>18, <2>1, Zenon
  <2>3. \A q \in 1 .. m : q < r
    BY <1>6, <1>10, <2>2, SMT
  <2>4. \A h \in ToSet(merged) : \E q \in 1 .. m : h = hits[order[q]]
    BY <1>12, Zenon DEF ToSet
  <2> QED
    BY <1>11, <1>14, <2>1, <2>3, <2>4, Zenon
<1> QED
  BY <1>15, <1>16, <1>17, <1>18, Zenon DEF MergeKeepsBest, merged, hits, chunks

-----------------------------------------------------------------------------
(* ChatMessages.                                                           *)

ChatLists == Seq([role : {"user", "assistant", "system"}, text : ChatTexts])

\* Messages that were said are places in the chat.
LEMMA SaidIsPlaces ==
  ASSUME NEW messages \in ChatLists, NEW roles
  PROVE  Len(messages) \in Nat /\ Said(messages, roles) \in SUBSET (1 .. Len(messages))
BY SMT DEF ChatLists, Said

\* The last message of a user that has text is there, or 0 tells that none has.
LEMMA LastUserFacts ==
  ASSUME NEW messages \in ChatLists
  PROVE  LET asked == Said(messages, {"user"})
         IN IF asked = {} THEN LastUser(messages) = 0
            ELSE /\ LastUser(messages) \in asked
                 /\ \A j \in asked : j <= LastUser(messages)
                 /\ LastUser(messages) # 0
<1> DEFINE asked == Said(messages, {"user"})
<1>1. CASE asked = {}
  BY <1>1 DEF LastUser
<1>2. CASE asked # {}
  <2>1. Len(messages) \in Nat /\ asked \in SUBSET (1 .. Len(messages))
    BY SaidIsPlaces
  <2>2. LastUser(messages) = CHOOSE i \in asked : \A j \in asked : j <= i
    BY <1>2 DEF LastUser
  <2> HIDE DEF asked
  <2>3. \E i \in asked : \A j \in asked : j <= i
    BY <1>2, <2>1, Greatest
  <2>4. LastUser(messages) \in asked /\ \A j \in asked : j <= LastUser(messages)
    BY <2>2, <2>3, Zenon
  <2>5. LastUser(messages) # 0
    BY <2>1, <2>4, SMT
  <2> QED
    BY <1>2, <2>4, <2>5 DEF asked
<1> QED
  BY <1>1, <1>2

\* Of every chat: the question is the last one that a user has asked, with its own
\* files if it has any (parse_messages_for_rag).
THEOREM QuestionOfChat ==
  ASSUME NEW messages \in ChatLists
  PROVE  QuestionIsLastAsked(messages)
<1> DEFINE asked == Said(messages, {"user"})
<1> SUFFICES ASSUME NEW i \in asked, \A j \in asked : j <= i
             PROVE  /\ BuildMemoryContext(messages).question = QuestionOf(messages[i].text)
                    /\ messages[i].text.files # {} =>
                         BuildMemoryContext(messages).files = messages[i].text.files
  BY DEF QuestionIsLastAsked
<1>1. asked \in SUBSET (1 .. Len(messages)) /\ Len(messages) \in Nat
  BY SaidIsPlaces
<1>2. LastUser(messages) \in asked /\ i <= LastUser(messages) /\ LastUser(messages) # 0
  BY LastUserFacts, Zenon
<1>3. LastUser(messages) = i
  <2>1. LastUser(messages) <= i
    BY <1>2
  <2>2. i \in Int /\ LastUser(messages) \in Int
    BY <1>1, <1>2, SMT
  <2> HIDE DEF asked
  <2> QED
    BY <1>2, <2>1, <2>2, SMT
<1>4. /\ BuildMemoryContext(messages).question = QuestionOf(messages[i].text)
      /\ BuildMemoryContext(messages).files = Prefetched(messages)
  BY <1>2, <1>3 DEF BuildMemoryContext
<1>5. messages[i].text.files # {} => Prefetched(messages) = messages[i].text.files
  BY <1>2, <1>3 DEF Prefetched
<1> QED
  BY <1>4, <1>5

\* Of every chat: the question is not repeated in the memory, except where the
\* fallback finds it before the last message (_build_memory_context).
THEOREM MemoryOfChat ==
  ASSUME NEW messages \in ChatLists
  PROVE  MemoryWithoutQuestion(messages)
<1> DEFINE last == LastUser(messages)
           said == Said(messages, {"user", "assistant"})
           turns == said \ {last}
           prior == IF Turns = 0 THEN 1 .. Len(messages) - 1
                    ELSE LastOf(1 .. Len(messages) - 1, 2 * Turns)
<1> SUFFICES ASSUME last = Len(messages) \/ said # {last}
             PROVE  last \notin Memory(messages)
  BY Zenon DEF MemoryWithoutQuestion, BuildMemoryContext
<1>1. CASE turns # {}
  <2>1. Memory(messages) \subseteq turns
    BY <1>1 DEF Memory, LastOf, FirstOf
  <2> QED
    BY <2>1
<1>2. CASE turns = {}
  <2>1. Memory(messages) \subseteq prior
    BY <1>2 DEF Memory
  <2>2. prior \subseteq 1 .. Len(messages) - 1
    BY DEF LastOf, FirstOf
  <2>3. Len(messages) \in Nat
    BY SaidIsPlaces
  <2>4. CASE last = Len(messages)
    BY <2>1, <2>2, <2>3, <2>4, SMT
  <2>5. CASE said # {last}
    <3>1. last \notin said
      BY <1>2, <2>5
    <3>2. Said(messages, {"user"}) \subseteq said
      BY DEF Said
    <3>3. last = 0
      BY <3>1, <3>2, LastUserFacts
    <3> QED
      BY <2>1, <2>2, <2>3, <3>3, SMT
  <2> QED
    BY <2>4, <2>5
<1> QED
  BY <1>1, <1>2

-----------------------------------------------------------------------------
(* The calls.                                                              *)

CallTyped ==
  /\ call.of = "prepare_hits" => call.args \in [texts : Seq(Texts), maxChars : Int]
  /\ call.of = "neighbors" => call.args \in [blocks : Seq(Seq(Words \cup {Blank})),
                                            markdown : Seq(Words \cup {Blank}),
                                            passes : Nat \ {0}, n : Int]
  /\ call.of = "search" => PointsOfSearch(call.args.points) /\ call.args.request \in Requests
  /\ call.of = "merge_hits" => call.args \in [lists : Seq(Seq(Hits)), topK : Nat]
  /\ call.of = "messages" => call.args \in ChatLists

\* A call has arguments of its function.
LEMMA CallsAreTyped == Spec => []CallTyped
<1>1. Init => CallTyped
  BY DEF Init, CallTyped
<1>2. CallTyped /\ [Next]_call => CallTyped'
  <2> SUFFICES ASSUME CallTyped, [Next]_call PROVE CallTyped'
    OBVIOUS
  <2>1. CASE \E c \in PrepareHitsCalls : Make("prepare_hits", c)
    BY <2>1, CallsAssumption DEF Make, CallTyped
  <2>2. CASE \E c \in NeighborsCalls : Make("neighbors", c)
    BY <2>2, CallsAssumption DEF Make, CallTyped
  <2>3. CASE \E c \in SearchCalls : Make("search", c)
    BY <2>3, CallsAssumption DEF Make, CallTyped, PointsOfSearch
  <2>4. CASE \E c \in MergeHitsCalls : Make("merge_hits", c)
    BY <2>4, CallsAssumption DEF Make, CallTyped
  <2>5. CASE \E c \in ChatCalls : Make("messages", c)
    <3>1. PICK c \in ChatCalls : call' = [of |-> "messages", args |-> c]
      BY <2>5 DEF Make
    <3>2. c \in ChatLists
      BY CallsAssumption, Zenon DEF ChatLists
    <3>3. call'.of = "messages" /\ call'.args \in ChatLists
      BY <3>1, <3>2
    <3> QED
      BY <3>3 DEF CallTyped
  <2>6. CASE UNCHANGED call
    BY <2>6 DEF CallTyped
  <2> QED
    BY <2>1, <2>2, <2>3, <2>4, <2>5, <2>6 DEF Next
<1> QED
  BY <1>1, <1>2, PTL DEF Spec

\* Whatever hits are prepared for a prompt, each keeps the word of the question it
\* was chosen for, if that is no longer than LongestWord (context_budget.py).
THEOREM CallsKeepKeyword == Spec => []PreparedHitsKeepKeyword
<1>1. CallTyped => PreparedHitsKeepKeyword
  <2> SUFFICES ASSUME CallTyped PROVE PreparedHitsKeepKeyword
    OBVIOUS
  <2> QED
    BY PreparedHits DEF CallTyped, PreparedHitsKeepKeyword
<1> QED
  BY <1>1, CallsAreTyped, PTL

\* ... and none is longer than its share by more than one marker.
THEOREM CallsFitBudget == Spec => []PreparedHitsFit
<1>1. CallTyped => PreparedHitsFit
  <2> SUFFICES ASSUME CallTyped PROVE PreparedHitsFit
    OBVIOUS
  <2> QED
    BY PreparedHits DEF CallTyped, PreparedHitsFit
<1> QED
  BY <1>1, CallsAreTyped, PTL

\* Whatever the document and however many passes have saved it, what is shown before
\* and after a chunk is text that stands there, as far away as n rows reach
\* (chonkie_chunker.py, postgres_document_repo.py).
THEOREM CallsFindNeighbors == Spec => []NeighborsAreAdjacent
<1>1. CallTyped => NeighborsAreAdjacent
  <2> SUFFICES ASSUME CallTyped PROVE NeighborsAreAdjacent
    OBVIOUS
  <2> QED
    BY ContextOfChunk DEF CallTyped, NeighborsAreAdjacent
<1> QED
  BY <1>1, CallsAreTyped, PTL

\* Whatever points match, a search has as many as it was asked for, or all there are
\* (qdrant_index.py, search_documents.py).
THEOREM CallsFillSearches == Spec => []SearchIsComplete
<1>1. CallTyped => SearchIsComplete
  <2> SUFFICES ASSUME CallTyped PROVE SearchIsComplete
    OBVIOUS
  <2> QED
    BY SearchIsFilled DEF CallTyped, SearchIsComplete
<1> QED
  BY <1>1, CallsAreTyped, PTL

\* However lists of hits overlap, merging keeps the best of each chunk (nodes.py).
THEOREM CallsMergeBest == Spec => []MergeIsBest
<1>1. CallTyped => MergeIsBest
  <2> SUFFICES ASSUME CallTyped PROVE MergeIsBest
    OBVIOUS
  <2> QED
    BY MergedIsBest DEF CallTyped, MergeIsBest
<1> QED
  BY <1>1, CallsAreTyped, PTL

\* Whatever a chat consists of, the question is the last a user has asked
\* (parse_webui_rag.py).
THEOREM CallsAskLastQuestion == Spec => []QuestionIsCurrent
<1>1. CallTyped => QuestionIsCurrent
  <2> SUFFICES ASSUME CallTyped PROVE QuestionIsCurrent
    OBVIOUS
  <2> QED
    BY QuestionOfChat DEF CallTyped, QuestionIsCurrent
<1> QED
  BY <1>1, CallsAreTyped, PTL

\* ... and is not in the memory as well, unless nothing but the question was said and
\* it is not the last message (openai_compat.py).
THEOREM CallsRememberPrior == Spec => []MemoryIsPrior
<1>1. CallTyped => MemoryIsPrior
  <2> SUFFICES ASSUME CallTyped PROVE MemoryIsPrior
    OBVIOUS
  <2> QED
    BY MemoryOfChat DEF CallTyped, MemoryIsPrior
<1> QED
  BY <1>1, CallsAreTyped, PTL
=============================================================================
