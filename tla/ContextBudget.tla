--------------------------- MODULE ContextBudget ----------------------------
(***************************************************************************)
(* How query-agent cuts the texts of hits to the budget of a prompt:       *)
(* usecases/context_budget.py.  A text is its length, the place where the  *)
(* first word of the question stands in it (-1 if none does, and then it   *)
(* is cut from the start) and that word's length; what is kept is a slice  *)
(* of it, with a marker where text was cut off.  Lower-casing is taken to  *)
(* keep lengths.                                                           *)
(***************************************************************************)
EXTENDS Integers, Sequences

CONSTANTS Mark,  \* length of either marker: 18
          Floor  \* what a hit is allowed at least: 1500

ASSUME BudgetAssumption == Mark \in Nat /\ Floor \in Nat /\ Floor > 3 * Mark

Larger(a, b) == IF a >= b THEN a ELSE b
Smaller(a, b) == IF a <= b THEN a ELSE b

\* Words of a question have four letters or more.
Texts ==
  {t \in [len : Nat, anchor : Int, word : Nat] :
     \/ t.anchor = -1 /\ t.word = 0
     \/ t.anchor >= 0 /\ t.word >= 4 /\ t.anchor + t.word <= t.len}

\* text[from:to]; head and tail tell whether a marker stands for what was cut.
Slices == [from : Int, to : Int, head : BOOLEAN, tail : BOOLEAN]
Whole(text) == [from |-> 0, to |-> text.len, head |-> FALSE, tail |-> FALSE]
MarkIf(cut) == IF cut THEN Mark ELSE 0
Length(s) == s.to - s.from + MarkIf(s.head) + MarkIf(s.tail)

\* The first word found is a quarter of the limit into the window.
Start(text, limit) == Larger(0, text.anchor - limit \div 4)

\* Variant: the markers are not counted.
FocusTextUncounted(text, limit) ==
  IF limit <= 0 \/ text.len <= limit THEN Whole(text)
  ELSE LET start == IF text.anchor < 0 THEN 0 ELSE Start(text, limit)
           last == Smaller(text.len, start + limit)
       IN [from |-> start, to |-> last, head |-> start > 0, tail |-> last < text.len]

\* Variant: the window starts a whole limit before the word.
FocusTextBefore(text, limit) ==
  IF limit <= 0 \/ text.len <= limit THEN Whole(text)
  ELSE LET start == Larger(0, text.anchor - limit)
       IN [from |-> start, to |-> Smaller(text.len, start + limit - 2 * Mark),
           head |-> start > 0, tail |-> TRUE]

\* The room for the markers is computed before the slice is shortened by them:
\* a slice that reached the end of the text may get a second one after all.
FocusText(text, limit) ==
  IF limit <= 0 \/ text.len <= limit THEN Whole(text)
  ELSE IF text.anchor < 0
  THEN [from |-> 0, to |-> Larger(0, limit - Mark), head |-> FALSE, tail |-> TRUE]
  ELSE LET start == Start(text, limit)
           marks == MarkIf(start > 0) + MarkIf(Smaller(text.len, start + limit) < text.len)
           last == Smaller(text.len, start + Larger(0, limit - marks))
       IN [from |-> start, to |-> last, head |-> start > 0, tail |-> last < text.len]

PerHit(n, maxChars) == Larger(maxChars \div n, Floor)

PrepareHits(texts, maxChars) ==
  [i \in DOMAIN texts |-> IF maxChars <= 0 THEN Whole(texts[i])
                          ELSE FocusText(texts[i], PerHit(Len(texts), maxChars))]

-----------------------------------------------------------------------------
(* Properties.                                                             *)

\* The longest word that has room in the smallest window behind the quarter that
\* may precede it, beside two markers: 1089 letters.  A longer one may be cut.
LongestWord == Floor - Floor \div 4 - 2 * Mark

\* However the budget is shared, and wherever the word stands in its text: what is
\* kept of a hit starts no later than the word of the question for which it was
\* chosen, and contains all of it if it is no longer than LongestWord
\* (context_budget.py:26-33).
KeywordKept(texts, maxChars) ==
  \A i \in DOMAIN texts : texts[i].anchor >= 0 =>
    LET kept == PrepareHits(texts, maxChars)[i]
    IN /\ kept.from <= texts[i].anchor
       /\ texts[i].word <= LongestWord => texts[i].anchor + texts[i].word <= kept.to

\* No hit is longer than its share and one marker, which the second computation
\* of the end may add (context_budget.py:31-37).
ShareKept(texts, maxChars) ==
  \A i \in DOMAIN texts : maxChars > 0 =>
    Length(PrepareHits(texts, maxChars)[i]) <= PerHit(Len(texts), maxChars) + Mark
=============================================================================
