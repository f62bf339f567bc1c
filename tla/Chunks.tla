------------------------------- MODULE Chunks -------------------------------
(***************************************************************************)
(* Chunks of a document: how ChonkieChunker numbers them                   *)
(* (adapters/chunking/chonkie_chunker.py), and how get_chunk_neighbors     *)
(* (postgres_document_repo.py) finds those around one.  A piece is a text  *)
(* of its own or Blank.  The splitting of a text is the library's: a block *)
(* comes as the pieces it is split into, none if the block is blank.       *)
(*                                                                         *)
(* A document has the rows of every pass that saved its chunks, and two    *)
(* threads may both make one (Ingestion, DoubleClaim).  A pass saves all   *)
(* its rows in one transaction, and passes over the same file are taken    *)
(* to cut it in the same way, so that their rows differ in their ids only. *)
(***************************************************************************)
EXTENDS Integers, SequencesExt, Rankings

Blank == "blank"
NoChunk == [id |-> 0, ordinal |-> -1, text |-> Blank]
Raised == [id |-> 0, ordinal |-> -1, text |-> "IndexError"]

Kept(pieces) == {i \in DOMAIN pieces : pieces[i] # Blank}

\* Each piece that is not blank gets the next ordinal.
Number(pieces) ==
  LET kept == Kept(pieces)
      order == Sorted(kept, [i \in kept |-> {j \in kept : j < i}])
  IN [r \in DOMAIN order |-> [ordinal |-> r - 1, text |-> pieces[order[r]]]]

\* chunk: blocks in their order; if they yield nothing, the markdown.
Chunk(blocks, markdown) ==
  LET chunks == Number(FlattenSeq(blocks))
  IN IF chunks = <<>> THEN Number(markdown) ELSE chunks

\* get_chunks after so many passes: the rows by ordinal, those of one ordinal in
\* any order.  They have one text, and an id is the place of its row.
Stored(chunks, passes) ==
  [k \in 1 .. passes * Len(chunks) |->
     LET chunk == chunks[(k - 1) \div passes + 1]
     IN [id |-> k, ordinal |-> chunk.ordinal, text |-> chunk.text]]

\* s[i] in Python; s counts from 1 here.
At(s, i) ==
  IF i >= Len(s) \/ i < -Len(s) THEN Raised ELSE IF i >= 0 THEN s[i + 1] ELSE s[Len(s) + i + 1]

\* Variant: the guard on the lower end is missing.
NeighborsUnguarded(rows, row, n) ==
  LET idx == CHOOSE i \in 0 .. Len(rows) - 1 : At(rows, i) = row
  IN [before |-> At(rows, idx - n),
      after |-> IF idx + n < Len(rows) THEN At(rows, idx + n) ELSE NoChunk]

\* get_chunk_neighbors of a row that the document (still) has.  Nothing keeps n
\* from being negative (rest.py:199): no guard stops it then at the other ends.
Neighbors(rows, row, n) ==
  LET idx == CHOOSE i \in 0 .. Len(rows) - 1 : At(rows, i) = row
  IN [before |-> IF idx - n >= 0 THEN At(rows, idx - n) ELSE NoChunk,
      after |-> IF idx + n < Len(rows) THEN At(rows, idx + n) ELSE NoChunk]

-----------------------------------------------------------------------------
(* Properties.                                                             *)

\* The pieces that were chunked, and how many texts are after i, up to j.
Pieces(blocks, markdown) ==
  IF Kept(FlattenSeq(blocks)) # {} THEN FlattenSeq(blocks) ELSE markdown
TextsFrom(pieces, i, j) == Cardinality({k \in Kept(pieces) : i < k /\ k <= j})

\* No text is lost; and of every row, the text n rows before and after it is what
\* stands in the document, also across blocks and blank pieces, as many texts away
\* as n rows reach over: n after one pass, about a half of that after two.  There
\* is none only at the ends (fetch_chunk's context,
\* postgres_document_repo.py:210-236).
ContextIsAdjacent(blocks, markdown, passes, n) ==
  LET rows == Stored(Chunk(blocks, markdown), passes)
      pieces == Pieces(blocks, markdown)
      texts(i, j) == TextsFrom(pieces, i, j)
      reached(m) == n - passes < passes * m /\ passes * m < n + passes
  IN /\ Len(rows) = passes * Cardinality(Kept(pieces))
     /\ n >= 0 => \A row \in ToSet(rows) : \E i \in Kept(pieces) :
          LET around == Neighbors(rows, row, n)
          IN /\ row.text = pieces[i] /\ row.ordinal + 1 = texts(0, i)
             /\ \/ around.before = NoChunk /\ passes * (texts(0, i) - 1) < n
                \/ \E j \in Kept(pieces) : /\ around.before.text = pieces[j]
                                           /\ j <= i /\ reached(texts(j, i))
             /\ \/ around.after = NoChunk /\ passes * texts(i, Len(pieces)) < n
                \/ \E j \in Kept(pieces) : /\ around.after.text = pieces[j]
                                           /\ i <= j /\ reached(texts(i, j))

=============================================================================
