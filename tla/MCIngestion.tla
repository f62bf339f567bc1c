---------------------------- MODULE MCIngestion -----------------------------
(* Ingestion for TLC: threads and contents are interchangeable model values. *)
EXTENDS IngestionInvariant, TLC

Symmetry == Permutations(Workers) \cup Permutations(Contents) \cup Permutations(Deleters)
=============================================================================
