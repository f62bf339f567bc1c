--------------------------- MODULE DocumentStatus ---------------------------
(***************************************************************************)
(* The status of a document and the table of its legal changes:            *)
(* IngestionStatus, _VALID_TRANSITIONS and can_transition of               *)
(* document-index/app/domain/document.py.                                  *)
(***************************************************************************)

\* Not a status of the code: no row with this id is in the documents table.
Absent == "ABSENT"

Statuses == {"UPLOADED", "EXTRACTING", "CHUNKING", "EMBEDDING", "INDEXED", "FAILED"}

\* The two statuses that _VALID_TRANSITIONS lets nothing follow.
Settled == {"INDEXED", "FAILED"}

Transitions == { <<"UPLOADED",   "EXTRACTING">>,
                 <<"EXTRACTING", "CHUNKING">>,
                 <<"CHUNKING",   "EMBEDDING">>,
                 <<"EMBEDDING",  "INDEXED">> }
               \cup { <<s, "FAILED">> : s \in Statuses \ Settled }

CanTransition(s, t) == <<s, t>> \in Transitions
=============================================================================
