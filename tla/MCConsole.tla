----------------------------- MODULE MCConsole ------------------------------
(* Console, and with it ReadSide and Ingestion, for TLC.  Listeners that have *)
(* something to do with each other run side by side, while other clients      *)
(* upload and delete; a browser off the page and an agent with its tools run  *)
(* beside threads and clients only.  document_detail only calls poll_status.  *)
EXTENDS Console

MCListeners == Callbacks
MCRestReaders == Callbacks \cup {"browser"}
MCTogether == {{"upload_file", "wait_for_indexed"},
               {"document_detail"},
               {"refresh_documents", "delete_doc"},
               {"poll_status", "delete_doc"},
               {"run_search", "show_chunk", "delete_doc"},
               {"browser"}, {"agent"}}
=============================================================================
