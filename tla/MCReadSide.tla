----------------------------- MODULE MCReadSide -----------------------------
(* ReadSide, without a console, for TLC. *)
EXTENDS ReadSide
=============================================================================
