---------------------------- MODULE MCQueryAgent ----------------------------
(* QueryAgent for TLC. *)
EXTENDS QueryAgent
=============================================================================
