--------------------------- MODULE MCCompThreads ---------------------------
(* CompThreads for TLC; the configurations give the constants their values. *)
EXTENDS CompThreads
=============================================================================
