----------------------------- MODULE MCStreamIn -----------------------------
(* StreamIn for TLC; the configurations give the constants their values. *)
EXTENDS StreamIn
=============================================================================
