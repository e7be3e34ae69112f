---------------------------- MODULE MCMd5Worker ----------------------------
(* Md5Worker for TLC; the configuration gives the constants their values. *)
EXTENDS Md5Worker
=============================================================================
