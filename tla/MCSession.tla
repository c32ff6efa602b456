----------------------------- MODULE MCSession -----------------------------
(***************************************************************************)
(* One session on a small instance: two calls of read-only tools, which    *)
(* may share a batch, and a hidden one that runs alone; three prompts or   *)
(* retries; one executor exception; one death of the process.              *)
(***************************************************************************)
EXTENDS Session
=============================================================================
