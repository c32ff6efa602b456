----------------------------- MODULE MCApproval -----------------------------
(* Two calls of concurrent conversations that may draw the same id.  *)
EXTENDS Approval
=============================================================================
