--------------------------- MODULE MCToolExecutor ---------------------------
(***************************************************************************)
(* The executor on a small instance: two reads of one file, which overlap  *)
(* with each other, two runs of one verification command, and one write in *)
(* any place between them; one retry; one restart.                         *)
(***************************************************************************)
EXTENDS ToolExecutor, TLC

(* Calls of one kind are interchangeable. *)
Kinds == Permutations(Reads) \cup Permutations(Checks)
=============================================================================
