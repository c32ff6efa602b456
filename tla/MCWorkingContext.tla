-------------------------- MODULE MCWorkingContext --------------------------
(* A context of two parts that are there or not, rounds of one or two      *)
(* calls, a reset after two updates, six messages, two deaths and one      *)
(* record with a line separator in its text: enough for a round torn by a  *)
(* death, a compaction after it and a second restart that reads that       *)
(* compaction, and for a record that is read once and then lost.           *)
EXTENDS WorkingContext, TLC

(* The parts of the context are told apart only by their names. *)
KeySymmetry == Permutations(Keys)
=============================================================================
