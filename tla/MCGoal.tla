------------------------------- MODULE MCGoal -------------------------------
(* Two goals of two attempts each, with cancels, signals, crashes and every *)
(* limit.                                                                   *)
EXTENDS Goal
=============================================================================
