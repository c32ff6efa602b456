------------------------------ MODULE MCRouter ------------------------------
(* The tasks of two conversations compete for one slot, a command overtakes *)
(* them; the inbox remembers fewer messages than there are.                 *)
EXTENDS Router, TLC

CONSTANTS a1, b1, c1, A, B

MCSessionOf == a1 :> A @@ b1 :> B @@ c1 :> A
=============================================================================
