------------------------------ MODULE MCOutbox ------------------------------
(***************************************************************************)
(* The outbox on a small instance: three tasks (a worker, a /cancel reply  *)
(* and a second worker), two idempotency keys, two attempts, three calls,  *)
(* one restart.  Three tasks and a key used again after its entry was      *)
(* dropped are what the lock's bookkeeping could get wrong: a holder, a    *)
(* waiter that may be cancelled, and a newcomer race for an entry.         *)
(***************************************************************************)
EXTENDS Outbox
=============================================================================
