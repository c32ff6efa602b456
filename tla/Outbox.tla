------------------------------- MODULE Outbox -------------------------------
(***************************************************************************)
(* The durable outbox of the chat platforms: DeliveryManager               *)
(* (platforms/delivery.py).  deliver(key, ...) takes the lock of the       *)
(* idempotency key (KeyedLock), returns the recorded result if the key was *)
(* delivered before, and otherwise calls the sender up to max_attempts     *)
(* times, appending a record to delivery.jsonl before and after each call. *)
(*                                                                         *)
(* The sender is the platform's API.  It may fail after the platform has   *)
(* accepted the message; the process may die, a record may fail to be      *)
(* appended and the calling task may be cancelled at every suspension.     *)
(***************************************************************************)
EXTENDS KeyedLock

CONSTANTS
  MaxAttempts,   \* max_attempts
  MaxCalls,      \* bound on the calls of deliver
  MaxCrashes     \* bound on restarts of the process

ASSUME OutboxAssumption ==
  MaxAttempts \in Nat \ {0} /\ MaxCalls \in Nat /\ MaxCrashes \in Nat

VARIABLES
  outbox,     \* status of the latest record of a key in delivery.jsonl
  stage,      \* where a task inside the lock is in deliver
  attempt,    \* the loop variable "attempt" of a task
  accepted,   \* messages of a key the platform has accepted
  doubtful,   \* sends of a key whose acceptance was never recorded
  calls,      \* calls of deliver so far
  crashes     \* restarts so far

sendVars == <<outbox, stage, attempt, accepted, doubtful>>
bounds == <<calls, crashes>>
vars == <<lockVars, sendVars, bounds>>

Status == {"none", "attempting", "retrying", "failed", "delivered"}
Stage  == {"enter", "sending", "accepted", "backoff"}

OutboxTypeOK ==
  /\ LockTypeOK
  /\ outbox \in [Key -> Status]
  /\ stage \in [Task -> Stage]
  /\ attempt \in [Task -> 0 .. MaxAttempts]
  /\ accepted \in [Key -> Nat]
  /\ doubtful \in [Key -> Nat]
  /\ calls \in 0 .. MaxCalls
  /\ crashes \in 0 .. MaxCrashes

Init ==
  /\ LockInit
  /\ outbox = [k \in Key |-> "none"]
  /\ stage = [t \in Task |-> "enter"]
  /\ attempt = [t \in Task |-> 0]
  /\ accepted = [k \in Key |-> 0]
  /\ doubtful = [k \in Key |-> 0]
  /\ calls = 0
  /\ crashes = 0

-----------------------------------------------------------------------------
(* A call of deliver reaches the lock of its key. *)
Deliver(t, k) ==
  /\ calls < MaxCalls
  /\ calls' = calls + 1
  /\ Enter(t, k)
  /\ UNCHANGED <<sendVars, crashes>>

GetLock(t) == Acquire(t) /\ UNCHANGED <<sendVars, bounds>>

(* Leaving the lock ends the call; the task may deliver again later. *)
EndCall(t) ==
  /\ Leave(t)
  /\ stage' = [stage EXCEPT ![t] = "enter"]
  /\ attempt' = [attempt EXCEPT ![t] = 0]
  /\ UNCHANGED bounds

At(t, s) == pc[t] = "inside" /\ stage[t] = s

(* latest(key) is "delivered": return the recorded result, send nothing. *)
ReturnPrevious(t) ==
  /\ At(t, "enter") /\ outbox[key[t]] = "delivered"
  /\ EndCall(t)
  /\ UNCHANGED <<outbox, accepted, doubtful>>

(* A faulty variant of Start: it does not look at the outbox. *)
StartUnchecked(t) ==
  /\ At(t, "enter")
  /\ outbox' = [outbox EXCEPT ![key[t]] = "attempting"]
  /\ stage' = [stage EXCEPT ![t] = "sending"]
  /\ attempt' = [attempt EXCEPT ![t] = 1]
  /\ UNCHANGED <<lockVars, accepted, doubtful, bounds>>

(* latest(key) is anything else, a record of a dead process included: the  *)
(* "queued" and "attempting" records are appended and the sender called.   *)
Start(t) ==
  /\ At(t, "enter") /\ outbox[key[t]] # "delivered"
  /\ outbox' = [outbox EXCEPT ![key[t]] = "attempting"]
  /\ stage' = [stage EXCEPT ![t] = "sending"]
  /\ attempt' = [attempt EXCEPT ![t] = 1]
  /\ UNCHANGED <<lockVars, accepted, doubtful, bounds>>

(* The platform accepts the message; the sender has not returned yet. *)
Accept(t) ==
  /\ At(t, "sending")
  /\ accepted' = [accepted EXCEPT ![key[t]] = @ + 1]
  /\ stage' = [stage EXCEPT ![t] = "accepted"]
  /\ UNCHANGED <<lockVars, outbox, attempt, doubtful, bounds>>

(* The sender returns: the "delivered" record is appended. *)
Confirm(t) ==
  /\ At(t, "accepted")
  /\ outbox' = [outbox EXCEPT ![key[t]] = "delivered"]
  /\ EndCall(t)
  /\ UNCHANGED <<accepted, doubtful>>

(* A send whose fate the outbox will not know. *)
CountDoubt(t) ==
  doubtful' = [doubtful EXCEPT ![key[t]] = @ + (IF stage[t] = "accepted" THEN 1 ELSE 0)]

(* A faulty variant of SendFails: one attempt too many. *)
SendFailsOneMore(t) ==
  /\ At(t, "sending") \/ At(t, "accepted")
  /\ CountDoubt(t)
  /\ UNCHANGED accepted
  /\ \/ /\ attempt[t] <= MaxAttempts
        /\ outbox' = [outbox EXCEPT ![key[t]] = "retrying"]
        /\ stage' = [stage EXCEPT ![t] = "backoff"]
        /\ UNCHANGED <<lockVars, attempt, bounds>>
     \/ /\ attempt[t] > MaxAttempts
        /\ outbox' = [outbox EXCEPT ![key[t]] = "failed"]
        /\ EndCall(t)

(* The sender raises, before or after the platform accepted the message:   *)
(* "retrying" and a backoff, or "failed" and the error goes to the caller. *)
SendFails(t) ==
  /\ At(t, "sending") \/ At(t, "accepted")
  /\ CountDoubt(t)
  /\ UNCHANGED accepted
  /\ \/ /\ attempt[t] < MaxAttempts
        /\ outbox' = [outbox EXCEPT ![key[t]] = "retrying"]
        /\ stage' = [stage EXCEPT ![t] = "backoff"]
        /\ UNCHANGED <<lockVars, attempt, bounds>>
     \/ /\ attempt[t] >= MaxAttempts
        /\ outbox' = [outbox EXCEPT ![key[t]] = "failed"]
        /\ EndCall(t)

(* The backoff is over: the next attempt. *)
Retry(t) ==
  /\ At(t, "backoff")
  /\ attempt' = [attempt EXCEPT ![t] = @ + 1]
  /\ outbox' = [outbox EXCEPT ![key[t]] = "attempting"]
  /\ stage' = [stage EXCEPT ![t] = "sending"]
  /\ UNCHANGED <<lockVars, accepted, doubtful, bounds>>

(* The call ends without a final record: its task is cancelled (which no   *)
(* handler of deliver catches) or an append to the outbox raises.          *)
Abandon(t) ==
  /\ pc[t] = "inside"
  /\ CountDoubt(t)
  /\ EndCall(t)
  /\ UNCHANGED <<outbox, accepted>>

CancelQueued(t) == CancelWait(t) /\ UNCHANGED <<sendVars, bounds>>

(* The process dies and starts again: delivery.jsonl is what remains.      *)
Crash ==
  /\ crashes < MaxCrashes
  /\ crashes' = crashes + 1
  /\ doubtful' = [k \in Key |-> doubtful[k] +
       (IF \E t \in Task : At(t, "accepted") /\ key[t] = k THEN 1 ELSE 0)]
  /\ queues' = [k \in Key |-> NoEntry]
  /\ users' = [e \in Entry |-> 0]
  /\ locked' = [e \in Entry |-> FALSE]
  /\ waiters' = [e \in Entry |-> << >>]
  /\ pc' = [t \in Task |-> "outside"]
  /\ ref' = [t \in Task |-> NoEntry]
  /\ stage' = [t \in Task |-> "enter"]
  /\ attempt' = [t \in Task |-> 0]
  /\ key' = [t \in Task |-> NoKey]
  /\ UNCHANGED <<created, outbox, accepted, calls>>

(* What a call of deliver does by itself. *)
Progress(t) ==
  GetLock(t) \/ ReturnPrevious(t) \/ Start(t) \/ Accept(t)
    \/ Confirm(t) \/ SendFails(t) \/ Retry(t)

Next ==
  \/ \E t \in Task :
       \/ \E k \in Key : Deliver(t, k)
       \/ Progress(t)
       \/ Abandon(t)
       \/ CancelQueued(t)
  \/ Crash

(* The event loop runs every ready task; the platform call returns or      *)
(* raises, and the backoff ends.                                           *)
Fairness == \A t \in Task : WF_vars(Progress(t))

Spec == Init /\ [][Next]_vars /\ Fairness

-----------------------------------------------------------------------------
(* A key that is recorded as delivered is never sent again: not by a task  *)
(* that waited for the lock meanwhile, not by a retry of the caller, and   *)
(* not after a restart.                                                    *)
NoResendOfDelivered ==
  [][\A k \in Key : outbox[k] = "delivered" =>
       accepted'[k] = accepted[k] /\ outbox'[k] = "delivered"]_vars

(* An accepted message of key k that needs no lost outcome to explain it. *)
Credited(k) ==
  outbox[k] = "delivered" \/ \E t \in Task : At(t, "accepted") /\ key[t] = k

(* The user sees a message twice only if the outcome of an earlier send    *)
(* was lost (the sender raised although the platform had accepted, or the  *)
(* call was cut between the send and its record): every accepted message   *)
(* but one is accounted for by such a send.                                *)
DuplicateOnlyWhenDoubtful ==
  \A k \in Key : accepted[k] <= doubtful[k] + (IF Credited(k) THEN 1 ELSE 0)

SendsInside == \A t \in Task : pc[t] # "inside" => stage[t] = "enter"

SendsUndelivered ==
  \A t \in Task : stage[t] # "enter" => outbox[key[t]] # "delivered"

AttemptsLeft == \A t \in Task : stage[t] = "backoff" => attempt[t] < MaxAttempts

(* The inductive invariant: only a task inside its lock has begun to send, *)
(* only under a key that is not delivered, and a backoff has an attempt    *)
(* left.  With the exclusion of the lock this keeps two senders of one key *)
(* apart over waits, failures, cancellations and restarts.                 *)
OutboxInv ==
  /\ LockInv /\ OutboxTypeOK
  /\ SendsInside /\ SendsUndelivered /\ AttemptsLeft
  /\ DuplicateOnlyWhenDoubtful

(* Every delivery that waits behind another one for its key returns, is    *)
(* cancelled or fails: the retries of the task in front are bounded.       *)
DeliveryEnds == \A t \in Task : pc[t] = "waiting" ~> pc[t] = "outside"
=============================================================================
