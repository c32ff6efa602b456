------------------------------ MODULE Approval ------------------------------
(***************************************************************************)
(* Human approval of a risky tool call: ApprovalGate.authorize             *)
(* (coding_agent/approval/gate.py) asks through ApprovalInbox.wait         *)
(* (approval/interaction.py), which registers a future under a short       *)
(* approval id, sends the question and awaits the future; a chat message   *)
(* that answers goes to ApprovalInbox.resolve.  wait_for bounds the whole  *)
(* by a timeout, the executor ends it when the run is cancelled.           *)
(*                                                                         *)
(* Ending a task takes effect when the task next runs: until then its      *)
(* future may still be resolved, and an answer may be on its way to it.    *)
(***************************************************************************)
EXTENDS Naturals

CONSTANTS
  RiskyCall,   \* tool calls with a risk finding
  ApprovalId,  \* six hex digits of a random uuid
  NoCall       \* no pending approval

ASSUME ApprovalAssumption == NoCall \notin RiskyCall

VARIABLES
  pc,        \* a call is new, asking (the question is being sent), waiting
             \* (for the future) or done
  pending,   \* _pending: approval id -> call
  id,        \* the approval id of a call
  future,    \* the future of a call
  ending,    \* why the task of a call is being ended, if it is
  changed,   \* the normalised call is no longer the one of the request
  decision,  \* the decision of the gate
  told       \* what the user who answered was told

gateVars == <<pc, pending, id, future, ending, changed, decision, told>>

Answer   == {"approve", "deny"}
Decision == {"none", "allowed", "denied-by-policy", "approved", "denied", "timeout",
             "unavailable", "call-mismatch", "cancelled"}

ApprovalTypeOK ==
  /\ pc \in [RiskyCall -> {"new", "asking", "waiting", "done"}]
  /\ pending \in [ApprovalId -> RiskyCall \cup {NoCall}]
  /\ id \in [RiskyCall -> ApprovalId]
  /\ future \in [RiskyCall -> {"open", "cancelled"} \cup Answer]
  /\ ending \in [RiskyCall -> {"no", "timeout", "cancelled"}]
  /\ changed \in [RiskyCall -> BOOLEAN]
  /\ decision \in [RiskyCall -> Decision]
  /\ told \in [RiskyCall -> {"nothing"} \cup Answer]

GateInit ==
  /\ pc = [c \in RiskyCall |-> "new"]
  /\ pending = [i \in ApprovalId |-> NoCall]
  /\ id \in [RiskyCall -> ApprovalId]
  /\ future = [c \in RiskyCall |-> "open"]
  /\ ending = [c \in RiskyCall |-> "no"]
  /\ changed = [c \in RiskyCall |-> FALSE]
  /\ decision = [c \in RiskyCall |-> "none"]
  /\ told = [c \in RiskyCall |-> "nothing"]

-----------------------------------------------------------------------------
Decide(c, d) ==
  /\ pc' = [pc EXCEPT ![c] = "done"]
  /\ decision' = [decision EXCEPT ![c] = d]

Forget(c) == pending' = [pending EXCEPT ![id[c]] = NoCall]

(* The whitelist, the policy or the lack of a handler settles the call. *)
Settle(c) ==
  /\ pc[c] = "new"
  /\ \E d \in {"allowed", "denied-by-policy", "unavailable"} : Decide(c, d)
  /\ UNCHANGED <<pending, id, future, ending, changed, told>>

(* A faulty variant of Ask: a request replaces another one of its id. *)
AskReplaces(c) ==
  /\ pc[c] = "new"
  /\ pending' = [pending EXCEPT ![id[c]] = c]
  /\ pc' = [pc EXCEPT ![c] = "asking"]
  /\ UNCHANGED <<id, future, ending, changed, decision, told>>

(* wait registers the future and begins to send the question.  An id that  *)
(* is taken raises, which makes approval unavailable.                      *)
Ask(c) ==
  /\ pc[c] = "new"
  /\ IF pending[id[c]] = NoCall
     THEN /\ pending' = [pending EXCEPT ![id[c]] = c]
          /\ pc' = [pc EXCEPT ![c] = "asking"]
          /\ UNCHANGED decision
     ELSE Decide(c, "unavailable") /\ UNCHANGED pending
  /\ UNCHANGED <<id, future, ending, changed, told>>

Asked(c) ==
  /\ pc[c] = "asking" /\ ending[c] = "no"
  /\ pc' = [pc EXCEPT ![c] = "waiting"]
  /\ UNCHANGED <<pending, id, future, ending, changed, decision, told>>

AskFails(c) ==
  /\ pc[c] = "asking" /\ ending[c] = "no"
  /\ Forget(c)
  /\ Decide(c, "unavailable")
  /\ UNCHANGED <<id, future, ending, changed, told>>

(* resolve, on the answer of the user who may give it.  Every other answer *)
(* is refused and changes nothing.                                         *)
Respond(c, a) ==
  /\ pending[id[c]] = c
  /\ future[c] = "open"
  /\ future' = [future EXCEPT ![c] = a]
  /\ told' = [told EXCEPT ![c] = a]
  /\ UNCHANGED <<pc, pending, id, ending, changed, decision>>

(* A faulty variant of EndTask: only the wait for the answer is bounded. *)
EndTaskWaiting(c, why) ==
  /\ pc[c] = "waiting" /\ ending[c] = "no"
  /\ ending' = [ending EXCEPT ![c] = why]
  /\ future' = [future EXCEPT ![c] = IF @ = "open" THEN "cancelled" ELSE @]
  /\ UNCHANGED <<pc, pending, id, changed, decision, told>>

(* The timeout of wait_for, or the cancellation of the run, ends the task: *)
(* the future is cancelled at once if the task is waiting for it.          *)
EndTask(c, why) ==
  /\ pc[c] \in {"asking", "waiting"} /\ ending[c] = "no"
  /\ ending' = [ending EXCEPT ![c] = why]
  /\ future' = [future EXCEPT ![c] =
                  IF pc[c] = "waiting" /\ @ = "open" THEN "cancelled" ELSE @]
  /\ UNCHANGED <<pc, pending, id, changed, decision, told>>

(* A faulty variant of Answered: the answer of a call that is being ended  *)
(* counts even if there is none.                                           *)
AnsweredUnlessDenied(c) ==
  /\ pc[c] = "waiting" /\ future[c] # "open"
  /\ Forget(c)
  /\ Decide(c, IF future[c] = "deny" THEN "denied"
               ELSE IF changed[c] THEN "call-mismatch" ELSE "approved")
  /\ UNCHANGED <<id, future, ending, changed, told>>

(* The task runs with an answer, and the gate compares the call again.  An *)
(* ending that came after the answer may still lose against it.            *)
Answered(c) ==
  /\ pc[c] = "waiting" /\ future[c] \in Answer
  /\ Forget(c)
  /\ Decide(c, IF future[c] = "deny" THEN "denied"
               ELSE IF changed[c] THEN "call-mismatch" ELSE "approved")
  /\ UNCHANGED <<id, future, ending, changed, told>>

(* A faulty variant of Ended: the exception is not turned into a decision. *)
EndedUncaught(c) ==
  /\ pc[c] \in {"asking", "waiting"} /\ ending[c] # "no"
  /\ Forget(c)
  /\ Decide(c, "raised")
  /\ UNCHANGED <<id, future, ending, changed, told>>

(* The task runs and finds itself ended. *)
Ended(c) ==
  /\ pc[c] \in {"asking", "waiting"} /\ ending[c] # "no"
  /\ Forget(c)
  /\ Decide(c, ending[c])
  /\ UNCHANGED <<id, future, ending, changed, told>>

(* The workspace changes: the path of the call resolves to another file. *)
Retarget(c) ==
  /\ pc[c] \in {"asking", "waiting"} /\ ~ changed[c]
  /\ changed' = [changed EXCEPT ![c] = TRUE]
  /\ UNCHANGED <<pc, pending, id, future, ending, decision, told>>

-----------------------------------------------------------------------------
Run(c) == Asked(c) \/ AskFails(c) \/ Answered(c) \/ Ended(c)

GateNext == \E c \in RiskyCall :
  \/ Settle(c) \/ Ask(c) \/ Run(c) \/ Retarget(c)
  \/ \E a \in Answer : Respond(c, a)
  \/ \E why \in {"timeout", "cancelled"} : EndTask(c, why)

(* The timer fires and a task that can go on does.  Nothing promises that  *)
(* the question is sent or that somebody answers.                          *)
GateFairness == \A c \in RiskyCall :
  /\ WF_gateVars(EndTask(c, "timeout"))
  /\ WF_gateVars(Answered(c) \/ Ended(c))

GateSpec == GateInit /\ [][GateNext]_gateVars /\ GateFairness

-----------------------------------------------------------------------------
(* The inbox holds exactly the requests whose gate is waiting: no request  *)
(* hides or removes another one, none is left behind.                      *)
PendingIsLive ==
  /\ \A i \in ApprovalId : pending[i] # NoCall =>
       id[pending[i]] = i /\ pc[pending[i]] \in {"asking", "waiting"}
  /\ \A c \in RiskyCall : pc[c] \in {"asking", "waiting"} => pending[id[c]] = c

(* The decision is the user's: approved and denied are what the user was   *)
(* told, what is approved is still the call that was asked about, and a    *)
(* confirmed answer only gets lost to a timeout, a cancellation or a       *)
(* question whose sending fails after it was answered.                     *)
DecidedAsTold ==
  \A c \in RiskyCall : pc[c] = "done" =>
    /\ decision[c] \in {"approved", "call-mismatch"} => told[c] = "approve"
    /\ decision[c] = "approved" => ~ changed[c]
    /\ decision[c] = "denied" => told[c] = "deny"
    /\ told[c] # "nothing" /\ ending[c] = "no"
         => decision[c] \in {"approved", "call-mismatch", "denied", "unavailable"}

(* What makes these inductive: what the user was told is in the future, a  *)
(* future is cancelled only by an ending, nobody answers before the        *)
(* question is registered and nothing is decided before the gate ends.     *)
AnswerKept ==
  \A c \in RiskyCall :
    /\ told[c] # "nothing" <=> future[c] \in Answer
    /\ future[c] \in Answer => told[c] = future[c]
    /\ future[c] = "cancelled" => ending[c] # "no"
    /\ pc[c] = "new" => told[c] = "nothing"
    /\ pc[c] # "done" => decision[c] = "none"

ApprovalInv == ApprovalTypeOK /\ PendingIsLive /\ DecidedAsTold /\ AnswerKept

(* Every question ends in a decision, answered or not. *)
AskedIsDecided == \A c \in RiskyCall : pc[c] = "asking" ~> pc[c] = "done"
=============================================================================
