-------------------------------- MODULE Goal --------------------------------
(***************************************************************************)
(* The durable goal of a session: GoalStore (coding_agent/goal/store.py),  *)
(* the supervisor that makes one attempt after another on it               *)
(* (goal/supervisor.py), the goal tools of the model (goal/tools.py) and   *)
(* CodingAssistant.cancel.                                                 *)
(*                                                                         *)
(* Every change of goal.json takes its file lock, reads the file, writes   *)
(* it by an atomic replacement and drops the lock.  In a chat front end    *)
(* cancel runs between such changes.  In the command line it runs in a     *)
(* signal handler, at any point of the program: a handler that wants the   *)
(* lock of the very change it interrupted waits in vain, times out, and    *)
(* its TimeoutError ends that change.                                      *)
(*                                                                         *)
(* No code outside the store starts a verification, so the status          *)
(* "verifying" is not reached and is left out.  Checkpoints change texts   *)
(* only and are left out too.                                              *)
(***************************************************************************)
EXTENDS Naturals

CONSTANTS
  MaxAttempts,   \* limits.max_attempts
  MaxCost,       \* limits.max_cost_usd, 0 for no limit
  MaxGoals       \* bound on goals created

ASSUME GoalAssumption ==
  MaxAttempts \in Nat \ {0} /\ MaxCost \in Nat /\ MaxGoals \in Nat

VARIABLES
  goal,      \* goal.json: status, attempt_count and spent_cost_usd
  expired,   \* max_duration_seconds have passed since the goal was created
  writing,   \* the change that holds the file lock: what it will write, and
             \* where the program goes on
  pc,        \* where the program is, see Place
  token,     \* the cancellation token of the current run is set
  runs,      \* attempts of this goal that reached the agent loop, counted
             \* up to one too many
  early,     \* the goal was cancelled after an attempt was counted and
             \* before its run had a token
  goals      \* goals created so far

vars == <<goal, expired, writing, pc, token, runs, early, goals>>

Status == {"none", "active", "waiting_for_user", "complete", "failed", "cancelled"}
Ended  == {"complete", "failed", "cancelled"}

(* idle: waiting for the user; loop: the head of the supervisor's loop;    *)
(* begun: an attempt is counted, its run has not entered the agent loop;   *)
(* running: in the agent loop; chat: in the agent loop without the         *)
(* supervisor; stopped, broken: the run ended by itself, or by an error, a *)
(* cancellation or a budget.                                               *)
Place == {"idle", "loop", "begun", "running", "chat", "stopped", "broken"}

GoalState == [status : Status, attempts : 0 .. MaxAttempts, spent : Nat]
Write     == [to : GoalState, next : Place, new : BOOLEAN]
NoWrite   == [to |-> [status |-> "none", attempts |-> 0, spent |-> 0],
              next |-> "idle", new |-> FALSE]

GoalTypeOK ==
  /\ goal \in GoalState
  /\ expired \in BOOLEAN
  /\ writing \in Write
  /\ pc \in Place
  /\ token \in BOOLEAN /\ early \in BOOLEAN
  /\ runs \in Nat /\ goals \in 0 .. MaxGoals

Init ==
  /\ goal = NoWrite.to /\ expired = FALSE
  /\ writing = NoWrite
  /\ pc = "idle"
  /\ token = FALSE /\ runs = 0 /\ early = FALSE /\ goals = 0

-----------------------------------------------------------------------------
Unlocked == writing = NoWrite

(* _mutate up to the write: the lock is held and the file is read. *)
Mutate(g, next) ==
  /\ writing' = [to |-> g, next |-> next, new |-> FALSE]
  /\ UNCHANGED <<goal, expired, pc, token, runs, early, goals>>

(* The write, and the end of the lock.  A new goal starts from nothing. *)
Commit ==
  /\ ~ Unlocked
  /\ goal' = writing.to
  /\ pc' = writing.next
  /\ writing' = NoWrite
  /\ expired' = (expired /\ ~ writing.new)
  /\ early' = (early /\ ~ writing.new)
  /\ runs' = IF writing.new THEN 0 ELSE runs
  /\ UNCHANGED <<token, goals>>

-----------------------------------------------------------------------------
(* What the user starts: a new goal, a resumed one, a plain request. *)
Create ==
  /\ pc = "idle" /\ Unlocked
  /\ goals < MaxGoals /\ goals' = goals + 1
  /\ writing' = [to |-> [status |-> "active", attempts |-> 0, spent |-> 0],
                 next |-> "loop", new |-> TRUE]
  /\ UNCHANGED <<goal, expired, pc, token, runs, early>>

Resume ==
  /\ pc = "idle" /\ Unlocked
  /\ goal.status = "waiting_for_user"
  /\ Mutate([goal EXCEPT !.status = "active"], "loop")

Request ==
  /\ pc = "idle" /\ Unlocked
  /\ pc' = IF goal.status = "active" THEN "loop" ELSE "chat"
  /\ token' = FALSE
  /\ UNCHANGED <<goal, expired, writing, runs, early, goals>>

(* A run the network broke goes on outside the supervisor (retry_network), *)
(* which neither counts it nor adds its cost to the goal.                  *)
RetryNetwork ==
  /\ pc = "idle" /\ Unlocked
  /\ pc' = "chat"
  /\ token' = FALSE
  /\ UNCHANGED <<goal, expired, writing, runs, early, goals>>

-----------------------------------------------------------------------------
(* A faulty variant of LimitReached: one attempt too many. *)
LimitReachedLate(g) ==
  \/ g.attempts > MaxAttempts
  \/ expired
  \/ MaxCost > 0 /\ g.spent >= MaxCost

LimitReached(g) ==
  \/ g.attempts >= MaxAttempts
  \/ expired
  \/ MaxCost > 0 /\ g.spent >= MaxCost

(* A faulty variant of Counted: the attempt is not counted. *)
CountedNever(g) == g

Counted(g) == [g EXCEPT !.attempts = @ + 1]

(* The head of the supervisor's loop with begin_attempt. *)
Stop ==
  /\ pc = "loop" /\ Unlocked
  /\ goal.status # "active"
  /\ pc' = "idle"
  /\ UNCHANGED <<goal, expired, writing, token, runs, early, goals>>

BeginAttempt ==
  /\ pc = "loop" /\ Unlocked
  /\ goal.status = "active"
  /\ IF LimitReached(goal)
     THEN Mutate([goal EXCEPT !.status = "failed"], "idle")
     ELSE Mutate(Counted(goal), "begun")

StartRun ==
  /\ pc = "begun" /\ Unlocked
  /\ pc' = "running"
  /\ token' = FALSE
  /\ runs' = IF runs > MaxAttempts THEN runs ELSE runs + 1
  /\ UNCHANGED <<goal, expired, writing, early, goals>>

InRun == pc \in {"running", "chat"}

(* The tools goal and goal_complete: the model ends an active goal, or     *)
(* hands it to the user; goal(failed) takes any goal.                      *)
ToolEnds ==
  /\ InRun /\ Unlocked /\ ~ token
  /\ goal.status # "none"
  /\ \E s \in {"waiting_for_user", "complete", "failed"} :
       /\ s = "failed" \/ goal.status = "active"
       /\ Mutate([goal EXCEPT !.status = s], pc)

RunEnds ==
  /\ InRun /\ Unlocked
  /\ \E p \in {"stopped", "broken"} :
       /\ token => p = "broken"
       /\ pc' = IF pc = "chat" THEN "idle" ELSE p
  /\ UNCHANGED <<goal, expired, writing, token, runs, early, goals>>

(* finish_attempt and the supervisor's decision to go on. *)
FinishAttempt ==
  /\ pc \in {"stopped", "broken"} /\ Unlocked
  /\ \E cost \in 0 .. 1 :
       LET paid == [goal EXCEPT !.spent = @ + cost]
           done == [paid EXCEPT !.status =
                      IF @ = "active" /\ LimitReached(paid) THEN "failed" ELSE @]
       IN  Mutate(done, IF pc = "broken" \/ done.status # "active" THEN "idle" ELSE "loop")

-----------------------------------------------------------------------------
Cancellable == goal.status \in {"active", "waiting_for_user"}

(* A faulty variant of Cancel: the goal is cancelled, its run is not told. *)
CancelGoalOnly ==
  /\ Unlocked
  /\ Cancellable
  /\ goal' = [goal EXCEPT !.status = "cancelled"]
  /\ early' = (early \/ pc = "begun")
  /\ UNCHANGED <<expired, writing, pc, token, runs, goals>>

(* cancel while no change is under way. *)
Cancel ==
  /\ Unlocked
  /\ InRun \/ Cancellable
  /\ token' = (token \/ InRun)
  /\ goal' = IF Cancellable THEN [goal EXCEPT !.status = "cancelled"] ELSE goal
  /\ early' = (early \/ (pc = "begun" /\ Cancellable))
  /\ UNCHANGED <<expired, writing, pc, runs, goals>>

(* A faulty variant of Interrupt: cancel does not take the lock. *)
InterruptUnlocked ==
  /\ ~ Unlocked
  /\ Cancellable
  /\ token' = (token \/ InRun)
  /\ goal' = [goal EXCEPT !.status = "cancelled"]
  /\ UNCHANGED <<expired, writing, pc, runs, early, goals>>

(* The signal handler interrupts a change.  If the goal on file is still   *)
(* to be cancelled the handler's TimeoutError ends the change, and the     *)
(* program with it unless a tool was making the change; if the loop runs   *)
(* on an ended goal only the token is set; else the handler raises         *)
(* KeyboardInterrupt.                                                      *)
Interrupt ==
  /\ ~ Unlocked
  /\ token' = (token \/ InRun)
  /\ IF Cancellable \/ ~ InRun THEN writing' = NoWrite ELSE UNCHANGED writing
  /\ pc' = IF InRun THEN pc ELSE "idle"
  /\ UNCHANGED <<goal, expired, runs, early, goals>>

(* The time limit of the goal passes. *)
Expire ==
  /\ goal.status # "none" /\ ~ expired
  /\ expired' = TRUE
  /\ UNCHANGED <<goal, writing, pc, token, runs, early, goals>>

(* The process ends, before or after a write, and another one starts. *)
Crash ==
  /\ pc # "idle" \/ ~ Unlocked
  /\ writing' = NoWrite
  /\ pc' = "idle"
  /\ UNCHANGED <<goal, expired, token, runs, early, goals>>

-----------------------------------------------------------------------------
Program == \/ Commit \/ Stop \/ BeginAttempt \/ StartRun \/ FinishAttempt \/ RunEnds
           \/ ToolEnds

User == Create \/ Resume \/ Request \/ RetryNetwork

Next == Program \/ User \/ Cancel \/ Interrupt \/ Expire \/ Crash

(* The program goes on, and a run ends: Session shows it for a cancelled   *)
(* one, and the budgets of time and tools end every other.                 *)
Fairness ==
  /\ WF_vars(Commit \/ Stop \/ BeginAttempt \/ StartRun \/ FinishAttempt)
  /\ SF_vars(RunEnds)

Spec == Init /\ [][Next]_vars /\ Fairness

-----------------------------------------------------------------------------
(* However often the process dies, a goal gets MaxAttempts runs at most,   *)
(* and none that was not counted on file before it started.                *)
RunsCounted == runs <= goal.attempts /\ goal.attempts <= MaxAttempts

(* No lost update and no second life: what a cancel, the model or a limit  *)
(* ended stays ended - whatever change a signal interrupted - until the    *)
(* user creates a new goal.  goal(failed) may relabel it as failed.        *)
EndedStays ==
  [][goal.status \in Ended /\ ~ writing.new
       => goal'.status = goal.status \/ goal'.status = "failed"]_vars

(* A cancelled goal's run is told to stop, unless the cancel came between  *)
(* the count of the attempt and its run.                                   *)
CancelReachesRun ==
  goal.status = "cancelled" /\ pc = "running" => token \/ early

(* What makes these inductive: a run is counted before it starts, and a    *)
(* change under way was computed from the goal that is still on file.      *)
Begun ==
  /\ pc = "begun" => runs < goal.attempts
  /\ pc = "begun" /\ goal.status = "cancelled" => early

WriteIsCurrent ==
  /\ writing.next = "begun" => ~ writing.new /\ runs < writing.to.attempts
  /\ writing.next \in {"begun", "running"} => writing.to.status # "cancelled"
  /\ ~ Unlocked /\ ~ writing.new =>
       /\ runs <= writing.to.attempts
       /\ goal.status \in Ended => writing.to.status \in {goal.status, "failed"}

GoalInv == GoalTypeOK /\ RunsCounted /\ CancelReachesRun /\ Begun /\ WriteIsCurrent

(* The supervisor ends by itself, whatever the model does. *)
SupervisorEnds == pc = "loop" ~> pc = "idle"
=============================================================================
