----------------------------- MODULE GoalProofs -----------------------------
(***************************************************************************)
(* The goal of a session is safe for every limit and any number of goals:  *)
(* GoalInv is an inductive invariant of Spec, and RunsCounted,             *)
(* CancelReachesRun and EndedStays follow from it.                         *)
(***************************************************************************)
EXTENDS Goal, TLAPS

LEMMA NoWriteType ==
  /\ NoWrite \in Write /\ NoWrite.to \in GoalState
  /\ NoWrite.next = "idle" /\ NoWrite.new = FALSE
  /\ NoWrite.to.status = "none" /\ NoWrite.to.attempts = 0
<1>1. NoWrite.to \in GoalState
  BY GoalAssumption DEF NoWrite, GoalState, Status
<1> QED
  BY <1>1 DEF NoWrite, Write, Place

LEMMA InitInv == Init => GoalInv
<1> SUFFICES ASSUME Init PROVE GoalInv
  OBVIOUS
<1>1. GoalTypeOK
  <2>1. expired \in BOOLEAN /\ token \in BOOLEAN /\ early \in BOOLEAN
    BY Zenon DEF Init
  <2> QED
    BY <2>1, GoalAssumption, NoWriteType DEF Init, GoalTypeOK, Place
<1>2. RunsCounted
  BY GoalAssumption, NoWriteType DEF Init, RunsCounted
<1>3. CancelReachesRun /\ Begun
  BY DEF Init, CancelReachesRun, Begun
<1>4. WriteIsCurrent
  BY NoWriteType DEF Init, WriteIsCurrent, Unlocked
<1> QED
  BY <1>1, <1>2, <1>3, <1>4 DEF GoalInv

(* What Commit needs of a change when it takes the lock. *)
LEMMA MutateInv ==
  ASSUME GoalInv, NEW g \in GoalState, NEW p \in Place, Mutate(g, p),
         p = "begun" => runs < g.attempts,
         p \in {"begun", "running"} => g.status # "cancelled",
         runs <= g.attempts,
         goal.status \in Ended => g.status \in {goal.status, "failed"}
  PROVE  GoalInv'
  BY DEF Mutate, GoalInv, GoalTypeOK, RunsCounted, CancelReachesRun, Begun, WriteIsCurrent,
         Unlocked, Write

LEMMA NextInv == GoalInv /\ [Next]_vars => GoalInv'
<1> SUFFICES ASSUME GoalInv, [Next]_vars PROVE GoalInv'
  OBVIOUS
<1> USE GoalAssumption
<1>1. CASE Commit
  BY <1>1 DEF Commit, GoalInv, GoalTypeOK, RunsCounted, CancelReachesRun, Begun,
              WriteIsCurrent, Unlocked, NoWrite, GoalState, Write, Place, Status
<1>2. CASE Create
  BY <1>2 DEF Create, GoalInv, GoalTypeOK, RunsCounted, CancelReachesRun, Begun,
              WriteIsCurrent, Unlocked, GoalState, Write, Place, Status
<1>3. CASE Resume
  <2> DEFINE g == [goal EXCEPT !.status = "active"]
  <2>1. g \in GoalState /\ g.attempts = goal.attempts
    BY DEF GoalInv, GoalTypeOK, GoalState, Status
  <2>2. Mutate(g, "loop") /\ goal.status \notin Ended
    BY <1>3 DEF Resume, Ended
  <2> HIDE DEF g
  <2> QED
    BY <2>1, <2>2, MutateInv DEF GoalInv, RunsCounted, Place
<1>4. CASE BeginAttempt
  <2>1. pc = "loop" /\ goal.status = "active" /\ goal.status \notin Ended
    BY <1>4 DEF BeginAttempt, Ended
  <2>2. CASE LimitReached(goal)
    <3> DEFINE g == [goal EXCEPT !.status = "failed"]
    <3>1. g \in GoalState /\ g.attempts = goal.attempts
      BY DEF GoalInv, GoalTypeOK, GoalState, Status
    <3>2. Mutate(g, "idle")
      BY <1>4, <2>2 DEF BeginAttempt
    <3> HIDE DEF g
    <3> QED
      BY <2>1, <3>1, <3>2, MutateInv DEF GoalInv, RunsCounted, Place
  <2>3. CASE ~ LimitReached(goal)
    <3> DEFINE g == Counted(goal)
    <3>1. goal.attempts < MaxAttempts
      BY <2>3 DEF LimitReached, GoalInv, GoalTypeOK, GoalState
    <3>2. /\ g \in GoalState /\ g.status = "active"
          /\ g.attempts = goal.attempts + 1
      BY <2>1, <3>1 DEF Counted, GoalInv, GoalTypeOK, GoalState, Status
    <3>3. Mutate(g, "begun")
      BY <1>4, <2>3 DEF BeginAttempt
    <3>4. runs < g.attempts
      BY <3>2 DEF GoalInv, GoalTypeOK, RunsCounted, GoalState
    <3>5. runs <= g.attempts
      BY <3>2, <3>4 DEF GoalInv, GoalTypeOK, GoalState
    <3> HIDE DEF g
    <3> QED
      BY <2>1, <3>2, <3>3, <3>4, <3>5, MutateInv DEF Place
  <2> QED
    BY <2>2, <2>3
<1>5. CASE ToolEnds
  <2>1. PICK s \in {"waiting_for_user", "complete", "failed"} :
          /\ s = "failed" \/ goal.status = "active"
          /\ Mutate([goal EXCEPT !.status = s], pc)
    BY <1>5 DEF ToolEnds
  <2> DEFINE g == [goal EXCEPT !.status = s]
  <2>2. g \in GoalState /\ g.attempts = goal.attempts /\ g.status = s
    BY DEF GoalInv, GoalTypeOK, GoalState, Status
  <2>3. pc \in Place /\ pc # "begun"
    BY <1>5 DEF ToolEnds, InRun, GoalInv, GoalTypeOK
  <2>4. Mutate(g, pc)
    BY <2>1
  <2>5. goal.status \in Ended => g.status = "failed"
    BY <2>1, <2>2 DEF Ended
  <2> HIDE DEF g
  <2> QED
    BY <2>2, <2>3, <2>4, <2>5, MutateInv DEF GoalInv, RunsCounted
<1>6. CASE FinishAttempt
  <2>1. PICK cost \in 0 .. 1 :
          LET paid == [goal EXCEPT !.spent = @ + cost]
              done == [paid EXCEPT !.status =
                         IF @ = "active" /\ LimitReached(paid) THEN "failed" ELSE @]
          IN  Mutate(done,
                     IF pc = "broken" \/ done.status # "active" THEN "idle" ELSE "loop")
    BY <1>6 DEF FinishAttempt
  <2> DEFINE paid == [goal EXCEPT !.spent = @ + cost]
             done == [paid EXCEPT !.status =
                        IF @ = "active" /\ LimitReached(paid) THEN "failed" ELSE @]
             p == IF pc = "broken" \/ done.status # "active" THEN "idle" ELSE "loop"
  <2>2. paid \in GoalState /\ paid.status = goal.status /\ paid.attempts = goal.attempts
    BY DEF GoalInv, GoalTypeOK, GoalState
  <2> HIDE DEF paid
  <2>3. /\ done \in GoalState /\ done.attempts = goal.attempts
        /\ goal.status # "active" => done.status = goal.status
    BY <2>2 DEF GoalState, Status
  <2>4. Mutate(done, p)
    BY <2>1 DEF paid
  <2>5. p \in {"idle", "loop"}
    OBVIOUS
  <2> HIDE DEF done, p
  <2>6. goal.status \in Ended => done.status = goal.status
    BY <2>3 DEF Ended
  <2>7. p \in Place /\ p # "begun" /\ p # "running"
    BY <2>5 DEF Place
  <2> QED
    BY <2>3, <2>4, <2>6, <2>7, MutateInv DEF GoalInv, RunsCounted
<1>7. CASE StartRun
  <2>1. GoalTypeOK'
    <3>1. token' \in BOOLEAN
      BY <1>7, Zenon DEF StartRun
    <3> QED
      BY <1>7, <3>1 DEF StartRun, GoalInv, GoalTypeOK, Place
  <2>2. runs < goal.attempts /\ goal.attempts <= MaxAttempts
    BY <1>7 DEF StartRun, GoalInv, Begun, RunsCounted
  <2>3. RunsCounted'
    BY <1>7, <2>2 DEF StartRun, RunsCounted, GoalInv, GoalTypeOK, GoalState
  <2>4. CancelReachesRun' /\ Begun'
    BY <1>7 DEF StartRun, GoalInv, CancelReachesRun, Begun
  <2>5. WriteIsCurrent'
    BY <1>7, NoWriteType DEF StartRun, WriteIsCurrent, Unlocked
  <2> QED
    BY <2>1, <2>3, <2>4, <2>5 DEF GoalInv
<1>8. CASE Request \/ RetryNetwork \/ Stop \/ RunEnds \/ Expire
  <2>1. \/ UNCHANGED <<goal, writing, runs, early>> /\ pc' # "begun"
        \/ UNCHANGED <<goal, writing, runs, early, pc, token>>
    BY <1>8 DEF Request, RetryNetwork, Stop, RunEnds, Expire
  <2>2. pc' = "running" => pc = "running" /\ token' = token
    BY <1>8 DEF Request, RetryNetwork, Stop, RunEnds, Expire
  <2>3. GoalTypeOK'
    BY <1>8 DEF Request, RetryNetwork, Stop, RunEnds, Expire, GoalInv, GoalTypeOK, Place
  <2>4. RunsCounted' /\ WriteIsCurrent'
    BY <2>1 DEF GoalInv, RunsCounted, WriteIsCurrent, Unlocked
  <2>5. CancelReachesRun' /\ Begun'
    BY <2>1, <2>2 DEF GoalInv, CancelReachesRun, Begun
  <2> QED
    BY <2>3, <2>4, <2>5 DEF GoalInv
<1>9. CASE Cancel
  BY <1>9 DEF Cancel, Cancellable, InRun, GoalInv, GoalTypeOK, RunsCounted, CancelReachesRun,
              Begun, WriteIsCurrent, Unlocked, NoWrite, GoalState, Status
<1>10. CASE Interrupt \/ Crash
  <2>1. UNCHANGED <<goal, runs, early>> /\ writing' \in {writing, NoWrite}
    BY <1>10 DEF Interrupt, Crash
  <2>2. \/ pc' = "idle" /\ token' \in BOOLEAN
        \/ pc' = pc /\ pc # "begun" /\ token'
    BY <1>10 DEF Interrupt, Crash, InRun, GoalInv, GoalTypeOK
  <2>3. GoalTypeOK'
    <3>1. writing' \in Write
      BY <2>1, NoWriteType DEF GoalInv, GoalTypeOK
    <3>2. token' \in BOOLEAN /\ pc' \in Place
      BY <1>10 DEF Interrupt, Crash, InRun, GoalInv, GoalTypeOK, Place
    <3>3. UNCHANGED <<expired, goals>>
      BY <1>10 DEF Interrupt, Crash
    <3> QED
      BY <2>1, <3>1, <3>2, <3>3 DEF GoalInv, GoalTypeOK
  <2>4. RunsCounted'
    BY <2>1 DEF GoalInv, RunsCounted
  <2>5. CancelReachesRun' /\ Begun'
    BY <2>1, <2>2 DEF GoalInv, CancelReachesRun, Begun
  <2>6. WriteIsCurrent'
    BY <2>1, NoWriteType DEF GoalInv, WriteIsCurrent, Unlocked
  <2> QED
    BY <2>3, <2>4, <2>5, <2>6 DEF GoalInv
<1>11. CASE UNCHANGED vars
  BY <1>11 DEF vars, GoalInv, GoalTypeOK, RunsCounted, CancelReachesRun, Begun,
               WriteIsCurrent, Unlocked
<1> QED
  BY <1>1, <1>2, <1>3, <1>4, <1>5, <1>6, <1>7, <1>8, <1>9, <1>10, <1>11
     DEF Next, Program, User

(* The invariant holds throughout, for every MaxAttempts, MaxCost and      *)
(* MaxGoals.                                                               *)
THEOREM GoalInvariant == Spec => []GoalInv
  BY InitInv, NextInv, PTL DEF Spec

(* A goal gets at most MaxAttempts runs over all restarts of the process,  *)
(* each counted in goal.json before it starts.                             *)
THEOREM AttemptsBounded == Spec => []RunsCounted
  BY GoalInvariant, PTL DEF GoalInv

(* A cancelled goal's run has been told to stop, unless the cancel fell    *)
(* between begin_attempt and the start of the agent loop.                  *)
THEOREM CancelReaches == Spec => []CancelReachesRun
  BY GoalInvariant, PTL DEF GoalInv

(* No change under way, interrupted or not, revives an ended goal. *)
THEOREM EndedGoalStays == Spec => EndedStays
<1>1. GoalInv /\ [Next]_vars =>
        [goal.status \in Ended /\ ~ writing.new
           => goal'.status = goal.status \/ goal'.status = "failed"]_vars
  <2> SUFFICES ASSUME GoalInv, Next, goal.status \in Ended, ~ writing.new
               PROVE  goal'.status = goal.status \/ goal'.status = "failed"
    OBVIOUS
  <2>1. CASE Commit
    BY <2>1 DEF Commit, GoalInv, WriteIsCurrent
  <2>2. CASE Cancel
    BY <2>2 DEF Cancel, Cancellable, Ended
  <2>3. CASE Create \/ Resume \/ Request \/ RetryNetwork \/ Stop \/ BeginAttempt
             \/ StartRun \/ ToolEnds \/ RunEnds \/ FinishAttempt \/ Interrupt \/ Expire \/ Crash
    BY <2>3 DEF Create, Resume, Request, RetryNetwork, Stop, BeginAttempt, StartRun, ToolEnds,
                RunEnds, FinishAttempt, Interrupt, Expire, Crash, Mutate
  <2> QED
    BY <2>1, <2>2, <2>3 DEF Next, Program, User
<1> QED
  BY <1>1, GoalInvariant, PTL DEF Spec, EndedStays
=============================================================================
