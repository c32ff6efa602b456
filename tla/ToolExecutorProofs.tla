------------------------- MODULE ToolExecutorProofs -------------------------
(***************************************************************************)
(* The executor for any calls, retry limit and number of restarts: ToolInv *)
(* is an inductive invariant of Spec, so that a call is authorised once    *)
(* and started as often as its retries say, and no cache answers with a    *)
(* result from before the last write the process knows of.                 *)
(*                                                                         *)
(* The end of the module is about the gate an execution may wait for.      *)
(***************************************************************************)
EXTENDS ToolExecutor, Approval, TLAPS

USE ExecutorAssumption

(* The type of the variables a call's end changes. *)
CallType ==
  /\ stage \in [Call -> Stage]
  /\ outcome \in [Call -> Outcome]
  /\ attempt \in [Call -> 0 .. RetryLimit]
  /\ asked \in [Call -> Nat]
  /\ invoked \in [Call -> Nat]
  /\ opened \in [Call -> Nat \X Nat]

(* The end of a call keeps the types. *)
LEMMA EndType ==
  ASSUME ToolTypeOK, NEW c \in Call, NEW o \in Outcome, End(c, o)
  PROVE  CallType'
<1> USE DEF ToolTypeOK, End
<1>1. stage' \in [Call -> Stage] /\ outcome' \in [Call -> Outcome]
  BY DEF Stage
<1>2. /\ attempt' \in [Call -> 0 .. RetryLimit]
      /\ asked' \in [Call -> Nat] /\ invoked' \in [Call -> Nat]
  OBVIOUS
<1>3. opened' \in [Call -> Nat \X Nat]
  OBVIOUS
<1> QED
  BY <1>1, <1>2, <1>3 DEF CallType

(* The invariant holds at the start. *)
LEMMA InitToolInv == Init => ToolInv
<1> SUFFICES ASSUME Init PROVE ToolInv
  OBVIOUS
<1> USE DEF Init, Busy, Begun
<1>1. ToolTypeOK
  <2>1. cancelled \in BOOLEAN
    BY Zenon
  <2> QED
    BY <2>1 DEF ToolTypeOK, Stage, Outcome
<1>2. OverlapReads /\ EpochsAgree /\ ResultsFresh /\ EntriesFresh
  BY DEF OverlapReads, EpochsAgree, ResultsFresh, EntriesFresh
<1>3. StartsCounted
  BY DEF StartsCounted, Limit
<1> QED
  BY <1>1, <1>2, <1>3 DEF ToolInv

(* Every step keeps the types. *)
LEMMA NextType == ToolTypeOK /\ [Next]_vars => ToolTypeOK'
<1> SUFFICES ASSUME ToolTypeOK, [Next]_vars PROVE ToolTypeOK'
  OBVIOUS
<1> USE DEF ToolTypeOK, callVars, cacheVars, spaceVars
<1>0. ASSUME NEW c \in Call, NEW o \in Outcome, End(c, o) PROVE CallType'
  BY <1>0, EndType
<1>1. ASSUME NEW c \in Call, Receive(c) PROVE ToolTypeOK'
  <2>1. CASE Deliver(c, "error")
    BY <1>1, <2>1, <1>0 DEF Receive, Deliver, CallType, Outcome
  <2>2. CASE ~Deliver(c, "error")
    <3>1. cancelled' \in BOOLEAN
      BY <1>1, Zenon DEF Receive
    <3>2. /\ stage' = [stage EXCEPT ![c] = "preflight"]
          /\ asked' = [asked EXCEPT ![c] = @ + 1]
          /\ UNCHANGED <<outcome, attempt, invoked, opened, seen, cacheVars, spaceVars, crashes>>
      BY <1>1, <2>2 DEF Receive
    <3> QED
      BY <3>1, <3>2 DEF Stage
  <2> QED
    BY <2>1, <2>2
<1>2. ASSUME NEW c \in Call, Refuse(c) \/ KeyRaises(c) PROVE ToolTypeOK'
  BY <1>2, <1>0 DEF Refuse, KeyRaises, Raise, Deliver, CallType, Outcome
<1>3. ASSUME NEW c \in Call, Reuse(c) PROVE ToolTypeOK'
  <2>1. PICK e \in Hits(c) : seen' = [seen EXCEPT ![c] = e.value]
    BY <1>3 DEF Reuse
  <2>2. e.value \in Nat
    BY DEF Hits
  <2> QED
    BY <1>3, <1>0, <2>1, <2>2 DEF Reuse, Deliver, CallType, Outcome
<1>4. ASSUME NEW c \in Call, Start(c) PROVE ToolTypeOK'
  <2>1. CASE Deliver(c, "error")
    BY <1>4, <2>1, <1>0 DEF Start, Deliver, CallType, Outcome
  <2>2. CASE ~Deliver(c, "error")
    <3>1. opened' \in [Call -> Nat \X Nat]
      BY <1>4, <2>2 DEF Start
    <3>2. cancelled' \in BOOLEAN
      BY <1>4, Zenon DEF Start
    <3>3. /\ stage' = [stage EXCEPT ![c] = "running"]
          /\ invoked' = [invoked EXCEPT ![c] = @ + 1]
          /\ UNCHANGED <<outcome, attempt, asked, seen, cacheVars, spaceVars, crashes>>
      BY <1>4, <2>2 DEF Start
    <3> QED
      BY <3>1, <3>2, <3>3 DEF Stage
  <2> QED
    BY <2>1, <2>2
<1>5. ASSUME NEW c \in Call, Operate(c) PROVE ToolTypeOK'
  <2>1. version' \in Nat /\ named' \in Nat /\ known' \in Nat /\ reached' \in Nat
    BY <1>5 DEF Operate, Change
  <2>2. stage' \in [Call -> Stage]
    BY <1>5 DEF Operate, Stage
  <2> QED
    BY <1>5, <2>1, <2>2 DEF Operate
<1>6. ASSUME NEW c \in Call, NEW canSave \in BOOLEAN, Succeed(c, canSave) PROVE ToolTypeOK'
  <2>1. CallType'
    BY <1>6, <1>0 DEF Succeed, Deliver, Outcome
  <2>2. seen[c] \in Nat /\ opened[c] \in Nat \X Nat /\ opened[c][1] \in Nat
    OBVIOUS
  <2>3. verified' \in SUBSET [key : Nat \X Nat, value : Nat]
    BY <1>6, <2>2 DEF Succeed, Put
  <2>4. repeatable' \in SUBSET [key : {"read", "bash"} \X Nat, value : Nat]
    BY <1>6, <2>2 DEF Succeed, Put, Tool
  <2>5. epoch' \in Nat /\ known' \in Nat /\ reached' \in Nat /\ seen' \in [Call -> Nat]
    BY <1>6, <2>2 DEF Succeed
  <2>6. saved' \in [epoch : Nat, entries : SUBSET [key : Nat \X Nat, value : Nat]]
    BY <1>6, <2>3, <2>5 DEF Succeed
  <2> QED
    BY <1>6, <2>1, <2>3, <2>4, <2>5, <2>6 DEF Succeed, CallType
<1>7. ASSUME NEW c \in Call, Fail(c) PROVE ToolTypeOK'
  <2>1. CASE stage[c] # "failed" /\ attempt[c] < Limit(c)
    <3>1. stage' \in [Call -> Stage]
      BY <1>7, <2>1 DEF Fail, Stage
    <3>2. attempt' \in [Call -> 0 .. RetryLimit]
      BY <1>7, <2>1 DEF Fail, Limit
    <3> QED
      BY <1>7, <2>1, <3>1, <3>2 DEF Fail
  <2>2. CASE ~(stage[c] # "failed" /\ attempt[c] < Limit(c))
    <3>1. Deliver(c, "error") /\ seen' = [seen EXCEPT ![c] = 0]
          /\ UNCHANGED <<cancelled, cacheVars, spaceVars, crashes>>
      BY <1>7, <2>2 DEF Fail
    <3>2. CallType'
      BY <3>1, <1>0 DEF Deliver, Outcome
    <3> QED
      BY <3>1, <3>2 DEF CallType
  <2> QED
    BY <2>1, <2>2
<1>8. ASSUME NEW c \in Call, Retry(c) PROVE ToolTypeOK'
  BY <1>8 DEF Retry, Stage
<1>9. ASSUME NEW c \in Call, Stop(c) PROVE ToolTypeOK'
  BY <1>9, <1>0 DEF Stop, Raise, Deliver, CallType, Outcome
<1>10. CASE TimeOut
  <2>1. stage' \in [Call -> Stage] /\ outcome' \in [Call -> Outcome]
    BY <1>10 DEF TimeOut, Stage, Outcome
  <2>2. opened' \in [Call -> Nat \X Nat]
    BY <1>10 DEF TimeOut, NoLocals
  <2> QED
    BY <1>10, <2>1, <2>2 DEF TimeOut, NoLocals
<1>11. CASE Cancel \/ NextRun \/ UNCHANGED vars
  BY <1>11 DEF Cancel, NextRun, vars
<1>12. CASE Crash
  <2>1. stage' \in [Call -> Stage] /\ outcome' \in [Call -> Outcome]
    BY <1>12 DEF Crash, Stage, Outcome
  <2>2. opened' \in [Call -> Nat \X Nat]
    BY <1>12 DEF Crash, NoLocals
  <2>3. cancelled' \in BOOLEAN
    BY <1>12, Zenon DEF Crash
  <2> QED
    BY <1>12, <2>1, <2>2, <2>3 DEF Crash, NoLocals
<1> QED
  BY <1>1, <1>2, <1>3, <1>4, <1>5, <1>6, <1>7, <1>8, <1>9, <1>10, <1>11, <1>12
     DEF Next

(* No step but Receive makes a call busy. *)
LEMMA OnlyReceiveBegins ==
  ASSUME ToolTypeOK, [Next]_vars, \A c \in Call : ~Receive(c)
  PROVE  \A d \in Call : Busy(d)' => Busy(d)
<1> USE DEF ToolTypeOK, Busy, callVars, Stage
<1>1. ASSUME NEW c \in Call,
             \/ Refuse(c) \/ Reuse(c) \/ KeyRaises(c) \/ Start(c) \/ Operate(c)
             \/ (\E canSave \in BOOLEAN : Succeed(c, canSave)) \/ Fail(c) \/ Retry(c) \/ Stop(c)
      PROVE  \A d \in Call : Busy(d)' => Busy(d)
  BY <1>1 DEF Refuse, Reuse, KeyRaises, Start, Operate, Succeed, Fail, Retry, Stop,
              Raise, Deliver, End
<1>2. CASE TimeOut \/ Cancel \/ NextRun \/ Crash \/ UNCHANGED vars
  BY <1>2 DEF TimeOut, Cancel, NextRun, Crash, vars
<1> QED
  BY <1>1, <1>2 DEF Next

(* Receive lets only reads overlap, and nothing else begins a call. *)
LEMMA NextOverlap == ToolTypeOK /\ OverlapReads /\ [Next]_vars => OverlapReads'
<1> SUFFICES ASSUME ToolTypeOK, OverlapReads, [Next]_vars PROVE OverlapReads'
  OBVIOUS
<1>1. ASSUME NEW c \in Call, Receive(c) PROVE OverlapReads'
  <2>1. \A d \in Call : Busy(d)' => Busy(d) \/ d = c
    BY <1>1 DEF Receive, Busy, Deliver, End, ToolTypeOK
  <2>2. \A d \in Call : Busy(d) => {c, d} \subseteq Reads
    BY <1>1 DEF Receive
  <2> QED
    BY <2>1, <2>2 DEF OverlapReads
<1>2. CASE \A c \in Call : ~Receive(c)
  BY <1>2, OnlyReceiveBegins DEF OverlapReads
<1> QED
  BY <1>1, <1>2

(* StartsCounted, for one call. *)
CountedOf(c) ==
  /\ attempt[c] <= Limit(c)
  /\ ~Begun(c) => attempt[c] = 0 /\ invoked[c] = 0
  /\ asked[c] = IF Busy(c) THEN 1 ELSE 0
  /\ Begun(c) => invoked[c] = attempt[c] + (IF stage[c] \in Backoff THEN 0 ELSE 1)

(* Every step counts what it asks and starts. *)
LEMMA NextCounted == ToolTypeOK /\ StartsCounted /\ [Next]_vars => StartsCounted'
<1> SUFFICES ASSUME ToolTypeOK, StartsCounted, [Next]_vars PROVE StartsCounted'
  OBVIOUS
<1>0. \A d \in Call : CountedOf(d)
  BY DEF StartsCounted, CountedOf
<1> SUFFICES ASSUME NEW d \in Call PROVE CountedOf(d)'
  BY DEF StartsCounted, CountedOf, Limit
<1> USE <1>0 DEF ToolTypeOK, CountedOf, Busy, Begun, Backoff, Limit, callVars
<1>1. ASSUME NEW c \in Call, NEW o, End(c, o) PROVE CountedOf(d)'
  BY <1>1 DEF End
<1>2. ASSUME NEW c \in Call, Receive(c) PROVE CountedOf(d)'
  <2>1. CASE Deliver(c, "error")
    BY <2>1, <1>1 DEF Deliver
  <2>2. CASE ~Deliver(c, "error")
    BY <1>2, <2>2 DEF Receive
  <2> QED
    BY <2>1, <2>2
<1>3. ASSUME NEW c \in Call,
             \/ Refuse(c) \/ Reuse(c) \/ KeyRaises(c) \/ Stop(c)
             \/ \E canSave \in BOOLEAN : Succeed(c, canSave)
      PROVE  CountedOf(d)'
  BY <1>3, <1>1 DEF Refuse, Reuse, KeyRaises, Succeed, Stop, Raise, Deliver
<1>4. ASSUME NEW c \in Call, Start(c) PROVE CountedOf(d)'
  <2>1. CASE Deliver(c, "error")
    BY <2>1, <1>1 DEF Deliver
  <2>2. CASE ~Deliver(c, "error")
    BY <1>4, <2>2 DEF Start
  <2> QED
    BY <2>1, <2>2
<1>5. ASSUME NEW c \in Call, Operate(c) PROVE CountedOf(d)'
  BY <1>5 DEF Operate
<1>6. ASSUME NEW c \in Call, Fail(c) PROVE CountedOf(d)'
  <2>1. CASE Deliver(c, "error")
    BY <2>1, <1>1 DEF Deliver
  <2>2. CASE ~Deliver(c, "error")
    BY <1>6, <2>2 DEF Fail
  <2> QED
    BY <2>1, <2>2
<1>7. ASSUME NEW c \in Call, Retry(c) PROVE CountedOf(d)'
  BY <1>7 DEF Retry
<1>8. CASE TimeOut \/ Crash
  BY <1>8 DEF TimeOut, Crash, NoLocals
<1>9. CASE Cancel \/ NextRun \/ UNCHANGED vars
  BY <1>9 DEF Cancel, NextRun, vars
<1> QED
  BY <1>2, <1>3, <1>4, <1>5, <1>6, <1>7, <1>8, <1>9 DEF Next

(* A write that succeeds was the only busy call. *)
LEMMA WritesAlone ==
  ASSUME OverlapReads, NEW c \in Writes, Busy(c), NEW d \in Call, Busy(d)
  PROVE  d = c
  BY DEF OverlapReads, Call

(* The epoch on file is never ahead; and when a success raises the epoch,  *)
(* no other call holds keys.                                               *)
LEMMA NextEpochs ==
  ToolTypeOK /\ OverlapReads /\ EpochsAgree /\ [Next]_vars => EpochsAgree'
<1> SUFFICES ASSUME ToolTypeOK, OverlapReads, EpochsAgree, [Next]_vars PROVE EpochsAgree'
  OBVIOUS
<1> USE DEF ToolTypeOK, EpochsAgree, Busy, Begun, callVars, cacheVars
<1>1. ASSUME NEW c \in Call, NEW o, End(c, o), UNCHANGED cacheVars PROVE EpochsAgree'
  BY <1>1 DEF End
<1>2. ASSUME NEW c \in Call, Receive(c) PROVE EpochsAgree'
  <2>1. CASE Deliver(c, "error")
    BY <1>2, <2>1, <1>1 DEF Receive, Deliver
  <2>2. CASE ~Deliver(c, "error")
    BY <1>2, <2>2 DEF Receive
  <2> QED
    BY <2>1, <2>2
<1>3. ASSUME NEW c \in Call, Refuse(c) \/ Reuse(c) \/ KeyRaises(c) \/ Stop(c)
      PROVE  EpochsAgree'
  BY <1>3, <1>1 DEF Refuse, Reuse, KeyRaises, Stop, Raise, Deliver
<1>4. ASSUME NEW c \in Call, Start(c) PROVE EpochsAgree'
  <2>1. CASE Deliver(c, "error")
    BY <1>4, <2>1, <1>1 DEF Start, Deliver
  <2>2. CASE ~Deliver(c, "error")
    BY <1>4, <2>2 DEF Start
  <2> QED
    BY <2>1, <2>2
<1>5. ASSUME NEW c \in Call, Operate(c) \/ Retry(c) PROVE EpochsAgree'
  BY <1>5 DEF Operate, Retry
<1>6. ASSUME NEW c \in Call, Fail(c) PROVE EpochsAgree'
  <2>1. CASE Deliver(c, "error")
    BY <1>6, <2>1, <1>1 DEF Fail, Deliver
  <2>2. CASE ~Deliver(c, "error")
    BY <1>6, <2>2 DEF Fail
  <2> QED
    BY <2>1, <2>2
<1>7. ASSUME NEW c \in Call, NEW canSave \in BOOLEAN, Succeed(c, canSave) PROVE EpochsAgree'
  <2>1. saved'.epoch <= epoch'
    <3>1. epoch \in Nat /\ epoch' \in Nat /\ epoch <= epoch' /\ saved.epoch \in Nat
      BY <1>7 DEF Succeed
    <3>2. saved'.epoch = epoch' \/ saved' = saved
      BY <1>7 DEF Succeed
    <3> QED
      BY <3>1, <3>2
  <2>2. stage' = [stage EXCEPT ![c] = "ended"] /\ \A d \in Call : d # c => opened'[d] = opened[d]
    BY <1>7 DEF Succeed, Deliver, End
  <2>3. CASE c \in Writes
    <3>1. \A d \in Call : Busy(d) => d = c
      BY <1>7, <2>3, WritesAlone DEF Succeed
    <3> QED
      BY <2>1, <2>2, <3>1
  <2>4. CASE c \notin Writes
    <3>1. epoch' = epoch
      BY <1>7, <2>4 DEF Succeed
    <3> QED
      BY <2>1, <2>2, <3>1
  <2> QED
    BY <2>3, <2>4
<1>8. CASE TimeOut \/ Crash
  BY <1>8 DEF TimeOut, Crash
<1>9. CASE Cancel \/ NextRun \/ UNCHANGED vars
  BY <1>9 DEF Cancel, NextRun, vars
<1> QED
  BY <1>2, <1>3, <1>4, <1>5, <1>6, <1>7, <1>8, <1>9 DEF Next

(* An unseen result is of the workspace now or since the last write. *)
LEMMA NextResults ==
  ToolTypeOK /\ OverlapReads /\ ResultsFresh /\ [Next]_vars => ResultsFresh'
<1> SUFFICES ASSUME ToolTypeOK, OverlapReads, ResultsFresh, [Next]_vars PROVE ResultsFresh'
  OBVIOUS
<1> USE DEF ToolTypeOK, ResultsFresh, callVars, spaceVars
<1>1. ASSUME NEW c \in Call, Operate(c) PROVE ResultsFresh'
  <2>1. known' = known /\ reached' = reached /\ version' \in Nat /\ version <= version'
    BY <1>1 DEF Operate, Change
  <2>2. seen' = [seen EXCEPT ![c] = version'] /\ \A d \in Call : d # c => stage'[d] = stage[d]
    BY <1>1 DEF Operate
  <2> QED
    BY <2>1, <2>2
<1>2. ASSUME NEW c \in Call, NEW canSave \in BOOLEAN, Succeed(c, canSave) PROVE ResultsFresh'
  <2>1. /\ version' = version /\ reached' \in {known', reached}
        /\ stage' = [stage EXCEPT ![c] = "ended"] /\ seen' = [seen EXCEPT ![c] = 0]
    BY <1>2 DEF Succeed, Deliver, End
  <2>2. CASE c \in Writes
    <3>1. known' = seen[c] /\ seen[c] <= version /\ Busy(c)
      BY <1>2, <2>2 DEF Succeed, Busy
    <3>2. \A d \in Call : stage[d] = "returned" => d = c
      BY <2>2, <3>1, WritesAlone DEF Busy
    <3> QED
      BY <2>1, <3>1, <3>2
  <2>3. CASE c \notin Writes
    BY <1>2, <2>1, <2>3 DEF Succeed
  <2> QED
    BY <2>2, <2>3
<1>3. ASSUME UNCHANGED spaceVars,
             \A d \in Call : stage'[d] = "returned" => stage[d] = "returned" /\ seen'[d] = seen[d]
      PROVE  ResultsFresh'
  BY <1>3
<1>4. ASSUME NEW c \in Call, NEW o, End(c, o), UNCHANGED spaceVars,
             seen' = seen \/ \E n : seen' = [seen EXCEPT ![c] = n]
      PROVE  ResultsFresh'
  BY <1>3, <1>4 DEF End
<1>5. ASSUME NEW c \in Call, Receive(c) \/ Start(c) \/ Fail(c) PROVE ResultsFresh'
  <2>1. CASE Deliver(c, "error")
    BY <1>5, <2>1, <1>4 DEF Receive, Start, Fail, Deliver
  <2>2. CASE ~Deliver(c, "error")
    BY <1>5, <2>2, <1>3 DEF Receive, Start, Fail
  <2> QED
    BY <2>1, <2>2
<1>6. ASSUME NEW c \in Call, Refuse(c) \/ Reuse(c) \/ KeyRaises(c) \/ Stop(c)
      PROVE  ResultsFresh'
  BY <1>6, <1>4 DEF Refuse, Reuse, KeyRaises, Stop, Raise, Deliver
<1>7. ASSUME NEW c \in Call, Retry(c) PROVE ResultsFresh'
  BY <1>7, <1>3 DEF Retry
<1>8. CASE TimeOut
  BY <1>8, <1>3 DEF TimeOut, Busy
<1>9. CASE Cancel \/ NextRun \/ UNCHANGED vars
  BY <1>9, <1>3 DEF Cancel, NextRun, vars
<1>10. CASE Crash
  <2>1. known' = reached /\ reached' = reached /\ version' = version
    BY <1>10 DEF Crash
  <2>2. \A c \in Call : stage'[c] # "returned"
    BY <1>10 DEF Crash, Busy
  <2> QED
    BY <2>1, <2>2
<1> QED
  BY <1>1, <1>2, <1>5, <1>6, <1>7, <1>8, <1>9, <1>10 DEF Next

(* A cache gets only fresh values under the present epoch. *)
LEMMA NextEntries ==
  ToolTypeOK /\ EpochsAgree /\ ResultsFresh /\ EntriesFresh /\ [Next]_vars => EntriesFresh'
<1> SUFFICES ASSUME ToolTypeOK, EpochsAgree, ResultsFresh, EntriesFresh, [Next]_vars
             PROVE EntriesFresh'
  OBVIOUS
<1>1. ASSUME NEW c \in Call, NEW canSave \in BOOLEAN, Succeed(c, canSave) PROVE EntriesFresh'
  <2>1. /\ opened[c][1] = epoch /\ opened[c] \in Nat \X Nat
        /\ known <= seen[c] /\ seen[c] \in Nat /\ epoch \in Nat /\ known \in Nat
    BY <1>1 DEF Succeed, EpochsAgree, Begun, Busy, ResultsFresh, ToolTypeOK
  <2>4. \/ saved' = [epoch |-> epoch', entries |-> verified'] /\ reached' = known'
        \/ saved' = saved /\ reached' = reached
    BY <1>1 DEF Succeed, Saves
  <2>2. CASE c \in Writes
    <3>1. epoch' = epoch + 1 /\ repeatable' = {} /\ verified' = verified
      BY <1>1, <2>2 DEF Succeed
    <3>2. \A e \in verified' : e.key[1] <= epoch /\ e.key[1] \in Nat
      BY <3>1 DEF EntriesFresh, ToolTypeOK
    <3>3. /\ \A e \in repeatable' : FALSE
          /\ \A e \in verified' : e.key[1] <= epoch' /\ e.key[1] # epoch'
      BY <2>1, <3>1, <3>2
    <3> QED
      BY <2>4, <3>3 DEF EntriesFresh
  <2>3. CASE c \notin Writes
    <3>1. epoch' = epoch /\ known' = known
      BY <1>1, <2>3 DEF Succeed
    <3>2. \A e \in verified' :
            e \in verified \/ e = [key |-> opened[c], value |-> seen[c]]
      BY <1>1, <2>3 DEF Succeed, Put
    <3>3. \A e \in repeatable' :
            e \in repeatable \/ e = [key |-> <<Tool(c), opened[c][1]>>, value |-> seen[c]]
      BY <1>1, <2>3 DEF Succeed, Put
    <3>4. /\ \A e \in repeatable' : e.key[2] = epoch' /\ known' <= e.value
          /\ \A e \in verified' : e.key[1] <= epoch' /\ (e.key[1] = epoch' => known' <= e.value)
      BY <2>1, <3>1, <3>2, <3>3 DEF EntriesFresh
    <3> QED
      BY <2>4, <3>4 DEF EntriesFresh
  <2> QED
    BY <2>2, <2>3
<1>2. CASE Crash
  BY <1>2 DEF Crash, EntriesFresh
<1>3. CASE UNCHANGED <<epoch, repeatable, verified, known, saved, reached>>
  BY <1>3 DEF EntriesFresh
<1>4. ASSUME NEW c \in Call, Operate(c) PROVE EntriesFresh'
  BY <1>3, <1>4 DEF Operate, Change, cacheVars, spaceVars
<1>5. ASSUME NEW c \in Call,
             \/ Receive(c) \/ Refuse(c) \/ Reuse(c) \/ KeyRaises(c) \/ Start(c)
             \/ Fail(c) \/ Retry(c) \/ Stop(c)
      PROVE  EntriesFresh'
  BY <1>3, <1>5 DEF Receive, Refuse, Reuse, KeyRaises, Start, Fail, Retry, Stop,
                    cacheVars, spaceVars
<1>6. CASE TimeOut \/ Cancel \/ NextRun \/ UNCHANGED vars
  BY <1>3, <1>6 DEF TimeOut, Cancel, NextRun, vars, cacheVars, spaceVars
<1> QED
  BY <1>1, <1>2, <1>4, <1>5, <1>6 DEF Next

-----------------------------------------------------------------------------
(* The inductive invariant of the executor. *)
THEOREM ToolInvariant == Spec => []ToolInv
<1>1. ToolInv /\ [Next]_vars => ToolInv'
  BY NextType, NextOverlap, NextCounted, NextEpochs, NextResults, NextEntries DEF ToolInv
<1> QED
  BY InitToolInv, <1>1, PTL DEF Spec

(* execute asks for the approval of a call once, retries included, starts  *)
(* its operation only after that, and starts a call that is not idempotent *)
(* at most once, however the calls overlap, fail and are cut off.          *)
THEOREM AskedAndRunOnce == Spec => []AuthorizedOnceRunOnce
<1>1. ToolInv => AuthorizedOnceRunOnce
  BY DEF ToolInv, ToolTypeOK, StartsCounted, AuthorizedOnceRunOnce, Limit, Begun
<1> QED
  BY <1>1, ToolInvariant, PTL

(* A cache never answers a call with a result from before the last write   *)
(* or edit the executor saw succeed in this life of the process, or in an  *)
(* earlier one that could save afterwards.                                 *)
THEOREM NoReuseAcrossWrites == Spec => ReuseAfterLastWrite
<1> DEFINE Fresh ==
      \A c \in Call : outcome[c] # "reused" /\ outcome'[c] = "reused" => seen'[c] >= known
<1>1. ToolInv /\ [Next]_vars => [Fresh]_vars
  <2> SUFFICES ASSUME ToolInv, Next PROVE Fresh
    OBVIOUS
  <2> SUFFICES ASSUME NEW c \in Call, outcome[c] # "reused", outcome'[c] = "reused"
               PROVE  seen'[c] >= known
    OBVIOUS
  <2>1. Reuse(c)
    <3> USE DEF ToolInv, ToolTypeOK, callVars
    <3>1. ~(TimeOut \/ Cancel \/ NextRun \/ Crash)
      BY DEF TimeOut, Cancel, NextRun, Crash
    <3>2. PICK d \in Call :
            \/ Receive(d) \/ Refuse(d) \/ Reuse(d) \/ KeyRaises(d) \/ Start(d)
            \/ Operate(d) \/ (\E canSave \in BOOLEAN : Succeed(d, canSave))
            \/ Fail(d) \/ Retry(d) \/ Stop(d)
      BY <3>1 DEF Next
    <3>3. Reuse(d)
      BY <3>2 DEF Receive, Refuse, KeyRaises, Start, Operate, Succeed, Fail, Retry, Stop,
                  Raise, Deliver, End
    <3>4. d = c
      BY <3>3 DEF Reuse, Deliver, End
    <3> QED
      BY <3>3, <3>4
  <2>2. PICK e \in Hits(c) : seen' = [seen EXCEPT ![c] = e.value]
    BY <2>1 DEF Reuse
  <2>3. (e \in verified /\ e.key[1] = epoch) \/ (e \in repeatable)
    BY DEF Hits
  <2>4. known <= e.value
    BY <2>3 DEF ToolInv, EntriesFresh
  <2>5. e.value \in Nat /\ known \in Nat /\ seen'[c] = e.value
    BY <2>2, <2>3 DEF ToolInv, ToolTypeOK
  <2> QED
    BY <2>4, <2>5
<1> QED
  BY <1>1, ToolInvariant, PTL DEF Spec, ReuseAfterLastWrite

-----------------------------------------------------------------------------
(* The approval gate that the executor awaits, for any number of           *)
(* concurrent calls and any stock of approval ids: ApprovalInv is an       *)
(* inductive invariant of GateSpec.                                        *)

LEMMA GateStarts == GateInit => ApprovalInv
<1> SUFFICES ASSUME GateInit PROVE ApprovalInv
  OBVIOUS
<1>1. ApprovalTypeOK
  <2>1. changed \in [RiskyCall -> BOOLEAN]
    BY Zenon DEF GateInit
  <2> QED
    BY <2>1 DEF GateInit, ApprovalTypeOK, Answer, Decision
<1>2. PendingIsLive
  BY ApprovalAssumption DEF GateInit, PendingIsLive
<1>3. DecidedAsTold
  BY DEF GateInit, DecidedAsTold
<1>4. AnswerKept
  BY DEF GateInit, AnswerKept, Answer
<1> QED
  BY <1>1, <1>2, <1>3, <1>4 DEF ApprovalInv

(* The steps that leave pc, the inbox and the decisions alone disturb only *)
(* what is known of answers.                                               *)
LEMMA AnswersOnly ==
  ASSUME ApprovalInv, NEW c \in RiskyCall,
         \/ \E a \in Answer : Respond(c, a)
         \/ \E why \in {"timeout", "cancelled"} : EndTask(c, why)
         \/ Retarget(c)
  PROVE  ApprovalInv'
<1>1. UNCHANGED <<pc, pending, id, decision>>
  BY DEF Respond, EndTask, Retarget
<1>2. ApprovalTypeOK'
  <2>1. changed' \in [RiskyCall -> BOOLEAN]
    BY Zenon DEF Respond, EndTask, Retarget, ApprovalInv, ApprovalTypeOK
  <2>2. future' \in [RiskyCall -> {"open", "cancelled"} \cup Answer]
    BY DEF Respond, EndTask, Retarget, ApprovalInv, ApprovalTypeOK
  <2>3. ending' \in [RiskyCall -> {"no", "timeout", "cancelled"}]
    BY DEF Respond, EndTask, Retarget, ApprovalInv, ApprovalTypeOK
  <2>4. told' \in [RiskyCall -> {"nothing"} \cup Answer]
    BY DEF Respond, EndTask, Retarget, ApprovalInv, ApprovalTypeOK
  <2> QED
    BY <1>1, <2>1, <2>2, <2>3, <2>4 DEF ApprovalInv, ApprovalTypeOK
<1>3. PendingIsLive'
  BY <1>1 DEF ApprovalInv, PendingIsLive
<1>4. DecidedAsTold' /\ AnswerKept'
  <2>1. pc[c] # "done" /\ (pc[c] = "new" => UNCHANGED told)
    BY ApprovalAssumption
       DEF Respond, EndTask, Retarget, ApprovalInv, ApprovalTypeOK, PendingIsLive
  <2>2. CASE \E a \in Answer : Respond(c, a)
    BY <2>2, <2>1, <1>1 DEF Respond, ApprovalInv, ApprovalTypeOK, DecidedAsTold, AnswerKept, Answer
  <2>3. CASE \E why \in {"timeout", "cancelled"} : EndTask(c, why)
    BY <2>3, <2>1, <1>1 DEF EndTask, ApprovalInv, ApprovalTypeOK, DecidedAsTold, AnswerKept, Answer
  <2>4. CASE Retarget(c)
    BY <2>4, <1>1 DEF Retarget, ApprovalInv, ApprovalTypeOK, DecidedAsTold, AnswerKept
  <2> QED
    BY <2>2, <2>3, <2>4
<1> QED
  BY <1>2, <1>3, <1>4 DEF ApprovalInv

(* A step of the gate: the call goes to another place with a decision that *)
(* its answer or its ending justifies.                                     *)
LEMMA MoveInv ==
  ASSUME ApprovalInv, NEW c \in RiskyCall, NEW p \in {"asking", "waiting", "done"},
         NEW d \in Decision,
         UNCHANGED <<id, future, ending, changed, told>>,
         pc' = [pc EXCEPT ![c] = p], decision' = [decision EXCEPT ![c] = d],
         pending' \in [ApprovalId -> RiskyCall \cup {NoCall}], PendingIsLive',
         d \in {"approved", "call-mismatch"} => future[c] = "approve",
         d = "approved" => ~ changed[c],
         d = "denied" => future[c] = "deny",
         p = "done" /\ told[c] # "nothing" /\ ending[c] = "no"
           => d \in {"approved", "call-mismatch", "denied", "unavailable"},
         p = "done" \/ d = "none"
  PROVE  ApprovalInv'
<1>1. ApprovalTypeOK'
  BY Zenon DEF ApprovalInv, ApprovalTypeOK
<1>2. DecidedAsTold'
  BY DEF ApprovalInv, ApprovalTypeOK, DecidedAsTold, AnswerKept, Answer
<1>3. AnswerKept'
  BY DEF ApprovalInv, ApprovalTypeOK, AnswerKept
<1> QED
  BY <1>1, <1>2, <1>3 DEF ApprovalInv

(* The end of a request takes it, and no other, out of the inbox. *)
LEMMA ForgetInv ==
  ASSUME ApprovalInv, NEW c \in RiskyCall, NEW d \in Decision,
         pc[c] \in {"asking", "waiting"}, Forget(c), Decide(c, d), UNCHANGED id
  PROVE  pending' \in [ApprovalId -> RiskyCall \cup {NoCall}] /\ PendingIsLive'
  BY ApprovalAssumption
     DEF Forget, Decide, ApprovalInv, ApprovalTypeOK, PendingIsLive

LEMMA GateSteps ==
  ASSUME ApprovalInv, NEW c \in RiskyCall, Settle(c) \/ Ask(c) \/ Run(c)
  PROVE  ApprovalInv'
<1> USE DEF Decide, Decision
<1>1. CASE Settle(c)
  <2>1. PICK d \in {"allowed", "denied-by-policy", "unavailable"} : Decide(c, d)
    BY <1>1 DEF Settle
  <2>2. pending' \in [ApprovalId -> RiskyCall \cup {NoCall}] /\ PendingIsLive'
    BY <1>1, <2>1 DEF Settle, ApprovalInv, ApprovalTypeOK, PendingIsLive
  <2>3. told[c] = "nothing"
    BY <1>1 DEF Settle, ApprovalInv, AnswerKept
  <2> QED
    BY <1>1, <2>1, <2>2, <2>3, MoveInv DEF Settle
<1>2. CASE Ask(c) /\ pending[id[c]] = NoCall
  <2>1. pending' \in [ApprovalId -> RiskyCall \cup {NoCall}] /\ PendingIsLive'
    BY <1>2, ApprovalAssumption DEF Ask, ApprovalInv, ApprovalTypeOK, PendingIsLive
  <2>2. decision' = [decision EXCEPT ![c] = "none"]
    BY <1>2 DEF Ask, ApprovalInv, ApprovalTypeOK, AnswerKept
  <2> QED
    BY <1>2, <2>1, <2>2, MoveInv DEF Ask
<1>3. CASE Ask(c) /\ pending[id[c]] # NoCall
  <2>1. pending' \in [ApprovalId -> RiskyCall \cup {NoCall}] /\ PendingIsLive'
    BY <1>3, ApprovalAssumption DEF Ask, ApprovalInv, ApprovalTypeOK, PendingIsLive
  <2>2. told[c] = "nothing"
    BY <1>3 DEF Ask, ApprovalInv, AnswerKept
  <2> QED
    BY <1>3, <2>1, <2>2, MoveInv DEF Ask
<1>4. CASE Asked(c)
  <2>1. pending' \in [ApprovalId -> RiskyCall \cup {NoCall}] /\ PendingIsLive'
    BY <1>4, ApprovalAssumption DEF Asked, ApprovalInv, ApprovalTypeOK, PendingIsLive
  <2>2. decision' = [decision EXCEPT ![c] = "none"]
    BY <1>4 DEF Asked, ApprovalInv, ApprovalTypeOK, AnswerKept
  <2> QED
    BY <1>4, <2>1, <2>2, MoveInv DEF Asked
<1>5. CASE AskFails(c)
  <2>1. pending' \in [ApprovalId -> RiskyCall \cup {NoCall}] /\ PendingIsLive'
    BY <1>5, ForgetInv DEF AskFails
  <2> QED
    BY <1>5, <2>1, MoveInv DEF AskFails
<1>6. CASE Answered(c)
  <2> DEFINE d == IF future[c] = "deny" THEN "denied"
                  ELSE IF changed[c] THEN "call-mismatch" ELSE "approved"
  <2>1. d \in Decision /\ Decide(c, d) /\ d \in {"approved", "call-mismatch", "denied"}
    BY <1>6 DEF Answered
  <2>2. /\ d \in {"approved", "call-mismatch"} => future[c] = "approve"
        /\ d = "approved" => ~ changed[c]
        /\ d = "denied" => future[c] = "deny"
    BY <1>6 DEF Answered, Answer
  <2>3. pending' \in [ApprovalId -> RiskyCall \cup {NoCall}] /\ PendingIsLive'
    BY <1>6, <2>1, ForgetInv DEF Answered
  <2> QED
    BY <1>6, <2>1, <2>2, <2>3, MoveInv DEF Answered
<1>7. CASE Ended(c)
  <2>1. ending[c] \in {"timeout", "cancelled"}
    BY <1>7 DEF Ended, ApprovalInv, ApprovalTypeOK
  <2>2. pending' \in [ApprovalId -> RiskyCall \cup {NoCall}] /\ PendingIsLive'
    BY <1>7, <2>1, ForgetInv DEF Ended
  <2> QED
    BY <1>7, <2>1, <2>2, MoveInv DEF Ended
<1> QED
  BY <1>1, <1>2, <1>3, <1>4, <1>5, <1>6, <1>7 DEF Run

LEMMA GateKeeps == ApprovalInv /\ [GateNext]_gateVars => ApprovalInv'
<1> SUFFICES ASSUME ApprovalInv, [GateNext]_gateVars PROVE ApprovalInv'
  OBVIOUS
<1>1. CASE GateNext
  BY <1>1, AnswersOnly, GateSteps DEF GateNext
<1>2. CASE UNCHANGED gateVars
  BY <1>2 DEF gateVars, ApprovalInv, ApprovalTypeOK, PendingIsLive, DecidedAsTold, AnswerKept
<1> QED
  BY <1>1, <1>2

(* The invariant holds throughout, for any calls and approval ids. *)
THEOREM ApprovalInvariant == GateSpec => []ApprovalInv
  BY GateStarts, GateKeeps, PTL DEF GateSpec

(* The inbox holds exactly the questions that are asked now: however ids   *)
(* collide, no request replaces or removes another one.                    *)
THEOREM InboxIsExact == GateSpec => []PendingIsLive
  BY ApprovalInvariant, PTL DEF ApprovalInv

(* A tool call runs with the user's approval only if the user approved it, *)
(* and no confirmed answer is lost but to an ending or a failed question.  *)
THEOREM DecisionIsTheUsers == GateSpec => []DecidedAsTold
  BY ApprovalInvariant, PTL DEF ApprovalInv
=============================================================================
