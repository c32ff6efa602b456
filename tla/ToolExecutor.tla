---------------------------- MODULE ToolExecutor ----------------------------
(***************************************************************************)
(* ToolExecutor.execute (coding_agent/tools/executor.py): the life of the  *)
(* tool calls of a session.  A call is validated, authorised once, perhaps *)
(* answered from a cache, and otherwise run, with retries after network    *)
(* errors if it is idempotent.  The read-only calls of one batch overlap.  *)
(*                                                                         *)
(* The caches hold results of read-only tools and of verification commands *)
(* (pytest and the like).  Their keys carry the mutation epoch, which the  *)
(* executor raises when a write or an edit succeeds.  The verification     *)
(* cache and the epoch are saved to a file for the next process; a save    *)
(* may fail, and then nothing is said of it and the file lags behind.  The *)
(* workspace is a version number: every change of a file gives it a new    *)
(* one.                                                                    *)
(***************************************************************************)
EXTENDS Naturals, FiniteSets

CONSTANTS
  Reads,        \* calls of read-only tools: one query, idempotent
  Checks,       \* bash calls of one verification command
  Writes,       \* write and edit calls
  Shells,       \* other bash calls
  RetryLimit,   \* _retry_limit of an idempotent call
  MaxCrashes    \* bound on restarts of the process

ASSUME ExecutorAssumption ==
  /\ \A c \in Reads : c \notin Checks \cup Writes \cup Shells
  /\ \A c \in Checks : c \notin Writes \cup Shells
  /\ Writes \cap Shells = {}
  /\ RetryLimit \in Nat /\ MaxCrashes \in Nat

Call == Reads \cup Checks \cup Writes \cup Shells

VARIABLES
  stage,        \* where execute is for a call
  outcome,      \* how the call ended
  attempt,      \* retries of a call so far
  asked,        \* how often the preflights (the approval) ran in this execute
  invoked,      \* how often the tool's operation was started in this execute
  opened,       \* <<epoch, named>> when the call's cache keys were computed
  seen,         \* workspace version in the operation's result
  cancelled,    \* the cancellation token
  epoch,        \* _mutation_epoch
  saved,        \* verification-cache.json: mutation_epoch and entries
  repeatable,   \* _repeatable_results: the tool and epoch of the key, and the value
  verified,     \* _verification_cache: epoch and named, and the value
  version,      \* the workspace
  named,        \* the contents of the files the verification command names
  known,        \* version right after the last write this process knows of
  reached,      \* known, when a save last could succeed: the next process's known
  crashes

callVars  == <<stage, outcome, attempt, asked, invoked, opened, seen>>
cacheVars == <<epoch, saved, repeatable, verified>>
spaceVars == <<version, named, known, reached>>
vars == <<callVars, cancelled, cacheVars, spaceVars, crashes>>

Stage == {"new", "preflight", "running", "returned", "network_result", "network_error",
          "failed", "backoff_result", "backoff_error", "ended"}

(* "error" is any result that reports one: rejected, failed, timed out, cancelled. *)
Outcome == {"none", "succeeded", "error", "reused", "raised"}

ToolTypeOK ==
  /\ stage \in [Call -> Stage]
  /\ outcome \in [Call -> Outcome]
  /\ attempt \in [Call -> 0 .. RetryLimit]
  /\ asked \in [Call -> Nat]
  /\ invoked \in [Call -> Nat]
  /\ opened \in [Call -> Nat \X Nat]
  /\ seen \in [Call -> Nat]
  /\ cancelled \in BOOLEAN
  /\ epoch \in Nat
  /\ saved \in [epoch : Nat, entries : SUBSET [key : Nat \X Nat, value : Nat]]
  /\ repeatable \in SUBSET [key : {"read", "bash"} \X Nat, value : Nat]
  /\ verified \in SUBSET [key : Nat \X Nat, value : Nat]
  /\ version \in Nat /\ named \in Nat /\ known \in Nat /\ reached \in Nat
  /\ crashes \in 0 .. MaxCrashes

Init ==
  /\ stage = [c \in Call |-> "new"]
  /\ outcome = [c \in Call |-> "none"]
  /\ attempt = [c \in Call |-> 0]
  /\ asked = [c \in Call |-> 0]
  /\ invoked = [c \in Call |-> 0]
  /\ opened = [c \in Call |-> <<0, 0>>]
  /\ seen = [c \in Call |-> 0]
  /\ cancelled = FALSE
  /\ epoch = 0 /\ saved = [epoch |-> 0, entries |-> {}]
  /\ repeatable = {} /\ verified = {}
  /\ version = 0 /\ named = 0 /\ known = 0 /\ reached = 0
  /\ crashes = 0

-----------------------------------------------------------------------------
Busy(c) == stage[c] \notin {"new", "ended"}

(* execute ends: its locals are gone. *)
End(c, o) ==
  /\ stage' = [stage EXCEPT ![c] = "ended"]
  /\ outcome' = [outcome EXCEPT ![c] = o]
  /\ attempt' = [attempt EXCEPT ![c] = 0]
  /\ asked' = [asked EXCEPT ![c] = 0]
  /\ invoked' = [invoked EXCEPT ![c] = 0]
  /\ opened' = [opened EXCEPT ![c] = <<0, 0>>]

(* _finalize: no transform suspends, so the result is delivered in the     *)
(* step that decides the outcome.                                          *)
Deliver(c, o) == End(c, o)

(* execute ends with an exception and without _finalize. *)
Raise(c) == End(c, "raised")

(* A call arrives: unknown or unavailable tool, invalid arguments, a       *)
(* cancelled token, or the one round of preflights starts.  AgentLoop lets *)
(* only the read-only calls of one batch overlap.                          *)
Receive(c) ==
  /\ stage[c] = "new"
  /\ \A d \in Call : Busy(d) => {c, d} \subseteq Reads
  /\ \/ Deliver(c, "error")
     \/ /\ ~cancelled
        /\ stage' = [stage EXCEPT ![c] = "preflight"]
        /\ asked' = [asked EXCEPT ![c] = @ + 1]
        /\ UNCHANGED <<outcome, attempt, invoked, opened>>
  /\ UNCHANGED <<seen, cancelled, cacheVars, spaceVars, crashes>>

(* A preflight blocks the call or fails, or the token stops its wait. *)
Refuse(c) ==
  /\ stage[c] = "preflight"
  /\ Deliver(c, "error")
  /\ UNCHANGED <<seen, cancelled, cacheVars, spaceVars, crashes>>

Tool(c) == IF c \in Reads THEN "read" ELSE "bash"
Put(cache, k, v) == {e \in cache : e.key # k} \cup {[key |-> k, value |-> v]}

(* The entries a lookup finds: for a verification command first the one    *)
(* under its epoch and the contents of its files, then the one under the   *)
(* epoch alone.                                                            *)
Hits(c) ==
  LET proven == {e \in verified : c \in Checks /\ e.key = <<epoch, named>>} IN
  IF proven # {} THEN proven
  ELSE {e \in repeatable : c \in Reads \cup Checks /\ e.key = <<Tool(c), epoch>>}

(* The preflights allow the call and a cache answers it. *)
Reuse(c) ==
  /\ stage[c] = "preflight"
  /\ \E e \in Hits(c) : seen' = [seen EXCEPT ![c] = e.value]
  /\ Deliver(c, "reused")
  /\ UNCHANGED <<cancelled, cacheVars, spaceVars, crashes>>

(* The fingerprint raises: the command has an unbalanced quote. *)
KeyRaises(c) ==
  /\ stage[c] = "preflight" /\ c \in Checks
  /\ Raise(c)
  /\ UNCHANGED <<seen, cancelled, cacheVars, spaceVars, crashes>>

(* No cache answers: the operation starts under the keys computed now. *)
Start(c) ==
  /\ stage[c] = "preflight" /\ Hits(c) = {}
  /\ \/ cancelled /\ Deliver(c, "error")
     \/ /\ ~cancelled
        /\ stage' = [stage EXCEPT ![c] = "running"]
        /\ opened' = [opened EXCEPT ![c] = <<epoch, named>>]
        /\ invoked' = [invoked EXCEPT ![c] = @ + 1]
        /\ UNCHANGED <<outcome, attempt, asked>>
  /\ UNCHANGED <<seen, cancelled, cacheVars, spaceVars, crashes>>

(* Files change, the named ones among them or not. *)
Change ==
  /\ version' = version + 1
  /\ named' \in {named, version'}
  /\ UNCHANGED <<known, reached>>

(* The operation ends.  A write commits at once or not at all, and not     *)
(* under a cancelled token; a shell command may have changed files however *)
(* it ends, when it is killed too.                                         *)
Operate(c) ==
  /\ stage[c] = "running"
  /\ \E r \in {"returned", "network_result", "network_error", "failed"} :
       /\ stage' = [stage EXCEPT ![c] = r]
       /\ \/ /\ c \in Writes \cup Shells
             /\ c \in Writes => r = "returned" /\ ~cancelled
             /\ Change
          \/ /\ c \in Writes => r # "returned"
             /\ UNCHANGED spaceVars
  /\ seen' = [seen EXCEPT ![c] = version']
  /\ UNCHANGED <<outcome, attempt, asked, invoked, opened, cancelled, cacheVars, crashes>>

(* A faulty variant of Saves: a write does not save the new epoch. *)
SavesChecks(c) == c \in Checks

(* The calls whose success saves the verification cache and the epoch. *)
Saves(c) == c \in Checks \cup Writes

(* execute sees the operation's result: the caches, and for a write or an  *)
(* edit the new epoch, which also empties the repeatable results.  The     *)
(* save comes last: it takes place, or it fails, which is passed over in   *)
(* silence, or the process dies before it (then Crash follows).            *)
Succeed(c, canSave) ==
  /\ stage[c] = "returned"
  /\ Deliver(c, "succeeded")
  /\ verified' = IF c \in Checks THEN Put(verified, opened[c], seen[c]) ELSE verified
  /\ repeatable' =
       CASE c \in Writes           -> {}
         [] c \in Reads \cup Checks -> Put(repeatable, <<Tool(c), opened[c][1]>>, seen[c])
         [] OTHER                  -> repeatable
  /\ epoch' = IF c \in Writes THEN epoch + 1 ELSE epoch
  /\ saved' = IF Saves(c) /\ canSave THEN [epoch |-> epoch', entries |-> verified'] ELSE saved
  /\ known' = IF c \in Writes THEN seen[c] ELSE known
  /\ reached' = IF c \in Checks \cup Writes /\ canSave THEN known' ELSE reached
  /\ seen' = [seen EXCEPT ![c] = 0]
  /\ UNCHANGED <<cancelled, version, named, crashes>>

(* _retry_limit *)
Limit(c) == IF c \in Reads THEN RetryLimit ELSE 0

(* A faulty variant of Fail: it retries once more than the limit says. *)
FailOneMore(c) ==
  /\ stage[c] \in {"network_result", "network_error", "failed"}
  /\ IF stage[c] # "failed" /\ attempt[c] <= Limit(c)
       THEN /\ attempt' = [attempt EXCEPT ![c] = @ + 1]
            /\ stage' = [stage EXCEPT ![c] =
                 IF @ = "network_result" THEN "backoff_result" ELSE "backoff_error"]
            /\ UNCHANGED <<outcome, asked, invoked, opened, seen>>
       ELSE Deliver(c, "error") /\ seen' = [seen EXCEPT ![c] = 0]
  /\ UNCHANGED <<cancelled, cacheVars, spaceVars, crashes>>

(* The operation failed: a network error is retried after a backoff, as    *)
(* far as the limit goes; anything else is delivered.                      *)
Fail(c) ==
  /\ stage[c] \in {"network_result", "network_error", "failed"}
  /\ IF stage[c] # "failed" /\ attempt[c] < Limit(c)
       THEN /\ attempt' = [attempt EXCEPT ![c] = @ + 1]
            /\ stage' = [stage EXCEPT ![c] =
                 IF @ = "network_result" THEN "backoff_result" ELSE "backoff_error"]
            /\ UNCHANGED <<outcome, asked, invoked, opened, seen>>
       ELSE Deliver(c, "error") /\ seen' = [seen EXCEPT ![c] = 0]
  /\ UNCHANGED <<cancelled, cacheVars, spaceVars, crashes>>

(* A faulty variant of Retry: the retry goes through the preflights again. *)
RetryAsks(c) ==
  /\ stage[c] \in {"backoff_result", "backoff_error"} /\ ~cancelled
  /\ stage' = [stage EXCEPT ![c] = "preflight"]
  /\ asked' = [asked EXCEPT ![c] = @ + 1]
  /\ UNCHANGED <<outcome, attempt, invoked, opened, seen, cancelled, cacheVars, spaceVars, crashes>>

(* The backoff is over: the operation again, and nothing else again. *)
Retry(c) ==
  /\ stage[c] \in {"backoff_result", "backoff_error"} /\ ~cancelled
  /\ stage' = [stage EXCEPT ![c] = "running"]
  /\ invoked' = [invoked EXCEPT ![c] = @ + 1]
  /\ UNCHANGED <<outcome, attempt, asked, opened, seen, cancelled, cacheVars, spaceVars, crashes>>

(* The token stops a call: the running operation is cancelled and awaited. *)
(* A backoff that follows an exception sits in the except clause, whose    *)
(* own exceptions nobody turns into a delivery.                            *)
Stop(c) ==
  /\ cancelled
  /\ \/ stage[c] \in {"running", "backoff_result"} /\ Deliver(c, "error")
     \/ stage[c] = "backoff_error" /\ Raise(c)
  /\ seen' = [seen EXCEPT ![c] = 0]
  /\ UNCHANGED <<cancelled, cacheVars, spaceVars, crashes>>

NoLocals ==
  /\ attempt' = [c \in Call |-> 0] /\ opened' = [c \in Call |-> <<0, 0>>]
  /\ asked' = [c \in Call |-> 0] /\ invoked' = [c \in Call |-> 0]

(* The loop's time budget ends: gather cancels the tasks of all its calls. *)
(* Only the try block around the operation delivers; an operation that has *)
(* returned, but whose result execute has not seen, stays unseen.          *)
TimeOut ==
  /\ \E c \in Call : Busy(c)
  /\ cancelled' = TRUE
  /\ stage' = [c \in Call |-> IF Busy(c) THEN "ended" ELSE stage[c]]
  /\ outcome' = [c \in Call |->
       CASE stage[c] \in {"preflight", "backoff_error"} -> "raised"
         [] stage[c] \in {"new", "ended"}               -> outcome[c]
         [] OTHER                                       -> "error"]
  /\ NoLocals
  /\ seen' = [c \in Call |-> IF Busy(c) THEN 0 ELSE seen[c]]
  /\ UNCHANGED <<cacheVars, spaceVars, crashes>>

Cancel ==
  /\ ~cancelled /\ \E c \in Call : Busy(c)
  /\ cancelled' = TRUE
  /\ UNCHANGED <<callVars, cacheVars, spaceVars, crashes>>

(* The next run of the session brings a new token. *)
NextRun ==
  /\ cancelled /\ \A c \in Call : ~Busy(c)
  /\ cancelled' = FALSE
  /\ UNCHANGED <<callVars, cacheVars, spaceVars, crashes>>

(* The process dies and starts again: _load_verification_cache.  The new   *)
(* process knows of the writes before the last save, and of no other.      *)
Crash ==
  /\ crashes < MaxCrashes
  /\ crashes' = crashes + 1
  /\ stage' = [c \in Call |-> IF Busy(c) THEN "ended" ELSE stage[c]]
  /\ outcome' = [c \in Call |-> IF Busy(c) THEN "none" ELSE outcome[c]]
  /\ cancelled' = FALSE
  /\ repeatable' = {}
  /\ epoch' = saved.epoch /\ verified' = saved.entries
  /\ known' = reached
  /\ NoLocals
  /\ seen' = [c \in Call |-> IF Busy(c) THEN 0 ELSE seen[c]]
  /\ UNCHANGED <<saved, version, named, reached>>

Next ==
  \/ \E c \in Call :
       \/ Receive(c) \/ Refuse(c) \/ Reuse(c) \/ KeyRaises(c) \/ Start(c)
       \/ Operate(c) \/ (\E canSave \in BOOLEAN : Succeed(c, canSave)) \/ Fail(c) \/ Retry(c) \/ Stop(c)
  \/ TimeOut \/ Cancel \/ NextRun \/ Crash

Spec == Init /\ [][Next]_vars

-----------------------------------------------------------------------------
(* A call is authorised once, retries included; its operation never starts *)
(* before that; and the operation of a call that is not idempotent starts  *)
(* at most once.                                                           *)
AuthorizedOnceRunOnce ==
  \A c \in Call :
    /\ asked[c] <= 1
    /\ invoked[c] > 0 => asked[c] = 1
    /\ c \notin Reads => invoked[c] <= 1

(* A result is reused only if it was obtained after the last write or edit *)
(* that the executor saw succeed - in this process, or in an earlier one   *)
(* whose last save to the verification cache came with it or after it.  A  *)
(* write whose save failed, or before whose save the process died, is not  *)
(* known to the next process, which may reuse a result from before it      *)
(* (executor.py 168-178, 500-503).                                         *)
ReuseAfterLastWrite ==
  [][\A c \in Call : outcome[c] # "reused" /\ outcome'[c] = "reused" => seen'[c] >= known]_vars

Begun(c) == Busy(c) /\ stage[c] # "preflight"

Backoff == {"backoff_result", "backoff_error"}

OverlapReads == \A c, d \in Call : Busy(c) /\ Busy(d) /\ c # d => {c, d} \subseteq Reads

(* A started call was authorised once; it runs for the time after its      *)
(* retries, or is about to.                                                *)
StartsCounted ==
  \A c \in Call :
    /\ attempt[c] <= Limit(c)
    /\ ~Begun(c) => attempt[c] = 0 /\ invoked[c] = 0
    /\ asked[c] = IF Busy(c) THEN 1 ELSE 0
    /\ Begun(c) => invoked[c] = attempt[c] + (IF stage[c] \in Backoff THEN 0 ELSE 1)

(* A call that has computed its keys has the present epoch in them, and    *)
(* the file may lag behind.                                                *)
EpochsAgree == saved.epoch <= epoch /\ \A c \in Call : Begun(c) => opened[c][1] = epoch

(* What a cache holds under the present epoch is no older than the last    *)
(* write, and neither is what a call is about to put there; what the file  *)
(* holds under its epoch is no older than the last write before the save.  *)
ResultsFresh ==
  /\ known <= version /\ reached <= version
  /\ \A c \in Call : stage[c] = "returned" => known <= seen[c] /\ seen[c] <= version

EntriesFresh ==
  /\ \A e \in repeatable : e.key[2] = epoch /\ known <= e.value
  /\ \A e \in verified :
       e.key[1] <= epoch /\ (e.key[1] = epoch => known <= e.value)
  /\ \A e \in saved.entries :
       e.key[1] <= saved.epoch /\ (e.key[1] = saved.epoch => reached <= e.value)

(* The inductive invariant of the executor: only reads overlap, so no      *)
(* write changes the epoch under a call that has computed its keys; the    *)
(* file holds nothing under an epoch beyond its own, so a restart brings   *)
(* back no result from before a write that was saved; and starts are       *)
(* counted by retries.                                                     *)
ToolInv ==
  /\ ToolTypeOK /\ OverlapReads /\ StartsCounted
  /\ EpochsAgree /\ ResultsFresh /\ EntriesFresh
=============================================================================
