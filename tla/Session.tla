------------------------------- MODULE Session -------------------------------
(***************************************************************************)
(* One coding session: AgentLoop.run (agent/loop.py), the consumer of its  *)
(* events, CodingAssistant._run_once (assistant/coding.py), and the        *)
(* recovery in CodingAssistant's constructor.                              *)
(*                                                                         *)
(* The loop appends to its message list in memory and yields events; the   *)
(* consumer writes the journal (session.jsonl) and run-state.json from     *)
(* them, one event at a time, while the loop is suspended.  A cancellation *)
(* can arrive at every suspension and the process can die at any moment;   *)
(* a restart rebuilds the messages from the journal alone.                 *)
(***************************************************************************)
EXTENDS RunState, Naturals, Sequences, SequencesExt

CONSTANTS
  Reads,        \* calls of read-only tools (parallel safe)
  Hidden,       \* calls of tools the request did not advertise
  NoMessages,   \* the assistant has no pending request
  MaxPrompts,   \* bound on prompts and retries
  MaxReply,     \* bound on the tool calls of one reply
  MaxCalls,     \* bound on the tool calls of all replies
  MaxRaises,    \* bound on exceptions ToolExecutor.execute lets through
  MaxCrashes    \* bound on deaths of the process

ASSUME SessionAssumption ==
  /\ Reads \subseteq Call /\ Hidden \subseteq Call /\ Reads \cap Hidden = {}
  /\ {MaxPrompts, MaxReply, MaxCalls, MaxRaises, MaxCrashes} \subseteq Nat

VARIABLES
  phase,      \* where the run is
  messages,   \* AgentLoop.messages
  pending,    \* AgentLoop.pending_request: the messages it was built from
  journal,    \* message records of session.jsonl
  runState,   \* run-state.json
  netError,   \* is the recorded error of the last run a network error?
  events,     \* events yielded and not consumed yet
  cancelled,  \* the run's CancellationToken
  stop,       \* stop_reason of the run_finished event
  todo,       \* reply.tool_calls[call_index:]
  batch,      \* calls of the current gather
  flight,     \* ToolExecutor.execute of a call
  asked,      \* call ids the model has used
  dangling,   \* runs since the last start that an executor exception ended
  twice,      \* has one ended a run while the journal held a second open round?
  prompts, raises, crashes   \* bounds

loopVars   == <<phase, stop, todo, batch, cancelled>>
memoryVars == <<messages, pending>>
diskVars   == <<journal, runState, netError>>
bounds     == <<asked, dangling, twice, prompts, raises, crashes>>
vars == <<loopVars, memoryVars, diskVars, events, flight, bounds>>

Phase == {"down", "idle", "top", "waiting", "calls", "gather", "ending"}

(* A message, as far as the tool protocol tells messages apart. *)
User         == [role |-> "user", calls |-> << >>, call |-> NoCall]
Text         == [role |-> "assistant", calls |-> << >>, call |-> NoCall]
ToolCalls(s) == [role |-> "assistant", calls |-> s, call |-> NoCall]
Result(c)    == [role |-> "tool", calls |-> << >>, call |-> c]
Message ==
  {User, Text} \cup {Result(c) : c \in Call} \cup {ToolCalls(s) : s \in SeqOf(Call, MaxReply)}

Event ==
  [type : {"message"}, about : Message]
    \cup [type : {"tool_started", "tool_finished"}, about : Call]
    \cup {[type |-> "turn_started", about |-> NoCall], [type |-> "run_finished", about |-> NoCall]}

MessageEv(m) == [type |-> "message", about |-> m]
Added(m)     == <<MessageEv(m)>>
StartedEv(c) == [type |-> "tool_started", about |-> c]

(* A faulty variant of ResultEvs: the message comes before the end of the call. *)
ResultFirstEvs(c) == Added(Result(c)) \o <<[type |-> "tool_finished", about |-> c]>>

ResultEvs(c) == <<[type |-> "tool_finished", about |-> c]>> \o Added(Result(c))
TurnEv       == <<[type |-> "turn_started", about |-> NoCall]>>
EndEv        == <<[type |-> "run_finished", about |-> NoCall]>>

SessionTypeOK ==
  /\ phase \in Phase
  /\ {messages, journal} \subseteq Seq(Message) /\ pending \in Seq(Message) \cup {NoMessages}
  /\ runState \in RunRecord /\ netError \in BOOLEAN
  /\ events \in Seq(Event)
  /\ cancelled \in BOOLEAN
  /\ stop \in {"none", "completed", "aborted", "budget_exhausted", "error"}
  /\ {todo, batch} \subseteq Seq(Call) /\ asked \subseteq Call
  /\ flight \in [Call -> {"none", "queued", "running", "stopped", "done"}]
  /\ dangling \in 0 .. raises /\ raises \in 0 .. MaxRaises /\ twice \in BOOLEAN

Init ==
  /\ phase = "idle" /\ stop = "none" /\ todo = << >> /\ batch = << >>
  /\ cancelled = FALSE
  /\ messages = << >> /\ pending = NoMessages
  /\ journal = << >> /\ runState = NoRun /\ netError = FALSE
  /\ events = << >>
  /\ flight = [c \in Call |-> "none"]
  /\ asked = {} /\ dangling = 0 /\ twice = FALSE
  /\ prompts = 0 /\ raises = 0 /\ crashes = 0

-----------------------------------------------------------------------------
(* Recovery of a message list.                                             *)

(* The members of s that are not in S, in their order. *)
Without(s, S) == FlattenSeq([i \in DOMAIN s |-> IF s[i] \in S THEN << >> ELSE <<s[i]>>])

(* The run of tool messages that follows message i. *)
RoundEnd(ms, i) ==
  CHOOSE n \in i .. Len(ms) :
    /\ \A j \in i + 1 .. n : ms[j].role = "tool"
    /\ n = Len(ms) \/ ms[n + 1].role # "tool"

Results(ms, i) == SubSeq(ms, i + 1, RoundEnd(ms, i))

Answered(ms, i) ==
  LET rs == Results(ms, i) IN ToSet(ms[i].calls) \subseteq {rs[j].call : j \in DOMAIN rs}

(* The rounds that are short of results. *)
Open(ms) == {i \in DOMAIN ms : ms[i].calls # << >> /\ ~Answered(ms, i)}

LeaveOut(ms, i) == SubSeq(ms, 1, i - 1) \o SubSeq(ms, RoundEnd(ms, i) + 1, Len(ms))

(* A faulty variant of DropIncompleteRound: repairs alone have to do. *)
DropNothing(ms) == ms

(* _drop_incomplete_tool_round: only the FIRST unfinished round goes. *)
DropIncompleteRound(ms) ==
  IF Open(ms) = {} THEN ms
  ELSE LeaveOut(ms, CHOOSE i \in Open(ms) : \A j \in Open(ms) : i <= j)

(* The calls that have a result anywhere. *)
Told(ms) == {ms[i].call : i \in DOMAIN ms}

(* _repair_interrupted_tool_calls: an [INTERRUPTED] result, at the end of  *)
(* the list, for every call without a result anywhere.                     *)
Repairs(ms) ==
  LET open == Without(FlattenSeq([i \in DOMAIN ms |-> ms[i].calls]), Told(ms))
  IN [i \in DOMAIN open |-> Result(open[i])]

(* What the constructor makes of the journal's messages. *)
Recover(ms) == LET kept == DropIncompleteRound(ms) IN kept \o Repairs(kept)

(* The protocol of the chat APIs: the results of a round follow it at      *)
(* once, one for each of its calls, and every result answers such a call.  *)
WellFormed(ms) ==
  /\ \A i \in DOMAIN ms :
       ms[i].calls # << >> =>
         LET rs == Results(ms, i) IN
         /\ Len(rs) = Len(ms[i].calls)
         /\ {rs[j].call : j \in DOMAIN rs} = ToSet(ms[i].calls)
  /\ \A i \in DOMAIN ms :
       ms[i].role = "tool" =>
         \E j \in 1 .. i - 1 : ms[j].calls # << >> /\ i <= RoundEnd(ms, j)

-----------------------------------------------------------------------------
(* The generator is suspended until the consumer has taken every event.    *)
At(p) == phase = p /\ events = << >>

Stop(s) == phase' = "ending" /\ stop' = s

(* Two faulty variants of Pause: the event names the budget and not the    *)
(* stop reason; the notice is not yielded.                                 *)
PauseByType ==
  /\ Stop("time")
  /\ messages' = Append(messages, Text)
  /\ events' = Added(Text) \o EndEv

PauseUnsaved ==
  /\ Stop("budget_exhausted")
  /\ messages' = Append(messages, Text)
  /\ events' = EndEv

(* _budget_events: a pause notice, then the end of the run. *)
Pause ==
  /\ Stop("budget_exhausted")
  /\ messages' = Append(messages, Text)
  /\ events' = Added(Text) \o EndEv

(* _cancelled_tool_events for calls cs, then the rest of the run's events. *)
Answer(cs, rest) ==
  /\ messages' = messages \o [i \in DOMAIN cs |-> Result(cs[i])]
  /\ events' = FlattenSeq([i \in DOMAIN cs |-> ResultEvs(cs[i])]) \o rest

(* run(prompt): the run state starts afresh and the prompt is appended.    *)
Prompt ==
  /\ At("idle") /\ prompts < MaxPrompts
  /\ prompts' = prompts + 1
  /\ runState' = FreshRun /\ netError' = FALSE
  /\ pending' = NoMessages
  /\ messages' = Append(messages, User)
  /\ events' = Added(User)
  /\ phase' = "top"
  /\ UNCHANGED <<stop, todo, batch, cancelled, journal, flight, asked, dangling, twice, raises, crashes>>

(* retry_network accepts only a failed run with a network error whose      *)
(* request is still there.                                                 *)
Retriable == runState.status = "failed" /\ netError /\ pending # NoMessages

Retry ==
  /\ At("idle") /\ Retriable /\ prompts < MaxPrompts
  /\ prompts' = prompts + 1
  /\ runState' = FreshRun /\ netError' = FALSE
  /\ phase' = "top"
  /\ UNCHANGED <<stop, todo, batch, cancelled, memoryVars, journal, events, flight,
                 asked, dangling, twice, raises, crashes>>

(* The top of the loop: cancelled, out of time or tokens, or the next      *)
(* request, which is the pending one if the run retries.                   *)
Turn ==
  /\ At("top")
  /\ \/ /\ cancelled
        /\ Stop("aborted")
        /\ events' = EndEv
        /\ UNCHANGED memoryVars
     \/ /\ ~cancelled
        /\ Pause
        /\ UNCHANGED pending
     \/ /\ ~cancelled
        /\ phase' = "waiting"
        /\ pending' = IF pending = NoMessages THEN messages ELSE pending
        /\ events' = TurnEv
        /\ UNCHANGED <<stop, messages>>
  /\ UNCHANGED <<todo, batch, cancelled, diskVars, flight, bounds>>

(* The stream ends without a usable reply: the time budget is spent; the   *)
(* client gave up, with a network error or another one; or the token was   *)
(* cancelled, and what text there was is kept.                             *)
NoReply ==
  /\ At("waiting")
  /\ \/ Pause /\ UNCHANGED netError
     \/ /\ Stop("error")
        /\ netError' \in BOOLEAN
        /\ events' = EndEv
        /\ UNCHANGED messages
     \/ /\ cancelled
        /\ Stop("aborted")
        /\ \/ messages' = Append(messages, Text) /\ events' = Added(Text) \o EndEv
           \/ events' = EndEv /\ UNCHANGED messages
        /\ UNCHANGED netError
  /\ UNCHANGED <<todo, batch, cancelled, pending, journal, runState, flight, bounds>>

(* A reply without tool calls ends the run. *)
ReplyFinal ==
  /\ At("waiting") /\ ~cancelled
  /\ pending' = NoMessages
  /\ messages' = Append(messages, Text)
  /\ events' = Added(Text) \o EndEv
  /\ Stop("completed")
  /\ UNCHANGED <<todo, batch, cancelled, diskVars, flight, bounds>>

Batches == {s \in SeqOf(Call, MaxReply) : s # << >> /\ IsInjective(s)}

(* A faulty variant of ReplyCalls: the request stays pending. *)
ReplyCallsKeepsRequest(cs) ==
  /\ At("waiting") /\ ~cancelled
  /\ ToSet(cs) \cap asked = {}
  /\ asked' = asked \cup ToSet(cs)
  /\ Cardinality(asked') <= MaxCalls
  /\ messages' = Append(messages, ToolCalls(cs))
  /\ events' = Added(ToolCalls(cs))
  /\ todo' = cs
  /\ phase' = "calls"
  /\ UNCHANGED <<stop, batch, cancelled, pending, diskVars, flight, dangling, twice, prompts, raises, crashes>>

(* A reply with tool calls, under ids the session has not seen. *)
ReplyCalls(cs) ==
  /\ At("waiting") /\ ~cancelled
  /\ ToSet(cs) \cap asked = {}
  /\ asked' = asked \cup ToSet(cs)
  /\ Cardinality(asked') <= MaxCalls
  /\ pending' = NoMessages
  /\ messages' = Append(messages, ToolCalls(cs))
  /\ events' = Added(ToolCalls(cs))
  /\ todo' = cs
  /\ phase' = "calls"
  /\ UNCHANGED <<stop, batch, cancelled, diskVars, flight, dangling, twice, prompts, raises, crashes>>

-----------------------------------------------------------------------------
(* The calls of a reply.                                                   *)

(* The longest prefix of read-only calls, or one call of any other kind. *)
BatchLen(cs) ==
  IF cs[1] \notin Reads THEN 1
  ELSE CHOOSE n \in 1 .. Len(cs) :
         /\ \A i \in 1 .. n : cs[i] \in Reads
         /\ n = Len(cs) \/ cs[n + 1] \notin Reads

(* The head of the while loop: answer the rest if cancelled, or announce   *)
(* the next batch and start its calls.                                     *)
StartBatch ==
  /\ At("calls") /\ todo # << >>
  /\ \/ /\ cancelled
        /\ Answer(todo, EndEv)
        /\ Stop("aborted")
        /\ todo' = << >>
        /\ UNCHANGED <<batch, flight>>
     \/ LET b == SubSeq(todo, 1, BatchLen(todo))
            shown == Without(b, Hidden) IN
        /\ ~cancelled
        /\ batch' = b
        /\ flight' = [c \in Call |-> IF c \in ToSet(b) THEN "queued" ELSE flight[c]]
        /\ events' = [i \in DOMAIN shown |-> StartedEv(shown[i])]
        /\ phase' = "gather"
        /\ UNCHANGED <<stop, messages, todo>>
  /\ UNCHANGED <<cancelled, pending, diskVars, bounds>>

(* A call of the batch, or one that an ended run left behind. *)
InBatch(c) == phase = "gather" /\ c \in ToSet(batch)
CanStep(c) == IF InBatch(c) THEN events = << >> ELSE TRUE

(* execute waits for something, a preflight or the tool's operation: never *)
(* for a tool that was not advertised, and only past a check of the token. *)
Begin(c) ==
  /\ flight[c] = "queued" /\ CanStep(c)
  /\ c \notin Hidden
  /\ InBatch(c) => ~cancelled
  /\ flight' = [flight EXCEPT ![c] = "running"]
  /\ UNCHANGED <<loopVars, memoryVars, diskVars, events, bounds>>

(* execute returns a result: the operation's, or one that was decided      *)
(* without it (rejected, denied, reused).  A call an ended run has left    *)
(* behind ends in some way.                                                *)
Finish(c) ==
  /\ flight[c] \in {"queued", "running"} /\ CanStep(c)
  /\ flight' = [flight EXCEPT ![c] = IF InBatch(c) THEN "done" ELSE "none"]
  /\ UNCHANGED <<loopVars, memoryVars, diskVars, events, bounds>>

(* A call of a cancelled run stops: at a check of the token, or when what  *)
(* it waited for has ended.  The executor cancels that, and then waits for *)
(* it all the same (executor.py 1226-1230).                                *)
Unwind(c) ==
  /\ InBatch(c) /\ CanStep(c) /\ cancelled
  /\ flight[c] = "running" \/ (flight[c] = "queued" /\ c \notin Hidden)
  /\ flight' = [flight EXCEPT ![c] = "stopped"]
  /\ UNCHANGED <<loopVars, memoryVars, diskVars, events, bounds>>

Settled(keep) ==
  flight' = [c \in Call |->
    IF c \in ToSet(batch) /\ flight[c] \notin keep THEN "none" ELSE flight[c]]

(* A faulty variant of BatchDone: the index of the next call is one short. *)
BatchDoneOneShort ==
  /\ At("gather")
  /\ \A c \in ToSet(batch) : flight[c] = "done"
  /\ Answer(batch, << >>)
  /\ todo' = SubSeq(todo, Len(batch), Len(todo))
  /\ batch' = << >>
  /\ Settled({})
  /\ phase' = "calls"
  /\ UNCHANGED <<stop, cancelled, pending, diskVars, bounds>>

(* gather returned: the results, in the order of the calls. *)
BatchDone ==
  /\ At("gather")
  /\ \A c \in ToSet(batch) : flight[c] = "done"
  /\ Answer(batch, << >>)
  /\ todo' = SubSeq(todo, Len(batch) + 1, Len(todo))
  /\ batch' = << >>
  /\ Settled({})
  /\ phase' = "calls"
  /\ UNCHANGED <<stop, cancelled, pending, diskVars, bounds>>

Stopped == {c \in ToSet(batch) : flight[c] = "stopped"}

(* A faulty variant of BatchCancelled: the calls after the batch get no    *)
(* result.                                                                 *)
BatchCancelledAnswersBatch ==
  /\ At("gather") /\ Stopped # {}
  /\ Answer(batch, EndEv)
  /\ Stop("aborted")
  /\ todo' = << >> /\ batch' = << >>
  /\ Settled({"running"})
  /\ UNCHANGED <<cancelled, pending, diskVars, bounds>>

(* A faulty variant of BatchCancelled: gather waits for all the calls.     *)
BatchCancelledWaitsForAll ==
  /\ At("gather") /\ Stopped # {}
  /\ \A c \in ToSet(batch) : flight[c] \in {"stopped", "done"}
  /\ Answer(todo, EndEv)
  /\ Stop("aborted")
  /\ todo' = << >> /\ batch' = << >>
  /\ Settled({"running"})
  /\ UNCHANGED <<cancelled, pending, diskVars, bounds>>

(* A call has raised ToolCancelledError: all the calls that are left get a *)
(* [CANCELLED] result.  gather does not wait for the batch's other calls:  *)
(* one that still waits for something goes on.                             *)
BatchCancelled ==
  /\ At("gather") /\ Stopped # {}
  /\ Answer(todo, EndEv)
  /\ Stop("aborted")
  /\ todo' = << >> /\ batch' = << >>
  /\ Settled({"running"})
  /\ UNCHANGED <<cancelled, pending, diskVars, bounds>>

(* The time budget is spent while the batch runs: gather has cancelled its *)
(* calls and they have all ended (it waits for them here); all that is     *)
(* left gets a [CANCELLED] result, the run pauses.                         *)
BatchTimeout ==
  /\ At("gather")
  /\ cancelled' = TRUE
  /\ messages' = messages \o [i \in DOMAIN todo |-> Result(todo[i])] \o <<Text>>
  /\ events' = FlattenSeq([i \in DOMAIN todo |-> ResultEvs(todo[i])]) \o Added(Text) \o EndEv
  /\ Stop("budget_exhausted")
  /\ todo' = << >> /\ batch' = << >>
  /\ Settled({})
  /\ UNCHANGED <<pending, diskVars, bounds>>

(* execute raised anything else (its workspace fingerprint, its delivery   *)
(* record): the run ends in error and no call of the round gets a result;  *)
(* the batch's other calls go on.                                          *)
BatchRaises ==
  /\ At("gather") /\ raises < MaxRaises
  /\ raises' = raises + 1 /\ dangling' = dangling + 1
  /\ twice' = (twice \/ \E i, j \in Open(journal) : i # j)
  /\ \E c \in ToSet(batch) :
       /\ flight[c] \in {"queued", "running"}
       /\ flight' = [d \in Call |->
            IF d = c \/ (d \in ToSet(batch) /\ flight[d] \in {"done", "stopped"})
              THEN "none" ELSE flight[d]]
  /\ netError' \in BOOLEAN
  /\ events' = EndEv
  /\ Stop("error")
  /\ todo' = << >> /\ batch' = << >>
  /\ UNCHANGED <<messages, cancelled, pending, journal, runState, asked, prompts, crashes>>

(* The round is over: no progress or no tokens left, or the next turn.     *)
EndTurn ==
  /\ At("calls") /\ todo = << >>
  /\ \/ Pause
     \/ phase' = "top" /\ UNCHANGED <<stop, messages, events>>
  /\ UNCHANGED <<todo, batch, cancelled, pending, diskVars, flight, bounds>>

-----------------------------------------------------------------------------
(* The consumer, _run_once.                                                *)

(* One event: a message goes to the journal, the rest to the run state. *)
Consume ==
  /\ events # << >> /\ phase # "down"
  /\ LET e == Head(events) IN
     /\ journal' = IF e.type = "message" THEN Append(journal, e.about) ELSE journal
     /\ runState' =
          CASE e.type = "turn_started"  -> Transition(runState, "waiting_model")
            [] e.type = "tool_started"  -> ToolStarted(runState, e.about)
            [] e.type = "tool_finished" -> ToolFinished(runState, e.about)
            [] e.type = "run_finished"  -> Transition(runState, "finalizing")
            [] OTHER                    -> runState
  /\ events' = Tail(events)
  /\ UNCHANGED <<loopVars, memoryVars, netError, flight, bounds>>

TerminalStatus ==
  CASE stop = "error"            -> "failed"
    [] stop = "aborted"          -> "cancelled"
    [] stop = "budget_exhausted" -> "paused"
    [] OTHER                     -> "completed"

(* The finally blocks of the loop and of _run_once. *)
Close ==
  /\ At("ending")
  /\ runState' = Finished(runState, TerminalStatus)
  /\ phase' = "idle"
  /\ cancelled' = FALSE
  /\ stop' = "none"
  /\ UNCHANGED <<todo, batch, memoryVars, journal, netError, events, flight, bounds>>

(* cancel() while the loop runs, whatever it is waiting for. *)
Cancel ==
  /\ phase \notin {"down", "idle"} /\ ~cancelled
  /\ cancelled' = TRUE
  /\ UNCHANGED <<phase, stop, todo, batch, memoryVars, diskVars, events, flight, bounds>>

(* The process dies.  If it is shut down instead, the task of a run is     *)
(* cancelled and _run_once's finally block still runs.                     *)
Crash ==
  /\ phase # "down" /\ crashes < MaxCrashes
  /\ crashes' = crashes + 1
  /\ \/ UNCHANGED runState
     \/ phase # "idle" /\ runState' = Finished(runState, "cancelled")
  /\ phase' = "down" /\ stop' = "none" /\ cancelled' = FALSE
  /\ todo' = << >> /\ batch' = << >> /\ events' = << >>
  /\ messages' = << >> /\ pending' = NoMessages
  /\ flight' = [c \in Call |-> "none"]
  /\ dangling' = 0
  /\ UNCHANGED <<journal, netError, asked, twice, prompts, raises>>

(* The constructor: the run state is marked interrupted, the messages are  *)
(* rebuilt, and the repairs are appended to the journal one by one.        *)
Restart ==
  /\ phase = "down"
  /\ phase' = "idle"
  /\ runState' = Recovered(runState)
  /\ messages' = Recover(journal)
  /\ LET repairs == Repairs(DropIncompleteRound(journal)) IN
     events' = [i \in DOMAIN repairs |-> MessageEv(repairs[i])]
  /\ UNCHANGED <<stop, todo, batch, cancelled, pending, journal, netError, flight, bounds>>

(* A call that waits for nothing goes on. *)
CallStep == \E c \in Call : flight[c] = "queued" /\ InBatch(c) /\ (Begin(c) \/ Finish(c) \/ Unwind(c))

(* What a run does by itself. *)
LoopStep ==
  \/ Turn \/ NoReply \/ ReplyFinal \/ (\E cs \in Batches : ReplyCalls(cs))
  \/ StartBatch \/ BatchDone \/ BatchCancelled
  \/ EndTurn \/ Consume \/ Close \/ CallStep

ToolStep == \E c \in Call : Begin(c) \/ Finish(c) \/ Unwind(c)

Next ==
  \/ Prompt \/ Retry \/ LoopStep \/ ToolStep
  \/ BatchTimeout \/ BatchRaises \/ Cancel \/ Crash \/ Restart

(* The event loop resumes the run whenever it can go on, and the client    *)
(* returns from a stream or raises.  Nothing is assumed of the tools - not *)
(* even that a cancelled operation ends -, of the time budget or of the    *)
(* user.                                                                   *)
Fairness == WF_vars(LoopStep)

Spec == Init /\ [][Next]_vars /\ Fairness

-----------------------------------------------------------------------------
(* Every request a run sends is a conversation the model APIs accept: no   *)
(* tool call without its result, no result without its call                *)
(* (ARCHITECTURE.md 257: the next request "remains protocol-valid"), after *)
(* cancellations, pauses, crashes and restarts, as long as no exception of *)
(* the executor has ended a run since the last start.                      *)
RequestWellFormed == phase = "waiting" /\ dangling = 0 => WellFormed(messages)

(* The same, unless an exception left a second open round in the journal.  *)
RequestStaysWellFormed ==
  phase = "waiting" /\ dangling = 0 /\ ~twice => WellFormed(messages)

(* Whatever the moment the process dies, what a restart makes of the       *)
(* journal is such a conversation, an executor exception before included,  *)
(* unless it met an open round in the journal.                             *)
JournalRecoverable == ~twice => WellFormed(Recover(journal))

(* Between runs a restart would change nothing: the messages in memory and *)
(* those the journal gives are the same, also after earlier restarts whose *)
(* repairs are in the journal.                                             *)
RestartTransparent ==
  phase = "idle" /\ dangling = 0 => messages = Recover(journal)

(* A call has at most one result in the journal, whoever wrote it: the     *)
(* tool, a cancellation, a time-out or a recovery.                         *)
AnsweredOnce(ms) == \A i, j \in DOMAIN ms : ms[i].role = "tool" /\ ms[j] = ms[i] => i = j
OneResultPerCall == AnsweredOnce(journal)

(* The call that run-state.json shows as running has no result in the      *)
(* journal: the recovery note never names a call that was answered.        *)
ActiveUnanswered == runState.active # NoCall => runState.active \notin Told(journal)

(* A request that retry_network may send again is the conversation as it   *)
(* is now: nothing was said or done since.                                 *)
RetrySendsCurrent == phase = "idle" /\ Retriable => pending = messages

-----------------------------------------------------------------------------
(* What these rest on.  The messages the journal will hold when the events *)
(* that are under way are consumed:                                        *)
Messages(es) ==
  FlattenSeq([k \in DOMAIN es |-> IF es[k].type = "message" THEN <<es[k].about>> ELSE << >>])
Written == journal \o Messages(events)

InRound == phase \in {"calls", "gather"}

(* Call ids are never used again. *)
AskedOnce(ms) ==
  \A i \in DOMAIN ms :
    /\ IsInjective(ms[i].calls)
    /\ \A j \in DOMAIN ms : i # j => ToSet(ms[i].calls) \cap ToSet(ms[j].calls) = {}
CallsAsked == \A i \in DOMAIN Written : ToSet(Written[i].calls) \subseteq asked

(* A result comes after its call, in its round or, being a repair, after   *)
(* an earlier round that is open.                                          *)
Follows(ms) ==
  \A p \in DOMAIN ms : ms[p].role = "tool" =>
    \E j \in 1 .. p - 1 :
      /\ ms[p].call \in ToSet(ms[j].calls)
      /\ p <= RoundEnd(ms, j) \/ \E h \in Open(ms) : h < j

(* As it should be: results in their rounds, and of the open rounds none   *)
(* but the first has anything behind it.                                   *)
InRounds(ms) ==
  \A p \in DOMAIN ms : ms[p].role = "tool" =>
    \E j \in 1 .. p - 1 : ms[p].call \in ToSet(ms[j].calls) /\ p <= RoundEnd(ms, j)
OneHole(ms) ==
  InRounds(ms) /\ \A i, k \in Open(ms) : i < k => RoundEnd(ms, k) = Len(ms)

(* The round that is worked on is the end of what is written: its results  *)
(* so far, in the order of its calls, and the rest of its calls to do.     *)
RoundAt(ms, k, rest) ==
  LET cs == ms[k].calls
      n  == Len(ms) - k
  IN /\ cs # << >> /\ n <= Len(cs)
     /\ \A j \in 1 .. n : ms[k + j] = Result(cs[j])
     /\ rest = SubSeq(cs, n + 1, Len(cs))
RoundUnderWay ==
  IF InRound
    THEN /\ \E k \in DOMAIN Written : RoundAt(Written, k, todo)
         /\ IF phase = "calls" THEN batch = << >>
            ELSE \E n \in 1 .. Len(todo) : batch = SubSeq(todo, 1, n)
    ELSE todo = << >> /\ batch = << >>

(* Memory is what is written, or that without the round that was open at   *)
(* the last start; between starts nothing is left unanswered, as long as   *)
(* no exception does it, but the calls to do.                              *)
MemoryIsWritten ==
  phase # "down" =>
    \/ /\ messages = Written
       /\ dangling = 0 => \A k \in Open(Written) : InRound /\ RoundEnd(Written, k) = Len(Written)
    \/ \E i \in Open(Written) :
         /\ \A k \in Open(Written) : i <= k
         /\ messages = LeaveOut(Written, i)
         /\ phase # "idle" \/ pending # NoMessages => RoundEnd(Written, i) < Len(Written)
NothingUntold ==
  phase # "down" /\ dangling = 0 =>
    \A i \in DOMAIN messages : ToSet(messages[i].calls) \subseteq Told(messages) \cup ToSet(todo)
RepairsUnderWay ==
  phase = "idle" /\ dangling = 0 => Messages(events) = Repairs(DropIncompleteRound(journal))

(* One round at most is open beside the one that is worked on. *)
OneOpen ==
  ~twice =>
    /\ OneHole(Written)
    /\ phase # "down" => \A i, k \in Open(Written) :
         i < k => InRound /\ RoundEnd(Written, k) = Len(Written)

(* What the consumer makes of events relies on their order. *)
EventsInOrder ==
  /\ phase = "down" => events = << >>
  /\ \A k \in DOMAIN events :
       /\ events[k].type = "run_finished" => phase = "ending" /\ k = Len(events)
       /\ phase = "gather" <=> events[k].type = "tool_started"
       /\ events[k].type = "tool_started" => events[k].about \in ToSet(batch)
       /\ events[k].type = "message" /\ events[k].about.role = "tool" /\ runState.active # NoCall =>
            events[1].type = "tool_finished"

(* The run state is live while a run is, and names no call otherwise. *)
RunIsLive ==
  /\ phase \notin {"down", "idle"} => runState.status \in Live
  /\ runState.status = "finalizing" => phase = "down" \/ (phase = "ending" /\ events = << >>)
  /\ runState.active # NoCall => runState.status \in Live
  /\ phase = "idle" => runState.status \notin Live

(* The kept request is the conversation, from when it is sent until the    *)
(* next message; a run fails with it or without any.                       *)
MayResend ==
  \/ phase \in {"top", "waiting"}
  \/ phase = "ending" /\ stop = "error"
  \/ phase = "idle" /\ runState.status = "failed"
RequestKept ==
  /\ InRound \/ phase = "down" => pending = NoMessages
  /\ MayResend => pending \in {NoMessages, messages}

(* What holds of one session at every moment: each call has one result,    *)
(* run-state.json names a call that has none, the kept request is current, *)
(* and memory and journal tell the same story.                             *)
SessionInv ==
  /\ SessionTypeOK
  /\ OneResultPerCall /\ ActiveUnanswered /\ RetrySendsCurrent
  /\ AskedOnce(Written) /\ CallsAsked /\ AnsweredOnce(Written) /\ Follows(Written)
  /\ RoundUnderWay /\ MemoryIsWritten /\ NothingUntold /\ RepairsUnderWay /\ OneOpen
  /\ EventsInOrder /\ RunIsLive /\ RequestKept

(* The run waits for calls none of which has ended after the cancel. *)
HeldByTools ==
  /\ phase = "gather" /\ Stopped = {}
  /\ \E c \in ToSet(batch) : flight[c] = "running"

(* A cancelled run ends, or it is held for ever by operations (or          *)
(* preflights) that swallow their cancellation: the executor waits for     *)
(* them (executor.py 1226-1230, 1232-1236).  It is enough that one of the  *)
(* batch ends - the run does not wait for the others (loop.py 305-332) -,  *)
(* and nothing else can keep it alive: no stream, no event not yet         *)
(* consumed, no call that has not started, no later round.                 *)
CancelEnds == cancelled ~> (phase \in {"idle", "down"} \/ []HeldByTools)
=============================================================================
