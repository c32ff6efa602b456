# MiniClaw: specifications, model checking and proofs

MiniClaw (`src/src/MiniClaw`) is an asyncio coding agent.  A session runs a loop
of model requests and tool calls; everything that must survive the process
(messages, run state, goals, tool caches, inbound events, outgoing messages)
is kept in small JSON files.  It is used from a command line and from a Feishu
chat bot that serves many conversations in one process.

This directory holds TLA+ modules of the parts where order matters, TLC
configurations that check them on small instances, and proofs for TLAPS.
`PROJECT.json` lists the runs, maps every definition to the lines it stands
for, and gives for every property a faulty variant of the code under which TLC
finds it violated.

    tlc -workers 2 -config MCSession.cfg MCSession
    tlapm OutboxProofs.tla

## 1. Inventory

### The parts that are modelled

**Agent loop and session** (`agent/loop.py`, `coding_agent/assistant/coding.py`).
State: the message list in memory, the pending request, the cancellation
token; on disk `session.jsonl` and `run-state.json`.  Operations: a prompt, a
model turn, a batch of tool calls (read-only calls overlap in one
`asyncio.gather`, others run one by one), the time and tool budgets,
`retry_network`, `cancel`, and the recovery in the constructor.  The loop only
appends to memory and yields events; `_run_once` consumes them, one while the
loop is suspended, and writes the files.  Hard: a cancel at every suspension,
a death of the process between two records, exceptions of the executor.
Correct when every request is a conversation the model APIs accept, the
journal can be recovered at every moment, and nothing but a tool that swallows
its cancellation keeps a cancelled run alive.

**Tool executor** (`coding_agent/tools/executor.py`).  State: the mutation
epoch, results of read-only tools and of verification commands (the latter,
with the epoch, in a file).  Operation: `execute` - validation, preflights
(approval), look-up, operation, retries, finalisation.  Hard: overlapping
calls, retries of calls with side effects, results cached on one side of a
write and used on the other, a file that lags behind because a save failed.
Correct when a call is authorised once, an operation that is not idempotent
starts once, and no result from before a write the process knows of is reused.

**Keyed locks** (`coding_agent/tools/mutation_queue.py`, and the lock map of
`platforms/delivery.py`).  A lock per file path or message key, made by its
first user and dropped by its last one.  Correct when the users of one key
exclude each other although the object behind the key changes, in the order
of arrival, and the map does not grow.

**Delivery outbox** (`platforms/delivery.py`).  State: the last record of a
key in `delivery.jsonl`.  Operation: `deliver`, which sends up to
`max_attempts` times.  Hard: a platform that accepts and raises all the same,
records that cannot be written, cancelled tasks, restarts.

**Feishu inbox and router** (`platforms/feishu/dedupe.py`, `router.py`).
State: the status of inbound message ids in memory and in `events.jsonl`, a
bounded queue and a worker per conversation, a semaphore of session slots.
Operations: `submit`, `_consume`, `close`, and the inbox's `claim`,
`complete`, `fail`.  Hard: redeliveries, staleness, eviction, a queue that is
filled while its worker ends, exceptions in every reply and record.

**Goals** (`coding_agent/goal`, `cli.py`).  State: `goal.json` with status,
attempts and cost.  Operations: those of `GoalStore`, the supervisor's loop,
the tools `goal` and `goal_complete`, `CodingAssistant.cancel`, and the
signal handler of the command line, which runs in the middle of anything.

**Working context** (`coding_agent/memory/working.py`, `agent/context.py`).
State: the messages in memory with a list of their log ids beside them, and
the append-only `session.jsonl`.  Operations: `append_message`, `load`,
`maybe_compact` (a prefix gives way to a summary, one record commits it),
`ContextJournal.update` and `project` (the context of a request as updates in
the list), and the constructor of `CodingAssistant`, which drops or repairs
torn rounds.  Hard: deaths around the commit and within a line, or just before its
newline; texts with line separators, which break a record on reading; cuts in
a list a restart has shortened, updates behind a cut.  Correct when the log and
the list say the same, nothing is forgotten but the records that cannot be
read, a death costs one of them at most, and requests show what they must.

**Long-term memory** (`coding_agent/memory/semantic.py`, `distillation.py`,
`locking.py`).  State: `MEMORY.md`, its metadata file, the log of conflicts,
and the lock file between the processes that use them.  Operations: remember
with four policies, replace, forget, forget all, resolve a conflict, and the
updates and deletions of the maintenance, decided by a model on an earlier
reading.  Hard: processes that overlap, lock files of dead or slow holders,
deaths between the writes of two files, answers about what has changed.

**Model client** (`llm/openai_compatible.py`).  State: the attempt, what it
has received, what was passed on.  Operation: `stream`, which tries routes one
after the other, each several times, and ends with one reply.  Hard: failures
after part of an answer was shown, cancellation in and between attempts.

**Approval** (`coding_agent/approval/gate.py`, `interaction.py`).  State: the
pending questions by a short id.  Operations: `authorize`, `wait`, `resolve`.
Hard: an answer, a time-out and a cancellation in the same round of the event
loop; equal ids; an answer before the question is out.

How they interact: the session appends every message to the working context
and compacts it at the end of a turn; its requests go through the model
client; the memory is changed by the tools of any session, and by the
maintenance.  The router calls the session (one run per message) and the
outbox (every reply); the session calls the executor, which awaits the gate
and the mutation queue; the gate's question goes out through the router, and
the answer comes back through `submit`; the supervisor calls the session once
per attempt and the goal tools run inside it.  Almost all of it shares one
event loop, so a step of a model goes from one suspension to the next; files
and the signal handler are the exceptions, and are modelled as such.

### The parts that are not

Runtime and workspace, the tools themselves, instruction loading, risk
patterns, the memory manager and its archive stores, retrieval, progress
reports, the Feishu transport and the evaluation suite.  They are I/O, texts or
scores; the modules above model what they may do to the parts that are here (a
tool changes the workspace; a reply fails; a summary is made or given up).
`PROJECT.json` gives the reason for each, and section 7 says which come next.

## 2. Modules

| module | models | state and actions in the code |
|---|---|---|
| `KeyedLock` | `with_file_mutation_queue` | `queues`, `users`, `locked`, `waiters` are `_queues`, `_QueueEntry` and `asyncio.Lock`; an entry object has a number, so a task can hold one the map has replaced; `Fifo` is the mapping to `FifoLock` |
| `FifoLock` | - | abstract: one fair lock per key that is always there |
| `Outbox` | `DeliveryManager` over `KeyedLock` | `outbox` is the last record of a key; `accepted` and `doubtful` count what the platform took and what was never recorded |
| `RunState` | `RunStateStore` | operators on the record of `run-state.json` |
| `Session` | `AgentLoop.run` with `_run_once` | `messages` is memory, `journal` and `runState` are files, `events` are the yields not consumed yet |
| `ToolExecutor` | `ToolExecutor.execute` | `stage` of each call; `epoch`, `repeatable`, `verified` are the caches, `saved` is the file of the last; the workspace is a version number |
| `EventInbox` | `PersistentEventDeduplicator` | operators on a record; staleness is a bit |
| `Router` | `FeishuAssistantRouter` over `EventInbox` | `queue`, `worker`, `msg` per conversation, `free` slots; `answering` counts runs of `submit` that await a reply |
| `Goal` | `GoalStore`, supervisor, goal tools, `cancel` | `writing` is a change between its lock and its end, so that a signal or a crash can hit it; `pc` is where the program is |
| `Approval` | `ApprovalGate.authorize`, `ApprovalInbox` | `pending` is `_pending`, `future` the future of a call, `ending` a time-out or cancellation that has not run yet |
| `WorkingContext` | `WorkingContext`, `ContextJournal`, recovery in `CodingAssistant` | `messages`, `ids`, `summary` are `AgentLoop.messages`, `_active_ids`, `_previous_summary`; `log`, `cut`, `tail`, `under` and `torn` are `session.jsonl` as a reader finds it: its message records, its last compaction record, what of these its last line holds, and whether that line lacks its newline; a message is its kind and number |
| `FileLock` | `MemoryFileLock` | `lockFile` is the file and who made it, `old` whether it has passed `stale_seconds` |
| `SemanticMemory` | `SemanticMemoryStore` over `FileLock`, and the maintenance of `distillation.py` | `entries`, `meta`, `pending` are the three files; `plan` is what a process has computed and not written yet; `seen` is what the maintenance has read |
| `ModelStream` | `OpenAICompatibleClient.stream` | `emitted` is what the caller was given, each piece named by its attempt; `emittedOutput`, `partial` are the variables of these names |
| `...Proofs` | - | theorems and proofs about the module of that name; `OutboxProofs` begins with those about `KeyedLock`, `SemanticMemoryProofs` with those about `FileLock`, on which theirs rest; `ToolExecutorProofs` ends with those about `Approval`, whose gate the executor awaits |
| `MC...` | - | instances for TLC |

`Outbox` composes `KeyedLock`, `SemanticMemory` composes `FileLock`, `Router`
composes `EventInbox`, `Session` composes `RunState`.  `KeyedLock` implements
`FifoLock` (`RefinesFifoLock`), alone and under the deliveries of `Outbox`.
Definitions called "a faulty variant" are not part of a
specification: each is the body a plausible bug would give to the definition
below it.

History variables, which the code does not have, are kept to what properties
need: `Outbox!accepted, doubtful`, `Session!asked, dangling, twice`,
`ToolExecutor!asked, invoked, known, reached`, `Router!dropped, died, excess`,
`Goal!runs, early`, `Approval!told`,
`WorkingContext!lost, parted, astray, dropped, skewed`,
`FileLock!misremoved`, `SemanticMemory!wanted, stamp, both, halfway`,
`ModelStream!cut`.

## 3. Runs

Deadlock checking is off everywhere: all these systems may stop (a closed
router, a finished session, bounds used up).

| run | bounds | distinct states | shows |
|---|---|---|---|
| `session` | 3 calls (2 reads, 1 hidden tool that runs alone), 3 prompts or retries, replies of 2 calls, 2 calls in all, 1 exception, 1 crash | 153,607 | requests well formed, journal recoverable at any moment, a restart changes nothing, one result per call, the invariant of the proofs, cancel ends the run or tools hold it |
| `session_raises` | 2 calls, 4 prompts, 2 exceptions, 1 crash | violation | after two exceptions a restart yields a malformed request |
| `tool_executor` | 2 reads, 2 runs of a check, 1 write, 1 retry, 1 restart | 274,658 | one authorisation, one start, no reuse across a write the process knows of, although saves fail |
| `outbox` | 3 tasks, 2 keys, 3 entry objects, 2 attempts, 3 calls, 1 restart | 74,638 | no resend, duplicates only after a lost outcome, deliveries end; the locks under them are one fair lock per key |
| `router` | 2 conversations, 3 messages (1 command), queue 1, 1 slot, inbox of 2, 3 accepted events, 1 outage or restart | 111,013 | nothing lost in silence, nothing twice unless released, everything settles |
| `goal` | 2 goals of 2 attempts, cost limit 2 | 3,740 | attempts counted and bounded, ended goals stay ended, cancel reaches the run, the supervisor ends |
| `approval` | 2 calls, 2 ids | 18,724 | the decision is the user's, every question ends |
| `context` | 6 messages, rounds of 2 calls, context of 2 parts with 1 value, reset after 2 updates, 1 record with a line separator, 2 deaths | 1,093,083 | the log is the conversation until a record is lost to readers, nothing else is forgotten, a death costs one message at most, requests show their context, calls and results stay together while ids and messages are in step, and at most one round is unfinished |
| `context_cut` | 7 messages, no line separator, otherwise the same | violation | a result without its call after a compaction that follows a recovery |
| `memory` | 2 processes, 3 contents (2 about the same), 2 entries, 4 operations, slow holders | 2,683,255 | no update lost, metadata and entries agree, one entry per subject |
| `memory_gc` | the same, no slow holders | violation | the maintenance deletes or changes what was remembered after it looked |
| `model_stream` | 2 routes, 1 retry, 2 pieces | 4,076 | output of one attempt, the reply is what was shown, the request ends |

Why the bounds are enough.  *Session*: a batch of two is the smallest that can
be half done when something happens, and the hidden call runs alone, as a write
would (what a tool does is not modelled); three prompts are a run that dies in
mid-round, one that an exception ends, and one after both; one crash at any
state is enough to compare memory with the journal, since `JournalRecoverable`
speaks of every state anyway; the second exception is in `session_raises`.  The
proofs need none of these bounds.  Two calls in all are a batch of two, two
batches of one round, or two rounds, one torn and one ended by the exception;
`MaxCalls = 3` (525,847 states, some minutes) finds no error either.  *Executor*: a save can fail at every write and every check; two overlapping reads of one file and one write
at any place make every order of look-up, operation, store and write; the two
calls of one kind are interchangeable, which is the symmetry used (the run has
no liveness property).  *Outbox*: three tasks are a holder, a waiter and a
newcomer or a cancelled waiter of a lock; two attempts have a retry and a last
one; the third call uses a key again whose entry was dropped, and three entry
objects let each call make its own.  *Router*: with one slot two conversations compete; with a
queue of one a second message is refused; three accepted events allow one
message to be claimed, completed or evicted, and claimed again; an inbox of two
evicts the third id and reloads a file that holds more lines than it reads.
*Goal*: a second goal overwrites a first one of any status; two attempts have
a first and a last.  *Approval*: two calls with equal or different ids.  *Context*: six
messages are a half done round, a compaction and what a second restart reads, or
an update, a round and a compaction behind it; with rounds of two calls a round
can be half done; two updates reach the reset; two deaths are two tears, or a
tear of the record a restart had just read; one record with a line separator can
be any message or compaction.  The shortest trace of `context_cut` needs a seventh
message, a torn round, a compaction after the restart and a second restart that
reads it; with seven `context` is too long a run, and the proofs need no bound.
*Memory*: a
third content is about nothing else; four operations are a conflict, a change
of one of its sides, its resolution and one more; with room for two entries
the size limit is met.  *Model client*: on each of two routes an attempt that
is retried and one that is the last, failing before, between or after two
pieces.

## 4. Fairness

* `Session`: `WF(LoopStep)` - the event loop resumes a run, or a call that waits
  for nothing, when it can go on, and a model client returns or raises.  Nothing
  is assumed of tools, preflights, budgets or the user.  The executor cancels
  an operation and then awaits it (`tools/executor.py:1226-1228`), so
  `CancelEnds` says that a cancelled run ends or is held for ever by operations
  none of which ends; `Unwind`, the end of one, is not fair.
* `Outbox`: weak fairness of each task's own progress; that the platform call
  returns or raises is an assumption (`transport.py:31` builds the client
  without a time-out), and the backoff ends.
* `Router`: weak fairness of each worker's own steps, because runs end by
  their budgets; strong fairness of taking a slot, because the waiters of an
  `asyncio.Semaphore` are served in order; `close` waits five seconds at most.
* `Goal`: weak fairness of the program's steps, strong fairness of the end of
  a run (goal tools in a run may interrupt its being enabled).  Nothing is
  assumed of what the model does with the goal.
* `ModelStream`: `WF(Step)` - every wait has a deadline (first token, idle,
  total), so the event loop makes the step that ends it.  Nothing is assumed of
  the server, which may send pieces or not.
* `WorkingContext` and `SemanticMemory` have no liveness property: a run and a
  user may stop at any point, and a waiter for the lock file may time out.
* `Approval`: the timer of `wait_for` fires and a task that can go on does;
  no fairness for the question or the answer.

## 5. Proofs

| module | theorem | for every | argument |
|---|---|---|---|
| `OutboxProofs` | `LockInvariant`, `MutualExclusion`, `MapIsExact`, `LocksAreFifo` | finite set of tasks, any keys, any number of entry objects | `LockInv` |
| `OutboxProofs` | `OutboxInvariant`, `DuplicatesAreDoubtful`, `DeliveredStays`, `DeliveriesQueueFairly` | the same, and any attempts, calls and restarts | `OutboxInv` |
| `ToolExecutorProofs` | `ToolInvariant`, `AskedAndRunOnce`, `NoReuseAcrossWrites` | any disjoint sets of calls of each kind, any retry limit, any number of restarts | `ToolInv` |
| `RouterProofs` | `RouterInvariant`, `NoQueueIsStranded`, `DuplicatesAreSuppressed` | sets of conversations and messages, limits of queues, slots and inbox, any number of events and restarts | `RouterInv` |
| `GoalProofs` | `GoalInvariant`, `AttemptsBounded`, `CancelReaches`, `EndedGoalStays` | attempt limit, cost limit, number of goals | `GoalInv` |
| `SessionProofs` | `SessionInvariant`, `RequestsStayValid`, `JournalStaysRecoverable`, `RestartIsTransparent` | calls, which of them are reads or hidden, length of replies and of the session, any number of prompts, exceptions and deaths | `SessionInv` |
| `ToolExecutorProofs` | `ApprovalInvariant`, `InboxIsExact`, `DecisionIsTheUsers` | set of calls, set of approval ids | `ApprovalInv` |
| `WorkingContextProofs` | `ContextInvariant`, `RestartReadsMemory`, `NoMessageForgotten`, `DeathCostsOneMessage`, `RequestsShowTheView`, `RoundsInvariant`, `PairsNeverPart` | length of the session, size of rounds, number of deaths and of records with line separators, parts of the context and what they say, update limit | `ContextInv`, and `RoundsInv` beside it |
| `SemanticMemoryProofs` | `AtMostOneIn` | set of processes | `FileLockInv` |
| `SemanticMemoryProofs` | `MemoryInvariant`, `NothingRememberedIsLost`, `MetadataAgrees`, `NoHiddenConflict` | sets of processes, contents and subjects, any limits | `MemoryInv` |
| `ModelStreamProofs` | `StreamInvariant`, `OneAttemptShown`, `ShownIsReply` | number of routes, retries and pieces | `StreamInv` |

*Locks.*  Exclusion per key is not inductive: two tasks could be inside two
entry objects of one key.  What rules it out is that every task in a call uses
the entry the map holds now (`RefIsCurrent`), and that holds because the entry
is dropped only when its `users` count - the number of its users
(`UsersCounted`) - is zero.  `LockInv` joins these with `LockedIffInside` and
`OneInsidePerEntry`.  The count is a `Cardinality`, so the steps that change
it cite the library's facts on finite sets; hence the assumption that `Task`
is finite.

*One fair lock.*  `FifoLock` has for each key one holder and one line.  The
mapping reads the holder off the task that is inside (there is only one, so
the `CHOOSE` has no choice) and the line off the waiters of the entry the map
holds now.  That a step of the locks is a step of the fair lock of its key
needs one more part of `LockInv`, `WaitersWait`: who stands in a line waits,
for that entry, and stands there once - otherwise a task that leaves a line
might leave a second copy of itself, and an entry that is made again might
start with a line of strangers.  `DeliveriesQueueFairly` uses the same lemma for
each action of `Outbox`; a restart ends every call at once.

*Outbox.*  Every step of `Outbox` is a step of the locks, leaves them alone, or
is a restart that frees all of them, so `LockInv` carries over
(`OutboxLockInv`).  By `SendsInside` and the exclusion per key, the task that
appends a record or has a message accepted is alone with its key, and by
`SendsUndelivered` that key is not delivered yet: hence an accepted message is
recorded, still credited to that task, or counted as doubtful.

*Executor.*  What a cache holds is fresh because the keys of a running call
carry the present epoch when its result is stored (`EpochsAgree`).  That needs
`OverlapReads`: a write, which raises the epoch, is alone when it succeeds;
and across a restart it needs that the file, although it may lag behind, holds
nothing under an epoch beyond its own, and under that epoch nothing from before
the last write that could be saved (`saved`, `reached` in `EntriesFresh`).  A
write whose save failed is not known to the next process, and the theorem makes
no claim about it; that every success that raises the epoch tries to save it is
what the rest needs.
`StartsCounted` ties the number of starts to the retries.

*Router.*  `QueueServed` is inductive once a worker is known to be in its
own conversation (`InPlace`); it is the worker's last look at its queue, in
the step in which it ends, that keeps it.  That a message is not begun twice
cannot be seen from one place: a claim can be undone in the inbox while the
message is queued.  `EffectsBounded` therefore counts what can still begin -
copies in the queue, a copy that waits for a slot, and the inbox being ready to
admit it once more - together with what has begun too often.  Every release
of a message (failure, staleness, eviction, restart) is counted where it
happens, so the sum is at most one and no step raises it.  What a restart reads
back is a fold over the lines of the file; that it is a well-formed inbox is
shown by induction over their number.

*Session.*  That a request is well formed, or that a journal can be recovered, is
not inductive: both speak of a list of messages after something was left out of
it and something else put behind it.  The invariant therefore says what the list
is made of.  `Written` is the journal with the messages of the events that the
consumer has not taken yet, so a message is in it from the step that yields it;
a step of the consumer does not change it.  Of `Written` it says that ids of
calls and results are used once (`AskedOnce`, `AnsweredOnce`), that a result
stands in the round of its call or is a repair behind an earlier open round
(`Follows`), and where the open rounds - those short of a result - may be
(`OneOpen`): besides the round that is worked on there is at most one.  The
round that is worked on is the end of `Written`, and `todo` is what its results
lack (`RoundUnderWay`).  `MemoryIsWritten` then relates the two copies of the
conversation: memory is `Written`, or `Written` without its first open round,
which is the one the last restart left out.  `RepairsUnderWay` and
`NothingUntold` carry a restart through the consumer: the repairs are in memory
at once and in the journal one by one, and a death between two of them must lead
to the same list (`RestartIsTransparent` speaks of the end of this).  The rest
of the invariant ties `run-state.json` and the kept request to the phase of the
loop (`RunIsLive`, `RequestKept`, `EventsInOrder`).

The proof has three layers.  Lemmas about lists say what an append, a prefix, a
concatenation, leaving a round out, and a restart's repairs do to the end of a
round and to the set of open rounds (`OtherMessage`, `LeaveOutConcat`,
`SameRound`, `OthersStay`, `Repaired`).  Lemmas about values say the same of the
whole story of phase, written list and memory (`Story`), without the variables,
for each way in which a round goes on or ends.  Each step of the specification is
then one lemma that picks its case (`TurnKeeps` to `ConsumeKeeps`).  The
functions on sequences are folds (`FlattenSeq`), and what they compute is shown
by induction over the length, as a set of numbers that holds zero and with each
number the next one.

`JournalRecoverable` used to be stated as "while there was at most one
exception", and TLC agreed within the bounds of that time.  The proof failed,
for a reason: a death in mid-round, then a run that one exception ends, then one
more prompt leave a round in the middle of the journal that the next restart
answers at its end, as in `session_raises`.  That is one prompt more than the
run had.  What decides is
not the number of exceptions but whether one meets an open round in the journal;
`twice` records that, the properties are stated with it, and the run has the
bounds to show it.

*Goal.*  `RunsCounted` needs `Begun` (an attempt that is counted and has not
run leaves room for its run), `EndedStays` needs `WriteIsCurrent`: a change
under way was computed from the goal on file, and nothing else writes the
file before it ends.  The signal handler does not break this because it never
writes beside a change: its own change times out and ends the one it
interrupted.

*Approval.*  `PendingIsLive` and `DecidedAsTold` become inductive with
`AnswerKept`: what the user was told is what the future holds, a future is
cancelled only by an ending, and nothing is decided before the gate ends.

*File lock and memory.*  Exclusion is not inductive without
`HolderHasFile`: whoever is in made the file that is there.  It breaks at the
first removal of another's file while that one is in, which `misremoved`
records; everything is proved up to there, and the code offers no more.  On it
rests `PlanKeepsWanted`: from the reading to the writing nobody else writes,
so the plan of an operation was made from the entries as they are, and keeps
what is wanted.  `ActiveIsListed` and `OnePerSubject` speak of the files and break
if a plan breaks them, so the invariant says the same of every plan before it
is written (`PlanListsActive`, `PlanOnePerSubject`), and of the entries file
between the two writes that it is what was planned.  The lemmas on sequences
say what replacing, removing and appending one entry leaves in place.

*Working context.*  Messages are numbered as they are appended, so order does
what identity would do with more effort: the log is increasing and holds all
numbers but the lost ones (`LogInOrder`), and so is the list in memory, with
ids that stay behind their messages and are never too few (`MemoryInOrder`).
Hence the record a cut names is found in the log, once, and what follows it
there is what the list holds from the cut on; this gives `LogIsContext` across
the two halves of a compaction, and `NothingForgotten` also when a restart has
brought ids and messages out of step: an id that is too small makes the cut
too early, which keeps more than it should and never less.  `NothingForgotten` also says it of what is found when the last
compaction record is lost under the record glued to it: then the messages
behind the cut before count (`under`).  That a death costs one message at most
(`DeathCostsOne`) needs that a line is torn only while no message can be read or
the process is down (last part of `LogInOrder`): the recovery record takes the
tear upon itself.  `LogIsContext` excepts the time when memory holds a record
that readers no longer find (`astray`): after a restart that has read a record
without its newline and glued its own to it, and after a text with a line
separator.
That the result lists
of a round are where the code looks for them is `RoundUnderWay` and
`FingerprintReadsBatch`; no cut falls between a call and its results
(`CutPlanned`).  What a request shows is a fold over the updates in the list;
the lemma behind `RequestsShowTheView` is that an update that `Deltas` allows
turns what is shown into what is wanted.

That calls and results stay together (`PairsStayInStep`) is about what a request
holds, and is decided long before it: a death can leave a round short of
results, and the restart that reads it must leave the whole round out, once,
and repair any other.  `RoundsInv` says why one is enough: in the list only the
last round is ever short, and then it is also the last of the log
(`ShortIsLast`); behind the cut the log has one more such round at most, the one
an earlier restart left out (`OneLeftOut`); no cut goes back behind the one
on file (`CutsAdvance`), so that one never returns; and when the last compaction
record is lost, the cut before it has no such round behind it (`FallsBack`).  All
this holds until a message is lost to readers (`lost = {}`): a calls record
that is lost leaves its results alone, and two lost results can leave two
rounds short.  The results of a round
follow its calls with nothing between (`Answered`, `Led`), in the list and in
the log, because both hold the same of a message (`SameRecords`).  The lemmas
say what leaving out a round, or cutting before one, does to the number of
results behind each of the others.  That the ids are in step is needed too: without
it a cut may begin with a result, which is what `context_cut` shows.

*Model client.*  `OutputOfOneAttempt` needs that nothing has been passed on
when an attempt begins (`NothingBetween`), and that the flag that ends the
attempts tells of it (`FlagTells`) - also when the error that ended the
attempt does not; `OutputIsReply` needs that an attempt passes on exactly its
pieces (`PassedOnAsItComes`).

The assumptions are the named `ASSUME`s of the modules (parameters are natural
numbers, "no call" is not a call), which TLC evaluates in the runs.

An induction over data is done where the function is recursive over a number:
the set of numbers up to which the claim holds is the whole interval, since
otherwise it has a least counterexample (`MarkAll` of the inbox, `Shown` of the
working context).

Only model-checked: every liveness property (`CancelEnds` and its like), since
fairness and `ENABLED` are beyond the prover.  Every invariant a passing run
checks, and every action property, is stated by a theorem.  That a wrong removal
of a lock file is the only way two processes get in at once says what `FileLock`
proves, not how likely it is.

## 6. What the code does otherwise than it says

* `session_raises` - only the first unfinished tool round is dropped on
  recovery; with two of them the results of the second end up at the end of
  the conversation, and the next request is malformed.  Two exceptions of the
  executor do it, or one after a death in mid-round.
* `context_cut` - the restart that drops an incomplete round drops it from the
  messages and not from their ids; a later compaction commits a cut that is too
  early, and the next restart reads a tool result without its call.
* `memory_gc` - a text that is remembered again has its old id and revision 1
  again, so the revision check of the maintenance does not notice.

Met while modelling, and not the subject of a run:

* A tool that swallows its cancellation keeps a cancelled run alive, and one
  whose time budget is spent too: both wait for the operation without a bound
  (`tools/executor.py:1228, 1235`).  It is the exception in `CancelEnds`.
* The verification cache is saved with `OSError` passed over (`tools/executor.py:176`)
  and after the epoch was raised (500-503).  When the save of a write fails, or
  the process dies before it, the next process has the old epoch and answers a
  verification command with a result from before the write.
* `session.jsonl` is written with `ensure_ascii=False` and read with
  `splitlines()` (`working.py:176, 201`): a message with U+2028, U+2029 or U+0085
  is lost on reload.  (A piece of one that is a JSON value but no object makes
  `load` raise, since `payload.get` is an `AttributeError` then; not modelled.)
  `delivery.jsonl` is read and written in the same way, and modelled by its records.
* A last record of `session.jsonl` that lacks only its newline is read by `load`,
  which then glues its recovery record to it (`working.py:287-294`): the message
  is in memory and lost at the next restart.
* `completed_tool_call_ids` misses calls of parallel batches: `tool_finished`
  for a call that is not the active one raises (`runtime/state.py:183`).
* Shell commands do not raise the mutation epoch (`tools/executor.py:500`); a
  cached read says that the workspace has not changed after one changed it.
  `MCToolExecutor` with `Shells = {s1}` has such behaviours.
* A message that waits longer than `stale_after` is claimed again while it is
  queued (`dedupe.py:45`); it can be completed as "queue full" and then handled.
* `goal_complete` ends a goal without the verification ARCHITECTURE.md:175 asks
  for (`goal/store.py:300-308`).
* `MemoryFileLock` (`locking.py:30`): a second waiter that found a file old
  removes the file the first one has just made, and then two processes are in
  (`MutualExclusion` of `FileLock` does not hold; `OneIn` does).
* The maintenance is asked for record ids and revisions, but the text it is
  given of the memory shows neither (`distillation.py:465, 476`).  The model
  takes the best answer it could give.
* A conflict whose proposal was added by `keep_both` of another conflict cannot
  be resolved by "replace" any more: `_replace_record_locked` finds the
  proposal itself as a rival (`semantic.py:379`).
* An error of the connection in the middle of an answer loses the partial text
  (`openai_compatible.py:411`); a cancelled one keeps it.

Properties that hold only with an exception name it: `QueueServed` and
`MessageSettles` except a conversation whose worker an exception ended (a full
queue then stays full, since `submit` returns before it looks at the worker);
`CancelReachesRun` (part of `GoalInv`) excepts a cancel between `begin_attempt` and the loop;
`EndedStays` allows `goal(failed)` to relabel an ended goal; `DecidedAsTold`
allows a confirmed answer to lose against a time-out, a cancellation or a
failing question; `ReuseAfterLastWrite` speaks of writes the executor saw
succeed, because one that a time budget cut off after the write counts as
failed, and of an earlier process only those that could be saved; `CancelEnds`
excepts operations that swallow their cancellation; `LogIsContext`,
`NothingForgotten`, `RoundsInv` and `PairsStayInStep` except records lost to
readers of the log; the properties of the memory hold until a lock file is wrongly removed;
`LogIsContext` and `PairsStayInStep` except what `context_cut` shows;
`OutputIsReply` excepts the text a connection error loses.

## 7. Not modelled, and the plan

`PROJECT.json` has the reason for every component left out.  Within the
components that are "partly" here, what is left out is data: prompts,
summaries, token estimates (any cut is tried), wire formats, scores, limits of
output, prints.  `_ensure_file` (`memory/semantic.py:150`), which the constructor of
the memory store runs outside the lock to make the file or its managed block,
is left out: the model begins with the file in place.

Order so far: locks and outbox (they are used by the rest), session and run
state, executor, inbox and router, goal, approval, working context, file lock
and memory, model client.  Next, by weight:

1. An abstract inbox (accepted, begun, settled) that `Router` implements, and
   an abstract at-most-once channel that `Outbox` implements outside doubt.
2. The composition of `Router` and `Approval`: a run that waits for an answer
   keeps its slot while the answer comes through `submit`.
3. The promotion and consolidation protocols of `memory/manager.py`, with the
   cursor of `working.py:297-378`; then `assistant/progress.py`.
