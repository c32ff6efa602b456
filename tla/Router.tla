------------------------------- MODULE Router -------------------------------
(***************************************************************************)
(* FeishuAssistantRouter (platforms/feishu/router.py) with its inbox       *)
(* (EventInbox).  submit claims a message, serves a command at once and    *)
(* puts a task into the bounded queue of its conversation, whose worker    *)
(* handles one message after another, each in one of a few session slots.  *)
(*                                                                         *)
(* One event loop runs all of it: a step goes from one await to the next.  *)
(* Replies go to the platform and lines to a file, and both may raise.     *)
(***************************************************************************)
EXTENDS EventInbox, Integers, FiniteSets

CONSTANTS
  Session,          \* session keys of conversations
  NoMessage,        \* a worker has no message in hand
  SessionOf,        \* build_conversation: the session of a message
  Command,          \* messages submit serves itself: cancel, approval answers
  QueueSize,        \* settings.queue_size
  MaxSessions,      \* settings.max_concurrent_sessions
  MaxSubmits,       \* bound on accepted events
  MaxTroubles       \* bound on outages (a reply or an appended line raises)
                    \* and restarts

ASSUME RouterAssumption ==
  /\ SessionOf \in [Message -> Session] /\ NoMessage \notin Message
  /\ Command \subseteq Message /\ IsFiniteSet(Session)
  /\ QueueSize \in Nat \ {0} /\ MaxSessions \in Nat \ {0}
  /\ MaxSubmits \in Nat /\ MaxTroubles \in Nat

VARIABLES
  phase,      \* "up", "closing" while close waits for the workers, "closed"
  inbox,      \* _dedupe, in memory
  lines,      \* events.jsonl: its last MaxRemembered lines
  queue,      \* _queues[s].queue
  worker,     \* where the worker task of _queues[s] is
  msg,        \* the message the worker took
  free,       \* free slots of _session_slots
  answering,  \* runs of submit that await a reply, per message
  dropped,    \* messages whose coroutine ended without complete or fail
  died,       \* conversations whose worker an exception ended
  excess,     \* how often a message took effect, less how often it became
              \* claimable again
  submits,    \* claimed events so far
  troubles    \* outages and restarts so far

tasks   == <<queue, worker, msg, free>>
history == <<dropped, died, excess>>
bounds  == <<submits, troubles>>
vars    == <<phase, inbox, lines, tasks, answering, history, bounds>>

Worker == {"none", "ready", "slot", "handling", "reporting"}

RouterTypeOK ==
  /\ phase \in {"up", "closing", "closed"}
  /\ inbox \in Inbox
  /\ lines \in Seq(Line)
  /\ queue \in [Session -> Seq(Message)]
  /\ \A s \in Session : Len(queue[s]) <= QueueSize
  /\ worker \in [Session -> Worker]
  /\ msg \in [Session -> Message \cup {NoMessage}]
  /\ free \in 0 .. MaxSessions
  /\ free + Cardinality({s \in Session : worker[s] = "handling"}) = MaxSessions
  /\ answering \in [Message -> 0 .. MaxSubmits]
  /\ dropped \subseteq Message /\ died \subseteq Session
  /\ excess \in [Message -> Int]
  /\ submits \in 0 .. MaxSubmits /\ troubles \in 0 .. MaxTroubles

Init ==
  /\ phase = "up"
  /\ inbox = EmptyInbox
  /\ lines = << >>
  /\ queue = [s \in Session |-> << >>]
  /\ worker = [s \in Session |-> "none"]
  /\ msg = [s \in Session |-> NoMessage]
  /\ free = MaxSessions
  /\ answering = [m \in Message |-> 0]
  /\ dropped = {} /\ died = {}
  /\ excess = [m \in Message |-> 0]
  /\ submits = 0 /\ troubles = 0

-----------------------------------------------------------------------------
(* The inbox becomes d while the messages of the set effects take effect. *)
Change(d, effects) ==
  /\ inbox' = d
  /\ excess' = [m \in Message |->
       excess[m] + (IF m \in effects THEN 1 ELSE 0)
                 - (IF Claimable(d, m) /\ ~ Claimable(inbox, m) THEN 1 ELSE 0)]

Become(d) == Change(d, {})

(* Lines no process reads any more are left out of the model. *)
Write(new) == lines' = LastLines(lines \o new)

(* claim, complete or fail, when the line is appended ... *)
Record(m, s) ==
  /\ Become(Mark(inbox, m, s))
  /\ Write(<<[id |-> m, status |-> s]>>)
  /\ UNCHANGED troubles

(* ... and when the append raises (MemoryFileLock times out, disk full). *)
Raise == troubles < MaxTroubles /\ troubles' = troubles + 1

RecordRaises(m, s) ==
  /\ Become(Mark(inbox, m, s))
  /\ UNCHANGED lines
  /\ Raise

-----------------------------------------------------------------------------
(* submit: an event the inbox refuses changes nothing.  One it claims is   *)
(* served by one of the next four actions.                                 *)
Claim(m) ==
  /\ phase = "up"
  /\ submits < MaxSubmits /\ submits' = submits + 1
  /\ Claimable(inbox, m)
  /\ UNCHANGED <<phase, free, msg>>

SubmitRaises(m) ==
  /\ Claim(m)
  /\ RecordRaises(m, "processing")
  /\ dropped' = dropped \cup {m}
  /\ UNCHANGED <<queue, worker, answering, died>>

SubmitCommand(m) ==
  /\ Claim(m) /\ m \in Command
  /\ Change(Mark(inbox, m, "processing"), {m})
  /\ Write(<<[id |-> m, status |-> "processing"]>>)
  /\ answering' = [answering EXCEPT ![m] = @ + 1]
  /\ dropped' = dropped \ {m}
  /\ UNCHANGED <<queue, worker, died, troubles>>

SubmitFull(m) ==
  /\ Claim(m) /\ m \notin Command
  /\ Len(queue[SessionOf[m]]) = QueueSize
  /\ Record(m, "processing")
  /\ answering' = [answering EXCEPT ![m] = @ + 1]
  /\ dropped' = dropped \ {m}
  /\ UNCHANGED <<queue, worker, died>>

SubmitTask(m) ==
  LET s == SessionOf[m]
  IN  /\ Claim(m) /\ m \notin Command
      /\ Len(queue[s]) < QueueSize
      /\ Record(m, "processing")
      /\ queue' = [queue EXCEPT ![s] = Append(@, m)]
      /\ worker' = [worker EXCEPT ![s] = IF @ = "none" THEN "ready" ELSE @]
      /\ dropped' = dropped \ {m}
      /\ died' = died \ {s}
      /\ UNCHANGED <<answering>>

(* A run of submit gets its reply out and completes the message; the reply *)
(* or the line may raise, which ends the coroutine.                        *)
Answered(m) ==
  /\ answering[m] > 0
  /\ answering' = [answering EXCEPT ![m] = @ - 1]
  /\ Record(m, "completed")
  /\ UNCHANGED <<phase, tasks, dropped, died, submits>>

AnswerRaises(m) ==
  /\ answering[m] > 0
  /\ answering' = [answering EXCEPT ![m] = @ - 1]
  /\ dropped' = dropped \cup {m}
  /\ \/ Raise /\ UNCHANGED <<inbox, lines, excess>>
     \/ RecordRaises(m, "completed")
  /\ UNCHANGED <<phase, tasks, died, submits>>

-----------------------------------------------------------------------------
(* A faulty variant of Take: the message stays at the head of the queue. *)
TakePeeks(s) ==
  /\ worker[s] = "ready" /\ queue[s] # << >>
  /\ msg' = [msg EXCEPT ![s] = Head(queue[s])]
  /\ worker' = [worker EXCEPT ![s] = "slot"]
  /\ UNCHANGED <<phase, inbox, lines, queue, free, answering, history, bounds>>

(* The worker of a conversation: the head of the loop, the wait for a slot *)
(* (not a wait when one is free), the message, and the loop again.         *)
Take(s) ==
  /\ worker[s] = "ready" /\ queue[s] # << >>
  /\ msg' = [msg EXCEPT ![s] = Head(queue[s])]
  /\ queue' = [queue EXCEPT ![s] = Tail(@)]
  /\ worker' = [worker EXCEPT ![s] = "slot"]
  /\ UNCHANGED <<phase, inbox, lines, free, answering, history, bounds>>

Acquire(s) ==
  /\ worker[s] = "slot" /\ free > 0
  /\ free' = free - 1
  /\ worker' = [worker EXCEPT ![s] = "handling"]
  /\ Change(inbox, {msg[s]})
  /\ UNCHANGED <<phase, lines, queue, msg, answering, dropped, died, bounds>>

(* A faulty variant of Loop: a worker handles one message and ends. *)
LoopOnce(s) ==
  /\ worker' = [worker EXCEPT ![s] = "none"]
  /\ msg' = [msg EXCEPT ![s] = NoMessage]

Loop(s) ==
  /\ worker' = [worker EXCEPT ![s] = IF queue[s] = << >> THEN "none" ELSE "ready"]
  /\ msg' = [msg EXCEPT ![s] = NoMessage]

(* _handle returns and the message is completed. *)
Handled(s) ==
  /\ worker[s] = "handling"
  /\ free' = free + 1
  /\ Record(msg[s], "completed")
  /\ Loop(s)
  /\ UNCHANGED <<phase, queue, answering, dropped, died, submits>>

(* A faulty variant of HandleRaises: the slot is not given back. *)
HandleRaisesInSlot(s) ==
  /\ worker[s] = "handling"
  /\ \/ UNCHANGED <<inbox, lines, excess, troubles>>
     \/ RecordRaises(msg[s], "completed")
  /\ worker' = [worker EXCEPT ![s] = "reporting"]
  /\ UNCHANGED <<phase, queue, msg, free, answering, dropped, died, submits>>

(* The run, a reply or the completing line raises: the error is reported.  *)
HandleRaises(s) ==
  /\ worker[s] = "handling"
  /\ free' = free + 1
  /\ \/ UNCHANGED <<inbox, lines, excess, troubles>>
     \/ RecordRaises(msg[s], "completed")
  /\ worker' = [worker EXCEPT ![s] = "reporting"]
  /\ UNCHANGED <<phase, queue, msg, answering, dropped, died, submits>>

Reported(s) ==
  /\ worker[s] = "reporting"
  /\ Record(msg[s], "completed")
  /\ Loop(s)
  /\ UNCHANGED <<phase, queue, free, answering, dropped, died, submits>>

(* A faulty variant of ReportRaises: the exception is swallowed. *)
ReportRaisesQuietly(s) ==
  /\ worker[s] = "reporting"
  /\ Raise
  /\ Loop(s)
  /\ UNCHANGED <<phase, inbox, lines, queue, free, answering, dropped, died,
                 excess, submits>>

(* The report, or the line after it, raises: the message is failed, so     *)
(* that a redelivery is accepted at once.                                  *)
ReportRaises(s) ==
  /\ worker[s] = "reporting"
  /\ Raise
  /\ Become(Mark(inbox, msg[s], "failed"))
  /\ Write(<<[id |-> msg[s], status |-> "failed"]>>)
  /\ Loop(s)
  /\ UNCHANGED <<phase, queue, free, answering, dropped, died, submits>>

(* The line of fail raises too: the worker ends with its queue as it is,   *)
(* to be replaced by the next submit of the conversation.                  *)
WorkerDies(s) ==
  /\ worker[s] = "reporting"
  /\ Raise
  /\ Become(Mark(inbox, msg[s], "failed"))
  /\ worker' = [worker EXCEPT ![s] = "none"]
  /\ msg' = [msg EXCEPT ![s] = NoMessage]
  /\ died' = died \cup {s}
  /\ UNCHANGED <<phase, lines, queue, free, answering, dropped, submits>>

-----------------------------------------------------------------------------
(* Time passes: what is under processing becomes stale. *)
Age(m) ==
  /\ phase # "closed"
  /\ inbox.status[m] = "processing" /\ m \notin inbox.stale
  /\ Become([inbox EXCEPT !.stale = @ \cup {m}])
  /\ UNCHANGED <<phase, lines, tasks, answering, dropped, died, bounds>>

Close ==
  /\ phase = "up"
  /\ phase' = "closing"
  /\ UNCHANGED <<inbox, lines, tasks, answering, history, bounds>>

Conversations == SetToSeq(Session)

Queued ==
  LET upto[i \in 0 .. Len(Conversations)] ==
        IF i = 0 THEN << >> ELSE upto[i - 1] \o queue[Conversations[i]]
  IN  upto[Len(Conversations)]

(* close ends: the workers are done, or five seconds have passed and those *)
(* left are cancelled with a message in hand; what is queued is failed, up *)
(* to a line that raises.                                                  *)
CloseEnds ==
  /\ phase = "closing"
  /\ phase' = "closed"
  /\ \E n \in 0 .. Len(Queued) :
       LET failed == [i \in 1 .. n |-> [id |-> Queued[i], status |-> "failed"]]
       IN  /\ IF n = Len(Queued) THEN UNCHANGED troubles ELSE Raise
           /\ Become(MarkAll(inbox, failed))
           /\ Write(failed)
           /\ dropped' = dropped \cup Range(SubSeq(Queued, n + 1, Len(Queued)))
                           \cup (Range(msg) \ {NoMessage})
  /\ queue' = [s \in Session |-> << >>]
  /\ worker' = [s \in Session |-> "none"]
  /\ msg' = [s \in Session |-> NoMessage]
  /\ free' = MaxSessions
  /\ UNCHANGED <<answering, died, submits>>

(* The process ends, in good order or not, and another one starts. *)
Restart ==
  /\ troubles < MaxTroubles /\ troubles' = troubles + 1
  /\ phase' = "up"
  /\ Become(Load(lines))
  /\ queue' = [s \in Session |-> << >>]
  /\ worker' = [s \in Session |-> "none"]
  /\ msg' = [s \in Session |-> NoMessage]
  /\ free' = MaxSessions
  /\ answering' = [m \in Message |-> 0]
  /\ dropped' = Message
  /\ died' = {}
  /\ UNCHANGED <<lines, submits>>

-----------------------------------------------------------------------------
Work(s) == \/ Take(s) \/ Acquire(s) \/ Handled(s) \/ HandleRaises(s)
           \/ Reported(s) \/ ReportRaises(s) \/ WorkerDies(s)

Serve(m) == SubmitRaises(m) \/ SubmitCommand(m) \/ SubmitFull(m) \/ SubmitTask(m)

Next == \/ \E m \in Message : Serve(m) \/ Answered(m) \/ AnswerRaises(m) \/ Age(m)
        \/ \E s \in Session : Work(s)
        \/ Close \/ CloseEnds \/ Restart

(* A run ends (Session shows that a cancelled one does, and the time and   *)
(* tool budgets end every other), a delivery ends (Outbox), the waiters of *)
(* an asyncio.Semaphore are served first come, first served, and close     *)
(* waits five seconds at most.                                             *)
Fairness ==
  /\ \A s \in Session : WF_vars(Work(s) /\ worker[s] # "slot") /\ SF_vars(Acquire(s))
  /\ \A m \in Message : WF_vars(Answered(m) \/ AnswerRaises(m))
  /\ WF_vars(CloseEnds)

Spec == Init /\ [][Next]_vars /\ Fairness

-----------------------------------------------------------------------------
Held(m) == \/ answering[m] > 0
           \/ \E s \in Session : m \in Range(queue[s]) \/ msg[s] = m

(* No message is lost in silence: one that the inbox has under processing  *)
(* (so that redeliveries are refused) is queued or in the hands of a       *)
(* coroutine, unless its coroutine raised or the process stopped.          *)
ProcessingIsHeld ==
  \A m \in Message : inbox.status[m] = "processing" => Held(m) \/ m \in dropped

(* No message is stranded: while a queue is not empty its worker lives,    *)
(* unless an exception ended it and no later message has replaced it.      *)
QueueServed ==
  \A s \in Session : queue[s] # << >> => worker[s] # "none" \/ s \in died

(* Duplicates are suppressed: a message takes effect again only if in      *)
(* between it became claimable again - stale, failed, or forgotten by the  *)
(* bounded inbox or with the process.                                      *)
BegunOnlyWhenReleased ==
  \A m \in Message : excess[m] <= 1

(* A message is queued, and taken, in its own conversation; there are no   *)
(* more replies under way than there were events.                          *)
InPlace ==
  /\ \A s \in Session :
       /\ \A m \in Range(queue[s]) : SessionOf[m] = s
       /\ msg[s] # NoMessage => SessionOf[msg[s]] = s
       /\ worker[s] \in {"slot", "handling", "reporting"} <=> msg[s] # NoMessage
  /\ \A m \in Message : answering[m] <= submits

(* How often a message is still going to take effect: as often as it is    *)
(* queued, once if it waits for a slot, and once if it can be claimed.     *)
Copies(m) == {i \in DOMAIN queue[SessionOf[m]] : queue[SessionOf[m]][i] = m}
AtSlot(m) == worker[SessionOf[m]] = "slot" /\ msg[SessionOf[m]] = m

EffectsBounded ==
  \A m \in Message :
    excess[m] + Cardinality(Copies(m)) + (IF AtSlot(m) THEN 1 ELSE 0)
              + (IF Claimable(inbox, m) THEN 1 ELSE 0) <= 1

(* The inductive invariant behind the three. *)
RouterInv == RouterTypeOK /\ InPlace /\ ProcessingIsHeld /\ QueueServed /\ EffectsBounded

(* Every claimed message is settled, unless its coroutine or worker raised *)
(* or the process stopped: no two conversations wait for each other's slot *)
(* and no queue is forgotten.                                              *)
MessageSettles ==
  \A m \in Message :
    inbox.status[m] = "processing" ~>
      \/ inbox.status[m] # "processing"
      \/ m \in dropped
      \/ SessionOf[m] \in died
=============================================================================
