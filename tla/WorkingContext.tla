---------------------------- MODULE WorkingContext ----------------------------
(***************************************************************************)
(* The conversation of one session across compactions and deaths of the    *)
(* process: WorkingContext (coding_agent/memory/working.py), the context   *)
(* journal of agent/context.py, and the constructor and the compaction     *)
(* branch of CodingAssistant (assistant/coding.py).                        *)
(*                                                                         *)
(* Memory holds a list of messages and, beside it, a list of the log ids   *)
(* of these messages; session.jsonl is append-only.  A compaction replaces *)
(* a prefix of the list by one summary and commits that with one record,   *)
(* which names the first message that is kept.  A restart reads the last   *)
(* such record and the messages from there on.                             *)
(*                                                                         *)
(* Of the file the module keeps what a reader of it gets, the messages in  *)
(* their order and the last compaction record, and how its last line ends. *)
(* A record can be lost to readers in two ways.  Its line has no end when  *)
(* the process dies in the middle of it; the next record is then glued to  *)
(* it and neither can be read - not even when all that was missing is the  *)
(* newline, and a restart has read the record in the meantime.  And a      *)
(* record whose text holds a line separator (U+2028, U+2029, U+0085) is    *)
(* written as it is and read back in pieces.                               *)
(***************************************************************************)
EXTENDS Naturals, Sequences, FiniteSetsExt

CONSTANTS
  Keys, Values,   \* the parts of the request context and what they can say
  MaxUpdates,     \* ContextJournal.max_updates
  MaxRound,       \* bound on the tool calls of a reply
  MaxMessages,    \* bound on the messages of the session
  MaxParted,      \* bound on records whose text holds a line separator
  MaxCrashes      \* bound on deaths of the process

ASSUME ContextAssumption ==
  /\ {MaxMessages, MaxParted, MaxCrashes} \subseteq Nat
  /\ {MaxUpdates, MaxRound} \subseteq Nat \ {0}

VARIABLES
  pc,        \* where the run is
  messages,  \* AgentLoop.messages
  ids,       \* WorkingContext._active_ids; 0 is None
  summary,   \* the messages _previous_summary stands for
  open,      \* calls of the round that have no result yet
  batch,     \* calls of the round, for the fingerprint of the turn
  view,      \* the context the last request had to show
  plan,      \* first_kept of the compaction under way
  log,       \* the messages a reader of session.jsonl finds
  cut,       \* the last compaction record it finds, or NoCut
  tail,      \* is the last of log the last line of the file?
  under,     \* cut, were the last line of the file not there
  torn,      \* does the last line lack its newline?
  last,      \* number of messages so far
  lost,      \* messages no reader of the file finds, or will find
  parted,    \* number of records whose text holds a line separator
  astray,    \* was a record lost since memory was read from the file?
  dropped,   \* messages of rounds a restart left out
  skewed,    \* was a cut made while ids and messages were out of step?
  crashes    \* bound

memVars  == <<messages, ids, summary>>
turnVars == <<open, batch, view, plan>>
fileVars == <<log, cut, tail, under, torn, last, lost, parted, astray>>
history  == <<dropped, skewed, crashes>>
vars == <<pc, memVars, turnVars, fileVars, history>>

Up == {"idle", "top", "request", "round", "finished", "summary", "commit", "reset", "after", "repair"}

(* Messages, as far as the cut and the protocol tell them apart. *)
User(i)      == [kind |-> "user", id |-> i]
Text(i)      == [kind |-> "text", id |-> i]
Calls(i, n)  == [kind |-> "calls", id |-> i, n |-> n]
Result(i, c) == [kind |-> "result", id |-> i, of |-> c]
Update(i, d) == [kind |-> "update", id |-> i, delta |-> d]
Summary      == [kind |-> "summary", id |-> 0]

IdsOf(ms) == {ms[i].id : i \in DOMAIN ms} \ {0}

CutLine(first, cs) == [first |-> first, covers |-> cs]
NoCut == CutLine(0, {})

-----------------------------------------------------------------------------
(* ContextJournal: the context of the request as updates in the list.      *)

Views == UNION {[S -> Values] : S \in SUBSET Keys}
NoView == << >>

Applied(v, d) ==
  LET base == IF d.reset THEN NoView ELSE v IN
  [k \in (DOMAIN base \ d.remove) \cup DOMAIN d.set |->
     IF k \in DOMAIN d.set THEN d.set[k] ELSE base[k]]

(* project: the one state a request shows, update after update. *)
Shown(ms) ==
  LET upTo[i \in 0 .. Len(ms)] ==
        IF i = 0 THEN NoView
        ELSE IF ms[i].kind = "update" THEN Applied(upTo[i - 1], ms[i].delta) ELSE upTo[i - 1]
  IN upTo[Len(ms)]

Resets(m) == m.kind = "update" /\ m.delta.reset

(* Updates since the last reset, itself included. *)
UpdatesSinceReset(ms) ==
  Cardinality({i \in DOMAIN ms :
                 ms[i].kind = "update" /\ \A j \in i + 1 .. Len(ms) : ~Resets(ms[j])})

ResultsOf(ms, c) == Cardinality({i \in DOMAIN ms : ms[i].kind = "result" /\ ms[i].of = c})

Unanswered(ms) ==
  {i \in DOMAIN ms : ms[i].kind = "calls" /\ ResultsOf(ms, ms[i].id) < ms[i].n}

(* A faulty variant of Deltas: what is no longer wanted is not removed. *)
DeltasWithoutRemoval(ms, desired) ==
  LET now == Shown(ms)
      changed == {k \in DOMAIN desired : k \notin DOMAIN now \/ now[k] # desired[k]} IN
  IF Unanswered(ms) # {} \/ changed = {} THEN {}
  ELSE {[reset |-> UpdatesSinceReset(ms) = 0, set |-> [k \in changed |-> desired[k]], remove |-> {}]}

(* update: nothing while a call has no result; else the difference, or     *)
(* everything after too many updates (or bytes: either may be the reason). *)
Deltas(ms, desired) ==
  LET now     == Shown(ms)
      changed == {k \in DOMAIN desired : k \notin DOMAIN now \/ now[k] # desired[k]}
      removed == DOMAIN now \ DOMAIN desired
      count   == UpdatesSinceReset(ms)
      whole   == [reset |-> TRUE, set |-> desired, remove |-> {}]
      part    == [reset |-> FALSE, set |-> [k \in changed |-> desired[k]], remove |-> removed]
  IN IF Unanswered(ms) # {} \/ changed \cup removed = {} THEN {}
     ELSE IF count = 0 \/ count >= MaxUpdates THEN {whole} ELSE {whole, part}

-----------------------------------------------------------------------------
(* The log.                                                                *)

(* What is left for a reader when the next record is glued to the last     *)
(* line of the file (_append_event).                                       *)
LogUnder == IF torn /\ tail THEN SubSeq(log, 1, Len(log) - 1) ELSE log
CutUnder == IF torn THEN under ELSE cut

(* Is a record about to be written one that can be read?  Some have a line *)
(* separator in their text.                                                *)
Written(readable) ==
  \/ ~torn /\ readable = TRUE /\ UNCHANGED parted
  \/ torn /\ readable = FALSE /\ UNCHANGED parted
  \/ parted < MaxParted /\ readable = FALSE /\ parted' = parted + 1

(* append_message, after the loop has put the message in its list. *)
AppendMessage(m) ==
  /\ last < MaxMessages
  /\ last' = last + 1
  /\ messages' = Append(messages, m)
  /\ ids' = Append(ids, m.id)
  /\ \E readable \in BOOLEAN :
       /\ Written(readable)
       /\ log' = IF readable THEN Append(log, m) ELSE LogUnder
       /\ lost' = lost \cup (IdsOf(Append(log, m)) \ IdsOf(log'))
       /\ tail' = readable
       /\ astray' = (astray \/ ~readable)
  /\ cut' = CutUnder /\ under' = CutUnder
  /\ torn' = FALSE
  /\ UNCHANGED summary

(* load: the last compaction record counts if the message it names is      *)
(* there; otherwise everything is read.                                    *)
Read(lines, c) ==
  LET at == {i \in DOMAIN lines : lines[i].id = c.first}
  IN IF at = {} THEN [messages |-> lines, summary |-> {}]
     ELSE [messages |-> <<Summary>> \o SubSeq(lines, Min(at), Len(lines)), summary |-> c.covers]

Load == Read(log, cut)

(* The results that follow message i at once. *)
ResultsAfter(ms, i) ==
  Max({n \in 0 .. Len(ms) - i : \A j \in i + 1 .. i + n : ms[j].kind = "result"})

Complete(ms, i) ==
  Cardinality({j \in i + 1 .. i + ResultsAfter(ms, i) : ms[j].of = ms[i].id}) = ms[i].n

(* A faulty variant of DropIncompleteRound: the results are left there. *)
DropCallsOnly(ms) ==
  LET bad == {i \in DOMAIN ms : ms[i].kind = "calls" /\ ~Complete(ms, i)} IN
  IF bad = {} THEN ms ELSE SubSeq(ms, 1, Min(bad) - 1) \o SubSeq(ms, Min(bad) + 1, Len(ms))

(* _drop_incomplete_tool_round, on the list load returned.  *)
DropIncompleteRound(ms) ==
  LET bad == {i \in DOMAIN ms : ms[i].kind = "calls" /\ ~Complete(ms, i)} IN
  IF bad = {} THEN ms
  ELSE LET i == Min(bad)
       IN SubSeq(ms, 1, i - 1) \o SubSeq(ms, i + ResultsAfter(ms, i) + 1, Len(ms))

-----------------------------------------------------------------------------
Init ==
  /\ pc = "idle" /\ messages = << >> /\ ids = << >> /\ summary = {}
  /\ open = 0 /\ batch = 0 /\ view = NoView /\ plan = 0
  /\ log = << >> /\ cut = NoCut /\ under = NoCut /\ tail = FALSE /\ torn = FALSE
  /\ last = 0 /\ lost = {} /\ parted = 0 /\ astray = FALSE
  /\ dropped = {} /\ skewed = FALSE /\ crashes = 0

(* A prompt is appended. *)
Prompt ==
  /\ pc = "idle"
  /\ AppendMessage(User(last + 1))
  /\ pc' = "top"
  /\ UNCHANGED <<turnVars, history>>

(* The top of the loop: the context the request must show is brought up to *)
(* date by at most one update.                                             *)
Turn(desired) ==
  /\ pc = "top"
  /\ pc' = "request"
  /\ view' = desired
  /\ LET ds == Deltas(messages, desired) IN
     \/ ds = {} /\ UNCHANGED <<memVars, fileVars>>
     \/ \E d \in ds : AppendMessage(Update(last + 1, d))
  /\ UNCHANGED <<open, batch, plan, history>>

(* The model asks for n calls. *)
Ask(n) ==
  /\ pc = "request"
  /\ AppendMessage(Calls(last + 1, n))
  /\ open' = n /\ batch' = n
  /\ pc' = "round"
  /\ UNCHANGED <<view, plan, history>>

(* The model ends the run with a text, or the run ends without one.        *)
Reply ==
  /\ pc = "request"
  /\ batch' = 0
  /\ \/ AppendMessage(Text(last + 1)) /\ pc' = "finished"
     \/ pc' = "idle" /\ UNCHANGED <<memVars, fileVars>>
  /\ UNCHANGED <<open, view, plan, history>>

RoundId == messages[Max({i \in DOMAIN messages : messages[i].kind = "calls"})].id

(* A result; after the last one the turn is finished, unless the run was   *)
(* cancelled and ends at once.                                             *)
Answer ==
  /\ pc = "round"
  /\ AppendMessage(Result(last + 1, RoundId))
  /\ open' = open - 1
  /\ pc' \in IF open = 1 THEN {"finished", "idle"} ELSE {"round"}
  /\ UNCHANGED <<batch, view, plan, history>>

-----------------------------------------------------------------------------
(* The compaction at the end of a turn.                                    *)

(* The ids of the messages before a cut, the old summary left aside. *)
AfterSummary(i) == {messages[j].id : j \in {k \in 1 .. i - 1 : messages[k].kind # "summary"}}

(* A faulty variant of FindCutPoint: any message will do. *)
CutAnywhere(approximate) == approximate

(* _find_cut_point, from where the token budget points: the next user      *)
(* message or else the next other message of the model, where no call is   *)
(* unanswered.  0 is "none".                                               *)
FindCutPoint(approximate) ==
  LET safe == {i \in approximate .. Len(messages) : Unanswered(SubSeq(messages, 1, i - 1)) = {}}
      users == {i \in safe : messages[i].kind = "user"}
      model == {i \in safe : messages[i].kind \in {"text", "calls", "summary"}}
  IN IF users # {} THEN Min(users) ELSE IF model # {} THEN Min(model) ELSE 0

(* A faulty variant of DurableMessageId: the id after the position. *)
NextMessageId(i) == IF i + 1 \in DOMAIN ids THEN ids[i + 1] ELSE 0

(* _durable_message_id: the first log id at or after a position. *)
DurableMessageId(i) ==
  LET known == {j \in i .. Len(ids) : ids[j] # 0}
  IN IF known = {} THEN 0 ELSE ids[Min(known)]

(* maybe_compact decides against it: too little pressure, no safe cut,     *)
(* nothing to archive, no durable id, cancelled.                           *)
NoCompaction ==
  /\ pc = "finished"
  /\ pc' = "after"
  /\ UNCHANGED <<memVars, turnVars, fileVars, history>>

(* maybe_compact and _compact up to the request for a summary.             *)
Prepare(approximate) ==
  /\ pc = "finished"
  /\ LET at == FindCutPoint(approximate) IN
     /\ at > 1
     /\ AfterSummary(at) # {}
     /\ DurableMessageId(at) # 0
     /\ plan' = at
  /\ pc' = "summary"
  /\ UNCHANGED <<memVars, open, batch, view, fileVars, history>>

(* The summary is there, from the model or else made from the messages,    *)
(* or it is given up: the run was cancelled, or it would save too little.  *)
Summarise ==
  /\ pc = "summary"
  /\ pc' \in {"commit", "after"}
  /\ UNCHANGED <<memVars, turnVars, fileVars, history>>

(* A faulty variant of Archived: the previous summary is not merged. *)
ArchivedAnew == AfterSummary(plan)

Archived == summary \cup AfterSummary(plan)

(* The commit: one record. *)
CommitCut ==
  /\ pc = "commit"
  /\ \E readable \in BOOLEAN :
       /\ Written(readable)
       /\ cut' = IF readable THEN CutLine(DurableMessageId(plan), Archived) ELSE CutUnder
       /\ astray' = (astray \/ ~readable)
  /\ log' = LogUnder /\ lost' = lost \cup (IdsOf(log) \ IdsOf(log'))
  /\ under' = CutUnder /\ tail' = FALSE /\ torn' = FALSE
  /\ skewed' = (skewed \/ DurableMessageId(plan) # messages[plan].id)
  /\ pc' = "reset"
  /\ UNCHANGED <<memVars, turnVars, last, dropped, crashes>>

Compacted == <<Summary>> \o SubSeq(messages, plan, Len(messages))

(* A faulty variant of KeptIds: the ids are cut one too far. *)
KeptIdsShort == SubSeq(ids, plan + 1, Len(ids))

KeptIds ==
  IF Len(ids) >= Len(messages) THEN SubSeq(ids, plan, Len(ids))
  ELSE [i \in 1 .. Len(messages) + 1 - plan |-> 0]

(* The rest of _compact: the cost windows are reset, with a record each,   *)
(* then memory follows and the loop takes the new list.  (A death may tear *)
(* any of the records that are neither messages nor compactions too, but   *)
(* one that loses the newline of the record before them was possible       *)
(* already: tail and under speak of the last of the others.)               *)
FollowCut ==
  /\ pc = "reset"
  /\ summary' = Archived
  /\ messages' = Compacted
  /\ ids' = <<0>> \o KeptIds
  /\ plan' = 0
  /\ pc' = "after"
  /\ UNCHANGED <<open, batch, view, fileVars, history>>

(* The loop goes on, with the fingerprint of the turn: another turn after  *)
(* calls, the end of the run after a text.                                 *)
EndTurn ==
  /\ pc = "after"
  /\ pc' \in IF batch = 0 THEN {"idle"} ELSE {"idle", "top"}
  /\ batch' = 0
  /\ UNCHANGED <<memVars, open, view, plan, fileVars, history>>

-----------------------------------------------------------------------------
(* The process dies, perhaps while it writes a record: the newline of the  *)
(* last line is not there, or there is the beginning of one more line.     *)
Crash ==
  /\ pc \in Up /\ crashes < MaxCrashes
  /\ crashes' = crashes + 1
  /\ pc' = "down"
  /\ messages' = << >> /\ ids' = << >> /\ summary' = {}
  /\ open' = 0 /\ batch' = 0 /\ plan' = 0 /\ view' = NoView
  /\ \/ torn' \in {torn, TRUE} /\ UNCHANGED <<log, cut, tail, under, lost>>
     \/ /\ torn' = TRUE /\ tail' = FALSE
        /\ cut' = CutUnder /\ under' = CutUnder
        /\ log' = LogUnder /\ lost' = lost \cup (IdsOf(log) \ IdsOf(log'))
  /\ UNCHANGED <<last, parted, astray, dropped, skewed>>

(* A faulty variant of Recovered: no record is written. *)
RecoveredSilently == astray' = FALSE /\ UNCHANGED <<log, cut, tail, under, torn, lost>>

(* The end of load: a recovery record, if a message was read - which is    *)
(* glued to the last line if that one lacks its newline.                   *)
Recovered ==
  IF log = << >> THEN astray' = FALSE /\ UNCHANGED <<log, cut, tail, under, torn, lost>>
  ELSE /\ log' = LogUnder /\ lost' = lost \cup (IdsOf(log) \ IdsOf(log'))
       /\ cut' = CutUnder /\ under' = CutUnder
       /\ astray' = (LogUnder # log \/ CutUnder # cut)
       /\ tail' = FALSE /\ torn' = FALSE

(* The constructor: load, and the incomplete round is left out - of the    *)
(* loop's list, not of the ids.                                            *)
Restart ==
  /\ pc = "down"
  /\ LET l == Load IN
     /\ messages' = DropIncompleteRound(l.messages)
     /\ ids' = [i \in DOMAIN l.messages |-> l.messages[i].id]
     /\ summary' = l.summary
     /\ dropped' = dropped \cup (IdsOf(l.messages) \ IdsOf(messages'))
  /\ Recovered
  /\ pc' = "repair"
  /\ UNCHANGED <<turnVars, last, parted, skewed, crashes>>

(* _repair_interrupted_tool_calls: an [INTERRUPTED] result for a call      *)
(* that has none, at the end of the list and of the log.                   *)
Repair ==
  /\ pc = "repair"
  /\ IF Unanswered(messages) = {}
     THEN pc' = "idle" /\ UNCHANGED <<memVars, fileVars>>
     ELSE /\ AppendMessage(Result(last + 1, messages[Min(Unanswered(messages))].id))
          /\ UNCHANGED pc
  /\ UNCHANGED <<turnVars, history>>

Next ==
  \/ Prompt \/ (\E v \in Views : Turn(v)) \/ (\E n \in 1 .. MaxRound : Ask(n)) \/ Reply \/ Answer
  \/ NoCompaction \/ (\E i \in DOMAIN messages : Prepare(i)) \/ Summarise \/ CommitCut \/ FollowCut
  \/ EndTurn \/ Crash \/ Restart \/ Repair

Spec == Init /\ [][Next]_vars

-----------------------------------------------------------------------------
Delta == [reset : BOOLEAN, set : Views, remove : SUBSET Keys]
MessagesUpTo(n) ==
  {Summary} \cup [kind : {"user", "text"}, id : 1 .. n]
    \cup [kind : {"calls"}, id : 1 .. n, n : 1 .. MaxRound]
    \cup [kind : {"result"}, id : 1 .. n, of : 1 .. n]
    \cup [kind : {"update"}, id : 1 .. n, delta : Delta]

Message == MessagesUpTo(last)

ContextTypeOK ==
  /\ pc \in Up \cup {"down"}
  /\ messages \in Seq(Message) /\ ids \in Seq(0 .. last)
  /\ log \in Seq(Message) /\ cut \in [first : 0 .. last, covers : SUBSET (1 .. last)]
  /\ under \in [first : 0 .. last, covers : SUBSET (1 .. last)]
  /\ {tail, torn, astray} \subseteq BOOLEAN /\ {last, parted} \subseteq Nat
  /\ summary \cup lost \cup dropped \subseteq 1 .. last
  /\ open \in 0 .. MaxRound /\ batch \in 0 .. MaxRound /\ plan \in Nat /\ view \in Views
  /\ skewed \in BOOLEAN /\ crashes \in Nat

Aligned == ids = [i \in DOMAIN messages |-> messages[i].id]

(* The log holds the messages in their order, but for those lost, and a    *)
(* line stays torn only while no message can be read.                      *)
LogInOrder ==
  /\ \A i \in DOMAIN log : log[i].id > 0
  /\ \A i, j \in DOMAIN log : i < j => log[i].id < log[j].id
  /\ 1 .. last \subseteq lost \cup IdsOf(log)
  /\ tail => log # << >> /\ under = cut
  /\ torn /\ pc # "down" => log = << >>

(* Messages and ids are in order, the ids never ahead of the messages they *)
(* stand beside; a list of ids that is not longer is the right one.        *)
MemoryInOrder ==
  /\ \A i, j \in DOMAIN messages : i < j => messages[i].id < messages[j].id
  /\ \A i, j \in DOMAIN ids : i < j => ids[i] < ids[j]
  /\ Len(ids) >= Len(messages)
  /\ \A i \in DOMAIN messages : ids[i] <= messages[i].id
  /\ Len(ids) = Len(messages) => Aligned

(* The cut of a compaction under way leaves a prefix to archive and does   *)
(* not begin with a result.                                                *)
CutPlanned ==
  pc \in {"summary", "commit", "reset"} =>
    plan \in 2 .. Len(messages) /\ messages[plan].kind # "result"

EndsWithResults(n) ==
  /\ n < Len(messages)
  /\ \A i \in Len(messages) - n + 1 .. Len(messages) : messages[i].kind = "result"

(* The results so far are at the end of the list, behind their calls.      *)
RoundUnderWay ==
  pc = "round" =>
    /\ open \in 1 .. batch
    /\ EndsWithResults(batch - open)
    /\ messages[Len(messages) - (batch - open)].kind = "calls"

(* Through a compaction and after it the loop still finds the results of   *)
(* its last batch at the end of the list (loop.py 350-357).                *)
FingerprintReadsBatch ==
  pc \in {"finished", "summary", "commit", "reset", "after"} => EndsWithResults(batch)

Settled == pc \in Up \ {"reset"}

(* What a reader of the log gets (working.py 190-285) is what the loop has *)
(* in memory: after every message, before and after every compaction; and  *)
(* between the two, what it is about to have.  Except while memory holds a *)
(* record that is lost to readers, and while ids and messages are out of   *)
(* step because a restart has left a round out.                            *)
LogIsContext ==
  Aligned /\ ~astray =>
    /\ Settled => Load = [messages |-> messages, summary |-> summary]
    /\ pc = "reset" => Load = [messages |-> Compacted, summary |-> Archived]

(* The messages a reader finds, by themselves or summarised, for whom c is *)
(* the last compaction record.                                             *)
Found(c) == LET l == Read(log, c) IN l.summary \cup IdsOf(l.messages)

(* No message is forgotten: each one ever appended is in the context, or   *)
(* stands behind the summary in it, or was part of a round that had lost   *)
(* its results, or has a record no reader finds - in memory, and in what a *)
(* restart at any moment would read, also when a compaction record is lost *)
(* under the record after it (working.py 616-619: "raw session messages    *)
(* remain append-only").                                                   *)
NothingForgotten ==
  LET kept == (1 .. last) \ (lost \cup dropped) IN
  /\ kept \subseteq Found(cut) \cap Found(under)
  /\ pc \in Up => kept \subseteq summary \cup IdsOf(messages)

(* A death costs readers one message at most, whenever it comes and        *)
(* whatever it leaves of the last line: the recovery record of load stands *)
(* between the torn line and the next message.  Records with a line        *)
(* separator in their text come on top (working.py 172-176, 200-201,       *)
(* 287-294).                                                               *)
DeathCostsOne ==
  Cardinality(lost) + (IF torn THEN 1 ELSE 0) <= parted + crashes

(* What a request shows is the context it had to show (loop.py 148-156,    *)
(* context.py 162-197), however many updates, resets, compactions and      *)
(* restarts lie behind it; unless a call has no result.                    *)
RequestShowsView ==
  pc = "request" /\ Unanswered(messages) = {} => Shown(messages) = view

(* The inductive invariant: the list in memory, its ids and the log are    *)
(* what the code that indexes them relies on.                              *)
ContextInv ==
  /\ ContextTypeOK
  /\ LogInOrder /\ MemoryInOrder
  /\ CutPlanned /\ RoundUnderWay /\ FingerprintReadsBatch
  /\ LogIsContext /\ NothingForgotten

-----------------------------------------------------------------------------
(* Rounds. *)

(* Behind calls stand results of theirs, and no more than they ask for. *)
Answered(ms) ==
  \A i \in DOMAIN ms : ms[i].kind = "calls" =>
    /\ ResultsAfter(ms, i) <= ms[i].n
    /\ \A j \in i + 1 .. i + ResultsAfter(ms, i) : ms[j].of = ms[i].id

(* A result stands behind its calls, with nothing but results between. *)
Led(ms) ==
  \A i \in DOMAIN ms : ms[i].kind = "result" =>
    \E j \in 1 .. i - 1 :
      ms[j].kind = "calls" /\ ms[j].id = ms[i].of /\ i <= j + ResultsAfter(ms, j)

(* The calls that have fewer results behind them than they ask for. *)
Short(ms) == {i \in DOMAIN ms : ms[i].kind = "calls" /\ ResultsAfter(ms, i) < ms[i].n}

AtEnd(ms, i) == i + ResultsAfter(ms, i) = Len(ms)

(* The list and the log hold the same of a message; a line is torn only    *)
(* while there is none.                                                    *)
SameRecords ==
  /\ \A i \in DOMAIN messages : messages[i].kind = "result" => messages[i].of < messages[i].id
  /\ \A i \in DOMAIN messages, j \in DOMAIN log : messages[i].id = log[j].id => messages[i] = log[j]
  /\ \A j \in DOMAIN log : log[j].kind = "result" => log[j].of < log[j].id
  /\ torn /\ pc \in Up => messages = << >> /\ pc \in {"idle", "repair"}

(* No cut is before the one on file, and none in step begins with a result. *)
CutsAdvance ==
  /\ \A i \in DOMAIN ids : ids[i] < cut.first => ids[i] = 0 \/ (pc = "reset" /\ i < plan)
  /\ \A j \in DOMAIN log : log[j].id = cut.first /\ ~skewed => log[j].kind # "result"

(* In the list only the last round is ever short, while it is worked on,   *)
(* and then it is the last one in the log.                                 *)
ShortIsLast ==
  /\ \A i \in Short(messages) :
       /\ pc \in {"round", "repair"}
       /\ AtEnd(messages, i)
       /\ Len(messages) - i < Len(log)
       /\ \A k \in 0 .. Len(messages) - i : log[Len(log) - k] = messages[Len(messages) - k]
  /\ pc = "round" => messages[Len(messages) - (batch - open)].n = batch

(* Behind the cut the log has one more at most. *)
OneLeftOut ==
  \A j, k \in Short(log) :
    j < k /\ log[j].id >= cut.first =>
      AtEnd(log, k) /\ (pc \in Up => Short(messages) # {})

(* The same for the cut a reader falls back to when the last line is lost: *)
(* behind it no round was left out before the last one.                    *)
FallsBack ==
  /\ under.first <= cut.first
  /\ \A j \in DOMAIN log : log[j].id = under.first /\ ~skewed => log[j].kind # "result"
  /\ under # cut => \A j, k \in Short(log) : j < k => log[j].id < under.first

RoundsHold ==
  /\ Answered(messages) /\ Answered(log) /\ Led(log) /\ (~skewed => Led(messages))
  /\ SameRecords /\ CutsAdvance /\ ShortIsLast /\ OneLeftOut /\ FallsBack

(* The inductive invariant behind the pairs: the results of a round follow *)
(* its calls (loop.py 333-350), in the list and in the log; no more than   *)
(* the last round is ever short of some; and a restart has one round at    *)
(* most to leave out, before the repair ends another (coding.py 287-338).  *)
(* All this until a message is lost to readers of the file; a compaction   *)
(* record may be.                                                          *)
RoundsInv == lost = {} => RoundsHold

(* Calls stay with their results and results with their calls, in every    *)
(* request (working.py 1036: "call/result pairs cannot be separated") - as *)
(* long as no message was lost to readers of the file: when the record of  *)
(* the calls has a line separator in an argument, a restart finds only     *)
(* their results.                                                          *)
Paired(ms) ==
  /\ \A i \in DOMAIN ms : ms[i].kind = "calls" => Complete(ms, i) /\ ResultsAfter(ms, i) = ms[i].n
  /\ \A i \in DOMAIN ms : ms[i].kind = "result" =>
       \E j \in 1 .. i - 1 : ms[j].kind = "calls" /\ ms[j].id = ms[i].of

PairsStay == pc = "request" /\ lost = {} => Paired(messages)

(* The same, as long as no cut was made out of step.                       *)
PairsStayInStep == pc = "request" /\ lost = {} /\ ~skewed => Paired(messages)
=============================================================================
