----------------------------- MODULE EventInbox -----------------------------
(***************************************************************************)
(* The durable inbox of the Feishu bot: PersistentEventDeduplicator        *)
(* (platforms/feishu/dedupe.py) as operators on a record.  The router      *)
(* calls claim, complete and fail on it; every call changes the memory     *)
(* first and appends a line to events.jsonl afterwards, so an append that  *)
(* raises leaves the memory changed and the file as it was.                *)
(*                                                                         *)
(* Clock readings are abstracted to one bit per message: a message under   *)
(* processing becomes stale once stale_after has passed since its last     *)
(* change.                                                                 *)
(***************************************************************************)
EXTENDS Naturals, SequencesExt

CONSTANTS
  Message,        \* message ids
  MaxRemembered   \* max_entries

ASSUME EventInboxAssumption == MaxRemembered \in Nat \ {0}

InboxStatus == {"none", "processing", "completed", "failed"}

Line == [id : Message, status : InboxStatus \ {"none"}]

(* order: _order (and _seen, its range); status: _status; stale: see above *)
Inbox == [order  : Seq(Message),
          status : [Message -> InboxStatus],
          stale  : SUBSET Message]

EmptyInbox == [order |-> << >>, status |-> [m \in Message |-> "none"], stale |-> {}]

LastLines(s) ==
  SubSeq(s, IF Len(s) > MaxRemembered THEN Len(s) - MaxRemembered + 1 ELSE 1, Len(s))

(* A message new to the inbox may push out the one that was seen first. *)
Remember(d, m) ==
  IF m \in Range(d.order)
  THEN d
  ELSE LET kept == LastLines(Append(d.order, m))
       IN  [d EXCEPT !.order = kept,
                     !.status = [x \in Message |->
                                   IF x \in Range(kept) THEN d.status[x] ELSE "none"],
                     !.stale = @ \cap Range(kept)]

(* What claim, complete and fail do to the memory. *)
Mark(d, m, s) ==
  [Remember(d, m) EXCEPT !.status[m] = s, !.stale = @ \ {m}]

(* claim's answer: not for a completed message, nor for one that has been  *)
(* under processing for less than stale_after.                             *)
Claimable(d, m) ==
  /\ d.status[m] # "completed"
  /\ d.status[m] = "processing" => m \in d.stale

(* One line after another. *)
MarkAll(d, ls) ==
  LET upto[i \in 0 .. Len(ls)] ==
        IF i = 0 THEN d ELSE Mark(upto[i - 1], ls[i].id, ls[i].status)
  IN  upto[Len(ls)]

(* What a new process reads back from the last lines of the file. *)
Load(lines) == MarkAll(EmptyInbox, LastLines(lines))
=============================================================================
