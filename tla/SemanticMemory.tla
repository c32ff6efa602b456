---------------------------- MODULE SemanticMemory ----------------------------
(***************************************************************************)
(* The long-term memory of a user (SemanticMemoryStore, coding_agent/      *)
(* memory/semantic.py): MEMORY.md, its metadata file and the log of        *)
(* conflicts, changed by several processes under one MemoryFileLock, and   *)
(* the maintenance of distillation.py, which reads the memory, asks a      *)
(* model what to change, and changes it later.                             *)
(*                                                                         *)
(* One category; a content stands for all texts with its equivalence key.  *)
(***************************************************************************)
EXTENDS FileLock, Integers, SequencesExt

CONSTANTS
  Contents,      \* what can be remembered
  Subjects,      \* sets of contents with one subject or canonical key
  MaxEntries,    \* what MAX_FILE_BYTES and MAX_INDEX_LINES leave room for
  MaxOps         \* bound on the operations

ASSUME MemoryAssumption ==
  /\ Subjects \subseteq SUBSET Contents
  /\ MaxEntries \in Nat /\ MaxOps \in Nat

VARIABLES
  entries,       \* the entries of MEMORY.md
  meta,          \* [Contents -> status and revision in the metadata file]
  pending,       \* conflicts that are not resolved
  stage,         \* [Procs -> where in the with-block]
  plan,          \* [Procs -> what the operation is going to write]
  seen,          \* what the maintenance has read
  wanted,        \* what was remembered, and not forgotten or replaced since
  stamp,         \* [Contents -> how often it was written to the entries]
  both,          \* subjects somebody chose to keep two contents of
  halfway,       \* contents whose metadata a dead process did not write
  ops            \* bound

files   == <<entries, meta, pending>>
work    == <<stage, plan>>
history == <<wanted, stamp, both, halfway>>
vars    == <<lockVars, files, work, seen, history, ops>>

NoRecord == [status |-> "none", rev |-> 0]
Conflict(e, c) == [existing |-> e, proposed |-> c]

Revision(c) == IF meta[c].status = "none" THEN 1 ELSE meta[c].rev

Nothing ==
  [value |-> << >>, adds |-> {}, removes |-> {}, meta |-> [c \in Contents |-> NoRecord],
   opens |-> {}, closes |-> {}, both |-> {}, stale |-> FALSE]

Init ==
  /\ LockInit
  /\ entries = << >> /\ meta = [c \in Contents |-> NoRecord] /\ pending = {}
  /\ stage = [p \in Procs |-> "none"] /\ plan = [p \in Procs |-> Nothing]
  /\ seen = {}
  /\ wanted = {} /\ stamp = [c \in Contents |-> 0] /\ both = {} /\ halfway = {}
  /\ ops = 0

-----------------------------------------------------------------------------
(* What an operation is going to write, once it has read the files.        *)

AboutTheSame(c, d) == \E S \in Subjects : {c, d} \subseteq S
SubjectsOf(c) == {S \in Subjects : c \in S}
First(S) == {i \in S : \A j \in S : i <= j}
Places(c) == {i \in DOMAIN entries : entries[i] = c}
Rivals(c) == {i \in DOMAIN entries : AboutTheSame(c, entries[i])}

Refuse(p) ==
  /\ stage' = [stage EXCEPT ![p] = "done"]
  /\ UNCHANGED plan

(* A change of the entries; _write raises if the file would be too large.  *)
Change(p, write) ==
  IF Len(write.value) > MaxEntries THEN Refuse(p)
  ELSE /\ stage' = [stage EXCEPT ![p] = "entries"]
       /\ plan' = [plan EXCEPT ![p] = write]

(* _create_conflict, which adds no second conflict of the same two.        *)
Open(p, e, c) ==
  /\ stage' = [stage EXCEPT ![p] = "conflict"]
  /\ plan' = [plan EXCEPT ![p] = [Nothing EXCEPT !.opens = {Conflict(e, c)}]]

Close(p, k) ==
  /\ stage' = [stage EXCEPT ![p] = "conflict"]
  /\ plan' = [plan EXCEPT ![p] = [Nothing EXCEPT !.closes = {k}]]

Appended(c, kept, closes) ==
  [value |-> Append(entries, c), adds |-> {c}, removes |-> {},
   meta |-> [meta EXCEPT ![c] = [status |-> "active", rev |-> 1]],
   opens |-> {}, closes |-> closes, both |-> kept, stale |-> FALSE]

(* A faulty variant of OtherRivals: the other entries are not looked at.   *)
NoOtherRivals(c, i) == {}

OtherRivals(c, i) == Rivals(c) \ {i}

(* A faulty variant of Superseded: the metadata of the old record is kept. *)
NotSuperseded(e, c) == [meta EXCEPT ![c] = [status |-> "active", rev |-> Revision(e) + 1]]

Superseded(e, c) ==
  [meta EXCEPT ![e] = [status |-> "superseded", rev |-> Revision(e)],
               ![c] = [status |-> "active", rev |-> Revision(e) + 1]]

(* _replace_record_locked; a resolution that it serves is recorded in any  *)
(* case but that of a new conflict.                                        *)
ReplaceRecord(p, i, c, closes, stale) ==
  LET e == entries[i] IN
  IF e = c THEN IF closes = {} THEN Refuse(p) ELSE \E k \in closes : Close(p, k)
  ELSE IF OtherRivals(c, i) # {} THEN \E j \in First(OtherRivals(c, i)) : Open(p, entries[j], c)
  ELSE Change(p, [value |-> [entries EXCEPT ![i] = c], adds |-> {c}, removes |-> {e},
                  meta |-> Superseded(e, c), opens |-> {}, closes |-> closes, both |-> {},
                  stale |-> stale])

Forgotten(cs) ==
  [c \in Contents |->
     IF c \in cs /\ meta[c].status # "none" THEN [meta[c] EXCEPT !.status = "forgotten"] ELSE meta[c]]

ForgetRecord(p, i, stale) ==
  Change(p, [value |-> RemoveAt(entries, i), adds |-> {}, removes |-> {entries[i]},
             meta |-> Forgotten({entries[i]}), opens |-> {}, closes |-> {}, both |-> {},
             stale |-> stale])

-----------------------------------------------------------------------------
(* The operations, at the point where the lock is held.                    *)

Reads(p) == stage[p] = "read" /\ UNCHANGED <<lockVars, files, history, ops>>

Remember(p, c, policy) ==
  /\ Reads(p) /\ UNCHANGED seen
  /\ IF Places(c) # {} THEN Refuse(p)
     ELSE IF Rivals(c) = {} THEN Change(p, Appended(c, {}, {}))
     ELSE \E i \in First(Rivals(c)) :
            \/ policy = "keep_existing" /\ Refuse(p)
            \/ policy = "replace" /\ ReplaceRecord(p, i, c, {}, FALSE)
            \/ policy = "keep_both" /\ Change(p, Appended(c, SubjectsOf(c), {}))
            \/ policy = "reject" /\ Open(p, entries[i], c)

(* replace, and update_record without a revision. *)
Replace(p, e, c) ==
  /\ Reads(p) /\ UNCHANGED seen
  /\ IF Places(e) = {} THEN Refuse(p) ELSE \E i \in First(Places(e)) : ReplaceRecord(p, i, c, {}, FALSE)

Forget(p, c) ==
  /\ Reads(p) /\ UNCHANGED seen
  /\ IF Places(c) = {} THEN Refuse(p) ELSE \E i \in First(Places(c)) : ForgetRecord(p, i, FALSE)

ForgetAll(p) ==
  /\ Reads(p) /\ UNCHANGED seen
  /\ IF entries = << >> THEN Refuse(p)
     ELSE Change(p, [Nothing EXCEPT !.removes = Contents,
                       !.meta = Forgotten({c \in Contents : meta[c].status = "active"})])

(* resolve_conflict, of a pending conflict whose existing entry is there.  *)
Resolve(p, k, resolution) ==
  /\ Reads(p) /\ UNCHANGED seen
  /\ IF Places(k.existing) = {} THEN Refuse(p)
     ELSE IF resolution = "replace"
     THEN \E i \in First(Places(k.existing)) : ReplaceRecord(p, i, k.proposed, {k}, FALSE)
     ELSE IF resolution = "keep_both" /\ Places(k.proposed) = {}
     THEN Change(p, Appended(k.proposed, SubjectsOf(k.proposed), {k}))
     ELSE Close(p, k)

(* The maintenance reads the memory, without the lock, and asks the model. *)
Consult ==
  /\ seen = {} /\ ops < MaxOps
  /\ seen' = {[content |-> c, rev |-> Revision(c), at |-> stamp[c]] : c \in ToSet(entries)}
  /\ UNCHANGED <<lockVars, files, work, history, ops>>

(* Its answer names a record and its revision, as it is asked to; the best  *)
(* it can do is to name those of the moment it was asked at.               *)
Stale(s) == stamp[s.content] # s.at
Matches(s) == Places(s.content) # {} /\ Revision(s.content) = s.rev

MaintainUpdate(p, s, c) ==
  /\ Reads(p) /\ seen' = {}
  /\ IF ~Matches(s) THEN Refuse(p)
     ELSE \E i \in First(Places(s.content)) : ReplaceRecord(p, i, c, {}, Stale(s))

MaintainDelete(p, s) ==
  /\ Reads(p) /\ seen' = {}
  /\ IF ~Matches(s) THEN Refuse(p)
     ELSE \E i \in First(Places(s.content)) : ForgetRecord(p, i, Stale(s))

Decide(p) ==
  \/ \E c \in Contents, policy \in {"reject", "keep_existing", "replace", "keep_both"} :
       Remember(p, c, policy)
  \/ \E e, c \in Contents : Replace(p, e, c)
  \/ \E c \in Contents : Forget(p, c)
  \/ ForgetAll(p)
  \/ \E k \in pending, r \in {"keep_existing", "replace", "keep_both"} : Resolve(p, k, r)
  \/ \E s \in seen : MaintainDelete(p, s) \/ \E c \in Contents : MaintainUpdate(p, s, c)

-----------------------------------------------------------------------------
(* The writes: each replaces its file, or appends to it, at once.          *)

WriteEntries(p) ==
  /\ stage[p] = "entries"
  /\ entries' = plan[p].value
  /\ wanted' = (wanted \ plan[p].removes) \cup plan[p].adds
  /\ stamp' = [c \in Contents |-> IF c \in plan[p].adds THEN stamp[c] + 1 ELSE stamp[c]]
  /\ both' = both \cup plan[p].both
  /\ stage' = [stage EXCEPT ![p] = "metadata"]
  /\ UNCHANGED <<lockVars, meta, pending, plan, seen, halfway, ops>>

Differs(p) == {c \in Contents : plan[p].meta[c] # meta[c]}

WriteMetadata(p) ==
  /\ stage[p] = "metadata"
  /\ meta' = plan[p].meta
  /\ halfway' = halfway \ Differs(p)
  /\ stage' = [stage EXCEPT ![p] = IF plan[p].closes = {} THEN "done" ELSE "conflict"]
  /\ UNCHANGED <<lockVars, entries, pending, plan, seen, wanted, stamp, both, ops>>

WriteConflict(p) ==
  /\ stage[p] = "conflict"
  /\ pending' = (pending \cup plan[p].opens) \ plan[p].closes
  /\ stage' = [stage EXCEPT ![p] = "done"]
  /\ UNCHANGED <<lockVars, entries, meta, plan, seen, history, ops>>

-----------------------------------------------------------------------------
(* The lock around them.                                                   *)

Untouched == UNCHANGED <<files, seen, history>>

Begin(p) == Try(p) /\ ops < MaxOps /\ ops' = ops + 1 /\ UNCHANGED work /\ Untouched

(* A faulty variant of Enter: the lock is not taken. *)
EnterUnlocked(p) ==
  /\ at[p] = "trying" /\ at' = [at EXCEPT ![p] = "in"] /\ UNCHANGED <<lockFile, old, misremoved>>
  /\ stage' = [stage EXCEPT ![p] = "read"]
  /\ UNCHANGED <<plan, ops>> /\ Untouched

Enter(p) ==
  /\ Create(p)
  /\ stage' = [stage EXCEPT ![p] = "read"]
  /\ UNCHANGED <<plan, ops>> /\ Untouched

Wait(p) == (FindStale(p) \/ UnlinkStale(p) \/ GiveUp(p)) /\ UNCHANGED <<work, ops>> /\ Untouched

Exit(p) ==
  /\ stage[p] = "done"
  /\ Leave(p)
  /\ stage' = [stage EXCEPT ![p] = "none"] /\ plan' = [plan EXCEPT ![p] = Nothing]
  /\ UNCHANGED ops /\ Untouched

Crash(p) ==
  /\ Die(p)
  /\ stage' = [stage EXCEPT ![p] = "none"] /\ plan' = [plan EXCEPT ![p] = Nothing]
  /\ halfway' = IF stage[p] = "metadata" THEN halfway \cup Differs(p) ELSE halfway
  /\ UNCHANGED <<files, seen, wanted, stamp, both, ops>>

TimePasses == GrowOld /\ UNCHANGED <<work, ops>> /\ Untouched

Step(p) == Enter(p) \/ Wait(p) \/ Decide(p) \/ WriteEntries(p) \/ WriteMetadata(p) \/ WriteConflict(p) \/ Exit(p)

Next == (\E p \in Procs : Begin(p) \/ Step(p) \/ Crash(p)) \/ Consult \/ TimePasses

Spec == Init /\ [][Next]_vars

-----------------------------------------------------------------------------
Record == [status : {"none", "active", "superseded", "forgotten"}, rev : Nat]
Plan ==
  [value : Seq(Contents), adds : SUBSET Contents, removes : SUBSET Contents,
   meta : [Contents -> Record],
   opens : SUBSET [existing : Contents, proposed : Contents],
   closes : SUBSET [existing : Contents, proposed : Contents],
   both : SUBSET Subjects, stale : BOOLEAN]

MemoryTypeOK ==
  /\ entries \in Seq(Contents)
  /\ meta \in [Contents -> Record]
  /\ pending \subseteq [existing : Contents, proposed : Contents]
  /\ stage \in [Procs -> {"none", "read", "entries", "metadata", "conflict", "done"}]
  /\ plan \in [Procs -> Plan]
  /\ seen \subseteq [content : Contents, rev : Nat, at : Nat]
  /\ wanted \subseteq Contents /\ stamp \in [Contents -> Nat]
  /\ both \subseteq Subjects /\ halfway \subseteq Contents
  /\ ops \in Nat

(* What was remembered, and not forgotten or replaced since, is there,     *)
(* whatever other processes remember, replace or forget at the same time   *)
(* and wherever processes die: no operation overwrites what another one    *)
(* wrote (semantic.py 255-324).  As far as the lock holds.                 *)
RememberedStays == misremoved \/ wanted \subseteq ToSet(entries)

(* What an operation is going to write keeps what is wanted: it was made   *)
(* from the entries as they are still.                                     *)
PlanKeepsWanted ==
  misremoved \/ \A p \in Procs : stage[p] = "entries" =>
    (wanted \ plan[p].removes) \cup plan[p].adds \subseteq ToSet(plan[p].value)

StagedInside == \A p \in Procs : at[p] = "in" <=> stage[p] # "none"

(* A record the metadata file calls active is an entry, except where a     *)
(* process died between the two writes (semantic.py 396-418, 460-463).     *)
ActiveIsListed ==
  \/ misremoved
  \/ \E p \in Procs : stage[p] = "metadata"
  \/ \A c \in Contents \ halfway : meta[c].status = "active" => c \in ToSet(entries)

(* The two files an operation is going to write agree, as far as it is up  *)
(* to this operation; and the first of them has been written as planned.   *)
PlanListsActive ==
  misremoved \/ \A p \in Procs : stage[p] \in {"entries", "metadata"} =>
    /\ \A c \in (Contents \ halfway) \cup Differs(p) :
         plan[p].meta[c].status = "active" => c \in ToSet(plan[p].value)
    /\ stage[p] = "metadata" => entries = plan[p].value

(* Two entries are about the same only if somebody chose to keep both:     *)
(* neither a replacement, an update of the maintenance nor a resolution    *)
(* brings it about (semantic.py 379-391).                                  *)
OnePerSubject ==
  \/ misremoved
  \/ \A i, j \in DOMAIN entries, S \in Subjects :
       entries[i] \in S /\ entries[j] \in S => i = j \/ S \in both

PlanOnePerSubject ==
  misremoved \/ \A p \in Procs : stage[p] = "entries" =>
    \A i, j \in DOMAIN plan[p].value, S \in Subjects :
      plan[p].value[i] \in S /\ plan[p].value[j] \in S => i = j \/ S \in both \cup plan[p].both

(* The inductive invariant behind the three: only who has the lock file is *)
(* in the with-block, and what it is going to write was made from the      *)
(* files as they are still (locking.py, semantic.py 255-484).              *)
MemoryInv ==
  /\ FileLockInv /\ MemoryTypeOK /\ StagedInside
  /\ PlanKeepsWanted /\ RememberedStays
  /\ PlanListsActive /\ ActiveIsListed
  /\ PlanOnePerSubject /\ OnePerSubject

(* "A stale model response therefore becomes a harmless rejected action    *)
(* instead of deleting a newer user decision" (distillation.py 371-373).   *)
StaleActionRejected == \A p \in Procs : stage[p] = "entries" => ~plan[p].stale
===============================================================================
