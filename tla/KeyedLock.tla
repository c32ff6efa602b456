----------------------------- MODULE KeyedLock -----------------------------
(***************************************************************************)
(* Locks made on demand, one per key.  with_file_mutation_queue            *)
(* (coding_agent/tools/mutation_queue.py) serialises the write and edit    *)
(* operations on one resolved path this way, and DeliveryManager.deliver   *)
(* (platforms/delivery.py) the deliveries of one idempotency key: an       *)
(* asyncio.Lock is created by its first user and dropped by its last one.  *)
(*                                                                         *)
(* The map from keys to locks holds entry OBJECTS: a task that looked one  *)
(* up keeps it even if the map forgets or replaces it meanwhile, so every  *)
(* entry object has a number of its own.                                   *)
(***************************************************************************)
EXTENDS Naturals, FiniteSets, SequencesExt

CONSTANTS
  Task,        \* the coroutines of the process
  Key,         \* resolved, case-folded paths, or idempotency keys
  NoKey,       \* no key: the task is not in a call
  NoTask,      \* nobody holds a lock
  MaxEntries   \* bound on the entry objects ever created

ASSUME KeyedLockAssumption ==
  IsFiniteSet(Task) /\ MaxEntries \in Nat /\ NoKey \notin Key /\ NoTask \notin Task

Entry   == 1 .. MaxEntries
NoEntry == 0

VARIABLES
  queues,    \* _queues: key -> entry object, NoEntry when the key is absent
  created,   \* entry objects created so far
  users,     \* _QueueEntry.users, per entry object
  locked,    \* asyncio.Lock of an entry: is it locked?
  waiters,   \* asyncio.Lock of an entry: the FIFO of its waiting tasks
  pc,        \* a task is outside, waiting on the lock, or inside
  ref,       \* the local variable "entry" of a task
  key        \* the local variable "key" of a task

lockVars == <<queues, created, users, locked, waiters, pc, ref, key>>

LockTypeOK ==
  /\ queues \in [Key -> Entry \cup {NoEntry}]
  /\ created \in 0 .. MaxEntries
  /\ users \in [Entry -> Nat]
  /\ locked \in [Entry -> BOOLEAN]
  /\ waiters \in [Entry -> Seq(Task)]
  /\ pc \in [Task -> {"outside", "waiting", "inside"}]
  /\ ref \in [Task -> Entry \cup {NoEntry}]
  /\ key \in [Task -> Key \cup {NoKey}]

LockInit ==
  /\ queues = [k \in Key |-> NoEntry]
  /\ created = 0
  /\ users = [e \in Entry |-> 0]
  /\ locked = [e \in Entry |-> FALSE]
  /\ waiters = [e \in Entry |-> << >>]
  /\ pc = [t \in Task |-> "outside"]
  /\ ref = [t \in Task |-> NoEntry]
  /\ key = [t \in Task |-> NoKey]

-----------------------------------------------------------------------------
(* A faulty variant of Lookup: every call makes its own lock. *)
LookupFresh(k) == created + 1

(* _queues.get(key), or a new entry stored under the key. *)
Lookup(k) == IF queues[k] = NoEntry THEN created + 1 ELSE queues[k]

(* asyncio.Lock.acquire returns without suspending only if the lock is     *)
(* free and nobody queues in front.                                        *)
FreeNow(e) == ~locked[e] /\ waiters[e] = << >>

(* A call up to its first suspension: find or create the entry, count this *)
(* user, then take the lock or queue for it.                               *)
Enter(t, k) ==
  LET e == Lookup(k) IN
  /\ pc[t] = "outside"
  /\ e \in Entry
  /\ created' = IF queues[k] = NoEntry THEN e ELSE created
  /\ queues' = [queues EXCEPT ![k] = e]
  /\ users' = [users EXCEPT ![e] = @ + 1]
  /\ ref' = [ref EXCEPT ![t] = e]
  /\ key' = [key EXCEPT ![t] = k]
  /\ \/ /\ FreeNow(e)
        /\ locked' = [locked EXCEPT ![e] = TRUE]
        /\ pc' = [pc EXCEPT ![t] = "inside"]
        /\ UNCHANGED waiters
     \/ /\ ~FreeNow(e)
        /\ waiters' = [waiters EXCEPT ![e] = Append(@, t)]
        /\ pc' = [pc EXCEPT ![t] = "waiting"]
        /\ UNCHANGED locked

(* The event loop resumes the waiter that the last release woke. *)
Acquire(t) ==
  LET e == ref[t] IN
  /\ pc[t] = "waiting"
  /\ ~locked[e]
  /\ waiters[e] # << >> /\ t = Head(waiters[e])
  /\ locked' = [locked EXCEPT ![e] = TRUE]
  /\ waiters' = [waiters EXCEPT ![e] = Tail(@)]
  /\ pc' = [pc EXCEPT ![t] = "inside"]
  /\ UNCHANGED <<queues, created, users, ref, key>>

(* A faulty variant of Forget: it drops a free entry although another task *)
(* still queues for it.                                                    *)
ForgetWithUsers(t) ==
  [queues EXCEPT ![key[t]] = IF @ = ref[t] /\ ~locked'[ref[t]] THEN NoEntry ELSE @]

(* A faulty variant of Forget: the entry is kept for ever. *)
ForgetNever(t) == queues

(* The finally block: the last user of a free entry forgets it, unless the *)
(* map already holds another object under the key.                         *)
Forget(t) ==
  [queues EXCEPT ![key[t]] =
     IF @ = ref[t] /\ users'[ref[t]] = 0 /\ ~locked'[ref[t]] THEN NoEntry ELSE @]

(* A faulty variant of Leave: an operation that raised keeps the lock. *)
LeaveLocked(t) ==
  LET e == ref[t] IN
  /\ pc[t] = "inside"
  /\ UNCHANGED locked
  /\ users' = [users EXCEPT ![e] = @ - 1]
  /\ pc' = [pc EXCEPT ![t] = "outside"]
  /\ ref' = [ref EXCEPT ![t] = NoEntry]
  /\ key' = [key EXCEPT ![t] = NoKey]
  /\ queues' = Forget(t)
  /\ UNCHANGED <<created, waiters>>

(* The operation ended, with a result or an exception: the lock is         *)
(* released and the finally block runs without another suspension.         *)
Leave(t) ==
  LET e == ref[t] IN
  /\ pc[t] = "inside"
  /\ locked' = [locked EXCEPT ![e] = FALSE]
  /\ users' = [users EXCEPT ![e] = @ - 1]
  /\ pc' = [pc EXCEPT ![t] = "outside"]
  /\ ref' = [ref EXCEPT ![t] = NoEntry]
  /\ key' = [key EXCEPT ![t] = NoKey]
  /\ queues' = Forget(t)
  /\ UNCHANGED <<created, waiters>>

(* A waiting task is cancelled: it gives up its place in the FIFO and runs *)
(* the same finally block.                                                 *)
CancelWait(t) ==
  LET e == ref[t] IN
  /\ pc[t] = "waiting"
  /\ \E i \in DOMAIN waiters[e] :
       /\ waiters[e][i] = t
       /\ waiters' = [waiters EXCEPT ![e] = RemoveAt(@, i)]
  /\ users' = [users EXCEPT ![e] = @ - 1]
  /\ pc' = [pc EXCEPT ![t] = "outside"]
  /\ ref' = [ref EXCEPT ![t] = NoEntry]
  /\ UNCHANGED locked
  /\ key' = [key EXCEPT ![t] = NoKey]
  /\ queues' = Forget(t)
  /\ UNCHANGED created

LockNext ==
  \E t \in Task :
    \/ \E k \in Key : Enter(t, k)
    \/ Acquire(t)
    \/ Leave(t)
    \/ CancelWait(t)

LockSpec == LockInit /\ [][LockNext]_lockVars

-----------------------------------------------------------------------------
(* Two tasks are never inside the lock of one key at once, even when the   *)
(* entry of that key was dropped and created again meanwhile: two edits of *)
(* one file, or two sends of one delivery, cannot overlap.                 *)
OneInsidePerKey ==
  \A t, u \in Task :
    pc[t] = "inside" /\ pc[u] = "inside" /\ key[t] = key[u] => t = u

(* The map holds an entry for exactly the keys somebody uses: a newcomer   *)
(* finds the entry the others queue on, and the map does not grow with the *)
(* files or messages of a session.                                         *)
EntryIffUsed ==
  \A k \in Key :
    queues[k] # NoEntry <=> \E t \in Task : pc[t] # "outside" /\ key[t] = k

(* Why both hold, in seven parts.  A task has an entry and a key exactly     *)
(* while it is in a call; *)
InCallIffRef ==
  \A t \in Task :
    /\ pc[t] = "outside" <=> ref[t] = NoEntry
    /\ pc[t] = "outside" <=> key[t] = NoKey

(* it uses the entry that the map holds for its key now; *)
RefIsCurrent == \A t \in Task : pc[t] # "outside" => queues[key[t]] = ref[t]

(* no entry serves two keys, and none has a number still to be given out;  *)
EntriesDistinct ==
  /\ \A k \in Key : queues[k] <= created
  /\ \A j, k \in Key : queues[j] = queues[k] /\ queues[j] # NoEntry => j = k

(* "users" counts the tasks that use an entry; *)
Users(e) == {t \in Task : ref[t] = e}
UsersCounted == \A e \in Entry : users[e] = Cardinality(Users(e))

(* an entry is locked exactly while one of its users is inside; *)
LockedIffInside ==
  \A e \in Entry : locked[e] <=> \E t \in Task : pc[t] = "inside" /\ ref[t] = e

(* and only one is; *)
OneInsidePerEntry ==
  \A t, u \in Task : pc[t] = "inside" /\ pc[u] = "inside" /\ ref[t] = ref[u] => t = u

(* who queues for an entry waits, is one of its users, and queues once. *)
WaitersWait ==
  \A e \in Entry :
    /\ \A i \in DOMAIN waiters[e] : pc[waiters[e][i]] = "waiting" /\ ref[waiters[e][i]] = e
    /\ \A i, j \in DOMAIN waiters[e] : waiters[e][i] = waiters[e][j] => i = j

(* The inductive invariant of the locks. *)
LockInv ==
  /\ LockTypeOK /\ InCallIffRef /\ RefIsCurrent /\ EntriesDistinct
  /\ EntryIffUsed /\ UsersCounted /\ LockedIffInside /\ OneInsidePerEntry
  /\ WaitersWait

-----------------------------------------------------------------------------
(* The one lock of a key, as the users of the key see it. *)
Holder(k) ==
  IF \E t \in Task : pc[t] = "inside" /\ key[t] = k
    THEN CHOOSE t \in Task : pc[t] = "inside" /\ key[t] = k
    ELSE NoTask

Line(k) == IF queues[k] = NoEntry THEN << >> ELSE waiters[queues[k]]

Fifo == INSTANCE FifoLock WITH
  holder <- [k \in Key |-> Holder(k)],
  line   <- [k \in Key |-> Line(k)]

(* Entries made on demand and dropped by their last user act as one fair   *)
(* lock per key: nobody is lost, admitted twice or overtaken when an entry *)
(* goes and another one comes (mutation_queue.py 28-41), whatever runs     *)
(* under the lock and however it ends.                                     *)
RefinesFifoLock == Fifo!Spec
=============================================================================
