------------------------------- MODULE FileLock -------------------------------
(***************************************************************************)
(* MemoryFileLock (coding_agent/memory/locking.py): a lock between         *)
(* processes that is a file.  Whoever creates the file is in; a file that  *)
(* is older than stale_seconds is taken for that of a dead process, and is *)
(* removed by whoever finds it so; whoever leaves removes the file, without *)
(* a look at whose it is.                                                  *)
(*                                                                         *)
(* Time is left to chance: a file may be found old at any moment, that of  *)
(* a slow process too if SlowHolders.                                      *)
(***************************************************************************)
CONSTANTS
  Procs,         \* the processes, or threads, that use the lock
  NoOne,         \* there is no lock file
  SlowHolders    \* may a process be in for longer than stale_seconds?

ASSUME FileLockAssumption == NoOne \notin Procs /\ SlowHolders \in BOOLEAN

VARIABLES
  lockFile,      \* whose file it is
  old,           \* is it older than stale_seconds?
  at,            \* [Procs -> where in __enter__, or in the with-block]
  misremoved     \* was the file of a process that is in removed by another?

lockVars == <<lockFile, old, at, misremoved>>

LockInit ==
  /\ lockFile = NoOne
  /\ old = FALSE
  /\ at = [p \in Procs |-> "out"]
  /\ misremoved = FALSE

Move(p, from, to) == at[p] = from /\ at' = [at EXCEPT ![p] = to]

(* Somebody else's file is removed while that process is in.               *)
Wrongly(p) == lockFile \in Procs \ {p} /\ at[lockFile] = "in"

(* __enter__ begins. *)
Try(p) ==
  /\ Move(p, "out", "trying")
  /\ UNCHANGED <<lockFile, old, misremoved>>

(* os.open with O_CREAT | O_EXCL. *)
Create(p) ==
  /\ lockFile = NoOne
  /\ Move(p, "trying", "in")
  /\ lockFile' = p
  /\ old' = FALSE
  /\ UNCHANGED misremoved

(* The file exists and is old: it is about to be unlinked.                 *)
FindStale(p) ==
  /\ lockFile # NoOne /\ old
  /\ Move(p, "trying", "unlinking")
  /\ UNCHANGED <<lockFile, old, misremoved>>

(* A faulty variant of UnlinkStale: the waiter takes the lock as its own.  *)
UnlinkStaleAndEnter(p) ==
  /\ Move(p, "unlinking", "in")
  /\ lockFile' = NoOne
  /\ old' = FALSE
  /\ misremoved' = (misremoved \/ Wrongly(p))

(* unlink(missing_ok=True), of whatever file is there now.                 *)
UnlinkStale(p) ==
  /\ Move(p, "unlinking", "trying")
  /\ lockFile' = NoOne
  /\ old' = FALSE
  /\ misremoved' = (misremoved \/ Wrongly(p))

(* TimeoutError: the deadline has passed and the file is not old.          *)
GiveUp(p) ==
  /\ lockFile # NoOne /\ ~old
  /\ Move(p, "trying", "out")
  /\ UNCHANGED <<lockFile, old, misremoved>>

(* __exit__ *)
Leave(p) ==
  /\ Move(p, "in", "out")
  /\ lockFile' = NoOne
  /\ old' = FALSE
  /\ misremoved' = (misremoved \/ Wrongly(p))

(* stale_seconds have passed since the file was created. *)
GrowOld ==
  /\ lockFile # NoOne /\ ~old
  /\ SlowHolders \/ at[lockFile] # "in"
  /\ old' = TRUE
  /\ UNCHANGED <<lockFile, at, misremoved>>

(* The process dies, and another takes its place; the file stays.          *)
Die(p) ==
  /\ at[p] # "out"
  /\ at' = [at EXCEPT ![p] = "out"]
  /\ UNCHANGED <<lockFile, old, misremoved>>

LockNext ==
  \/ \E p \in Procs : Try(p) \/ Create(p) \/ FindStale(p) \/ UnlinkStale(p) \/ GiveUp(p)
                      \/ Leave(p) \/ Die(p)
  \/ GrowOld

LockSpec == LockInit /\ [][LockNext]_lockVars

-----------------------------------------------------------------------------
LockTypeOK ==
  /\ lockFile \in Procs \cup {NoOne}
  /\ old \in BOOLEAN
  /\ at \in [Procs -> {"out", "trying", "unlinking", "in"}]
  /\ misremoved \in BOOLEAN

MutualExclusion == \A p, q \in Procs : at[p] = "in" /\ at[q] = "in" => p = q

(* Until a file is removed that is not the remover's, whoever is in has    *)
(* the file.                                                               *)
HolderHasFile == misremoved \/ \A p \in Procs : at[p] = "in" => lockFile = p

FileLockInv == LockTypeOK /\ HolderHasFile

(* At most one process is in (locking.py:9: "Small cross-process lock      *)
(* using exclusive file creation") until a file is removed that is not the *)
(* remover's: by a holder that leaves after its own file was taken for     *)
(* stale, or by the second of two waiters that found the same file old.    *)
OneIn == misremoved \/ MutualExclusion
===============================================================================
