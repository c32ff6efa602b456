---------------------------- MODULE OutboxProofs ----------------------------
(***************************************************************************)
(* The outbox for any tasks, keys, attempts, calls and restarts: OutboxInv *)
(* is an inductive invariant of Spec, so that a duplicate has its lost     *)
(* outcome, and what is recorded as delivered is not sent again.           *)
(***************************************************************************)
EXTENDS Outbox, FiniteSetTheorems, TLAPS

-----------------------------------------------------------------------------
(* The keyed locks, for every number of tasks, keys and entries: LockInv is *)
(* an inductive invariant of LockSpec, and OneInsidePerKey and             *)
(* EntryIffUsed follow from it.                                            *)

(* A sequence without its element i. *)
LEMMA RemoveAtProperties ==
  ASSUME NEW S, NEW s \in Seq(S), NEW i \in DOMAIN s
  PROVE  /\ RemoveAt(s, i) \in Seq(S)
         /\ Len(RemoveAt(s, i)) = Len(s) - 1
         /\ \A j \in DOMAIN RemoveAt(s, i) : RemoveAt(s, i)[j] = s[IF j < i THEN j ELSE j + 1]
<1> DEFINE front == SubSeq(s, 1, i - 1)
           back == SubSeq(s, i + 1, Len(s))
<1>1. /\ front \in Seq(S) /\ Len(front) = i - 1
      /\ \A j \in 1 .. i - 1 : front[j] = s[j]
  OBVIOUS
<1>2. /\ back \in Seq(S) /\ Len(back) = Len(s) - i
      /\ \A j \in 1 .. Len(s) - i : back[j] = s[i + j]
  OBVIOUS
<1>3. RemoveAt(s, i) = front \o back
  BY DEF RemoveAt
<1> HIDE DEF front, back
<1>4. front \o back \in Seq(S) /\ Len(front \o back) = Len(s) - 1
  BY <1>1, <1>2
<1>5. ASSUME NEW j \in 1 .. Len(s) - 1
      PROVE  (front \o back)[j] = s[IF j < i THEN j ELSE j + 1]
  <2>1. CASE j < i
    BY <2>1, <1>1, <1>2
  <2>2. CASE ~(j < i)
    <3>1. (front \o back)[j] = back[j - (i - 1)]
      BY <2>2, <1>1, <1>2
    <3>2. j - (i - 1) \in 1 .. Len(s) - i /\ i + (j - (i - 1)) = j + 1
      BY <2>2
    <3> QED
      BY <3>1, <3>2, <2>2, <1>2
  <2> QED
    BY <2>1, <2>2
<1>6. DOMAIN (front \o back) = 1 .. Len(s) - 1
  BY <1>4
<1> QED
  BY <1>3, <1>4, <1>5, <1>6

(* A task that begins or ends a call changes the count of one entry. *)
LEMMA UsersFinite ==
  ASSUME NEW e
  PROVE  /\ IsFiniteSet(Users(e))
         /\ Cardinality(Users(e)) \in Nat
         /\ Cardinality(Users(e)) = 0 <=> Users(e) = {}
<1>1. IsFiniteSet(Users(e))
  BY KeyedLockAssumption, FS_Subset DEF Users
<1> QED
  BY <1>1, FS_CardinalityType, FS_EmptySet

LEMMA JoinCounts ==
  ASSUME LockInv, NEW t \in Task, NEW e \in Entry,
         ref[t] = NoEntry, ref' = [ref EXCEPT ![t] = e],
         users' = [users EXCEPT ![e] = @ + 1]
  PROVE  UsersCounted' /\ users' \in [Entry -> Nat]
<1> USE DEF LockInv, LockTypeOK, UsersCounted
<1>1. Users(e)' = Users(e) \cup {t}
  BY DEF Users, Entry, NoEntry
<1>2. t \notin Users(e)
  BY DEF Users, Entry, NoEntry
<1>3. \A d \in Entry \ {e} : Users(d)' = Users(d)
  BY DEF Users, Entry, NoEntry
<1>4. Cardinality(Users(e) \cup {t}) = Cardinality(Users(e)) + 1
  BY <1>2, UsersFinite, FS_AddElement
<1>5. users'[e] = Cardinality(Users(e)')
  BY <1>1, <1>4
<1>6. \A d \in Entry \ {e} : users'[d] = Cardinality(Users(d)')
  BY <1>3
<1> QED
  BY <1>5, <1>6

LEMMA QuitCounts ==
  ASSUME LockInv, NEW t \in Task, pc[t] # "outside",
         ref' = [ref EXCEPT ![t] = NoEntry],
         users' = [users EXCEPT ![ref[t]] = @ - 1]
  PROVE  /\ UsersCounted' /\ users' \in [Entry -> Nat]
         /\ users'[ref[t]] = 0 <=> Users(ref[t]) = {t}
<1> USE DEF LockInv, LockTypeOK, UsersCounted
<1> DEFINE e == ref[t]
<1>1. e \in Entry
  BY DEF InCallIffRef
<1>2. t \in Users(e)
  BY DEF Users
<1>3. \A d \in Entry : Users(d)' = IF d = e THEN Users(d) \ {t} ELSE Users(d)
  BY <1>1 DEF Users, Entry, NoEntry
<1>4. Cardinality(Users(e) \ {t}) = Cardinality(Users(e)) - 1
  BY <1>2, UsersFinite, FS_RemoveElement
<1>5. users'[e] = Cardinality(Users(e) \ {t})
  BY <1>1, <1>4
<1>6. UsersCounted'
  BY <1>1, <1>3, <1>5
<1>7. users'[e] \in Nat /\ (users'[e] = 0 <=> Users(e) \ {t} = {})
  <2>1. IsFiniteSet(Users(e) \ {t})
    BY UsersFinite, FS_RemoveElement
  <2>2. Cardinality(Users(e) \ {t}) \in Nat
    BY <2>1, FS_CardinalityType
  <2>3. Cardinality(Users(e) \ {t}) = 0 <=> Users(e) \ {t} = {}
    BY <2>1, FS_EmptySet
  <2> QED
    BY <2>2, <2>3, <1>5
<1>8. users' \in [Entry -> Nat]
  BY <1>1, <1>7
<1> QED
  BY <1>2, <1>6, <1>7, <1>8

LEMMA InitLockInv == LockInit => LockInv
<1> SUFFICES ASSUME LockInit PROVE LockInv
  OBVIOUS
<1> USE DEF LockInit
<1>1. \A e \in Entry : Users(e) = {}
  BY DEF Users, Entry, NoEntry
<1>2. UsersCounted
  BY <1>1, FS_EmptySet DEF UsersCounted
<1>3. LockTypeOK
  BY KeyedLockAssumption DEF LockTypeOK
<1> QED
  BY <1>2, <1>3, KeyedLockAssumption
  DEF LockInv, InCallIffRef, RefIsCurrent, EntriesDistinct, EntryIffUsed,
      LockedIffInside, OneInsidePerEntry, WaitersWait, NoEntry

(* Nobody queues for an entry that no task refers to. *)
LEMMA UnusedEntryIsFree ==
  ASSUME LockInv, NEW e \in Entry, \A t \in Task : ref[t] # e
  PROVE  waiters[e] = << >> /\ ~locked[e]
<1>1. waiters[e] \in Seq(Task)
  BY DEF LockInv, LockTypeOK
<1>2. ASSUME waiters[e] # << >> PROVE FALSE
  <2>1. 1 \in DOMAIN waiters[e] /\ waiters[e][1] \in Task
    BY <1>1, <1>2
  <2> QED
    BY <2>1 DEF LockInv, WaitersWait
<1>3. ~locked[e]
  BY DEF LockInv, LockedIffInside
<1> QED
  BY <1>2, <1>3

(* Who does not queue may move without disturbing the queues. *)
LEMMA WaitersUndisturbed ==
  ASSUME LockInv, NEW t \in Task, pc[t] # "waiting", waiters' = waiters,
         \A u \in Task \ {t} : pc'[u] = pc[u] /\ ref'[u] = ref[u]
  PROVE  WaitersWait'
<1>1. \A e \in Entry : waiters[e] \in Seq(Task)
  BY DEF LockInv, LockTypeOK
<1>2. \A e \in Entry : \A i \in DOMAIN waiters[e] :
        /\ waiters[e][i] \in Task \ {t}
        /\ pc[waiters[e][i]] = "waiting" /\ ref[waiters[e][i]] = e
  BY <1>1 DEF LockInv, WaitersWait
<1>3. \A e \in Entry : \A i, j \in DOMAIN waiters[e] : waiters[e][i] = waiters[e][j] => i = j
  BY DEF LockInv, WaitersWait
<1> QED
  BY <1>2, <1>3 DEF WaitersWait

(* A call begins: a new entry has a number nobody uses. *)
LEMMA EnterLockInv ==
  ASSUME LockInv, NEW t \in Task, NEW k \in Key, Enter(t, k)
  PROVE  LockInv'
<1> DEFINE e == Lookup(k)
<1> USE DEF LockInv, LockTypeOK
<1>1. /\ e \in Entry /\ e # NoEntry
      /\ ref[t] = NoEntry
      /\ key[t] = NoKey /\ k # NoKey
  BY KeyedLockAssumption DEF Enter, InCallIffRef, Entry, NoEntry
<1>2. queues[k] = NoEntry => e = created + 1
  BY DEF Lookup
<1>3. queues[k] # NoEntry => e = queues[k]
  BY DEF Lookup
<1>4. \A u \in Task : ref[u] <= created
  <2> SUFFICES ASSUME NEW u \in Task PROVE ref[u] <= created
    OBVIOUS
  <2>1. CASE pc[u] = "outside"
    <3>1. ref[u] = 0 /\ created \in Nat
      BY <2>1 DEF InCallIffRef, NoEntry
    <3> QED
      BY <3>1
  <2>2. CASE pc[u] # "outside"
    <3>1. key[u] \in Key
      BY <2>2 DEF InCallIffRef
    <3>2. ref[u] = queues[key[u]]
      BY <2>2 DEF RefIsCurrent
    <3>3. queues[key[u]] <= created
      BY <3>1 DEF EntriesDistinct
    <3> QED
      BY <3>2, <3>3
  <2> QED
    BY <2>1, <2>2
<1>5. /\ ref' = [ref EXCEPT ![t] = e]
      /\ key' = [key EXCEPT ![t] = k]
      /\ queues' = [queues EXCEPT ![k] = e]
      /\ users' = [users EXCEPT ![e] = @ + 1]
      /\ created' = IF queues[k] = NoEntry THEN e ELSE created
  BY DEF Enter
<1>6. UsersCounted' /\ users' \in [Entry -> Nat]
  BY <1>1, <1>5, JoinCounts
<1>7. \/ /\ ~locked[e] /\ locked' = [locked EXCEPT ![e] = TRUE]
         /\ pc' = [pc EXCEPT ![t] = "inside"]
         /\ waiters' = waiters
      \/ /\ locked' = locked
         /\ pc' = [pc EXCEPT ![t] = "waiting"]
         /\ waiters' = [waiters EXCEPT ![e] = Append(@, t)]
  BY DEF Enter, FreeNow
<1>8. /\ created \in Nat /\ created' \in 0 .. MaxEntries
      /\ created <= created' /\ e <= created'
  BY <1>1, <1>2, <1>3, <1>5, KeyedLockAssumption DEF Entry, EntriesDistinct
<1>9. LockTypeOK'
  <2>1. waiters' \in [Entry -> Seq(Task)]
    <3>1. Append(waiters[e], t) \in Seq(Task)
      BY <1>1
    <3> QED
      BY <3>1, <1>1, <1>7
  <2> QED
    BY <2>1, <1>1, <1>5, <1>6, <1>7, <1>8
<1>10. InCallIffRef'
  BY <1>1, <1>5, <1>7 DEF InCallIffRef
<1>11. RefIsCurrent'
  <2>1. ASSUME NEW u \in Task, u # t, pc[u] # "outside" PROVE queues'[key[u]] = ref[u]
    <3>1. queues[key[u]] = ref[u] /\ ref[u] # NoEntry /\ key[u] \in Key
      BY <2>1 DEF RefIsCurrent, InCallIffRef
    <3> QED
      BY <3>1, <1>3, <1>5
  <2> QED
    BY <2>1, <1>1, <1>5, <1>7 DEF RefIsCurrent
<1>12. EntriesDistinct'
  <2>1. \A j \in Key \ {k} : queues'[j] = queues[j] /\ queues[j] <= created
    BY <1>5 DEF EntriesDistinct
  <2>2. \A j \in Key \ {k} : queues[j] # NoEntry => queues[j] # e
    BY <1>1, <1>2, <1>3, <1>8 DEF EntriesDistinct, Entry, NoEntry
  <2>3. queues'[k] = e
    BY <1>5
  <2>4. \A j \in Key : queues[j] \in Nat
    BY DEF Entry, NoEntry
  <2>5. \A j \in Key : queues'[j] <= created'
    BY <2>1, <2>3, <2>4, <1>8 DEF Entry
  <2> QED
    BY <2>1, <2>2, <2>3, <2>5 DEF EntriesDistinct
<1>13. EntryIffUsed'
  <2>1. pc'[t] # "outside" /\ key'[t] = k /\ queues'[k] # NoEntry
    BY <1>1, <1>5, <1>7
  <2>2. ASSUME NEW j \in Key \ {k}
        PROVE  /\ queues'[j] = queues[j]
               /\ \A u \in Task : pc'[u] # "outside" /\ key'[u] = j
                                  <=> pc[u] # "outside" /\ key[u] = j
    BY <1>1, <1>5, <1>7, KeyedLockAssumption
  <2> QED
    BY <2>1, <2>2 DEF EntryIffUsed
<1>14. LockedIffInside' /\ OneInsidePerEntry'
  <2>1. CASE pc' = [pc EXCEPT ![t] = "inside"]
    <3>1. ~locked[e] /\ locked' = [locked EXCEPT ![e] = TRUE]
      BY <2>1, <1>7
    <3>2. \A u \in Task : u # t =>
            /\ pc'[u] = "inside" <=> pc[u] = "inside"
            /\ ref'[u] = ref[u]
            /\ pc[u] = "inside" => ref[u] # e
      BY <2>1, <3>1, <1>1, <1>5 DEF LockedIffInside
    <3>3. pc'[t] = "inside" /\ ref'[t] = e /\ pc[t] = "outside"
      BY <2>1, <1>5 DEF Enter
    <3>4. LockedIffInside'
      <4>1. locked'[e] /\ pc'[t] = "inside" /\ ref'[t] = e
        BY <3>1, <3>3, <1>1
      <4>2. ASSUME NEW d \in Entry \ {e}
            PROVE  locked'[d] <=> \E u \in Task : pc'[u] = "inside" /\ ref'[u] = d
        <5>1. locked'[d] <=> \E u \in Task : pc[u] = "inside" /\ ref[u] = d
          BY <3>1 DEF LockedIffInside
        <5> QED
          BY <5>1, <3>2, <3>3
      <4> QED
        BY <4>1, <4>2 DEF LockedIffInside
    <3>5. OneInsidePerEntry'
      <4>1. ASSUME NEW u \in Task, NEW v \in Task, u # t, v # t,
                   pc'[u] = "inside", pc'[v] = "inside", ref'[u] = ref'[v]
            PROVE  u = v
        <5>1. pc[u] = "inside" /\ pc[v] = "inside" /\ ref[u] = ref[v]
          BY <4>1, <3>2
        <5> QED
          BY <5>1 DEF OneInsidePerEntry
      <4>2. ASSUME NEW u \in Task, u # t, pc'[u] = "inside"
            PROVE  ref'[u] # ref'[t]
        BY <4>2, <3>2, <3>3
      <4> QED
        BY <4>1, <4>2 DEF OneInsidePerEntry
    <3> QED
      BY <3>4, <3>5
  <2>2. CASE pc' = [pc EXCEPT ![t] = "waiting"]
    <3>1. locked' = locked
      BY <2>2, <1>7
    <3>2. pc[t] = "outside"
      BY DEF Enter
    <3> QED
      BY <2>2, <3>1, <3>2, <1>1, <1>5 DEF LockedIffInside, OneInsidePerEntry
  <2> QED
    BY <2>1, <2>2, <1>7
<1>15. WaitersWait'
  <2>1. pc[t] = "outside"
    BY DEF Enter
  <2>2. CASE waiters' = waiters
    BY <2>1, <2>2, <1>5, <1>7, WaitersUndisturbed
  <2>3. CASE waiters' = [waiters EXCEPT ![e] = Append(@, t)] /\ pc' = [pc EXCEPT ![t] = "waiting"]
    <3>1. waiters[e] \in Seq(Task)
      BY <1>1
    <3>2. ASSUME NEW d \in Entry, NEW i \in DOMAIN waiters[d]
          PROVE  /\ waiters[d][i] \in Task \ {t}
                 /\ pc'[waiters[d][i]] = "waiting" /\ ref'[waiters[d][i]] = d
      <4>1. waiters[d][i] \in Task /\ pc[waiters[d][i]] = "waiting" /\ ref[waiters[d][i]] = d
        BY <3>2 DEF WaitersWait
      <4> QED
        BY <4>1, <2>1, <2>3, <1>5
    <3>3. ASSUME NEW d \in Entry, d # e
          PROVE  /\ \A i \in DOMAIN waiters'[d] :
                      pc'[waiters'[d][i]] = "waiting" /\ ref'[waiters'[d][i]] = d
                 /\ \A i, j \in DOMAIN waiters'[d] : waiters'[d][i] = waiters'[d][j] => i = j
      <4>1. waiters'[d] = waiters[d]
        BY <3>3, <2>3
      <4> QED
        BY <4>1, <3>2 DEF WaitersWait
    <3>4. /\ Len(waiters'[e]) = Len(waiters[e]) + 1
          /\ waiters'[e] \in Seq(Task)
          /\ \A i \in DOMAIN waiters[e] : waiters'[e][i] = waiters[e][i]
          /\ waiters'[e][Len(waiters[e]) + 1] = t
      BY <3>1, <2>3, <1>1
    <3>5. \A i \in DOMAIN waiters'[e] : i \in DOMAIN waiters[e] \/ i = Len(waiters[e]) + 1
      BY <3>1, <3>4
    <3>6. pc'[t] = "waiting" /\ ref'[t] = e
      BY <2>3, <1>1, <1>5
    <3>7. \A i \in DOMAIN waiters'[e] :
            pc'[waiters'[e][i]] = "waiting" /\ ref'[waiters'[e][i]] = e
      <4> SUFFICES ASSUME NEW i \in DOMAIN waiters'[e]
                   PROVE  pc'[waiters'[e][i]] = "waiting" /\ ref'[waiters'[e][i]] = e
        OBVIOUS
      <4>1. CASE i \in DOMAIN waiters[e]
        BY <4>1, <3>2, <3>4, <1>1
      <4>2. CASE i = Len(waiters[e]) + 1
        BY <4>2, <3>4, <3>6
      <4> QED
        BY <4>1, <4>2, <3>5
    <3>8. \A i, j \in DOMAIN waiters[e] : waiters[e][i] = waiters[e][j] => i = j
      BY <1>1 DEF WaitersWait
    <3>9. \A i, j \in DOMAIN waiters'[e] : waiters'[e][i] = waiters'[e][j] => i = j
      <4> SUFFICES ASSUME NEW i \in DOMAIN waiters'[e], NEW j \in DOMAIN waiters'[e],
                          waiters'[e][i] = waiters'[e][j]
                   PROVE  i = j
        OBVIOUS
      <4>1. \A n \in DOMAIN waiters[e] : waiters'[e][n] # t
        BY <3>2, <3>4, <1>1
      <4>2. CASE i \in DOMAIN waiters[e] /\ j \in DOMAIN waiters[e]
        BY <4>2, <3>4, <3>8
      <4>3. CASE i \notin DOMAIN waiters[e] \/ j \notin DOMAIN waiters[e]
        BY <4>1, <4>3, <3>4, <3>5
      <4> QED
        BY <4>2, <4>3
    <3> QED
      BY <3>3, <3>7, <3>9 DEF WaitersWait
  <2> QED
    BY <2>2, <2>3, <1>7
<1> QED
  BY <1>6, <1>9, <1>10, <1>11, <1>12, <1>13, <1>14, <1>15

LEMMA AcquireLockInv ==
  ASSUME LockInv, NEW t \in Task, Acquire(t)
  PROVE  LockInv'
<1> DEFINE e == ref[t]
<1> USE DEF LockInv, LockTypeOK
<1>1. /\ e \in Entry /\ pc[t] = "waiting" /\ ~locked[e]
      /\ locked' = [locked EXCEPT ![e] = TRUE]
      /\ pc' = [pc EXCEPT ![t] = "inside"]
      /\ UNCHANGED <<queues, created, users, ref, key>>
  BY DEF Acquire, InCallIffRef
<1>2. waiters' \in [Entry -> Seq(Task)]
  BY <1>1 DEF Acquire
<1>3. LockTypeOK'
  BY <1>1, <1>2
<1>4. InCallIffRef' /\ RefIsCurrent' /\ EntriesDistinct' /\ EntryIffUsed'
  BY <1>1 DEF InCallIffRef, RefIsCurrent, EntriesDistinct, EntryIffUsed
<1>5. UsersCounted'
  BY <1>1 DEF UsersCounted, Users
<1>6. LockedIffInside' /\ OneInsidePerEntry'
  BY <1>1 DEF LockedIffInside, OneInsidePerEntry
<1>7. WaitersWait'
  <2>1. /\ waiters[e] \in Seq(Task) /\ waiters[e] # << >>
        /\ t = waiters[e][1]
        /\ waiters' = [waiters EXCEPT ![e] = Tail(@)]
    BY <1>1 DEF Acquire
  <2>2. /\ waiters'[e] \in Seq(Task) /\ Len(waiters'[e]) = Len(waiters[e]) - 1
        /\ \A i \in DOMAIN waiters'[e] : i + 1 \in DOMAIN waiters[e] /\ waiters'[e][i] = waiters[e][i + 1]
    BY <2>1, <1>1
  <2>3. \A d \in Entry \ {e} : waiters'[d] = waiters[d]
    BY <2>1
  <2>4. \A i, j \in DOMAIN waiters'[e] : waiters'[e][i] = waiters'[e][j] => i = j
    <3>1. \A i, j \in DOMAIN waiters[e] : waiters[e][i] = waiters[e][j] => i = j
      BY <1>1 DEF WaitersWait
    <3>2. \A i \in DOMAIN waiters'[e] : i \in Nat
      BY <2>2
    <3> QED
      <4> SUFFICES ASSUME NEW i \in DOMAIN waiters'[e], NEW j \in DOMAIN waiters'[e],
                          waiters'[e][i] = waiters'[e][j]
                   PROVE  i = j
        OBVIOUS
      <4>1. i + 1 = j + 1
        BY <2>2, <3>1
      <4> QED
        BY <4>1, <3>2
  <2>5. \A i \in DOMAIN waiters'[e] : waiters'[e][i] \in Task \ {t}
    <3>1. \A i, j \in DOMAIN waiters[e] : waiters[e][i] = waiters[e][j] => i = j
      BY <1>1 DEF WaitersWait
    <3>2. 1 \in DOMAIN waiters[e] /\ \A i \in DOMAIN waiters'[e] : i + 1 # 1 /\ waiters[e][i + 1] \in Task
      BY <2>1, <2>2
    <3> QED
      BY <3>1, <3>2, <2>1, <2>2
  <2>6. \A i \in DOMAIN waiters'[e] : pc'[waiters'[e][i]] = "waiting" /\ ref'[waiters'[e][i]] = e
    BY <2>2, <2>5, <1>1 DEF WaitersWait
  <2>7. \A d \in Entry \ {e} : \A i \in DOMAIN waiters[d] :
          pc'[waiters[d][i]] = "waiting" /\ ref'[waiters[d][i]] = d
    <3>1. \A d \in Entry : \A i \in DOMAIN waiters[d] :
            waiters[d][i] \in Task /\ pc[waiters[d][i]] = "waiting" /\ ref[waiters[d][i]] = d
      BY DEF WaitersWait
    <3> QED
      BY <3>1, <1>1
  <2>8. \A d \in Entry \ {e} : \A i, j \in DOMAIN waiters[d] : waiters[d][i] = waiters[d][j] => i = j
    BY DEF WaitersWait
  <2> QED
    <3>1. ASSUME NEW d \in Entry, d # e
          PROVE  /\ \A i \in DOMAIN waiters'[d] :
                      pc'[waiters'[d][i]] = "waiting" /\ ref'[waiters'[d][i]] = d
                 /\ \A i, j \in DOMAIN waiters'[d] : waiters'[d][i] = waiters'[d][j] => i = j
      BY <3>1, <2>3, <2>7, <2>8
    <3> QED
      BY <3>1, <2>4, <2>6 DEF WaitersWait
<1> QED
  BY <1>3, <1>4, <1>5, <1>6, <1>7

(* A call ends, from inside or while it waits: the finally block. *)
LEMMA EndLockInv ==
  ASSUME LockInv, NEW t \in Task, pc[t] # "outside",
         users' = [users EXCEPT ![ref[t]] = @ - 1],
         pc' = [pc EXCEPT ![t] = "outside"],
         ref' = [ref EXCEPT ![t] = NoEntry],
         key' = [key EXCEPT ![t] = NoKey],
         queues' = Forget(t),
         created' = created,
         waiters' \in [Entry -> Seq(Task)], WaitersWait',
         locked' = IF pc[t] = "inside" THEN [locked EXCEPT ![ref[t]] = FALSE] ELSE locked
  PROVE  LockInv'
<1> DEFINE e == ref[t]
           k == key[t]
<1> USE DEF LockInv, LockTypeOK
<1>1. /\ e \in Entry /\ k \in Key /\ k # NoKey
      /\ queues[k] = e
      /\ e # NoEntry
  BY KeyedLockAssumption DEF InCallIffRef, RefIsCurrent
<1>2. /\ UsersCounted' /\ users' \in [Entry -> Nat]
      /\ users'[e] = 0 <=> Users(e) = {t}
  BY QuitCounts
<1>3. LockedIffInside' /\ OneInsidePerEntry'
  <2>1. CASE pc[t] = "inside"
    BY <2>1, <1>1 DEF LockedIffInside, OneInsidePerEntry
  <2>2. CASE pc[t] # "inside"
    BY <2>2, <1>1 DEF LockedIffInside, OneInsidePerEntry
  <2> QED
    BY <2>1, <2>2
<1>4. users'[e] = 0 => ~locked'[e]
  BY <1>1, <1>2, <1>3 DEF LockedIffInside, Users
<1>5. queues' = [queues EXCEPT ![k] = IF Users(e) = {t} THEN NoEntry ELSE e]
  BY <1>1, <1>2, <1>4 DEF Forget
<1>6. LockTypeOK'
  BY <1>1, <1>2, <1>5
<1>7. InCallIffRef'
  BY <1>1 DEF InCallIffRef
<1>8. \A u \in Task \ {t} : pc[u] # "outside" /\ key[u] = k <=> u \in Users(e)
  BY <1>1 DEF Users, InCallIffRef, RefIsCurrent, EntriesDistinct
<1>9. RefIsCurrent'
  BY <1>1, <1>5, <1>8 DEF RefIsCurrent
<1>10. EntriesDistinct'
  BY <1>1, <1>5 DEF EntriesDistinct, NoEntry
<1>11. EntryIffUsed'
  <2>1. t \in Users(e)
    BY DEF Users
  <2>2. queues'[k] # NoEntry <=> \E u \in Task \ {t} : u \in Users(e)
    BY <2>1, <1>1, <1>5 DEF Users
  <2>3. queues'[k] # NoEntry <=> \E u \in Task : pc'[u] # "outside" /\ key'[u] = k
    BY <2>2, <1>1, <1>8
  <2>4. \A j \in Key \ {k} :
          queues'[j] # NoEntry <=> \E u \in Task : pc'[u] # "outside" /\ key'[u] = j
    BY <1>1, <1>5 DEF EntryIffUsed
  <2> QED
    BY <2>3, <2>4 DEF EntryIffUsed
<1> QED
  BY <1>2, <1>3, <1>6, <1>7, <1>9, <1>10, <1>11

LEMMA LeaveLockInv ==
  ASSUME LockInv, NEW t \in Task, Leave(t)
  PROVE  LockInv'
<1>1. waiters' \in [Entry -> Seq(Task)]
  BY DEF Leave, LockInv, LockTypeOK
<1>2. pc[t] # "waiting" /\ \A u \in Task \ {t} : pc'[u] = pc[u] /\ ref'[u] = ref[u]
  BY DEF Leave, LockInv, LockTypeOK
<1>3. WaitersWait'
  BY <1>2, WaitersUndisturbed DEF Leave
<1> QED
  BY <1>1, <1>3, EndLockInv DEF Leave

LEMMA CancelWaitLockInv ==
  ASSUME LockInv, NEW t \in Task, CancelWait(t)
  PROVE  LockInv'
<1> DEFINE e == ref[t]
<1>1. e \in Entry /\ waiters[e] \in Seq(Task)
  BY DEF CancelWait, LockInv, LockTypeOK, InCallIffRef
<1>2. PICK i \in DOMAIN waiters[e] :
        waiters[e][i] = t /\ waiters' = [waiters EXCEPT ![e] = RemoveAt(@, i)]
  BY DEF CancelWait
<1> DEFINE w == RemoveAt(waiters[e], i)
<1>3. /\ w \in Seq(Task)
      /\ Len(w) = Len(waiters[e]) - 1
      /\ \A j \in DOMAIN w : w[j] = waiters[e][IF j < i THEN j ELSE j + 1]
  BY <1>1, RemoveAtProperties
<1> HIDE DEF w
<1>4. waiters'[e] = w /\ \A d \in Entry \ {e} : waiters'[d] = waiters[d]
  BY <1>1, <1>2 DEF w, LockInv, LockTypeOK
<1>5. waiters' \in [Entry -> Seq(Task)]
  BY <1>1, <1>2, <1>3 DEF w, LockInv, LockTypeOK
<1>6. \A u \in Task \ {t} : pc'[u] = pc[u] /\ ref'[u] = ref[u]
  BY DEF CancelWait, LockInv, LockTypeOK
<1>7. \A d \in Entry :
        /\ \A j \in DOMAIN waiters[d] : /\ waiters[d][j] \in Task
                                        /\ pc[waiters[d][j]] = "waiting" /\ ref[waiters[d][j]] = d
        /\ \A j, k \in DOMAIN waiters[d] : waiters[d][j] = waiters[d][k] => j = k
  BY DEF LockInv, LockTypeOK, WaitersWait
<1>8. \A j \in DOMAIN w : \E k \in DOMAIN waiters[e] :
        k = (IF j < i THEN j ELSE j + 1) /\ k # i /\ w[j] = waiters[e][k]
  BY <1>1, <1>3
<1>9. \A j \in DOMAIN w : w[j] \in Task \ {t} /\ pc[w[j]] = "waiting" /\ ref[w[j]] = e
  BY <1>1, <1>2, <1>7, <1>8
<1>10. \A j, k \in DOMAIN w : w[j] = w[k] => j = k
  <2> SUFFICES ASSUME NEW j \in DOMAIN w, NEW k \in DOMAIN w, w[j] = w[k] PROVE j = k
    OBVIOUS
  <2>1. (IF j < i THEN j ELSE j + 1) = (IF k < i THEN k ELSE k + 1)
    BY <1>1, <1>7, <1>8
  <2>2. j \in Nat /\ k \in Nat /\ i \in Nat
    BY <1>1, <1>3
  <2> QED
    BY <2>1, <2>2
<1>11. \A d \in Entry \ {e} : \A j \in DOMAIN waiters[d] : waiters[d][j] # t
  BY <1>7
<1>12. WaitersWait'
  <2>1. ASSUME NEW d \in Entry \ {e}
        PROVE  /\ \A j \in DOMAIN waiters'[d] : pc'[waiters'[d][j]] = "waiting" /\ ref'[waiters'[d][j]] = d
               /\ \A j, k \in DOMAIN waiters'[d] : waiters'[d][j] = waiters'[d][k] => j = k
    BY <2>1, <1>4, <1>6, <1>7, <1>11
  <2>2. /\ \A j \in DOMAIN waiters'[e] : pc'[waiters'[e][j]] = "waiting" /\ ref'[waiters'[e][j]] = e
        /\ \A j, k \in DOMAIN waiters'[e] : waiters'[e][j] = waiters'[e][k] => j = k
    BY <1>4, <1>6, <1>9, <1>10
  <2> QED
    BY <2>1, <2>2 DEF WaitersWait
<1> QED
  BY <1>5, <1>12, EndLockInv DEF CancelWait

(* Every step of a task keeps the invariant. *)
LEMMA NextLockInv == LockInv /\ [LockNext]_lockVars => LockInv'
<1> SUFFICES ASSUME LockInv, [LockNext]_lockVars PROVE LockInv'
  OBVIOUS
<1>1. ASSUME NEW t \in Task, NEW k \in Key, Enter(t, k) PROVE LockInv'
  BY <1>1, EnterLockInv
<1>2. ASSUME NEW t \in Task, Acquire(t) PROVE LockInv'
  BY <1>2, AcquireLockInv
<1>3. ASSUME NEW t \in Task, Leave(t) PROVE LockInv'
  BY <1>3, LeaveLockInv
<1>4. ASSUME NEW t \in Task, CancelWait(t) PROVE LockInv'
  BY <1>4, CancelWaitLockInv
<1>5. CASE UNCHANGED lockVars
  BY <1>5 DEF lockVars, LockInv, LockTypeOK, InCallIffRef, RefIsCurrent, EntriesDistinct,
     EntryIffUsed, UsersCounted, Users, LockedIffInside, OneInsidePerEntry, WaitersWait
<1> QED
  BY <1>1, <1>2, <1>3, <1>4, <1>5 DEF LockNext

(* The inductive invariant holds always. *)
THEOREM LockInvariant == LockSpec => []LockInv
BY InitLockInv, NextLockInv, PTL DEF LockSpec

(* Two edits of one file, or two sends of one delivery, never overlap. *)
THEOREM MutualExclusion == LockSpec => []OneInsidePerKey
<1>1. LockInv => OneInsidePerKey
  BY DEF LockInv, OneInsidePerKey, OneInsidePerEntry, RefIsCurrent
<1> QED
  BY <1>1, LockInvariant, PTL

(* The map holds an entry for exactly the keys in use. *)
THEOREM MapIsExact == LockSpec => []EntryIffUsed
<1>1. LockInv => EntryIffUsed
  BY DEF LockInv
<1> QED
  BY <1>1, LockInvariant, PTL

-----------------------------------------------------------------------------
(* The refinement of FifoLock.  What the users of a key see of its lock, in *)
(* terms of the tasks and of the entry. *)
LockSeen ==
  /\ \A k \in Key, t \in Task : Holder(k) = t <=> pc[t] = "inside" /\ key[t] = k
  /\ \A k \in Key : Holder(k) \in Task \cup {NoTask}
  /\ \A k \in Key : Holder(k) # NoTask <=> queues[k] # NoEntry /\ locked[queues[k]]
  /\ \A k \in Key : Line(k) = IF queues[k] = NoEntry THEN << >> ELSE waiters[queues[k]]

LEMMA LockInvSeen == LockInv => LockSeen
<1> SUFFICES ASSUME LockInv PROVE LockSeen
  OBVIOUS
<1> USE DEF LockInv, LockTypeOK
<1>1. ASSUME NEW t \in Task, NEW u \in Task, pc[t] = "inside", pc[u] = "inside", key[t] = key[u]
      PROVE  t = u
  BY <1>1 DEF OneInsidePerEntry, RefIsCurrent
<1>2. ASSUME NEW k \in Key, NEW t \in Task PROVE Holder(k) = t <=> pc[t] = "inside" /\ key[t] = k
  BY <1>1, <1>2, KeyedLockAssumption DEF Holder
<1>3. ASSUME NEW k \in Key PROVE Holder(k) \in Task \cup {NoTask}
  BY <1>3 DEF Holder
<1>4. ASSUME NEW k \in Key PROVE Holder(k) # NoTask <=> queues[k] # NoEntry /\ locked[queues[k]]
  <2>1. ASSUME NEW t \in Task, pc[t] = "inside", key[t] = k
        PROVE  queues[k] # NoEntry /\ locked[queues[k]]
    <3>1. queues[k] = ref[t] /\ ref[t] \in Entry /\ ref[t] # NoEntry
      BY <2>1 DEF RefIsCurrent, InCallIffRef
    <3> QED
      BY <3>1, <2>1 DEF LockedIffInside
  <2>2. ASSUME queues[k] # NoEntry, locked[queues[k]]
        PROVE  \E t \in Task : pc[t] = "inside" /\ key[t] = k
    <3>1. queues[k] \in Entry
      BY <2>2, <1>4
    <3>2. PICK t \in Task : pc[t] = "inside" /\ ref[t] = queues[k]
      BY <3>1, <2>2 DEF LockedIffInside
    <3>3. key[t] \in Key /\ queues[key[t]] = queues[k]
      BY <3>2 DEF RefIsCurrent, InCallIffRef
    <3> QED
      BY <3>2, <3>3, <2>2, <1>4 DEF EntriesDistinct
  <2> QED
    BY <2>1, <2>2, <1>2, <1>3, KeyedLockAssumption, <1>4
<1> QED
  BY <1>2, <1>3, <1>4 DEF LockSeen, Line

(* Only who comes in or goes out changes the holder of a key. *)
LEMMA SameHolder ==
  ASSUME LockSeen, LockSeen', NEW k \in Key,
         \A t \in Task : pc'[t] = "inside" /\ key'[t] = k <=> pc[t] = "inside" /\ key[t] = k
  PROVE  Holder(k)' = Holder(k)
<1>1. Holder(k)' \in Task \cup {NoTask} /\ Holder(k) \in Task \cup {NoTask}
  BY DEF LockSeen
<1>2. \A t \in Task : Holder(k)' = t <=> Holder(k) = t
  BY DEF LockSeen
<1> QED
  BY <1>1, <1>2

(* A step at one key is a step of its lock if it changes no other one. *)
LEMMA OneKeyStep ==
  ASSUME NEW k \in Key, \A j \in Key \ {k} : Holder(j)' = Holder(j) /\ Line(j)' = Line(j)
  PROVE  /\ [j \in Key |-> Holder(j)]' = [[j \in Key |-> Holder(j)] EXCEPT ![k] = Holder(k)']
         /\ [j \in Key |-> Line(j)]' = [[j \in Key |-> Line(j)] EXCEPT ![k] = Line(k)']
         /\ Holder(k)' = Holder(k) =>
              [j \in Key |-> Holder(j)]' = [j \in Key |-> Holder(j)]
         /\ Line(k)' = Line(k) => [j \in Key |-> Line(j)]' = [j \in Key |-> Line(j)]
  OBVIOUS

(* A newcomer takes the lock of its key, or queues for it. *)
LEMMA EnterRequests ==
  ASSUME LockInv, LockInv', LockSeen, LockSeen', NEW t \in Task, NEW k \in Key, Enter(t, k)
  PROVE  Fifo!Request(t, k)
<1> DEFINE e == Lookup(k)
<1>1. /\ e \in Entry /\ e # NoEntry /\ pc[t] = "outside"
      /\ ref' = [ref EXCEPT ![t] = e]
      /\ key' = [key EXCEPT ![t] = k]
      /\ queues' = [queues EXCEPT ![k] = e]
  BY DEF Enter, Entry, NoEntry
<1>2. queues[k] = NoEntry => waiters[e] = << >> /\ ~locked[e]
  <2> SUFFICES ASSUME queues[k] = NoEntry PROVE waiters[e] = << >> /\ ~locked[e]
    OBVIOUS
  <2>1. e = created + 1 /\ created \in Nat
    BY DEF Lookup, LockInv, LockTypeOK
  <2>2. \A u \in Task : ref[u] # e
    <3> SUFFICES ASSUME NEW u \in Task, ref[u] = e PROVE FALSE
      OBVIOUS
    <3>1. key[u] \in Key /\ queues[key[u]] = e
      BY <1>1 DEF LockInv, LockTypeOK, InCallIffRef, RefIsCurrent
    <3> QED
      BY <3>1, <2>1 DEF LockInv, EntriesDistinct
  <2> QED
    BY <2>2, <1>1, UnusedEntryIsFree
<1>3. \A j \in Key \ {k} : Holder(j)' = Holder(j) /\ Line(j)' = Line(j)
  <2> SUFFICES ASSUME NEW j \in Key \ {k} PROVE Holder(j)' = Holder(j) /\ Line(j)' = Line(j)
    OBVIOUS
  <2>1. \A u \in Task : pc'[u] = "inside" /\ key'[u] = j <=> pc[u] = "inside" /\ key[u] = j
    BY <1>1 DEF Enter, LockInv, LockTypeOK
  <2>2. queues'[j] = queues[j]
    BY <1>1 DEF LockInv, LockTypeOK
  <2>3. queues'[k] = e
    BY <1>1 DEF LockInv, LockTypeOK
  <2>4. queues[j] # e
    BY <2>2, <2>3, <1>1 DEF LockInv, EntriesDistinct
  <2>5. queues[j] # NoEntry => waiters'[queues[j]] = waiters[queues[j]]
    BY <2>4 DEF Enter, LockInv, LockTypeOK
  <2>6. Line(j)' = Line(j)
    BY <2>2, <2>5 DEF LockSeen
  <2> QED
    BY <2>1, <2>6, SameHolder
<1>4. Line(k)' = waiters'[e] /\ waiters[e] \in Seq(Task)
  BY <1>1 DEF LockSeen, LockInv, LockTypeOK
<1>5. Line(k) = waiters[e] /\ (Holder(k) # NoTask <=> locked[e])
  <2>1. CASE queues[k] = NoEntry
    BY <2>1, <1>2 DEF LockSeen
  <2>2. CASE queues[k] # NoEntry
    BY <2>2 DEF Lookup, LockSeen
  <2> QED
    BY <2>1, <2>2
<1>6. CASE FreeNow(e)
  <2>1. waiters' = waiters /\ pc' = [pc EXCEPT ![t] = "inside"]
    BY <1>6 DEF Enter
  <2>2. Holder(k)' = t
    <3>1. pc'[t] = "inside" /\ key'[t] = k
      BY <2>1, <1>1 DEF LockInv, LockTypeOK
    <3> QED
      BY <3>1 DEF LockSeen
  <2>3. Holder(k) = NoTask /\ Line(k) = << >> /\ Line(k)' = Line(k)
    BY <2>1, <1>4, <1>5, <1>6 DEF FreeNow
  <2> QED
    BY <2>2, <2>3, <1>3, OneKeyStep DEF Fifo!Request
<1>7. CASE ~FreeNow(e)
  <2>1. waiters' = [waiters EXCEPT ![e] = Append(@, t)] /\ pc' = [pc EXCEPT ![t] = "waiting"]
    BY <1>7 DEF Enter
  <2>2. Line(k)' = Append(Line(k), t)
    BY <2>1, <1>1, <1>4, <1>5 DEF LockInv, LockTypeOK
  <2>3. Holder(k)' = Holder(k)
    <3>1. \A u \in Task : pc'[u] = "inside" /\ key'[u] = k <=> pc[u] = "inside" /\ key[u] = k
      BY <2>1, <1>1 DEF LockInv, LockTypeOK
    <3> QED
      BY <3>1, SameHolder
  <2>4. Holder(k) # NoTask \/ Line(k) # << >>
    BY <1>5, <1>7 DEF FreeNow
  <2> QED
    BY <2>2, <2>3, <2>4, <1>3, OneKeyStep DEF Fifo!Request
<1> QED
  BY <1>6, <1>7

(* The waiter that is woken is the first in the line of its key. *)
LEMMA AcquireGrants ==
  ASSUME LockInv, LockInv', LockSeen, LockSeen', NEW t \in Task, Acquire(t)
  PROVE  \E k \in Key : Fifo!Grant(k)
<1> DEFINE e == ref[t]
           k == key[t]
<1>1. /\ k \in Key /\ e \in Entry /\ e # NoEntry /\ queues[k] = e
      /\ pc[t] = "waiting" /\ ~locked[e]
      /\ waiters[e] # << >> /\ t = Head(waiters[e])
      /\ pc' = [pc EXCEPT ![t] = "inside"]
      /\ waiters' = [waiters EXCEPT ![e] = Tail(@)]
      /\ queues' = queues /\ key' = key
  BY DEF Acquire, LockInv, LockTypeOK, InCallIffRef, RefIsCurrent
<1>2. \A j \in Key \ {k} : Holder(j)' = Holder(j) /\ Line(j)' = Line(j)
  <2> SUFFICES ASSUME NEW j \in Key \ {k} PROVE Holder(j)' = Holder(j) /\ Line(j)' = Line(j)
    OBVIOUS
  <2>1. \A u \in Task : pc'[u] = "inside" /\ key'[u] = j <=> pc[u] = "inside" /\ key[u] = j
    BY <1>1 DEF LockInv, LockTypeOK
  <2>2. queues[j] # NoEntry => queues[j] # e /\ queues[j] \in Entry
    BY <1>1 DEF LockInv, LockTypeOK, EntriesDistinct
  <2>3. Line(j)' = Line(j)
    BY <2>2, <1>1 DEF LockSeen, LockInv, LockTypeOK
  <2> QED
    BY <2>1, <2>3, SameHolder
<1>3. Holder(k) = NoTask /\ Line(k) = waiters[e]
  BY <1>1 DEF LockSeen
<1>4. Holder(k)' = t
  BY <1>1 DEF LockSeen, LockInv, LockTypeOK
<1>5. Line(k)' = Tail(waiters[e])
  BY <1>1 DEF LockSeen, LockInv, LockTypeOK
<1>6. Fifo!Grant(k)
  BY <1>1, <1>2, <1>3, <1>4, <1>5, OneKeyStep DEF Fifo!Grant
<1> QED
  BY <1>1, <1>6

(* The entry a call leaves is the one of its key; if it is dropped, nobody *)
(* queues for it. *)
LEMMA EndKeepsLine ==
  ASSUME LockInv, LockInv', LockSeen, LockSeen', NEW t \in Task, pc[t] # "outside",
         NEW k \in Key, key[t] = k, NEW e \in Entry, ref[t] = e,
         ref' = [ref EXCEPT ![t] = NoEntry], key' = [key EXCEPT ![t] = NoKey],
         pc' = [pc EXCEPT ![t] = "outside"],
         queues' = Forget(t), NEW w \in Seq(Task), waiters' = [waiters EXCEPT ![e] = w]
  PROVE  /\ Line(k)' = w
         /\ \A j \in Key \ {k} : Holder(j)' = Holder(j) /\ Line(j)' = Line(j)
<1>1. k # NoKey /\ e # NoEntry /\ queues[k] = e
  BY DEF LockInv, LockTypeOK, InCallIffRef, RefIsCurrent
<1>2. waiters'[e] = w
  BY <1>1 DEF LockInv, LockTypeOK
<1>3. queues'[k] \in {e, NoEntry} /\ \A j \in Key \ {k} : queues'[j] = queues[j]
  BY <1>1 DEF Forget, LockInv, LockTypeOK
<1>4. queues'[k] = NoEntry => w = << >>
  <2> SUFFICES ASSUME queues'[k] = NoEntry, w # << >> PROVE FALSE
    OBVIOUS
  <2>1. 1 \in DOMAIN w /\ w[1] \in Task
    OBVIOUS
  <2>2. pc'[w[1]] = "waiting" /\ ref'[w[1]] = e
    BY <2>1, <1>1, <1>2 DEF LockInv, WaitersWait
  <2>3. w[1] # t
    BY <2>2 DEF LockInv, LockTypeOK
  <2>4. pc[w[1]] # "outside" /\ ref[w[1]] = e
    BY <2>1, <2>2, <2>3 DEF LockInv, LockTypeOK
  <2>5. key[w[1]] \in Key /\ queues[key[w[1]]] = e
    BY <2>1, <2>4 DEF LockInv, LockTypeOK, InCallIffRef, RefIsCurrent
  <2>6. key[w[1]] = k
    BY <2>5, <1>1 DEF LockInv, EntriesDistinct
  <2>7. key'[w[1]] = k /\ pc'[w[1]] # "outside"
    BY <2>1, <2>2, <2>3, <2>6 DEF LockInv, LockTypeOK
  <2> QED
    BY <2>1, <2>7, <1>1 DEF LockInv, EntryIffUsed
<1>5. Line(k)' = w
  BY <1>1, <1>2, <1>3, <1>4 DEF LockSeen
<1>6. ASSUME NEW j \in Key \ {k} PROVE Holder(j)' = Holder(j) /\ Line(j)' = Line(j)
  <2>1. \A u \in Task : pc'[u] = "inside" /\ key'[u] = j <=> pc[u] = "inside" /\ key[u] = j
    BY KeyedLockAssumption DEF LockInv, LockTypeOK
  <2>2. queues[j] # NoEntry => queues[j] # e /\ queues[j] \in Entry
    BY <1>1 DEF LockInv, LockTypeOK, EntriesDistinct
  <2>3. Line(j)' = Line(j)
    BY <2>2, <1>3 DEF LockSeen, LockInv, LockTypeOK
  <2> QED
    BY <2>1, <2>3, SameHolder
<1> QED
  BY <1>5, <1>6

(* Who leaves releases the lock of its key. *)
LEMMA LeaveReleases ==
  ASSUME LockInv, LockInv', LockSeen, LockSeen', NEW t \in Task, Leave(t)
  PROVE  \E k \in Key : Fifo!Release(k)
<1>1. ref[t] \in Entry /\ ref[t] # NoEntry /\ key[t] \in Key /\ queues[key[t]] = ref[t]
  BY DEF Leave, LockInv, LockTypeOK, InCallIffRef, RefIsCurrent
<1>k. PICK k \in Key : k = key[t]
  BY <1>1
<1>w. PICK w \in Seq(Task) : w = waiters[ref[t]]
  BY <1>1 DEF LockInv, LockTypeOK
<1>2. PICK e \in Entry : e = ref[t] /\ waiters' = [waiters EXCEPT ![e] = w]
  BY <1>1, <1>w DEF Leave, LockInv, LockTypeOK
<1>3. Line(k)' = w /\ \A j \in Key \ {k} : Holder(j)' = Holder(j) /\ Line(j)' = Line(j)
  BY <1>k, <1>2, EndKeepsLine DEF Leave
<1>4. Line(k) = w
  BY <1>1, <1>k, <1>w DEF LockSeen
<1>5. Holder(k) = t
  BY <1>1, <1>k DEF Leave, LockSeen
<1>6. Holder(k)' = NoTask
  <2> SUFFICES ASSUME NEW u \in Task, pc'[u] = "inside", key'[u] = k PROVE FALSE
    BY <1>1 DEF LockSeen
  <2>1. u # t /\ pc[u] = "inside" /\ key[u] = k
    BY DEF Leave, LockInv, LockTypeOK
  <2> QED
    BY <2>1, <1>1, <1>5 DEF LockSeen
<1>7. Holder(k) # NoTask
  BY <1>5, KeyedLockAssumption
<1>8. Fifo!Release(k)
  BY <1>3, <1>4, <1>6, <1>7, OneKeyStep DEF Fifo!Release
<1> QED
  BY <1>8

(* A cancelled waiter leaves the line of its key. *)
LEMMA CancelWaitGivesUp ==
  ASSUME LockInv, LockInv', LockSeen, LockSeen', NEW t \in Task, CancelWait(t)
  PROVE  \E k \in Key : Fifo!GiveUp(k)
<1>1. /\ ref[t] \in Entry /\ ref[t] # NoEntry /\ key[t] \in Key /\ queues[key[t]] = ref[t]
      /\ waiters[ref[t]] \in Seq(Task)
  BY DEF CancelWait, LockInv, LockTypeOK, InCallIffRef, RefIsCurrent
<1>k. PICK k \in Key : k = key[t]
  BY <1>1
<1>e. PICK e \in Entry : e = ref[t]
  BY <1>1
<1>2. PICK i \in DOMAIN waiters[e] : waiters' = [waiters EXCEPT ![e] = RemoveAt(@, i)]
  BY <1>e DEF CancelWait
<1>3. RemoveAt(waiters[e], i) \in Seq(Task)
  BY <1>1, <1>e, RemoveAtProperties
<1>4. PICK w \in Seq(Task) : w = RemoveAt(waiters[e], i)
  BY <1>3
<1>5. Line(k)' = w /\ \A j \in Key \ {k} : Holder(j)' = Holder(j) /\ Line(j)' = Line(j)
  <2>1. waiters' = [waiters EXCEPT ![e] = w]
    BY <1>1, <1>2, <1>4, <1>e
  <2> QED
    BY <2>1, <1>k, <1>e, EndKeepsLine DEF CancelWait
<1>6. Line(k) = waiters[e]
  BY <1>1, <1>k, <1>e DEF LockSeen
<1>7. Holder(k)' = Holder(k)
  <2>1. \A u \in Task : pc'[u] = "inside" /\ key'[u] = k <=> pc[u] = "inside" /\ key[u] = k
    BY KeyedLockAssumption DEF CancelWait, LockInv, LockTypeOK
  <2> QED
    BY <2>1, SameHolder
<1>8. [j \in Key |-> Line(j)]' = [[j \in Key |-> Line(j)] EXCEPT ![k] = w]
  BY <1>5, OneKeyStep
<1>9. [j \in Key |-> Holder(j)]' = [j \in Key |-> Holder(j)]
  BY <1>5, <1>7, OneKeyStep
<1>10. Fifo!RemoveAt(waiters[e], i) = w
  BY <1>4 DEF RemoveAt, Fifo!RemoveAt
<1>11. Fifo!GiveUp(k)
  BY <1>2, <1>6, <1>8, <1>9, <1>10 DEF Fifo!GiveUp
<1> QED
  BY <1>11

LEMMA InitFifo == LockInit => Fifo!Init
  BY DEF LockInit, Fifo!Init, Holder, Line

(* Every step of the locks is a step of one fair lock per key, or none. *)
LEMMA NextFifo ==
  ASSUME LockInv, LockInv', LockSeen, LockSeen', [LockNext]_lockVars
  PROVE  [Fifo!Next]_<<[k \in Key |-> Holder(k)], [k \in Key |-> Line(k)]>>
<1>1. ASSUME NEW t \in Task, NEW k \in Key, Enter(t, k) PROVE Fifo!Next
  BY <1>1, EnterRequests DEF Fifo!Next
<1>2. ASSUME NEW t \in Task, Acquire(t) PROVE Fifo!Next
  BY <1>2, AcquireGrants DEF Fifo!Next
<1>3. ASSUME NEW t \in Task, Leave(t) PROVE Fifo!Next
  BY <1>3, LeaveReleases DEF Fifo!Next
<1>4. ASSUME NEW t \in Task, CancelWait(t) PROVE Fifo!Next
  BY <1>4, CancelWaitGivesUp DEF Fifo!Next
<1>5. CASE UNCHANGED lockVars
  <2>1. \A k \in Key : Holder(k)' = Holder(k) /\ Line(k)' = Line(k)
    BY <1>5 DEF lockVars, Holder, Line
  <2> QED
    BY <2>1
<1> QED
  BY <1>1, <1>2, <1>3, <1>4, <1>5 DEF LockNext

(* Locks made on demand and dropped by their last user are, for who uses   *)
(* them, one fair lock per key that is always there. *)
THEOREM LocksAreFifo == LockSpec => RefinesFifoLock
<1>1. LockInv /\ LockInv' /\ LockSeen /\ LockSeen' /\ [LockNext]_lockVars
        => [Fifo!Next]_<<[k \in Key |-> Holder(k)], [k \in Key |-> Line(k)]>>
  BY NextFifo
<1> QED
  BY <1>1, InitFifo, LockInvariant, LockInvSeen, PTL DEF LockSpec, RefinesFifoLock, Fifo!Spec

-----------------------------------------------------------------------------
(* A step of the outbox is a step of the locks, none, or a restart. *)
LEMMA OutboxLockStep == [Next]_vars => [LockNext]_lockVars \/ Crash
<1> SUFFICES ASSUME [Next]_vars PROVE [LockNext]_lockVars \/ Crash
  OBVIOUS
<1>1. ASSUME NEW t \in Task, EndCall(t) PROVE LockNext
  BY <1>1 DEF EndCall, LockNext
<1>2. ASSUME NEW t \in Task, Progress(t) PROVE [LockNext]_lockVars
  BY <1>1, <1>2 DEF Progress, GetLock, ReturnPrevious, Start, Accept, Confirm, SendFails, Retry, LockNext
<1>3. ASSUME NEW t \in Task, NEW k \in Key, Deliver(t, k) PROVE LockNext
  BY <1>3 DEF Deliver, LockNext
<1>4. ASSUME NEW t \in Task, Abandon(t) \/ CancelQueued(t) PROVE LockNext
  BY <1>1, <1>4 DEF Abandon, CancelQueued, LockNext
<1>5. CASE UNCHANGED vars
  BY <1>5 DEF vars, lockVars
<1> QED
  BY <1>2, <1>3, <1>4, <1>5 DEF Next

LEMMA CrashLockInv == LockInv /\ Crash => LockInv'
<1> SUFFICES ASSUME LockInv, Crash PROVE LockInv'
  OBVIOUS
<1> USE DEF Crash
<1>1. \A e \in Entry : Users(e)' = {}
  BY DEF Users, Entry, NoEntry
<1>2. UsersCounted'
  BY <1>1, FS_EmptySet DEF UsersCounted
<1>3. LockTypeOK'
  <2>1. locked' \in [Entry -> BOOLEAN]
    BY Zenon
  <2>2. waiters' \in [Entry -> Seq(Task)]
    BY KeyedLockAssumption
  <2> QED
    BY <2>1, <2>2 DEF LockInv, LockTypeOK
<1>4. InCallIffRef' /\ RefIsCurrent' /\ EntryIffUsed' /\ LockedIffInside' /\ OneInsidePerEntry'
  BY KeyedLockAssumption
     DEF InCallIffRef, RefIsCurrent, EntryIffUsed, LockedIffInside, OneInsidePerEntry, NoEntry
<1>5. EntriesDistinct'
  BY DEF EntriesDistinct, NoEntry, LockInv, LockTypeOK
<1>6. WaitersWait'
  BY DEF WaitersWait
<1> QED
  BY <1>2, <1>3, <1>4, <1>5, <1>6 DEF LockInv

LEMMA OutboxLockInv == LockInv /\ [Next]_vars => LockInv'
  BY OutboxLockStep, CrashLockInv, NextLockInv

(* What LockInv says of a task inside its lock. *)
LEMMA InsideAlone ==
  ASSUME LockInv, NEW t \in Task, pc[t] = "inside"
  PROVE  /\ key[t] \in Key
         /\ \A u \in Task : pc[u] = "inside" /\ key[u] = key[t] => u = t
  BY DEF LockInv, LockTypeOK, InCallIffRef, RefIsCurrent, OneInsidePerEntry

LEMMA InitOutboxInv == Init => OutboxInv
<1> SUFFICES ASSUME Init PROVE OutboxInv
  OBVIOUS
<1>1. LockInv
  BY InitLockInv DEF Init
<1>2. OutboxTypeOK
  BY <1>1, OutboxAssumption DEF Init, OutboxTypeOK, LockInv, Status, Stage
<1>3. SendsInside /\ SendsUndelivered /\ AttemptsLeft
  BY DEF Init, SendsInside, SendsUndelivered, AttemptsLeft
<1>4. DuplicateOnlyWhenDoubtful
  BY DEF Init, DuplicateOnlyWhenDoubtful
<1> QED
  BY <1>1, <1>2, <1>3, <1>4 DEF OutboxInv

(* A step that begins, ends or moves no send: tasks come and go around it. *)
LEMMA LockStep ==
  ASSUME OutboxInv, UNCHANGED sendVars, LockInv', calls' \in 0 .. MaxCalls, UNCHANGED crashes,
         \A u \in Task : stage[u] # "enter" => pc'[u] = pc[u] /\ key'[u] = key[u]
  PROVE  OutboxInv'
<1> USE DEF sendVars, OutboxInv
<1>1. OutboxTypeOK'
  BY DEF OutboxTypeOK, LockInv
<1>2. SendsInside' /\ SendsUndelivered' /\ AttemptsLeft'
  BY DEF SendsInside, SendsUndelivered, AttemptsLeft
<1>3. \A k \in Key : Credited(k)' <=> Credited(k)
  <2>1. \A u \in Task, k \in Key :
          (At(u, "accepted") /\ key[u] = k)' <=> (At(u, "accepted") /\ key[u] = k)
    BY DEF At, SendsInside
  <2> QED
    BY <2>1 DEF Credited
<1>4. DuplicateOnlyWhenDoubtful'
  BY <1>3 DEF DuplicateOnlyWhenDoubtful
<1> QED
  BY <1>1, <1>2, <1>4

(* A step of a task inside its lock, which it may leave: what is left to   *)
(* show is about this task and its key.                                    *)
LEMMA SendStep ==
  ASSUME OutboxInv, LockInv', OutboxTypeOK', NEW t \in Task, pc[t] = "inside",
         \A u \in Task \ {t} : pc'[u] = pc[u] /\ key'[u] = key[u] /\ stage'[u] = stage[u]
                                 /\ attempt'[u] = attempt[u],
         \A k \in Key \ {key[t]} : /\ outbox'[k] = outbox[k] /\ accepted'[k] = accepted[k]
                                   /\ doubtful'[k] = doubtful[k],
         stage'[t] = "enter" \/ (pc'[t] = "inside" /\ key'[t] = key[t]),
         stage'[t] # "enter" => outbox'[key[t]] # "delivered",
         stage'[t] = "backoff" => attempt'[t] < MaxAttempts,
         accepted'[key[t]] <= doubtful'[key[t]]
           + (IF outbox'[key[t]] = "delivered" \/ stage'[t] = "accepted" THEN 1 ELSE 0)
  PROVE  OutboxInv'
<1> USE DEF OutboxInv
<1>1. /\ key[t] \in Key
      /\ \A u \in Task : pc[u] = "inside" /\ key[u] = key[t] => u = t
  BY InsideAlone
<1>2. \A u \in Task \ {t} : stage[u] # "enter" => pc[u] = "inside" /\ key[u] \in Key \ {key[t]}
  BY <1>1, InsideAlone DEF SendsInside
<1>3. SendsInside' /\ AttemptsLeft'
  BY DEF SendsInside, AttemptsLeft
<1>4. SendsUndelivered'
  BY <1>2 DEF SendsUndelivered
<1>5. DuplicateOnlyWhenDoubtful'
  <2> SUFFICES ASSUME NEW k \in Key
               PROVE  accepted'[k] <= doubtful'[k] + (IF Credited(k)' THEN 1 ELSE 0)
    BY DEF DuplicateOnlyWhenDoubtful
  <2>1. CASE k = key[t]
    <3>1. outbox'[k] = "delivered" \/ stage'[t] = "accepted" => Credited(k)'
      BY <2>1 DEF Credited, At
    <3> QED
      BY <2>1, <3>1 DEF OutboxTypeOK
  <2>2. CASE k # key[t]
    <3>1. Credited(k) => Credited(k)'
      <4>1. ASSUME NEW u \in Task, At(u, "accepted"), key[u] = k PROVE Credited(k)'
        BY <4>1, <2>2 DEF Credited, At
      <4> QED
        BY <4>1, <2>2 DEF Credited
    <3>2. accepted[k] <= doubtful[k] + (IF Credited(k) THEN 1 ELSE 0)
      BY DEF DuplicateOnlyWhenDoubtful
    <3> QED
      BY <2>2, <3>1, <3>2 DEF OutboxTypeOK
  <2> QED
    BY <2>1, <2>2
<1> QED
  BY <1>3, <1>4, <1>5

(* Before the step: the account of the key of a task inside its lock. *)
LEMMA Account ==
  ASSUME OutboxInv, NEW t \in Task, pc[t] = "inside"
  PROVE  /\ key[t] \in Key /\ accepted[key[t]] \in Nat /\ doubtful[key[t]] \in Nat
         /\ accepted[key[t]] <= doubtful[key[t]]
              + (IF outbox[key[t]] = "delivered" \/ stage[t] = "accepted" THEN 1 ELSE 0)
         /\ stage[t] # "enter" => outbox[key[t]] # "delivered"
         /\ stage[t] \in Stage /\ attempt[t] \in 0 .. MaxAttempts
<1>1. /\ key[t] \in Key
      /\ \A u \in Task : pc[u] = "inside" /\ key[u] = key[t] => u = t
  BY InsideAlone DEF OutboxInv
<1>2. Credited(key[t]) <=> outbox[key[t]] = "delivered" \/ stage[t] = "accepted"
  BY <1>1 DEF Credited, At
<1>3. accepted[key[t]] <= doubtful[key[t]] + (IF Credited(key[t]) THEN 1 ELSE 0)
  BY <1>1 DEF OutboxInv, DuplicateOnlyWhenDoubtful
<1> QED
  BY <1>1, <1>2, <1>3 DEF OutboxInv, OutboxTypeOK, SendsUndelivered

(* A send begins, is accepted, or is tried again: the locks stay. *)
LEMMA StayInv ==
  ASSUME OutboxInv, LockInv', NEW t \in Task, Start(t) \/ Accept(t) \/ Retry(t)
  PROVE  OutboxInv'
<1> USE OutboxAssumption
<1>1. /\ key[t] \in Key /\ accepted[key[t]] \in Nat /\ doubtful[key[t]] \in Nat
      /\ accepted[key[t]] <= doubtful[key[t]]
           + (IF outbox[key[t]] = "delivered" \/ stage[t] = "accepted" THEN 1 ELSE 0)
      /\ stage[t] # "enter" => outbox[key[t]] # "delivered"
      /\ attempt[t] \in 0 .. MaxAttempts /\ pc[t] = "inside"
  BY Account DEF Start, Accept, Retry, At
<1>2. stage[t] = "backoff" => attempt[t] < MaxAttempts
  BY DEF OutboxInv, AttemptsLeft
<1>3. OutboxTypeOK'
  BY <1>1, <1>2 DEF Start, Accept, Retry, At, OutboxInv, OutboxTypeOK, LockInv, Status, Stage,
                    bounds
<1>4. CASE Start(t)
  BY <1>4, <1>1, <1>3, SendStep DEF Start, At, lockVars, OutboxInv, OutboxTypeOK
<1>5. CASE Accept(t)
  BY <1>5, <1>1, <1>3, SendStep DEF Accept, At, lockVars, OutboxInv, OutboxTypeOK
<1>6. CASE Retry(t)
  BY <1>6, <1>1, <1>2, <1>3, SendStep DEF Retry, At, lockVars, OutboxInv, OutboxTypeOK
<1> QED
  BY <1>4, <1>5, <1>6

(* A send fails with attempts left. *)
LEMMA BackoffInv ==
  ASSUME OutboxInv, LockInv', NEW t \in Task, SendFails(t), attempt[t] < MaxAttempts
  PROVE  OutboxInv'
<1>1. /\ key[t] \in Key /\ accepted[key[t]] \in Nat /\ doubtful[key[t]] \in Nat
      /\ accepted[key[t]] <= doubtful[key[t]]
           + (IF outbox[key[t]] = "delivered" \/ stage[t] = "accepted" THEN 1 ELSE 0)
      /\ outbox[key[t]] # "delivered" /\ pc[t] = "inside"
  BY Account DEF SendFails, At
<1>2. /\ outbox' = [outbox EXCEPT ![key[t]] = "retrying"]
      /\ stage' = [stage EXCEPT ![t] = "backoff"]
      /\ doubtful' = [doubtful EXCEPT ![key[t]] =
                        @ + (IF stage[t] = "accepted" THEN 1 ELSE 0)]
      /\ UNCHANGED <<lockVars, attempt, bounds, accepted>>
  BY OutboxAssumption DEF SendFails, CountDoubt, OutboxInv, OutboxTypeOK
<1>3. OutboxTypeOK'
  BY <1>1, <1>2 DEF OutboxInv, OutboxTypeOK, LockInv, Status, Stage, bounds
<1> QED
  BY <1>1, <1>2, <1>3, SendStep DEF lockVars, OutboxInv, OutboxTypeOK

(* A call ends: its outcome is returned, recorded, final or lost. *)
LEMMA EndInv ==
  ASSUME OutboxInv, LockInv', NEW t \in Task, pc[t] = "inside", EndCall(t), UNCHANGED accepted,
         \/ UNCHANGED <<outbox, doubtful>> /\ stage[t] = "enter"
         \/ UNCHANGED doubtful /\ outbox' = [outbox EXCEPT ![key[t]] = "delivered"]
         \/ /\ CountDoubt(t)
            /\ \/ UNCHANGED outbox
               \/ outbox' = [outbox EXCEPT ![key[t]] = "failed"] /\ stage[t] # "enter"
  PROVE  OutboxInv'
<1> USE DEF CountDoubt
<1>1. /\ key[t] \in Key /\ accepted[key[t]] \in Nat /\ doubtful[key[t]] \in Nat
      /\ accepted[key[t]] <= doubtful[key[t]]
           + (IF outbox[key[t]] = "delivered" \/ stage[t] = "accepted" THEN 1 ELSE 0)
      /\ stage[t] # "enter" => outbox[key[t]] # "delivered"
  BY Account
<1>2. OutboxTypeOK'
  <2>1. outbox' \in [Key -> Status] /\ doubtful' \in [Key -> Nat] /\ accepted' \in [Key -> Nat]
    BY <1>1 DEF OutboxInv, OutboxTypeOK, Status
  <2>2. /\ stage' \in [Task -> Stage] /\ attempt' \in [Task -> 0 .. MaxAttempts]
        /\ UNCHANGED bounds
    BY OutboxAssumption DEF EndCall, OutboxInv, OutboxTypeOK, Stage
  <2> QED
    BY <2>1, <2>2 DEF OutboxInv, OutboxTypeOK, LockInv, bounds
<1>3. \A u \in Task \ {t} : /\ pc'[u] = pc[u] /\ key'[u] = key[u] /\ stage'[u] = stage[u]
                            /\ attempt'[u] = attempt[u]
  BY DEF EndCall, Leave, OutboxInv, OutboxTypeOK, LockTypeOK
<1>4. stage'[t] = "enter"
  BY DEF EndCall, OutboxInv, OutboxTypeOK
<1>5. \A k \in Key \ {key[t]} : /\ outbox'[k] = outbox[k] /\ accepted'[k] = accepted[k]
                               /\ doubtful'[k] = doubtful[k]
  BY DEF OutboxInv, OutboxTypeOK
<1>6. accepted'[key[t]] <= doubtful'[key[t]]
        + (IF outbox'[key[t]] = "delivered" \/ stage'[t] = "accepted" THEN 1 ELSE 0)
  BY <1>1, <1>4 DEF OutboxInv, OutboxTypeOK
<1> QED
  BY <1>2, <1>3, <1>4, <1>5, <1>6, SendStep

LEMMA CrashInv ==
  ASSUME OutboxInv, LockInv', Crash
  PROVE  OutboxInv'
<1> USE DEF Crash
<1> DEFINE Lost(k) == \E t \in Task : At(t, "accepted") /\ key[t] = k
<1>1. doubtful' = [k \in Key |-> doubtful[k] + (IF Lost(k) THEN 1 ELSE 0)]
  OBVIOUS
<1>2. doubtful' \in [Key -> Nat]
  <2> HIDE DEF Lost
  <2> QED
    BY <1>1 DEF OutboxInv, OutboxTypeOK
<1>3. OutboxTypeOK'
  BY <1>2, OutboxAssumption DEF OutboxInv, OutboxTypeOK, LockInv, Stage
<1>4. SendsInside' /\ SendsUndelivered' /\ AttemptsLeft'
  BY DEF SendsInside, SendsUndelivered, AttemptsLeft
<1>5. ASSUME NEW k \in Key
      PROVE  accepted'[k] <= doubtful'[k] + (IF Credited(k)' THEN 1 ELSE 0)
  <2>1. Credited(k) <=> outbox[k] = "delivered" \/ Lost(k)
    BY DEF Credited
  <2>2. outbox[k] = "delivered" => Credited(k)'
    BY DEF Credited
  <2>3. accepted[k] <= doubtful[k] + (IF Credited(k) THEN 1 ELSE 0)
    BY DEF OutboxInv, DuplicateOnlyWhenDoubtful
  <2>4. /\ accepted'[k] = accepted[k] /\ accepted[k] \in Nat /\ doubtful[k] \in Nat
        /\ doubtful'[k] = doubtful[k] + (IF Lost(k) THEN 1 ELSE 0)
    BY <1>1 DEF OutboxInv, OutboxTypeOK
  <2> HIDE DEF Lost, Crash
  <2> QED
    BY <2>1, <2>2, <2>3, <2>4
<1> QED
  BY <1>3, <1>4, <1>5 DEF OutboxInv, DuplicateOnlyWhenDoubtful

LEMMA NextOutboxInv == OutboxInv /\ [Next]_vars => OutboxInv'
<1> SUFFICES ASSUME OutboxInv, [Next]_vars PROVE OutboxInv'
  OBVIOUS
<1>0. LockInv'
  BY OutboxLockInv DEF OutboxInv
<1>1. CASE Crash
  BY <1>0, <1>1, CrashInv
<1>2. ASSUME NEW t \in Task, NEW k \in Key, Deliver(t, k) PROVE OutboxInv'
  <2>1. \A u \in Task : stage[u] # "enter" => pc'[u] = pc[u] /\ key'[u] = key[u]
    BY <1>2 DEF Deliver, Enter, OutboxInv, SendsInside, LockInv, LockTypeOK
  <2>2. calls' \in 0 .. MaxCalls
    BY <1>2, OutboxAssumption DEF Deliver, OutboxInv, OutboxTypeOK
  <2> QED
    BY <1>0, <1>2, <2>1, <2>2, LockStep DEF Deliver
<1>3. ASSUME NEW t \in Task, GetLock(t) \/ CancelQueued(t) PROVE OutboxInv'
  <2>1. \A u \in Task : stage[u] # "enter" => pc'[u] = pc[u] /\ key'[u] = key[u]
    BY <1>3 DEF GetLock, Acquire, CancelQueued, CancelWait, OutboxInv, SendsInside, LockInv,
                LockTypeOK
  <2>2. calls' \in 0 .. MaxCalls
    BY <1>3 DEF GetLock, CancelQueued, bounds, OutboxInv, OutboxTypeOK
  <2> QED
    BY <1>0, <1>3, <2>1, <2>2, LockStep DEF GetLock, CancelQueued, bounds
<1>4. ASSUME NEW t \in Task, Start(t) \/ Accept(t) \/ Retry(t) PROVE OutboxInv'
  BY <1>0, <1>4, StayInv
<1>5. ASSUME NEW t \in Task, SendFails(t) PROVE OutboxInv'
  <2>1. CASE attempt[t] < MaxAttempts
    BY <1>0, <1>5, <2>1, BackoffInv
  <2>2. CASE ~ (attempt[t] < MaxAttempts)
    BY <1>0, <1>5, <2>2, EndInv DEF SendFails, At
  <2> QED
    BY <2>1, <2>2
<1>6. ASSUME NEW t \in Task, ReturnPrevious(t) \/ Confirm(t) PROVE OutboxInv'
  BY <1>0, <1>6, EndInv DEF ReturnPrevious, Confirm, At
<1>7. ASSUME NEW t \in Task, Abandon(t) PROVE OutboxInv'
  BY <1>0, <1>7, EndInv DEF Abandon
<1>8. CASE UNCHANGED vars
  <2>1. calls' \in 0 .. MaxCalls
    BY <1>8 DEF vars, bounds, OutboxInv, OutboxTypeOK
  <2> QED
    BY <1>0, <1>8, <2>1, LockStep DEF vars, lockVars, bounds
<1> QED
  BY <1>1, <1>2, <1>3, <1>4, <1>5, <1>6, <1>7, <1>8 DEF Next, Progress

(* The invariant holds throughout, restarts included. *)
THEOREM OutboxInvariant == Spec => []OutboxInv
  BY InitOutboxInv, NextOutboxInv, PTL DEF Spec

(* Every message the platform accepts beyond the first of its key has an   *)
(* earlier send whose outcome was lost.                                    *)
THEOREM DuplicatesAreDoubtful == Spec => []DuplicateOnlyWhenDoubtful
  BY OutboxInvariant, PTL DEF OutboxInv

(* What delivery.jsonl records as delivered is never sent again. *)
THEOREM DeliveredStays == Spec => NoResendOfDelivered
<1>1. OutboxInv /\ [Next]_vars =>
        [\A k \in Key : outbox[k] = "delivered" =>
           accepted'[k] = accepted[k] /\ outbox'[k] = "delivered"]_vars
  <2> SUFFICES ASSUME OutboxInv, Next, NEW k \in Key, outbox[k] = "delivered"
               PROVE  accepted'[k] = accepted[k] /\ outbox'[k] = "delivered"
    OBVIOUS
  <2> USE DEF OutboxInv, OutboxTypeOK
  <2>1. ASSUME NEW t \in Task, Progress(t)
        PROVE  accepted'[k] = accepted[k] /\ outbox'[k] = "delivered"
    <3>1. CASE stage[t] = "enter"
      BY <2>1, <3>1 DEF Progress, GetLock, ReturnPrevious, Start, Accept, Confirm, SendFails,
                        Retry, At, sendVars
    <3>2. CASE stage[t] # "enter" /\ ~ GetLock(t)
      <4>1. key[t] # k
        BY <3>2 DEF SendsUndelivered
      <4>2. key[t] \in Key
        BY <2>1, <3>2, InsideAlone DEF SendsInside
      <4> QED
        BY <2>1, <3>2, <4>1, <4>2
           DEF Progress, ReturnPrevious, Start, Accept, Confirm, SendFails, Retry, At
    <3>3. CASE GetLock(t)
      BY <3>3 DEF GetLock, sendVars
    <3> QED
      BY <3>1, <3>2, <3>3
  <2>2. CASE Crash \/ \E t \in Task : Abandon(t) \/ CancelQueued(t)
             \/ \E j \in Key : Deliver(t, j)
    BY <2>2 DEF Crash, Abandon, CancelQueued, Deliver, sendVars
  <2> QED
    BY <2>1, <2>2 DEF Next
<1> QED
  BY <1>1, OutboxInvariant, PTL DEF Spec, NoResendOfDelivered

(* Whatever deliveries do under them, and over restarts of the process, the *)
(* locks are one fair lock per key.                                        *)
THEOREM DeliveriesQueueFairly == Spec => RefinesFifoLock
<1>1. LockInv /\ Crash => Fifo!Restart
  <2> SUFFICES ASSUME LockInv, Crash PROVE Fifo!Restart
    OBVIOUS
  <2>1. \A k \in Key : Holder(k)' = NoTask /\ Line(k)' = << >>
    BY DEF Crash, Holder, Line
  <2> QED
    BY <2>1 DEF Fifo!Restart
<1>2. LockInv /\ LockInv' /\ LockSeen /\ LockSeen' /\ [Next]_vars
        => [Fifo!Next]_<<[k \in Key |-> Holder(k)], [k \in Key |-> Line(k)]>>
  BY <1>1, OutboxLockStep, NextFifo DEF Fifo!Next
<1>3. OutboxInv => LockInv
  BY DEF OutboxInv
<1>4. Init => Fifo!Init
  BY InitFifo DEF Init
<1> QED
  BY <1>2, <1>3, <1>4, OutboxInvariant, LockInvSeen, PTL DEF Spec, RefinesFifoLock, Fifo!Spec
=============================================================================
