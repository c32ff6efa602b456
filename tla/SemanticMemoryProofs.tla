------------------------- MODULE SemanticMemoryProofs -------------------------
(***************************************************************************)
(* What was remembered stays, the metadata agrees with the entries, and no *)
(* two entries are about the same unless somebody chose so, for any number *)
(* of processes and contents: MemoryInv is an inductive invariant of the   *)
(* long-term memory.                                                       *)
(***************************************************************************)
EXTENDS SemanticMemory, TLAPS

-----------------------------------------------------------------------------
(* The file lock, for any number of processes: as long as nobody removes a *)
(* file that is another's, at most one process is in.                      *)

(* Nobody is in at first. *)
LEMMA LockInitInv == LockInit => FileLockInv
  BY DEF LockInit, FileLockInv, LockTypeOK, HolderHasFile

(* What a process does that is not in yet, or never gets in.               *)
LEMMA WaitingInv ==
  ASSUME FileLockInv, NEW p \in Procs, Try(p) \/ FindStale(p) \/ GiveUp(p) \/ Die(p)
  PROVE  FileLockInv'
  <1>1. LockTypeOK'
    BY DEF FileLockInv, LockTypeOK, Try, FindStale, GiveUp, Die, Move
  <1>2. lockFile' = lockFile /\ misremoved' = misremoved
    BY DEF Try, FindStale, GiveUp, Die
  <1>3. \A q \in Procs : at'[q] = "in" => at[q] = "in"
    BY DEF FileLockInv, LockTypeOK, Try, FindStale, GiveUp, Die, Move
  <1>4. HolderHasFile'
    BY <1>2, <1>3 DEF FileLockInv, HolderHasFile
  <1>5. QED BY <1>1, <1>4 DEF FileLockInv

(* The file is created only if there is none: nobody else is in.           *)
LEMMA CreateInv ==
  ASSUME FileLockInv, NEW p \in Procs, Create(p)
  PROVE  FileLockInv'
  <1>1. LockTypeOK'
    BY DEF FileLockInv, LockTypeOK, Create, Move
  <1>2. ASSUME ~misremoved, NEW q \in Procs, at'[q] = "in"
        PROVE  lockFile' = q
    <2>1. lockFile' = p /\ lockFile = NoOne
      BY DEF Create
    <2>2. CASE q # p
      <3>1. at[q] = "in"
        BY <1>2, <2>2 DEF Create, Move, FileLockInv, LockTypeOK
      <3>2. lockFile = q
        BY <3>1, <1>2 DEF FileLockInv, HolderHasFile
      <3>3. QED BY <3>2, <2>1, FileLockAssumption
    <2>3. QED BY <2>1, <2>2
  <1>3. HolderHasFile'
    BY <1>2 DEF HolderHasFile, Create
  <1>4. QED BY <1>1, <1>3 DEF FileLockInv

(* A file is removed by a waiter or by who leaves: either it was nobody's  *)
(* that is in, or misremoved tells.                                        *)
LEMMA RemovalInv ==
  ASSUME FileLockInv, NEW p \in Procs, UnlinkStale(p) \/ Leave(p)
  PROVE  FileLockInv'
  <1>1. misremoved' = (misremoved \/ Wrongly(p))
    BY DEF UnlinkStale, Leave
  <1>2. misremoved' \in BOOLEAN
    BY <1>1
  <1>3. LockTypeOK'
    BY <1>2 DEF FileLockInv, LockTypeOK, UnlinkStale, Leave, Move
  <1>4. ASSUME ~misremoved', NEW q \in Procs, at'[q] = "in"
        PROVE  FALSE
    <2>1. at[q] = "in" /\ q # p
      BY <1>4 DEF UnlinkStale, Leave, Move, FileLockInv, LockTypeOK
    <2>2. ~misremoved /\ ~Wrongly(p)
      BY <1>1, <1>4
    <2>3. lockFile = q
      BY <2>1, <2>2 DEF FileLockInv, HolderHasFile
    <2>4. QED BY <2>1, <2>2, <2>3 DEF Wrongly
  <1>5. HolderHasFile'
    BY <1>4 DEF HolderHasFile
  <1>6. QED BY <1>3, <1>5 DEF FileLockInv

(* A file that grows old is still the same file.                           *)
LEMMA GrowOldInv == FileLockInv /\ GrowOld => FileLockInv'
  BY DEF FileLockInv, LockTypeOK, HolderHasFile, GrowOld

(* Every step of the lock. *)
LEMMA LockStepInv == FileLockInv /\ [LockNext]_lockVars => FileLockInv'
  <1>1. ASSUME FileLockInv, UNCHANGED lockVars PROVE FileLockInv'
    BY <1>1 DEF lockVars, FileLockInv, LockTypeOK, HolderHasFile
  <1>2. QED
    BY <1>1, WaitingInv, CreateInv, RemovalInv, GrowOldInv DEF LockNext

LEMMA HolderIsOne == FileLockInv => OneIn
  <1>1. ASSUME HolderHasFile, ~misremoved, NEW p \in Procs, NEW q \in Procs,
               at[p] = "in", at[q] = "in"
        PROVE  p = q
    BY <1>1 DEF HolderHasFile
  <1>2. QED BY <1>1 DEF FileLockInv, OneIn, MutualExclusion

(* Until a file is removed that is not the remover's, at most one process  *)
(* is between __enter__ and __exit__ (locking.py 17-42), however many      *)
(* there are, and wherever they die.                                       *)
THEOREM AtMostOneIn == LockSpec => []OneIn
  <1>1. LockSpec => []FileLockInv
    BY LockInitInv, LockStepInv, PTL DEF LockSpec
  <1>2. QED BY <1>1, HolderIsOne, PTL

-----------------------------------------------------------------------------

(* A new entry leaves all others in place. *)
LEMMA AppendKeeps ==
  ASSUME NEW s \in Seq(Contents), NEW c \in Contents
  PROVE  Append(s, c) \in Seq(Contents) /\ ToSet(s) \cup {c} \subseteq ToSet(Append(s, c))
  <1>1. Append(s, c) \in Seq(Contents)
    OBVIOUS
  <1>2. \A i \in DOMAIN s : i \in DOMAIN Append(s, c) /\ Append(s, c)[i] = s[i]
    OBVIOUS
  <1>3. Len(s) + 1 \in DOMAIN Append(s, c) /\ Append(s, c)[Len(s) + 1] = c
    OBVIOUS
  <1>4. QED BY <1>1, <1>2, <1>3 DEF ToSet

(* A replaced entry leaves all others in place. *)
LEMMA ExceptKeeps ==
  ASSUME NEW s \in Seq(Contents), NEW i \in DOMAIN s, NEW c \in Contents
  PROVE  /\ [s EXCEPT ![i] = c] \in Seq(Contents)
         /\ (ToSet(s) \ {s[i]}) \cup {c} \subseteq ToSet([s EXCEPT ![i] = c])
  <1> DEFINE t == [s EXCEPT ![i] = c]
  <1>1. t \in Seq(Contents)
    OBVIOUS
  <1>2. DOMAIN t = DOMAIN s /\ t[i] = c /\ \A j \in DOMAIN s \ {i} : t[j] = s[j]
    OBVIOUS
  <1> HIDE DEF t
  <1>3. ASSUME NEW x \in ToSet(s) \ {s[i]} PROVE x \in ToSet(t)
    <2>1. PICK j \in DOMAIN s : s[j] = x
      BY DEF ToSet
    <2>2. QED BY <2>1, <1>2 DEF ToSet
  <1>4. c \in ToSet(t)
    BY <1>2 DEF ToSet
  <1>5. QED BY <1>1, <1>3, <1>4 DEF t

(* A removed entry leaves all others in place, in their order.             *)
LEMMA RemoveKeeps ==
  ASSUME NEW s \in Seq(Contents), NEW i \in DOMAIN s
  PROVE  /\ RemoveAt(s, i) \in Seq(Contents)
         /\ ToSet(s) \ {s[i]} \subseteq ToSet(RemoveAt(s, i))
         /\ \A j, k \in DOMAIN RemoveAt(s, i) : \E m, n \in DOMAIN s :
              RemoveAt(s, i)[j] = s[m] /\ RemoveAt(s, i)[k] = s[n] /\ (m = n => j = k)
  <1> DEFINE front == SubSeq(s, 1, i - 1)
             back == SubSeq(s, i + 1, Len(s))
             t == front \o back
  <1>1. /\ front \in Seq(Contents) /\ Len(front) = i - 1
        /\ \A j \in 1 .. i - 1 : front[j] = s[j]
    OBVIOUS
  <1>2. /\ back \in Seq(Contents) /\ Len(back) = Len(s) - i
        /\ \A j \in 1 .. Len(s) - i : back[j] = s[i + j]
    OBVIOUS
  <1> HIDE DEF front, back
  <1>3. /\ t \in Seq(Contents) /\ Len(t) = Len(s) - 1
        /\ \A j \in 1 .. i - 1 : t[j] = s[j]
        /\ \A j \in i .. Len(s) - 1 : t[j] = s[j + 1]
    <2>1. t \in Seq(Contents) /\ Len(t) = Len(s) - 1
      BY <1>1, <1>2
    <2>2. ASSUME NEW j \in 1 .. i - 1 PROVE t[j] = s[j]
      BY <1>1, <1>2
    <2>3. ASSUME NEW j \in i .. Len(s) - 1 PROVE t[j] = s[j + 1]
      <3>1. t[j] = back[j - (i - 1)]
        BY <1>1, <1>2
      <3>2. j - (i - 1) \in 1 .. Len(s) - i /\ i + (j - (i - 1)) = j + 1
        OBVIOUS
      <3>3. QED BY <3>1, <3>2, <1>2
    <2>4. QED BY <2>1, <2>2, <2>3
  <1> HIDE DEF t
  <1>4. ASSUME NEW x \in ToSet(s) \ {s[i]} PROVE x \in ToSet(t)
    <2>1. PICK j \in DOMAIN s : s[j] = x /\ j # i
      BY DEF ToSet
    <2>2. CASE j < i
      BY <2>1, <2>2, <1>3 DEF ToSet
    <2>3. CASE j > i
      <3>1. j \in Nat /\ j - 1 \in i .. Len(s) - 1 /\ (j - 1) + 1 = j
        BY <2>3
      <3>2. t[j - 1] = x
        BY <3>1, <2>1, <1>3
      <3>3. j - 1 \in DOMAIN t
        BY <3>1, <1>3
      <3>4. QED BY <3>2, <3>3 DEF ToSet
    <2>4. QED BY <2>1, <2>2, <2>3
  <1> DEFINE from(j) == IF j < i THEN j ELSE j + 1
  <1>5. ASSUME NEW j \in DOMAIN t, NEW k \in DOMAIN t
        PROVE  \E m, n \in DOMAIN s : t[j] = s[m] /\ t[k] = s[n] /\ (m = n => j = k)
    <2>1. \A l \in DOMAIN t : from(l) \in DOMAIN s /\ t[l] = s[from(l)]
      BY <1>3
    <2>2. from(j) = from(k) => j = k
      BY <1>3
    <2>3. QED BY <2>1, <2>2
  <1>6. RemoveAt(s, i) = t
    BY DEF RemoveAt, t, front, back
  <1>7. QED BY <1>3, <1>4, <1>5, <1>6

-----------------------------------------------------------------------------
(* What an operation may plan: a write that keeps what is wanted, lists    *)
(* what it calls active and brings no two entries about the same, or none. *)
Keeps(w) == (wanted \ w.removes) \cup w.adds \subseteq ToSet(w.value)

Changes(w) == {c \in Contents : w.meta[c] # meta[c]}

Lists(w) ==
  \A c \in (Contents \ halfway) \cup Changes(w) : w.meta[c].status = "active" => c \in ToSet(w.value)

Single(w) ==
  \A i, j \in DOMAIN w.value, S \in Subjects :
    w.value[i] \in S /\ w.value[j] \in S => i = j \/ S \in both \cup w.both

Good(w) == Keeps(w) /\ Lists(w) /\ Single(w)

Planned(p) ==
  \E st \in {"entries", "conflict", "done"}, w \in Plan :
    /\ stage' = [stage EXCEPT ![p] = st]
    /\ plan' = [plan EXCEPT ![p] = w]
    /\ st = "entries" => misremoved \/ Good(w)

(* Two processes that both are in: a file has been removed wrongly.        *)
LEMMA StagedAlone ==
  ASSUME MemoryInv, ~misremoved, NEW p \in Procs, NEW q \in Procs,
         stage[p] # "none", stage[q] # "none"
  PROVE  p = q
  BY DEF MemoryInv, StagedInside, FileLockInv, HolderHasFile

(* The files agree when an operation has read them, for nobody is between  *)
(* the two writes; what is active is an entry unless a process died there. *)
ListedNow == \A c \in Contents \ halfway : meta[c].status = "active" => c \in ToSet(entries)

LEMMA ReadsAgreeing ==
  ASSUME MemoryInv, NEW p \in Procs, stage[p] = "read"
  PROVE  misremoved \/ ListedNow
  <1>1. ~misremoved => \A q \in Procs : stage[q] # "metadata"
    BY StagedAlone
  <1>2. QED BY <1>1 DEF MemoryInv, ActiveIsListed, ListedNow

LEMMA NothingIsPlan == Nothing \in Plan
  BY DEF Nothing, Plan, Record, NoRecord

LEMMA RefusePlanned ==
  ASSUME MemoryInv, NEW p \in Procs, Refuse(p)
  PROVE  Planned(p)
  <1>1. plan' = [plan EXCEPT ![p] = plan[p]] /\ plan[p] \in Plan
    BY DEF MemoryInv, MemoryTypeOK, Refuse
  <1>2. QED BY <1>1 DEF Refuse, Planned

LEMMA ChangePlanned ==
  ASSUME MemoryInv, NEW p \in Procs, NEW w \in Plan, misremoved \/ Good(w), Change(p, w)
  PROVE  Planned(p)
  BY RefusePlanned DEF Change, Planned

LEMMA OpenPlanned ==
  ASSUME MemoryInv, NEW p \in Procs, NEW e \in Contents, NEW c \in Contents, Open(p, e, c)
  PROVE  Planned(p)
  <1> DEFINE w == [Nothing EXCEPT !.opens = {Conflict(e, c)}]
  <1>1. w \in Plan
    BY NothingIsPlan DEF Plan, Conflict
  <1>2. QED BY <1>1 DEF Open, Planned

LEMMA ClosePlanned ==
  ASSUME MemoryInv, NEW p \in Procs, NEW k \in pending, Close(p, k)
  PROVE  Planned(p)
  <1> DEFINE w == [Nothing EXCEPT !.closes = {k}]
  <1>1. {k} \in SUBSET [existing : Contents, proposed : Contents]
    BY DEF MemoryInv, MemoryTypeOK
  <1>2. w \in Plan
    BY <1>1, NothingIsPlan DEF Plan
  <1>3. QED BY <1>2 DEF Close, Planned

(* A content that is added is a good plan: nothing is about the same, or   *)
(* both are kept.                                                          *)
LEMMA AppendedPlan ==
  ASSUME MemoryInv, misremoved \/ ListedNow,
         NEW c \in Contents, NEW kept \in SUBSET Subjects, NEW closes \in SUBSET pending,
         Rivals(c) = {} \/ kept = SubjectsOf(c)
  PROVE  Appended(c, kept, closes) \in Plan /\ (misremoved \/ Good(Appended(c, kept, closes)))
  <1> DEFINE m == [meta EXCEPT ![c] = [status |-> "active", rev |-> 1]]
             w == Appended(c, kept, closes)
             new == Append(entries, c)
  <1>1. meta \in [Contents -> Record] /\ m \in [Contents -> Record]
    BY DEF MemoryInv, MemoryTypeOK, Record
  <1>2. closes \in SUBSET [existing : Contents, proposed : Contents]
    BY DEF MemoryInv, MemoryTypeOK
  <1>3. entries \in Seq(Contents)
    BY DEF MemoryInv, MemoryTypeOK
  <1>4. new \in Seq(Contents) /\ ToSet(entries) \cup {c} \subseteq ToSet(new)
    BY <1>3, AppendKeeps
  <1>5. \A d \in Contents : d # c => m[d] = meta[d]
    BY <1>1
  <1>6. \A i \in DOMAIN new : \/ i \in DOMAIN entries /\ new[i] = entries[i]
                              \/ i = Len(entries) + 1 /\ new[i] = c
    BY <1>3
  <1>7. /\ w.value = new /\ w.adds = {c} /\ w.removes = {} /\ w.meta = m /\ w.both = kept
    BY DEF Appended
  <1> HIDE DEF m, new
  <1>8. w \in Plan
    BY <1>1, <1>2, <1>4 DEF Appended, Plan, m, new
  <1> HIDE DEF w
  <1>9. misremoved \/ Keeps(w)
    BY <1>4, <1>7 DEF Keeps, MemoryInv, RememberedStays
  <1>10. misremoved \/ Lists(w)
    BY <1>4, <1>5, <1>7 DEF Lists, Changes, ListedNow
  <1>11. misremoved \/ Single(w)
    <2> SUFFICES ASSUME ~misremoved, NEW i \in DOMAIN new, NEW j \in DOMAIN new, NEW S \in Subjects,
                        new[i] \in S, new[j] \in S, i # j
                 PROVE  S \in both \cup kept
      BY <1>7 DEF Single
    <2>1. CASE i \in DOMAIN entries /\ new[i] = entries[i] /\ j \in DOMAIN entries /\ new[j] = entries[j]
      BY <2>1 DEF MemoryInv, OnePerSubject
    <2>2. ASSUME NEW k \in DOMAIN entries, entries[k] \in S, c \in S PROVE S \in kept
      BY <2>2 DEF Rivals, AboutTheSame, SubjectsOf
    <2>3. QED BY <2>1, <2>2, <1>6
  <1>12. QED BY <1>8, <1>9, <1>10, <1>11 DEF Good, w

(* The revision of a record is a number. *)
LEMMA RevisionType == ASSUME MemoryInv, NEW c \in Contents PROVE Revision(c) \in Nat
  BY DEF Revision, MemoryInv, MemoryTypeOK, Record

(* A record that takes the place of another is a good plan if no other     *)
(* entry is about the same.                                                *)
LEMMA ReplaceIsGood ==
  ASSUME MemoryInv, misremoved \/ ListedNow,
         NEW i \in DOMAIN entries, NEW c \in Contents, OtherRivals(c, i) = {},
         NEW w, w.value = [entries EXCEPT ![i] = c], w.adds = {c}, w.removes = {entries[i]},
         w.meta = Superseded(entries[i], c), w.both = {}
  PROVE  misremoved \/ Good(w)
  <1>1. entries \in Seq(Contents) /\ meta \in [Contents -> Record] /\ entries[i] \in Contents
    BY DEF MemoryInv, MemoryTypeOK
  <1>2. /\ w.value \in Seq(Contents)
        /\ (ToSet(entries) \ {entries[i]}) \cup {c} \subseteq ToSet(w.value)
    BY <1>1, ExceptKeeps
  <1>3. DOMAIN w.value = DOMAIN entries /\ \A j \in DOMAIN entries \ {i} : w.value[j] = entries[j]
    BY <1>1
  <1>4. w.value[i] = c
    BY <1>1
  <1>5. \A d \in Contents : d # c => IF d = entries[i] THEN w.meta[d].status # "active" ELSE w.meta[d] = meta[d]
    BY <1>1 DEF Superseded
  <1>6. misremoved \/ Keeps(w)
    BY <1>2 DEF Keeps, MemoryInv, RememberedStays
  <1>7. misremoved \/ Lists(w)
    BY <1>2, <1>5 DEF Lists, Changes, ListedNow
  <1>8. misremoved \/ Single(w)
    <2> SUFFICES ASSUME ~misremoved, NEW j \in DOMAIN entries, NEW k \in DOMAIN entries, NEW S \in Subjects,
                        w.value[j] \in S, w.value[k] \in S, j # k
                 PROVE  S \in both
      BY <1>3 DEF Single
    <2>1. ASSUME NEW l \in DOMAIN entries \ {i}, entries[l] \in S, c \in S PROVE FALSE
      BY <2>1 DEF OtherRivals, Rivals, AboutTheSame
    <2>2. CASE j = i \/ k = i
      BY <2>1, <2>2, <1>3, <1>4
    <2>3. CASE j # i /\ k # i
      BY <2>3, <1>3 DEF MemoryInv, OnePerSubject
    <2>4. QED BY <2>2, <2>3
  <1>9. QED BY <1>6, <1>7, <1>8 DEF Good

(* What comes of a record that is to take the place of another.            *)
LEMMA ReplacePlanned ==
  ASSUME MemoryInv, NEW p \in Procs, NEW i \in DOMAIN entries, NEW c \in Contents,
         NEW closes \in SUBSET pending, NEW stale \in BOOLEAN, misremoved \/ ListedNow,
         ReplaceRecord(p, i, c, closes, stale)
  PROVE  Planned(p)
  <1> DEFINE e == entries[i]
             w == [value |-> [entries EXCEPT ![i] = c], adds |-> {c}, removes |-> {e},
                   meta |-> Superseded(e, c), opens |-> {}, closes |-> closes, both |-> {},
                   stale |-> stale]
  <1>1. entries \in Seq(Contents) /\ e \in Contents
    BY DEF MemoryInv, MemoryTypeOK
  <1>2. Superseded(e, c) \in [Contents -> Record]
    <2> DEFINE r == Revision(e)
               after == [meta EXCEPT ![e] = [status |-> "superseded", rev |-> r]]
    <2>1. r \in Nat
      BY <1>1, RevisionType
    <2>2. meta \in [Contents -> Record]
      BY DEF MemoryInv, MemoryTypeOK
    <2>3. Superseded(e, c) = [after EXCEPT ![c] = [status |-> "active", rev |-> r + 1]]
      BY DEF Superseded
    <2> HIDE DEF r
    <2>4. /\ [status |-> "superseded", rev |-> r] \in Record
          /\ [status |-> "active", rev |-> r + 1] \in Record
      BY <2>1 DEF Record
    <2>5. after \in [Contents -> Record]
      BY <2>2, <2>4
    <2> HIDE DEF after
    <2>6. QED BY <2>3, <2>4, <2>5
  <1>3. /\ [entries EXCEPT ![i] = c] \in Seq(Contents)
        /\ (ToSet(entries) \ {e}) \cup {c} \subseteq ToSet([entries EXCEPT ![i] = c])
    BY <1>1, ExceptKeeps
  <1>4. closes \in SUBSET [existing : Contents, proposed : Contents]
    BY DEF MemoryInv, MemoryTypeOK
  <1>5. w \in Plan
    BY <1>1, <1>2, <1>3, <1>4 DEF Plan
  <1>6. OtherRivals(c, i) = {} => misremoved \/ Good(w)
    BY <1>1, <1>3, ReplaceIsGood DEF Superseded
  <1>7. CASE e = c
    BY <1>7, RefusePlanned, ClosePlanned DEF ReplaceRecord
  <1>8. ASSUME NEW j \in First(OtherRivals(c, i)), Open(p, entries[j], c) PROVE Planned(p)
    <2>1. j \in DOMAIN entries
      BY DEF First, OtherRivals, Rivals
    <2>2. entries[j] \in Contents
      BY <1>1, <2>1
    <2>3. QED BY <1>8, <2>2, OpenPlanned
  <1>9. CASE Change(p, w) /\ OtherRivals(c, i) = {}
    BY <1>5, <1>6, <1>9, ChangePlanned
  <1>10. QED BY <1>7, <1>8, <1>9 DEF ReplaceRecord

(* The metadata after a record is forgotten. *)
LEMMA ForgottenType == ASSUME MemoryInv, NEW cs PROVE Forgotten(cs) \in [Contents -> Record]
  BY DEF Forgotten, MemoryInv, MemoryTypeOK, Record

LEMMA ForgottenAre ==
  ASSUME MemoryInv, NEW cs, NEW c \in Contents
  PROVE  IF c \in cs THEN Forgotten(cs)[c].status # "active" ELSE Forgotten(cs)[c] = meta[c]
  BY DEF Forgotten, MemoryInv, MemoryTypeOK, Record

(* An entry that is taken out is a good plan.                              *)
LEMMA ForgetPlanned ==
  ASSUME MemoryInv, NEW p \in Procs, NEW i \in DOMAIN entries, NEW stale \in BOOLEAN,
         misremoved \/ ListedNow, ForgetRecord(p, i, stale)
  PROVE  Planned(p)
  <1> DEFINE e == entries[i]
             w == [value |-> RemoveAt(entries, i), adds |-> {}, removes |-> {e},
                   meta |-> Forgotten({e}), opens |-> {}, closes |-> {}, both |-> {},
                   stale |-> stale]
  <1>1. entries \in Seq(Contents) /\ e \in Contents
    BY DEF MemoryInv, MemoryTypeOK
  <1>2. /\ RemoveAt(entries, i) \in Seq(Contents)
        /\ ToSet(entries) \ {e} \subseteq ToSet(RemoveAt(entries, i))
        /\ \A j, k \in DOMAIN RemoveAt(entries, i) : \E m, n \in DOMAIN entries :
             RemoveAt(entries, i)[j] = entries[m] /\ RemoveAt(entries, i)[k] = entries[n] /\ (m = n => j = k)
    BY <1>1, RemoveKeeps
  <1>3. w \in Plan
    BY <1>1, <1>2, ForgottenType DEF Plan
  <1>4. misremoved \/ Keeps(w)
    BY <1>2 DEF Keeps, MemoryInv, RememberedStays
  <1>5. misremoved \/ Lists(w)
    BY <1>1, <1>2, ForgottenAre DEF Lists, Changes, ListedNow
  <1>6. misremoved \/ Single(w)
    BY <1>2 DEF Single, MemoryInv, OnePerSubject
  <1>7. QED BY <1>3, <1>4, <1>5, <1>6, ChangePlanned DEF ForgetRecord, Good

-----------------------------------------------------------------------------
(* Each operation plans well. *)
LEMMA RememberPlanned ==
  ASSUME MemoryInv, NEW p \in Procs, NEW c \in Contents, NEW policy, Remember(p, c, policy)
  PROVE  Planned(p)
  <1>1. CASE Refuse(p)
    BY <1>1, RefusePlanned
  <1>2. SubjectsOf(c) \in SUBSET Subjects /\ {} \in SUBSET Subjects /\ {} \in SUBSET pending
    BY DEF SubjectsOf
  <1> misremoved \/ ListedNow
    BY ReadsAgreeing DEF Remember, Reads
  <1>3. ASSUME NEW kept \in {{}, SubjectsOf(c)}, Rivals(c) = {} \/ kept = SubjectsOf(c),
               Change(p, Appended(c, kept, {}))
        PROVE  Planned(p)
    BY <1>2, <1>3, AppendedPlan, ChangePlanned
  <1>4. ASSUME NEW i \in First(Rivals(c)), ReplaceRecord(p, i, c, {}, FALSE) PROVE Planned(p)
    <2>1. i \in DOMAIN entries
      BY DEF First, Rivals
    <2>2. QED BY <1>2, <1>4, <2>1, ReplacePlanned
  <1>5. ASSUME NEW i \in First(Rivals(c)), Open(p, entries[i], c) PROVE Planned(p)
    <2>1. entries[i] \in Contents
      BY DEF First, Rivals, MemoryInv, MemoryTypeOK
    <2>2. QED BY <1>5, <2>1, OpenPlanned
  <1>6. QED BY <1>1, <1>3, <1>4, <1>5 DEF Remember

LEMMA FirstPlace == ASSUME NEW c, NEW i \in First(Places(c)) PROVE i \in DOMAIN entries
  BY DEF First, Places

LEMMA ResolvePlanned ==
  ASSUME MemoryInv, NEW p \in Procs, NEW k \in pending, NEW r, Resolve(p, k, r)
  PROVE  Planned(p)
  <1>1. k.existing \in Contents /\ k.proposed \in Contents
    BY DEF MemoryInv, MemoryTypeOK
  <1>2. SubjectsOf(k.proposed) \in SUBSET Subjects /\ {k} \in SUBSET pending
    BY DEF SubjectsOf
  <1> misremoved \/ ListedNow
    BY ReadsAgreeing DEF Resolve, Reads
  <1>3. ASSUME NEW i \in First(Places(k.existing)), ReplaceRecord(p, i, k.proposed, {k}, FALSE)
        PROVE  Planned(p)
    BY <1>1, <1>2, <1>3, FirstPlace, ReplacePlanned
  <1>4. CASE Change(p, Appended(k.proposed, SubjectsOf(k.proposed), {k}))
    BY <1>1, <1>2, <1>4, AppendedPlan, ChangePlanned
  <1>5. QED BY <1>3, <1>4, RefusePlanned, ClosePlanned DEF Resolve

LEMMA ForgetAllPlanned ==
  ASSUME MemoryInv, NEW p \in Procs, ForgetAll(p)
  PROVE  Planned(p)
  <1> DEFINE cs == {c \in Contents : meta[c].status = "active"}
             w == [Nothing EXCEPT !.removes = Contents, !.meta = Forgotten(cs)]
  <1>1. w \in Plan
    BY NothingIsPlan, ForgottenType DEF Plan
  <1>2. Keeps(w)
    BY DEF Keeps, Nothing, MemoryInv, MemoryTypeOK
  <1>3. Lists(w)
    <2>1. \A c \in Contents : Forgotten(cs)[c].status # "active"
      BY ForgottenAre
    <2>2. QED BY <2>1 DEF Lists, Changes, Nothing
  <1>4. Single(w)
    BY DEF Single, Nothing
  <1>5. QED BY <1>1, <1>2, <1>3, <1>4, ChangePlanned, RefusePlanned DEF ForgetAll, Good

LEMMA MaintainPlanned ==
  ASSUME MemoryInv, NEW p \in Procs, NEW s \in seen, NEW c \in Contents,
         MaintainDelete(p, s) \/ MaintainUpdate(p, s, c)
  PROVE  Planned(p)
  <1>1. Stale(s) \in BOOLEAN
    BY DEF Stale
  <1> misremoved \/ ListedNow
    BY ReadsAgreeing DEF MaintainDelete, MaintainUpdate, Reads
  <1>2. ASSUME NEW i \in First(Places(s.content)), ForgetRecord(p, i, Stale(s)) PROVE Planned(p)
    BY <1>1, <1>2, FirstPlace, ForgetPlanned
  <1>3. ASSUME NEW i \in First(Places(s.content)), ReplaceRecord(p, i, c, {}, Stale(s))
        PROVE  Planned(p)
    BY <1>1, <1>3, FirstPlace, ReplacePlanned
  <1>4. QED BY <1>2, <1>3, RefusePlanned DEF MaintainDelete, MaintainUpdate

(* An operation decides only while it is in, and changes nothing else.     *)
LEMMA DecideFrame ==
  ASSUME NEW p \in Procs, Decide(p)
  PROVE  Reads(p) /\ seen' \in {seen, {}}
  BY DEF Decide, Remember, Replace, Forget, ForgetAll, Resolve, MaintainUpdate, MaintainDelete

LEMMA DecidePlanned ==
  ASSUME MemoryInv, NEW p \in Procs, Decide(p)
  PROVE  Planned(p)
  <1> misremoved \/ ListedNow
    BY DecideFrame, ReadsAgreeing DEF Reads
  <1>1. ASSUME NEW e \in Contents, NEW c \in Contents, Replace(p, e, c) PROVE Planned(p)
    BY <1>1, FirstPlace, ReplacePlanned, RefusePlanned DEF Replace
  <1>2. ASSUME NEW c \in Contents, Forget(p, c) PROVE Planned(p)
    BY <1>2, FirstPlace, ForgetPlanned, RefusePlanned DEF Forget
  <1>3. ASSUME NEW s \in seen, MaintainDelete(p, s) PROVE Planned(p)
    <2>1. s.content \in Contents
      BY DEF MemoryInv, MemoryTypeOK
    <2>2. QED BY <1>3, <2>1, MaintainPlanned
  <1>4. QED
    BY <1>1, <1>2, <1>3, RememberPlanned, ForgetAllPlanned, ResolvePlanned, MaintainPlanned
    DEF Decide

LEMMA DecideInv ==
  ASSUME MemoryInv, NEW p \in Procs, Decide(p)
  PROVE  MemoryInv'
  <1>1. PICK st \in {"entries", "conflict", "done"}, w \in Plan :
          /\ stage' = [stage EXCEPT ![p] = st]
          /\ plan' = [plan EXCEPT ![p] = w]
          /\ st = "entries" => misremoved \/ Good(w)
    BY DecidePlanned DEF Planned
  <1>2. /\ stage[p] = "read" /\ UNCHANGED <<lockVars, files, history, ops>>
        /\ seen' \in {seen, {}}
    BY DecideFrame DEF Reads
  <1>3. FileLockInv'
    BY <1>2 DEF lockVars, MemoryInv, FileLockInv, LockTypeOK, HolderHasFile
  <1>4. MemoryTypeOK'
    BY <1>1, <1>2 DEF files, history, MemoryInv, MemoryTypeOK
  <1>5. StagedInside'
    BY <1>1, <1>2 DEF lockVars, MemoryInv, MemoryTypeOK, StagedInside
  <1>6. PlanKeepsWanted'
    BY <1>1, <1>2 DEF lockVars, history, MemoryInv, MemoryTypeOK, PlanKeepsWanted, Keeps, Good
  <1>7. RememberedStays' /\ OnePerSubject'
    BY <1>2 DEF lockVars, files, history, MemoryInv, RememberedStays, OnePerSubject
  <1>8. ASSUME ~misremoved, NEW q \in Procs, stage'[q] \in {"entries", "metadata"}
        PROVE  q = p /\ st = "entries" /\ plan'[q] = w /\ Good(w)
    <2>1. q = p
      BY <1>1, <1>2, <1>8, StagedAlone DEF MemoryInv, MemoryTypeOK
    <2>2. stage'[p] = st /\ plan'[p] = w
      BY <1>1 DEF MemoryInv, MemoryTypeOK
    <2>3. QED BY <2>1, <2>2, <1>1, <1>8
  <1>9. misremoved' = misremoved
    BY <1>2 DEF lockVars
  <1>10. PlanListsActive'
    <2> SUFFICES ASSUME ~misremoved, NEW q \in Procs, stage'[q] \in {"entries", "metadata"}
                 PROVE  /\ \A c \in (Contents \ halfway') \cup Differs(q)' :
                             plan'[q].meta[c].status = "active" => c \in ToSet(plan'[q].value)
                        /\ stage'[q] # "metadata"
      BY <1>9 DEF PlanListsActive
    <2>1. q = p /\ st = "entries" /\ plan'[q] = w /\ Lists(w)
      BY <1>8 DEF Good
    <2>2. stage'[q] = "entries"
      BY <1>1, <2>1 DEF MemoryInv, MemoryTypeOK
    <2>3. Differs(q)' = Changes(w) /\ halfway' = halfway
      BY <1>2, <2>1 DEF files, history, Differs, Changes
    <2>4. QED BY <2>1, <2>2, <2>3 DEF Lists
  <1>11. PlanOnePerSubject'
    BY <1>2, <1>8, <1>9 DEF history, PlanOnePerSubject, Good, Single
  <1>12. ActiveIsListed'
    <2>1. misremoved \/ ListedNow
      BY <1>2, ReadsAgreeing
    <2>2. QED BY <2>1, <1>2, <1>9 DEF files, history, ListedNow, ActiveIsListed
  <1>13. QED BY <1>3, <1>4, <1>5, <1>6, <1>7, <1>10, <1>11, <1>12 DEF MemoryInv

-----------------------------------------------------------------------------
(* The entries are written: what was planned is what is wanted now, and    *)
(* nobody else has a plan.                                                 *)
LEMMA WriteEntriesInv ==
  ASSUME MemoryInv, NEW p \in Procs, WriteEntries(p)
  PROVE  MemoryInv'
  <1>1. FileLockInv'
    BY DEF WriteEntries, lockVars, MemoryInv, FileLockInv, LockTypeOK, HolderHasFile
  <1>2. plan[p] \in Plan
    BY DEF MemoryInv, MemoryTypeOK
  <1>3. MemoryTypeOK'
    <2>1. entries' \in Seq(Contents) /\ wanted' \subseteq Contents /\ both' \subseteq Subjects
      BY <1>2 DEF WriteEntries, Plan, MemoryInv, MemoryTypeOK
    <2>2. stamp' \in [Contents -> Nat]
      BY DEF WriteEntries, MemoryInv, MemoryTypeOK
    <2>3. stage' \in [Procs -> {"none", "read", "entries", "metadata", "conflict", "done"}]
      BY DEF WriteEntries, MemoryInv, MemoryTypeOK
    <2>4. QED BY <2>1, <2>2, <2>3 DEF WriteEntries, MemoryInv, MemoryTypeOK
  <1>4. StagedInside'
    BY DEF WriteEntries, lockVars, MemoryInv, MemoryTypeOK, StagedInside
  <1>5. misremoved \/ wanted' \subseteq ToSet(entries')
    BY DEF WriteEntries, MemoryInv, PlanKeepsWanted
  <1>6. ASSUME ~misremoved, NEW q \in Procs, stage'[q] = "entries" PROVE FALSE
    <2>1. q # p /\ stage[q] = "entries"
      BY <1>6 DEF WriteEntries, MemoryInv, MemoryTypeOK
    <2>2. QED BY <2>1, <1>6, StagedAlone DEF WriteEntries
  <1>7. misremoved' = misremoved
    BY DEF WriteEntries, lockVars
  <1>8. stage'[p] = "metadata" /\ stage[p] = "entries" /\ plan' = plan
    BY DEF WriteEntries, MemoryInv, MemoryTypeOK
  <1>9. PlanListsActive'
    <2> SUFFICES ASSUME ~misremoved, NEW q \in Procs, stage'[q] \in {"entries", "metadata"}
                 PROVE  /\ \A c \in (Contents \ halfway) \cup Differs(q) :
                             plan[q].meta[c].status = "active" => c \in ToSet(plan[q].value)
                        /\ entries' = plan[q].value
      BY <1>7, <1>8 DEF WriteEntries, PlanListsActive, Differs
    <2>1. q = p
      BY <1>8, StagedAlone DEF WriteEntries, MemoryInv, MemoryTypeOK
    <2>2. QED BY <2>1, <1>8 DEF WriteEntries, MemoryInv, PlanListsActive
  <1>10. ActiveIsListed'
    BY <1>8 DEF ActiveIsListed
  <1>11. PlanOnePerSubject'
    BY <1>6, <1>7 DEF PlanOnePerSubject
  <1>12. OnePerSubject'
    BY <1>7, <1>8 DEF WriteEntries, MemoryInv, PlanOnePerSubject, OnePerSubject
  <1>13. PlanKeepsWanted' /\ RememberedStays'
    BY <1>5, <1>6, <1>7 DEF PlanKeepsWanted, RememberedStays
  <1>14. QED BY <1>1, <1>3, <1>4, <1>9, <1>10, <1>11, <1>12, <1>13 DEF MemoryInv

LEMMA WriteOtherInv ==
  ASSUME MemoryInv, NEW p \in Procs, WriteMetadata(p) \/ WriteConflict(p)
  PROVE  MemoryInv'
  <1>1. /\ UNCHANGED <<lockVars, entries, plan, seen, wanted, stamp, both, ops>>
        /\ \E st \in {"conflict", "done"} : stage' = [stage EXCEPT ![p] = st]
        /\ stage[p] \in {"metadata", "conflict"}
    BY DEF WriteMetadata, WriteConflict, history
  <1>2. FileLockInv'
    BY <1>1 DEF lockVars, MemoryInv, FileLockInv, LockTypeOK, HolderHasFile
  <1>3. plan[p] \in Plan
    BY DEF MemoryInv, MemoryTypeOK
  <1>4. meta' \in [Contents -> Record] /\ halfway' \subseteq Contents
        /\ pending' \subseteq [existing : Contents, proposed : Contents]
    BY <1>3 DEF WriteMetadata, WriteConflict, history, Plan, MemoryInv, MemoryTypeOK
  <1>5. MemoryTypeOK'
    BY <1>1, <1>4 DEF MemoryInv, MemoryTypeOK
  <1>6. StagedInside'
    BY <1>1 DEF lockVars, MemoryInv, MemoryTypeOK, StagedInside
  <1>7. PlanKeepsWanted' /\ RememberedStays' /\ OnePerSubject'
    BY <1>1 DEF lockVars, MemoryInv, MemoryTypeOK, PlanKeepsWanted, RememberedStays, OnePerSubject
  <1>8. misremoved' = misremoved
    BY <1>1 DEF lockVars
  <1>9. ASSUME ~misremoved, NEW q \in Procs, stage'[q] \in {"entries", "metadata"} PROVE FALSE
    <2>1. q # p /\ stage[q] # "none"
      BY <1>1, <1>9 DEF MemoryInv, MemoryTypeOK
    <2>2. QED BY <2>1, <1>1, <1>9, StagedAlone
  <1>10. PlanListsActive' /\ PlanOnePerSubject'
    BY <1>8, <1>9 DEF PlanListsActive, PlanOnePerSubject
  <1>11. ActiveIsListed'
    <2>1. CASE WriteMetadata(p)
      BY <2>1, <1>8 DEF WriteMetadata, MemoryInv, PlanListsActive, ActiveIsListed, Differs
    <2>2. CASE WriteConflict(p)
      <3>1. ~misremoved => \A q \in Procs : stage[q] # "metadata"
        BY <2>2, StagedAlone DEF WriteConflict
      <3>2. QED BY <2>2, <3>1, <1>8 DEF WriteConflict, files, history, MemoryInv, ActiveIsListed
    <2>3. QED BY <2>1, <2>2
  <1>12. QED BY <1>2, <1>5, <1>6, <1>7, <1>10, <1>11 DEF MemoryInv

(* Steps of the lock: the file or the place in the with-block changes,     *)
(* never the memory.                                                       *)
LEMMA LockPartInv ==
  ASSUME MemoryInv, LockNext
  PROVE  FileLockInv' /\ (misremoved => misremoved')
  <1>1. FileLockInv'
    BY LockStepInv DEF MemoryInv
  <1>2. misremoved => misremoved'
    BY DEF LockNext, Try, Create, FindStale, UnlinkStale, GiveUp, Leave, Die, GrowOld
  <1>3. QED BY <1>1, <1>2

LEMMA AroundInv ==
  ASSUME MemoryInv, NEW p \in Procs, Begin(p) \/ Enter(p) \/ Wait(p) \/ Exit(p) \/ Crash(p)
  PROVE  MemoryInv'
  <1>1. LockNext
    BY DEF LockNext, Begin, Enter, Wait, Exit, Crash
  <1>2. FileLockInv' /\ (misremoved => misremoved')
    BY <1>1, LockPartInv
  <1>3. /\ UNCHANGED <<files, seen, wanted, stamp, both>> /\ ops' \in {ops, ops + 1}
        /\ halfway' \in {halfway, halfway \cup Differs(p)}
    BY DEF Begin, Enter, Wait, Exit, Crash, Untouched, history
  <1>4. \/ stage' = stage /\ plan' = plan /\ at[p] # "in" /\ \E a \in {"out", "trying", "unlinking"} : at' = [at EXCEPT ![p] = a]
        \/ stage' = [stage EXCEPT ![p] = "read"] /\ plan' = plan /\ at' = [at EXCEPT ![p] = "in"]
        \/ stage' = [stage EXCEPT ![p] = "none"] /\ plan' = [plan EXCEPT ![p] = Nothing] /\ at' = [at EXCEPT ![p] = "out"]
    BY DEF Begin, Enter, Wait, Exit, Crash, work, Try, Create, FindStale, UnlinkStale, GiveUp, Leave, Die, Move
  <1>5. MemoryTypeOK'
    <2>1. plan' \in [Procs -> Plan] /\ stage' \in [Procs -> {"none", "read", "entries", "metadata", "conflict", "done"}]
      BY <1>4, NothingIsPlan DEF MemoryInv, MemoryTypeOK
    <2>2. halfway' \subseteq Contents /\ ops' \in Nat
      BY <1>3 DEF Differs, MemoryInv, MemoryTypeOK
    <2>3. QED BY <1>3, <2>1, <2>2 DEF files, MemoryInv, MemoryTypeOK
  <1>6. StagedInside'
    BY <1>4 DEF MemoryInv, MemoryTypeOK, FileLockInv, LockTypeOK, StagedInside
  <1>7. ASSUME NEW q \in Procs, stage'[q] = "entries" PROVE stage[q] = "entries" /\ plan'[q] = plan[q]
    BY <1>4, <1>7 DEF MemoryInv, MemoryTypeOK
  <1>8. PlanKeepsWanted'
    BY <1>2, <1>3, <1>7 DEF MemoryInv, PlanKeepsWanted
  <1>9. RememberedStays' /\ OnePerSubject'
    BY <1>2, <1>3 DEF files, MemoryInv, RememberedStays, OnePerSubject
  <1>10. ASSUME NEW q \in Procs, stage'[q] \in {"entries", "metadata"}
         PROVE  stage[q] = stage'[q] /\ plan'[q] = plan[q]
    BY <1>4, <1>10 DEF MemoryInv, MemoryTypeOK
  <1>11. PlanOnePerSubject'
    BY <1>2, <1>3, <1>10 DEF MemoryInv, PlanOnePerSubject
  <1>12. PlanListsActive' /\ ActiveIsListed'
    <2>1. CASE stage[p] # "metadata"
      <3>1. halfway' = halfway
        BY <2>1 DEF Begin, Enter, Wait, Exit, Crash, Untouched, history
      <3>2. \A q \in Procs : stage[q] = "metadata" => stage'[q] = "metadata"
        BY <2>1, <1>4 DEF MemoryInv, MemoryTypeOK
      <3>3. ActiveIsListed'
        BY <1>2, <1>3, <3>1, <3>2 DEF files, MemoryInv, ActiveIsListed
      <3>4. PlanListsActive'
        BY <1>2, <1>3, <1>10, <3>1 DEF files, MemoryInv, PlanListsActive, Differs
      <3>5. QED BY <3>3, <3>4
    <2>2. CASE stage[p] = "metadata"
      <3>1. at[p] = "in"
        BY <2>2 DEF MemoryInv, StagedInside
      <3>2. Crash(p)
        BY <2>2, <3>1 DEF Begin, Enter, Wait, Exit, Try, Create, FindStale, UnlinkStale, GiveUp, Move
      <3>3. misremoved' = misremoved /\ halfway' = halfway \cup Differs(p) /\ UNCHANGED files
            /\ stage' = [stage EXCEPT ![p] = "none"]
        BY <2>2, <3>2 DEF Crash, Die
      <3>4. ASSUME ~misremoved, NEW q \in Procs PROVE stage'[q] \notin {"entries", "metadata"}
        BY <2>2, <3>3, <3>4, StagedAlone DEF MemoryInv, MemoryTypeOK
      <3>5. PlanListsActive'
        BY <3>3, <3>4 DEF PlanListsActive
      <3>6. ActiveIsListed'
        BY <2>2, <3>3 DEF files, MemoryInv, PlanListsActive, ActiveIsListed, Differs
      <3>7. QED BY <3>5, <3>6
    <2>3. QED BY <2>1, <2>2
  <1>13. QED BY <1>2, <1>5, <1>6, <1>8, <1>9, <1>11, <1>12 DEF MemoryInv

LEMMA OtherInv ==
  ASSUME MemoryInv, Consult \/ TimePasses \/ UNCHANGED vars
  PROVE  MemoryInv'
  <1>1. UNCHANGED <<at, misremoved, files, work, history, ops>>
    BY DEF Consult, TimePasses, GrowOld, Untouched, vars, lockVars
  <1>2. FileLockInv'
    BY LockStepInv DEF MemoryInv, LockNext, Consult, TimePasses, vars
  <1>3. seen' \subseteq [content : Contents, rev : Nat, at : Nat]
    <2>1. CASE Consult
      <3>1. \A c \in ToSet(entries) : c \in Contents
        BY DEF ToSet, MemoryInv, MemoryTypeOK
      <3>2. \A c \in Contents : Revision(c) \in Nat /\ stamp[c] \in Nat
        BY RevisionType DEF MemoryInv, MemoryTypeOK
      <3>3. QED BY <2>1, <3>1, <3>2 DEF Consult
    <2>2. CASE ~Consult
      BY <2>2 DEF TimePasses, Untouched, vars, MemoryInv, MemoryTypeOK
    <2>3. QED BY <2>1, <2>2
  <1>4. MemoryTypeOK'
    BY <1>1, <1>3 DEF files, work, history, MemoryInv, MemoryTypeOK
  <1>5. StagedInside' /\ PlanKeepsWanted' /\ RememberedStays'
    BY <1>1 DEF files, work, history, MemoryInv, StagedInside, PlanKeepsWanted, RememberedStays
  <1>6. PlanListsActive' /\ ActiveIsListed'
    BY <1>1 DEF files, work, history, MemoryInv, PlanListsActive, ActiveIsListed, Differs
  <1>7. PlanOnePerSubject' /\ OnePerSubject'
    BY <1>1 DEF files, work, history, MemoryInv, PlanOnePerSubject, OnePerSubject
  <1>8. QED BY <1>2, <1>4, <1>5, <1>6, <1>7 DEF MemoryInv

LEMMA MemoryInit == Init => MemoryInv
  <1> SUFFICES ASSUME Init PROVE MemoryInv
    OBVIOUS
  <1>1. FileLockInv
    BY LockInitInv DEF Init
  <1>2. MemoryTypeOK
    BY NothingIsPlan DEF Init, MemoryTypeOK, Record, NoRecord
  <1>3. StagedInside /\ PlanKeepsWanted /\ RememberedStays
    BY DEF Init, LockInit, StagedInside, PlanKeepsWanted, RememberedStays
  <1>4. PlanListsActive /\ ActiveIsListed /\ PlanOnePerSubject /\ OnePerSubject
    BY DEF Init, PlanListsActive, ActiveIsListed, PlanOnePerSubject, OnePerSubject, NoRecord
  <1>5. QED BY <1>1, <1>2, <1>3, <1>4 DEF MemoryInv

LEMMA MemoryStep == MemoryInv /\ [Next]_vars => MemoryInv'
  BY DecideInv, WriteEntriesInv, WriteOtherInv, AroundInv, OtherInv DEF Next, Step

(* MemoryInv, on which the theorems below rest, holds in every state of    *)
(* the memory: types, the lock, and plans that are up to date.             *)
THEOREM MemoryInvariant == Spec => []MemoryInv
  BY MemoryInit, MemoryStep, PTL DEF Spec

(* No update is lost: what was remembered, and neither forgotten nor       *)
(* replaced since, is in MEMORY.md whatever any number of processes do and *)
(* wherever they die, as far as the lock file is removed by nobody else    *)
(* (semantic.py 262-494).                                                  *)
THEOREM NothingRememberedIsLost == Spec => []RememberedStays
  <1>1. MemoryInv => RememberedStays
    BY DEF MemoryInv
  <1>2. QED BY <1>1, MemoryInvariant, PTL

(* The two files agree wherever no process died between their writes: a    *)
(* record that the metadata calls active is an entry (semantic.py 396-418, *)
(* 460-463), for the writes of one operation are made from files nobody    *)
(* else changes until both are written.                                    *)
THEOREM MetadataAgrees == Spec => []ActiveIsListed
  <1>1. MemoryInv => ActiveIsListed
    BY DEF MemoryInv
  <1>2. QED BY <1>1, MemoryInvariant, PTL

(* However the memory is changed, no two entries are about the same unless *)
(* somebody chose to keep both: the check of _replace_record_locked and    *)
(* that of remember are made on the entries that the write replaces        *)
(* (semantic.py 262-324, 379-391).                                         *)
THEOREM NoHiddenConflict == Spec => []OnePerSubject
  <1>1. MemoryInv => OnePerSubject
    BY DEF MemoryInv
  <1>2. QED BY <1>1, MemoryInvariant, PTL
=============================================================================
