------------------------- MODULE WorkingContextProofs -------------------------
(***************************************************************************)
(* The conversation survives compactions and deaths of the process, for    *)
(* any number of messages, deaths, calls in a round and updates:           *)
(* ContextInv is an inductive invariant, and with it no message is         *)
(* forgotten, the log says what the memory holds, and a request shows the  *)
(* context it had to show.  RoundsInv is inductive beside it: calls and    *)
(* results stay together.                                                  *)
(***************************************************************************)
EXTENDS WorkingContext, SequenceTheorems, FiniteSetTheorems, WellFoundedInduction, TLAPS

-----------------------------------------------------------------------------
(* Numbers: induction, and the least and the greatest of a set.            *)
LEMMA SetInduction ==
  ASSUME NEW P, 0 \in P, \A n \in Nat : n \in P => n + 1 \in P
  PROVE  \A n \in Nat : n \in P
  <1> SUFFICES ASSUME NEW k \in Nat, k \notin P PROVE FALSE
    OBVIOUS
  <1> DEFINE missing == {n \in Nat : n \notin P}
  <1>1. PICK n \in missing : \A m \in missing : ~(<<m, n>> \in OpToRel(<, Nat))
    <2>1. missing \subseteq Nat /\ missing # {}
      OBVIOUS
    <2> HIDE DEF missing
    <2>2. QED BY <2>1, WFMin, NatLessThanWellFounded, Zenon
  <1>2. n # 0 /\ n \in Nat
    BY <1>1
  <1>3. n - 1 \in Nat /\ n - 1 < n /\ (n - 1) + 1 = n
    BY <1>2
  <1>4. <<n - 1, n>> \in OpToRel(<, Nat)
    BY <1>2, <1>3 DEF OpToRel
  <1>5. n - 1 \in P
    BY <1>1, <1>3, <1>4
  <1>6. QED BY <1>1, <1>3, <1>5

LEMMA MinIs ==
  ASSUME NEW S \in SUBSET Nat, S # {}
  PROVE  Min(S) \in S /\ \A x \in S : Min(S) <= x
  <1>1. PICK n \in S : \A m \in S : ~(<<m, n>> \in OpToRel(<, Nat))
    BY WFMin, NatLessThanWellFounded, Zenon
  <1>2. \A x \in S : n <= x
    <2> SUFFICES ASSUME NEW x \in S, ~(n <= x) PROVE FALSE
      OBVIOUS
    <2>1. <<x, n>> \in OpToRel(<, Nat)
      BY DEF OpToRel
    <2>2. QED BY <1>1, <2>1
  <1>3. QED BY <1>2 DEF Min

LEMMA MaxIs ==
  ASSUME NEW n \in Nat, NEW S \in SUBSET (0 .. n), S # {}
  PROVE  Max(S) \in S /\ \A x \in S : x <= Max(S)
  <1> DEFINE T == {i \in Nat : i <= n /\ n - i \in S}
  <1>1. T \subseteq Nat /\ T # {}
    <2>1. PICK x \in S : TRUE
      OBVIOUS
    <2>2. x \in 0 .. n /\ n - x \in Nat /\ n - (n - x) = x
      OBVIOUS
    <2>3. n - x \in T
      BY <2>2
    <2>4. QED BY <2>3
  <1>2. Min(T) \in T /\ \A x \in T : Min(T) <= x
    <2> HIDE DEF T
    <2>1. QED BY <1>1, MinIs
  <1>3. PICK t \in T : \A x \in T : t <= x
    BY <1>2
  <1>4. n - t \in S
    BY <1>3
  <1>5. ASSUME NEW x \in S PROVE x <= n - t
    <2>1. x \in 0 .. n /\ n - x \in Nat /\ n - (n - x) = x
      OBVIOUS
    <2>2. n - x \in T
      BY <2>1
    <2>3. t <= n - x
      BY <1>3, <2>2
    <2>4. QED BY <2>1, <2>3, <1>3
  <1>6. QED BY <1>4, <1>5 DEF Max

-----------------------------------------------------------------------------
(* Messages. *)
LEMMA MessageIs ==
  ASSUME NEW n \in Nat, NEW m \in MessagesUpTo(n)
  PROVE  /\ m.id \in 0 .. n
         /\ m.id = 0 <=> m.kind = "summary"
         /\ m.id = 0 => m = Summary
         /\ m.kind = "calls" => m.n \in 1 .. MaxRound
         /\ m.kind = "update" => m.delta \in Delta
  BY DEF MessagesUpTo, Summary

LEMMA MessagesGrow ==
  ASSUME NEW n \in Nat, NEW k \in Nat, n <= k
  PROVE  MessagesUpTo(n) \subseteq MessagesUpTo(k)
  BY DEF MessagesUpTo

LEMMA NewMessages ==
  ASSUME NEW n \in Nat \ {0}
  PROVE  /\ User(n) \in MessagesUpTo(n) /\ User(n).id = n /\ User(n).kind = "user"
         /\ Text(n) \in MessagesUpTo(n) /\ Text(n).id = n /\ Text(n).kind = "text"
         /\ \A c \in 1 .. MaxRound :
              Calls(n, c) \in MessagesUpTo(n) /\ Calls(n, c).id = n /\ Calls(n, c).kind = "calls"
         /\ \A c \in 1 .. n :
              Result(n, c) \in MessagesUpTo(n) /\ Result(n, c).id = n /\ Result(n, c).kind = "result"
         /\ \A d \in Delta :
              /\ Update(n, d) \in MessagesUpTo(n) /\ Update(n, d).id = n
              /\ Update(n, d).kind = "update" /\ Update(n, d).delta = d
  BY DEF MessagesUpTo, Summary, User, Text, Calls, Result, Update

LEMMA SummaryIs ==
  ASSUME NEW n \in Nat
  PROVE  Summary \in MessagesUpTo(n) /\ Summary.id = 0 /\ Summary.kind = "summary"
  BY DEF MessagesUpTo, Summary

(* The ids of a list that has grown by one message.                        *)
LEMMA IdsOfAppend ==
  ASSUME NEW S, NEW ms \in Seq(S), NEW m, m.id # 0
  PROVE  IdsOf(Append(ms, m)) = IdsOf(ms) \cup {m.id}
  <1>1. DOMAIN Append(ms, m) = DOMAIN ms \cup {Len(ms) + 1}
    OBVIOUS
  <1>2. \A i \in DOMAIN ms : Append(ms, m)[i] = ms[i]
    OBVIOUS
  <1>3. Append(ms, m)[Len(ms) + 1] = m
    OBVIOUS
  <1>4. QED BY <1>1, <1>2, <1>3 DEF IdsOf

LEMMA IdsOfEmpty == IdsOf(<< >>) = {}
  BY DEF IdsOf

(* Increasing ids. *)
Rising(ms) == \A i, j \in DOMAIN ms : i < j => ms[i].id < ms[j].id

LEMMA RisingOnce ==
  ASSUME NEW n \in Nat, NEW ms \in Seq(MessagesUpTo(n)), Rising(ms),
         NEW i \in DOMAIN ms, NEW j \in DOMAIN ms
  PROVE  /\ ms[i].id = ms[j].id => i = j
         /\ ms[i].id <= ms[j].id <=> i <= j
  <1>1. ms[i].id \in 0 .. n /\ ms[j].id \in 0 .. n
    BY MessageIs
  <1>2. i \in Nat /\ j \in Nat
    OBVIOUS
  <1>3. CASE i = j
    BY <1>1, <1>2, <1>3
  <1>4. CASE i < j
    BY <1>1, <1>2, <1>4 DEF Rising
  <1>5. CASE j < i
    BY <1>1, <1>2, <1>5 DEF Rising
  <1>6. QED BY <1>2, <1>3, <1>4, <1>5

(* A list from a position on, behind a summary.                            *)
From(ms, a) == <<Summary>> \o SubSeq(ms, a, Len(ms))

LEMMA FromIs ==
  ASSUME NEW n \in Nat, NEW ms \in Seq(MessagesUpTo(n)), NEW a \in 1 .. Len(ms)
  PROVE  /\ From(ms, a) \in Seq(MessagesUpTo(n))
         /\ Len(From(ms, a)) = Len(ms) - a + 2
         /\ From(ms, a)[1] = Summary
         /\ \A i \in 2 .. Len(ms) - a + 2 : From(ms, a)[i] = ms[a + i - 2]
  <1> DEFINE S == MessagesUpTo(n)
             t == SubSeq(ms, a, Len(ms))
             u == <<Summary>>
  <1>1. /\ t \in Seq(S) /\ Len(t) = Len(ms) - a + 1
        /\ \A i \in 1 .. Len(ms) - a + 1 : t[i] = ms[a + i - 1]
    <2>1. \A i \in a .. Len(ms) : ms[i] \in S
      OBVIOUS
    <2> HIDE DEF S
    <2>2. a \in Int /\ Len(ms) \in Int /\ a <= Len(ms)
      OBVIOUS
    <2>3. QED BY <2>1, <2>2, SubSeqProperties
  <1>2. u \in Seq(S) /\ Len(u) = 1 /\ u[1] = Summary
    BY SummaryIs
  <1>3. From(ms, a) = u \o t
    BY DEF From
  <1> HIDE DEF S, t, u
  <1>4. /\ u \o t \in Seq(S) /\ Len(u \o t) = 1 + Len(t)
        /\ \A i \in 1 .. 1 + Len(t) : (u \o t)[i] = IF i <= 1 THEN u[i] ELSE t[i - 1]
    <2>1. /\ u \o t \in Seq(S) /\ Len(u \o t) = Len(u) + Len(t)
          /\ \A i \in 1 .. Len(u) + Len(t) :
               (u \o t)[i] = IF i <= Len(u) THEN u[i] ELSE t[i - Len(u)]
      BY <1>1, <1>2, ConcatProperties, Zenon
    <2>2. QED BY <1>2, <2>1
  <1>5. ASSUME NEW i \in 2 .. Len(ms) - a + 2 PROVE From(ms, a)[i] = ms[a + i - 2]
    <2>1. i \in 1 .. 1 + Len(t) /\ ~(i <= 1) /\ i - 1 \in 1 .. Len(ms) - a + 1
      BY <1>1
    <2>2. a + (i - 1) - 1 = a + i - 2
      OBVIOUS
    <2>3. QED BY <1>1, <1>3, <1>4, <2>1, <2>2
  <1>6. 1 \in 1 .. 1 + Len(t) /\ 1 + Len(t) = Len(ms) - a + 2
    BY <1>1
  <1>7. QED BY <1>2, <1>3, <1>4, <1>5, <1>6 DEF S

(* What load reads, of any log and any compaction record.                  *)
LEMMA LoadIsRead == Load = Read(log, cut)
  BY DEF Load

(* A place at or behind a, counted in what follows a summary.              *)
LEMMA PlaceIn ==
  ASSUME NEW a \in Nat, NEW m \in Nat, NEW i \in Nat, i >= 2, a + i - 2 <= m
  PROVE  i \in 2 .. m - a + 2
  OBVIOUS

LEMMA ReadIs ==
  ASSUME NEW n \in Nat, NEW lg \in Seq(MessagesUpTo(n)), Rising(lg), NEW ct
  PROVE  /\ (\A i \in DOMAIN lg : lg[i].id # ct.first) =>
              Read(lg, ct) = [messages |-> lg, summary |-> {}]
         /\ \A a \in DOMAIN lg : lg[a].id = ct.first =>
              Read(lg, ct) = [messages |-> From(lg, a), summary |-> ct.covers]
  <1> DEFINE at == {i \in DOMAIN lg : lg[i].id = ct.first}
  <1>1. ASSUME \A i \in DOMAIN lg : lg[i].id # ct.first
        PROVE  Read(lg, ct) = [messages |-> lg, summary |-> {}]
    <2>1. at = {}
      BY <1>1
    <2>2. QED BY <2>1 DEF Read
  <1>2. ASSUME NEW a \in DOMAIN lg, lg[a].id = ct.first
        PROVE  Read(lg, ct) = [messages |-> From(lg, a), summary |-> ct.covers]
    <2>1. at = {a}
      BY <1>2, RisingOnce
    <2>2. Min(at) = a
      <3>1. at \in SUBSET Nat /\ at # {}
        BY <2>1
      <3> HIDE DEF at
      <3>2. Min(at) \in at
        BY <3>1, MinIs
      <3>3. QED BY <2>1, <3>2
    <2>3. Read(lg, ct) = [messages |-> <<Summary>> \o SubSeq(lg, Min(at), Len(lg)), summary |-> ct.covers]
      BY <2>1 DEF Read
    <2> HIDE DEF at
    <2>4. QED BY <2>2, <2>3 DEF From
  <1>3. QED BY <1>1, <1>2

(* What is read is in order, and is everything that was logged or stands   *)
(* behind the summary.                                                     *)
LEMMA ReadKeeps ==
  ASSUME NEW n \in Nat, NEW lg \in Seq(MessagesUpTo(n)), Rising(lg),
         \A i \in DOMAIN lg : lg[i].id > 0,
         NEW ct \in [first : 0 .. n, covers : SUBSET (1 .. n)]
  PROVE  LET l == Read(lg, ct) IN
         /\ l.messages \in Seq(MessagesUpTo(n)) /\ Rising(l.messages)
         /\ l.summary \in SUBSET (1 .. n)
         /\ IdsOf(lg) \subseteq {i \in IdsOf(lg) : i < ct.first} \cup IdsOf(l.messages)
  <1> DEFINE l == Read(lg, ct)
  <1>1. CASE \A i \in DOMAIN lg : lg[i].id # ct.first
    <2>1. l.messages = lg /\ l.summary = {}
      BY <1>1, ReadIs
    <2>2. QED BY <2>1
  <1>2. ASSUME NEW a \in DOMAIN lg, lg[a].id = ct.first
        PROVE  /\ l.messages \in Seq(MessagesUpTo(n)) /\ Rising(l.messages)
               /\ l.summary \in SUBSET (1 .. n)
               /\ IdsOf(lg) \subseteq {i \in IdsOf(lg) : i < ct.first} \cup IdsOf(l.messages)
    <2>1. l.messages = From(lg, a) /\ l.summary = ct.covers
      BY <1>2, ReadIs
    <2>2. a \in 1 .. Len(lg)
      OBVIOUS
    <2>3. /\ From(lg, a) \in Seq(MessagesUpTo(n))
          /\ Len(From(lg, a)) = Len(lg) - a + 2
          /\ From(lg, a)[1] = Summary
          /\ \A i \in 2 .. Len(lg) - a + 2 : From(lg, a)[i] = lg[a + i - 2]
      BY <2>2, FromIs
    <2> DEFINE f == From(lg, a)
    <2> HIDE DEF f
    <2>4. Rising(f)
      <3> SUFFICES ASSUME NEW i \in DOMAIN f, NEW j \in DOMAIN f, i < j
                   PROVE  f[i].id < f[j].id
        BY DEF Rising
      <3>1. i \in 1 .. Len(lg) - a + 2 /\ j \in 2 .. Len(lg) - a + 2
        BY <2>3 DEF f
      <3>2. f[j] = lg[a + j - 2] /\ a + j - 2 \in DOMAIN lg
        BY <3>1, <2>2, <2>3 DEF f
      <3>3. CASE i = 1
        <4>1. f[i].id = 0
          BY <3>3, <2>3 DEF f, Summary
        <4>2. f[j].id > 0
          BY <3>2
        <4>3. QED BY <4>1, <4>2
      <3>4. CASE i # 1
        <4>1. i \in 2 .. Len(lg) - a + 2
          BY <3>1, <3>4, <2>2
        <4>2. f[i] = lg[a + i - 2]
          BY <4>1, <2>3 DEF f
        <4>3. a + i - 2 \in DOMAIN lg /\ a + i - 2 < a + j - 2
          BY <3>1, <4>1, <2>2
        <4>4. QED BY <4>2, <4>3, <3>2 DEF Rising
      <3>5. QED BY <3>3, <3>4
    <2>5. ASSUME NEW x \in IdsOf(lg), ~(x < ct.first) PROVE x \in IdsOf(f)
      <3>1. PICK k \in DOMAIN lg : lg[k].id = x
        BY DEF IdsOf
      <3>2. x # 0 /\ x \in 0 .. n /\ ct.first \in 0 .. n
        BY <3>1, MessageIs DEF IdsOf
      <3>3. a <= k
        BY <1>2, <2>5, <3>1, <3>2, RisingOnce
      <3>4. k - a + 2 \in 2 .. Len(lg) - a + 2 /\ a + (k - a + 2) - 2 = k
        BY <3>3, <2>2
      <3>5. f[k - a + 2] = lg[k] /\ k - a + 2 \in DOMAIN f
        BY <3>4, <2>2, <2>3, SMTT(30) DEF f
      <3>6. QED BY <3>1, <3>2, <3>5 DEF IdsOf
    <2>6. QED BY <2>1, <2>3, <2>4, <2>5 DEF f
  <1>3. QED BY <1>1, <1>2

(* What is read when the last record of the log is gone.                    *)
LEMMA ReadWithoutLast ==
  ASSUME NEW n \in Nat, NEW lg \in Seq(MessagesUpTo(n)), Rising(lg), lg # << >>,
         \A i \in DOMAIN lg : lg[i].id > 0
  PROVE  LET lu == SubSeq(lg, 1, Len(lg) - 1) IN
         /\ lu \in Seq(MessagesUpTo(n)) /\ Rising(lu) /\ Len(lu) = Len(lg) - 1
         /\ \A i \in DOMAIN lu : i \in DOMAIN lg /\ lu[i] = lg[i]
         /\ IdsOf(lu) \subseteq IdsOf(lg)
         /\ IdsOf(lg) = IdsOf(lu) \cup {lg[Len(lg)].id} /\ lg[Len(lg)].id \notin IdsOf(lu)
         /\ \A ct : \A x \in IdsOf(lu) :
              x \in Read(lg, ct).summary \cup IdsOf(Read(lg, ct).messages) =>
              x \in Read(lu, ct).summary \cup IdsOf(Read(lu, ct).messages)
  <1> DEFINE S == MessagesUpTo(n)
             lu == SubSeq(lg, 1, Len(lg) - 1)
  <1>1. Len(lg) \in Nat \ {0} /\ DOMAIN lg = 1 .. Len(lg)
    BY EmptySeq
  <1>2. lu \in Seq(S) /\ Len(lu) = Len(lg) - 1 /\ \A i \in 1 .. Len(lg) - 1 : lu[i] = lg[i]
    <2>1. \A i \in 1 .. Len(lg) - 1 : lg[i] \in S
      BY <1>1
    <2> HIDE DEF S
    <2>2. 1 \in Int /\ Len(lg) - 1 \in Int /\ 1 <= Len(lg)
      BY <1>1
    <2>3. CASE Len(lg) - 1 >= 1
      BY <2>1, <2>2, <2>3, SubSeqProperties
    <2>4. CASE ~(Len(lg) - 1 >= 1)
      <3>1. lu = << >>
        BY <1>1, <2>4
      <3>2. QED BY <1>1, <2>4, <3>1
    <2>5. QED BY <2>3, <2>4
  <1> HIDE DEF lu
  <1>3. DOMAIN lu = 1 .. Len(lg) - 1 /\ \A i \in DOMAIN lu : i \in DOMAIN lg /\ lu[i] = lg[i]
    <2>1. DOMAIN lu = 1 .. Len(lg) - 1
      BY <1>2
    <2>2. QED BY <1>1, <1>2, <2>1
  <1>4. Rising(lu)
    BY <1>3 DEF Rising
  <1>5. IdsOf(lu) \subseteq IdsOf(lg)
    BY <1>3 DEF IdsOf
  <1>6. IdsOf(lg) = IdsOf(lu) \cup {lg[Len(lg)].id}
    <2>1. lg[Len(lg)].id > 0 /\ lg[Len(lg)].id # 0
      BY <1>1
    <2>2. \A i \in DOMAIN lg : i = Len(lg) \/ (i \in DOMAIN lu /\ lu[i] = lg[i])
      BY <1>1, <1>3
    <2>3. lg[Len(lg)].id \in IdsOf(lg)
      BY <1>1, <2>1 DEF IdsOf
    <2>4. ASSUME NEW x \in IdsOf(lg), x # lg[Len(lg)].id PROVE x \in IdsOf(lu)
      <3>1. PICK i \in DOMAIN lg : lg[i].id = x /\ x # 0
        BY DEF IdsOf
      <3>2. i \in DOMAIN lu /\ lu[i].id = x
        BY <2>2, <2>4, <3>1
      <3>3. QED BY <3>1, <3>2 DEF IdsOf
    <2>5. QED BY <1>5, <2>3, <2>4
  <1>7. lg[Len(lg)].id \notin IdsOf(lu)
    <2> SUFFICES ASSUME NEW i \in DOMAIN lu, lu[i].id = lg[Len(lg)].id PROVE FALSE
      BY DEF IdsOf
    <2>1. i \in DOMAIN lg /\ Len(lg) \in DOMAIN lg /\ lg[i].id = lg[Len(lg)].id
      BY <1>1, <1>3
    <2>2. i = Len(lg)
      BY <2>1, RisingOnce
    <2>3. QED BY <1>1, <1>3, <2>2
  <1> HIDE DEF S
  <1>8. ASSUME NEW ct, NEW x \in IdsOf(lu),
               x \in Read(lg, ct).summary \cup IdsOf(Read(lg, ct).messages)
        PROVE  x \in Read(lu, ct).summary \cup IdsOf(Read(lu, ct).messages)
    <2>1. CASE \A i \in DOMAIN lu : lu[i].id # ct.first
      <3>1. Read(lu, ct) = [messages |-> lu, summary |-> {}]
        BY <1>2, <1>4, <2>1, ReadIs DEF S
      <3>2. Read(lu, ct).messages = lu
        BY <3>1
      <3>3. QED BY <3>2
    <2>2. ASSUME NEW a \in DOMAIN lu, lu[a].id = ct.first
          PROVE  x \in Read(lu, ct).summary \cup IdsOf(Read(lu, ct).messages)
      <3>1. a \in DOMAIN lg /\ lg[a].id = ct.first /\ a \in 1 .. Len(lg) /\ a \in 1 .. Len(lu)
        BY <1>1, <1>2, <1>3, <2>2
      <3>2. Read(lu, ct) = [messages |-> From(lu, a), summary |-> ct.covers]
        BY <1>2, <1>4, <2>2, ReadIs DEF S
      <3>3. Read(lg, ct) = [messages |-> From(lg, a), summary |-> ct.covers]
        BY <3>1, ReadIs
      <3>4. CASE x \in ct.covers
        BY <3>2, <3>4
      <3>5. CASE x \in IdsOf(From(lg, a))
        <4>1. /\ Len(From(lg, a)) = Len(lg) - a + 2 /\ From(lg, a) \in Seq(S)
              /\ From(lg, a)[1] = Summary
              /\ \A i \in 2 .. Len(lg) - a + 2 : From(lg, a)[i] = lg[a + i - 2]
          BY <3>1, FromIs DEF S
        <4>2. PICK i \in DOMAIN From(lg, a) : From(lg, a)[i].id = x /\ x # 0
          BY <3>5 DEF IdsOf
        <4>3. Summary.id = 0
          BY DEF Summary
        <4>4. i \in 2 .. Len(lg) - a + 2 /\ lg[a + i - 2].id = x
          <5>1. i # 1
            BY <4>1, <4>2, <4>3
          <5>2. i \in 1 .. Len(lg) - a + 2
            BY <4>1
          <5>3. i \in 2 .. Len(lg) - a + 2
            BY <1>1, <3>1, <5>1, <5>2
          <5>4. QED BY <4>1, <4>2, <5>3
        <4>5. PICK q \in DOMAIN lu : lu[q].id = x
          BY DEF IdsOf
        <4>6. a + i - 2 \in DOMAIN lg /\ q \in DOMAIN lg /\ lg[q].id = x
          BY <1>1, <1>3, <3>1, <4>4, <4>5
        <4>7. q = a + i - 2
          BY <4>4, <4>6, RisingOnce
        <4>8. /\ Len(From(lu, a)) = Len(lu) - a + 2 /\ From(lu, a) \in Seq(S)
              /\ \A k \in 2 .. Len(lu) - a + 2 : From(lu, a)[k] = lu[a + k - 2]
          BY <1>2, <3>1, FromIs DEF S
        <4>9. i \in 2 .. Len(lu) - a + 2 /\ i \in DOMAIN From(lu, a)
          <5>1. q \in 1 .. Len(lu) /\ Len(lu) \in Nat
            BY <1>2
          <5>2. i \in 2 .. Len(lu) - a + 2
            <6>1. i \in Nat /\ i >= 2 /\ a \in Nat
              <7>1. Len(lg) \in Nat /\ a \in Nat
                BY <3>1, <5>1
              <7>2. QED BY <4>4, <7>1
            <6>2. a + i - 2 <= Len(lu)
              BY <4>7, <5>1
            <6>3. QED BY <5>1, <6>1, <6>2, PlaceIn
          <5>3. QED BY <4>8, <5>1, <5>2, <3>1
        <4>10. From(lu, a)[i] = lu[q]
          BY <4>7, <4>8, <4>9
        <4>11. x \in IdsOf(From(lu, a))
          BY <4>2, <4>5, <4>9, <4>10 DEF IdsOf
        <4>12. QED BY <3>2, <4>11
      <3>6. QED BY <1>8, <3>3, <3>4, <3>5
    <2>3. QED BY <2>1, <2>2
  <1>9. QED BY <1>2, <1>3, <1>4, <1>5, <1>6, <1>7, <1>8 DEF S, lu

-----------------------------------------------------------------------------
(* What the recovery leaves of the list it read. *)
LEMMA ResultsAfterIs ==
  ASSUME NEW S, NEW ms \in Seq(S), NEW i \in DOMAIN ms
  PROVE  /\ ResultsAfter(ms, i) \in 0 .. Len(ms) - i
         /\ \A j \in i + 1 .. i + ResultsAfter(ms, i) : ms[j].kind = "result"
         /\ i + ResultsAfter(ms, i) < Len(ms) => ms[i + ResultsAfter(ms, i) + 1].kind # "result"
  <1> DEFINE T == {n \in 0 .. Len(ms) - i : \A j \in i + 1 .. i + n : ms[j].kind = "result"}
  <1>1. Len(ms) - i \in Nat /\ 0 \in T
    OBVIOUS
  <1>2. T \in SUBSET (0 .. Len(ms) - i) /\ T # {}
    BY <1>1
  <1> HIDE DEF T
  <1>3. Max(T) \in T /\ \A x \in T : x <= Max(T)
    BY <1>1, <1>2, MaxIs
  <1>4. Max(T) = ResultsAfter(ms, i)
    BY DEF ResultsAfter, T
  <1> DEFINE r == ResultsAfter(ms, i)
  <1> HIDE DEF r
  <1>5. r \in 0 .. Len(ms) - i /\ \A j \in i + 1 .. i + r : ms[j].kind = "result"
    BY <1>2, <1>3, <1>4 DEF T, r
  <1>6. ASSUME i + r < Len(ms), ms[i + r + 1].kind = "result" PROVE FALSE
    <2>1. r + 1 \in 0 .. Len(ms) - i
      BY <1>5, <1>6
    <2>2. \A j \in i + 1 .. i + (r + 1) : j \in i + 1 .. i + r \/ j = i + r + 1
      BY <1>5, SMTT(30)
    <2>3. r + 1 \in T
      BY <1>5, <1>6, <2>1, <2>2 DEF T
    <2>4. r + 1 <= r
      BY <1>3, <1>4, <2>3 DEF r
    <2>5. QED BY <1>5, <2>4
  <1>7. QED BY <1>5, <1>6 DEF r

(* The results behind a message are the only stretch of that kind. *)
LEMMA OneStretch ==
  ASSUME NEW T, NEW l \in Nat, NEW i \in 1 .. l, NEW q \in 0 .. l - i, NEW r \in 0 .. l - i,
         \A j \in i + 1 .. i + q : j \in T, i + q < l => i + q + 1 \notin T,
         \A j \in i + 1 .. i + r : j \in T, i + r < l => i + r + 1 \notin T
  PROVE  q = r
  <1>1. CASE q < r
    <2>1. i + q + 1 \in i + 1 .. i + r /\ i + q < l
      BY <1>1
    <2>2. QED BY <2>1
  <1>2. CASE r < q
    <2>1. i + r + 1 \in i + 1 .. i + q /\ i + r < l
      BY <1>2
    <2>2. QED BY <2>1
  <1>3. QED BY <1>1, <1>2

LEMMA ResultsAfterUnique ==
  ASSUME NEW S, NEW ms \in Seq(S), NEW i \in DOMAIN ms, NEW r \in 0 .. Len(ms) - i,
         \A j \in i + 1 .. i + r : ms[j].kind = "result",
         i + r < Len(ms) => ms[i + r + 1].kind # "result"
  PROVE  ResultsAfter(ms, i) = r
  <1> DEFINE q == ResultsAfter(ms, i)
  <1>1. /\ q \in 0 .. Len(ms) - i /\ \A j \in i + 1 .. i + q : ms[j].kind = "result"
        /\ i + q < Len(ms) => ms[i + q + 1].kind # "result"
    BY ResultsAfterIs
  <1> DEFINE T == {j \in Nat : ms[j].kind = "result"}
  <1>2. i \in 1 .. Len(ms) /\ Len(ms) \in Nat
    OBVIOUS
  <1>3. \A j \in i + 1 .. i + r : j \in T
    BY <1>2
  <1>4. i + r < Len(ms) => i + r + 1 \notin T
    OBVIOUS
  <1> HIDE DEF q
  <1>5. \A j \in i + 1 .. i + q : j \in T
    BY <1>1, <1>2
  <1>6. i + q < Len(ms) => i + q + 1 \notin T
    BY <1>1
  <1> HIDE DEF T
  <1>7. q = r
    BY <1>1, <1>2, <1>3, <1>4, <1>5, <1>6, OneStretch
  <1>8. QED BY <1>7 DEF q

(* What is left without the first incomplete round, at i with r - 1        *)
(* results, or else the list as it was.                                    *)
LeavesOut(S, ms, i, r, d) ==
  /\ ms[i].kind = "calls" /\ ~Complete(ms, i) /\ r = ResultsAfter(ms, i) + 1
  /\ \A k \in 1 .. i - 1 : ms[k].kind = "calls" => Complete(ms, k)
  /\ i + r - 1 <= Len(ms)
  /\ d \in Seq(S) /\ Len(d) = Len(ms) - r
  /\ \A k \in 1 .. Len(ms) - r : d[k] = ms[IF k < i THEN k ELSE k + r]

AllComplete(ms) == \A k \in DOMAIN ms : ms[k].kind = "calls" => Complete(ms, k)

LEMMA DropIs ==
  ASSUME NEW S, NEW ms \in Seq(S), ~AllComplete(ms)
  PROVE  \E i \in DOMAIN ms, r \in Nat \ {0} : LeavesOut(S, ms, i, r, DropIncompleteRound(ms))
  <1> DEFINE bad == {i \in DOMAIN ms : ms[i].kind = "calls" /\ ~Complete(ms, i)}
             i == Min(bad)
             r == ResultsAfter(ms, i) + 1
             before == SubSeq(ms, 1, i - 1)
             after == SubSeq(ms, i + r, Len(ms))
  <1>1. bad # {}
    BY DEF AllComplete
  <1>2. /\ i \in DOMAIN ms /\ ms[i].kind = "calls" /\ ~Complete(ms, i)
        /\ \A k \in 1 .. i - 1 : ms[k].kind = "calls" => Complete(ms, k)
    <2>1. bad \in SUBSET Nat
      OBVIOUS
    <2>2. /\ bad \subseteq DOMAIN ms /\ \A k \in bad : ms[k].kind = "calls" /\ ~Complete(ms, k)
          /\ \A k \in DOMAIN ms : ms[k].kind = "calls" /\ ~Complete(ms, k) => k \in bad
      OBVIOUS
    <2> HIDE DEF bad
    <2>3. i \in bad /\ \A k \in bad : i <= k
      BY <1>1, <2>1, MinIs
    <2> HIDE DEF i
    <2>4. \A k \in 1 .. i - 1 : k \in DOMAIN ms /\ ~(i <= k)
      BY <2>2, <2>3
    <2>5. QED BY <2>2, <2>3, <2>4
  <1>3. DropIncompleteRound(ms)
          = SubSeq(ms, 1, i - 1) \o SubSeq(ms, i + ResultsAfter(ms, i) + 1, Len(ms))
    BY <1>1 DEF DropIncompleteRound
  <1> HIDE DEF bad, i
  <1>4. ResultsAfter(ms, i) \in 0 .. Len(ms) - i
    BY <1>2, ResultsAfterIs
  <1>5. i \in 1 .. Len(ms) /\ r \in Nat \ {0} /\ i + r - 1 <= Len(ms) /\ i + ResultsAfter(ms, i) + 1 = i + r
    BY <1>2, <1>4, SMTT(30)
  <1>6. DropIncompleteRound(ms) = before \o after
    BY <1>3, <1>5
  <1>13. r = ResultsAfter(ms, i) + 1
    OBVIOUS
  <1> HIDE DEF r
  <1>7. /\ before \in Seq(S) /\ Len(before) = i - 1
        /\ \A k \in 1 .. i - 1 : before[k] = ms[k]
    <2>1. \A k \in 1 .. i - 1 : ms[k] \in S
      BY <1>5
    <2>2. 1 \in Int /\ i - 1 \in Int
      BY <1>5
    <2>3. /\ before \in Seq(S) /\ Len(before) = IF 1 <= i - 1 THEN (i - 1) - 1 + 1 ELSE 0
          /\ \A k \in 1 .. (i - 1) - 1 + 1 : before[k] = ms[1 + k - 1]
      BY <2>1, <2>2, SubSeqProperties
    <2> HIDE DEF before
    <2>4. QED BY <1>5, <2>3
  <1>8. /\ after \in Seq(S) /\ Len(after) = Len(ms) - (i + r) + 1
        /\ \A k \in 1 .. Len(ms) - (i + r) + 1 : after[k] = ms[i + r + k - 1]
    <2>1. \A k \in i + r .. Len(ms) : ms[k] \in S
      BY <1>5
    <2>2. i + r \in Int /\ Len(ms) \in Int
      BY <1>5
    <2>3. /\ after \in Seq(S) /\ Len(after) = IF i + r <= Len(ms) THEN Len(ms) - (i + r) + 1 ELSE 0
          /\ \A k \in 1 .. Len(ms) - (i + r) + 1 : after[k] = ms[(i + r) + k - 1]
      BY <2>1, <2>2, SubSeqProperties
    <2> HIDE DEF after
    <2>4. Len(ms) \in Nat /\ i + r <= Len(ms) + 1
      BY <1>5
    <2>5. Len(after) = Len(ms) - (i + r) + 1
      <3>1. CASE i + r <= Len(ms)
        BY <2>3, <3>1
      <3>2. CASE ~(i + r <= Len(ms))
        <4>1. Len(after) = 0
          BY <2>3, <3>2
        <4>2. Len(ms) - (i + r) + 1 = 0
          BY <1>5, <2>4, <3>2
        <4>3. QED BY <4>1, <4>2
      <3>3. QED BY <3>1, <3>2
    <2>6. QED BY <2>3, <2>5
  <1> HIDE DEF before, after
  <1>9. /\ before \o after \in Seq(S)
        /\ Len(before \o after) = Len(before) + Len(after)
        /\ \A k \in 1 .. Len(before) + Len(after) :
             (before \o after)[k] = IF k <= Len(before) THEN before[k] ELSE after[k - Len(before)]
    BY <1>7, <1>8, ConcatProperties
  <1>10. Len(before) + Len(after) = Len(ms) - r
    BY <1>5, <1>7, <1>8
  <1>11. ASSUME NEW k \in 1 .. Len(ms) - r
         PROVE  DropIncompleteRound(ms)[k] = ms[IF k < i THEN k ELSE k + r]
    <2>1. DropIncompleteRound(ms)[k] = IF k <= i - 1 THEN before[k] ELSE after[k - (i - 1)]
      BY <1>6, <1>7, <1>9, <1>10
    <2>2. CASE k < i
      <3>1. k \in 1 .. i - 1 /\ k <= i - 1
        BY <1>5, <2>2
      <3>2. QED BY <2>1, <2>2, <3>1, <1>7
    <2>3. CASE ~(k < i)
      <3>1. /\ k - (i - 1) \in 1 .. Len(ms) - (i + r) + 1 /\ ~(k <= i - 1)
            /\ i + r + (k - (i - 1)) - 1 = k + r
        BY <1>5, <2>3
      <3>2. QED BY <2>1, <2>3, <3>1, <1>8
    <2>4. QED BY <2>2, <2>3
  <1>12. LeavesOut(S, ms, i, r, DropIncompleteRound(ms))
    BY <1>2, <1>5, <1>6, <1>9, <1>10, <1>11, <1>13 DEF LeavesOut
  <1>14. QED BY <1>2, <1>5, <1>12

LEMMA DropsNone ==
  ASSUME NEW ms, AllComplete(ms)
  PROVE  DropIncompleteRound(ms) = ms
  BY DEF DropIncompleteRound, AllComplete

(* What is left of a list in order is in order, and never behind it.       *)
LEMMA DropKeepsOrder ==
  ASSUME NEW n \in Nat, NEW ms \in Seq(MessagesUpTo(n)), Rising(ms)
  PROVE  LET d == DropIncompleteRound(ms) IN
         /\ d \in Seq(MessagesUpTo(n)) /\ Rising(d)
         /\ Len(d) <= Len(ms) /\ (Len(d) = Len(ms) => d = ms)
         /\ \A k \in DOMAIN d : ms[k].id <= d[k].id
  <1> DEFINE d == DropIncompleteRound(ms)
             S == MessagesUpTo(n)
  <1>1. CASE d = ms
    <2>1. \A k \in DOMAIN ms : ms[k].id <= ms[k].id
      BY MessageIs
    <2>2. QED BY <1>1, <2>1
  <1>2. CASE d # ms
    <2>8. PICK i \in DOMAIN ms, r \in Nat \ {0} : LeavesOut(S, ms, i, r, d)
      <3>1. ms \in Seq(S) /\ ~AllComplete(ms)
        BY <1>2, DropsNone
      <3> HIDE DEF S
      <3>2. QED BY <3>1, DropIs, Zenon DEF d
    <2> HIDE DEF d
    <2>1. /\ i + r - 1 <= Len(ms)
          /\ d \in Seq(S) /\ Len(d) = Len(ms) - r
          /\ \A k \in 1 .. Len(ms) - r : d[k] = ms[IF k < i THEN k ELSE k + r]
      BY <2>8 DEF LeavesOut
    <2> DEFINE at(k) == IF k < i THEN k ELSE k + r
    <2>2. \A k \in DOMAIN d : at(k) \in DOMAIN ms /\ k \in DOMAIN ms /\ k <= at(k) /\ d[k] = ms[at(k)]
      <3>1. /\ Len(ms) \in Nat /\ DOMAIN ms = 1 .. Len(ms) /\ DOMAIN d = 1 .. Len(ms) - r
            /\ i \in Nat /\ r \in Nat /\ r > 0
        BY <2>1
      <3>2. \A k \in 1 .. Len(ms) - r : at(k) \in 1 .. Len(ms) /\ k \in 1 .. Len(ms) /\ k <= at(k)
        BY <3>1
      <3>3. \A k \in 1 .. Len(ms) - r : d[k] = ms[at(k)]
        BY <2>1
      <3>4. QED BY <3>1, <3>2, <3>3
    <2>3. \A j, k \in DOMAIN d : j < k => at(j) < at(k)
      BY <2>1
    <2> HIDE DEF at
    <2>4. Rising(d)
      BY <2>2, <2>3 DEF Rising
    <2>5. \A k \in DOMAIN d : ms[k].id <= d[k].id
      BY <2>2, RisingOnce
    <2>6. Len(d) < Len(ms)
      BY <2>1
    <2>7. QED BY <2>1, <2>4, <2>5, <2>6 DEF d
  <1>3. QED BY <1>1, <1>2

-----------------------------------------------------------------------------
(* A message is appended. *)
LEMMA AppendIs ==
  ASSUME NEW S, NEW s \in Seq(S), NEW x \in S
  PROVE  /\ Append(s, x) \in Seq(S) /\ Len(Append(s, x)) = Len(s) + 1
         /\ \A i \in DOMAIN s : Append(s, x)[i] = s[i]
         /\ Append(s, x)[Len(s) + 1] = x
         /\ DOMAIN Append(s, x) = DOMAIN s \cup {Len(s) + 1}
  OBVIOUS

LEMMA SameInterval ==
  ASSUME NEW a \in Nat, NEW b \in Nat, 1 .. a = 1 .. b
  PROVE  a = b
  <1>1. CASE a < b
    <2>1. b \in 1 .. b /\ b \notin 1 .. a
      BY <1>1
    <2>2. QED BY <2>1
  <1>2. CASE b < a
    <2>1. a \in 1 .. a /\ a \notin 1 .. b
      BY <1>2
    <2>2. QED BY <2>1
  <1>3. QED BY <1>1, <1>2

LEMMA SeqIsFunction ==
  ASSUME NEW S, NEW s \in Seq(S)
  PROVE  s \in [DOMAIN s -> S]
  <1>1. s \in [1 .. Len(s) -> S] /\ DOMAIN s = 1 .. Len(s)
    OBVIOUS
  <1>2. QED BY <1>1

LEMMA RisingAppend ==
  ASSUME NEW n \in Nat, NEW ms \in Seq(MessagesUpTo(n)), Rising(ms),
         NEW m \in MessagesUpTo(n + 1), m.id = n + 1
  PROVE  Append(ms, m) \in Seq(MessagesUpTo(n + 1)) /\ Rising(Append(ms, m))
  <1> DEFINE S == MessagesUpTo(n + 1)
             a == Append(ms, m)
  <1>1. ms \in Seq(S)
    <2>1. MessagesUpTo(n) \subseteq S
      BY MessagesGrow
    <2>2. QED BY <2>1
  <1>2. /\ a \in Seq(S) /\ Len(a) = Len(ms) + 1
        /\ \A i \in DOMAIN ms : a[i] = ms[i]
        /\ a[Len(ms) + 1] = m /\ DOMAIN a = DOMAIN ms \cup {Len(ms) + 1}
    BY <1>1, AppendIs
  <1> HIDE DEF a
  <1>3. ASSUME NEW i \in DOMAIN a, NEW j \in DOMAIN a, i < j PROVE a[i].id < a[j].id
    <2>1. i \in DOMAIN ms
      BY <1>2, <1>3
    <2>2. CASE j \in DOMAIN ms
      BY <1>2, <1>3, <2>1, <2>2 DEF Rising
    <2>3. CASE j = Len(ms) + 1
      <3>1. a[i].id \in 0 .. n
        BY <1>2, <2>1, MessageIs
      <3>2. a[j].id = n + 1
        BY <1>2, <2>3
      <3>3. QED BY <3>1, <3>2
    <2>4. QED BY <1>2, <2>2, <2>3
  <1>4. QED BY <1>2, <1>3 DEF Rising, a

LEMMA FromAppend ==
  ASSUME NEW n \in Nat, NEW ms \in Seq(MessagesUpTo(n)), NEW m \in MessagesUpTo(n + 1),
         NEW a \in 1 .. Len(ms)
  PROVE  From(Append(ms, m), a) = Append(From(ms, a), m)
  <1> DEFINE S == MessagesUpTo(n + 1)
             t == Append(ms, m)
             f == From(ms, a)
             g == From(t, a)
             h == Append(f, m)
  <1>1. ms \in Seq(S) /\ m \in S /\ n + 1 \in Nat
    <2>1. MessagesUpTo(n) \subseteq S
      BY MessagesGrow
    <2>2. QED BY <2>1
  <1>2. /\ t \in Seq(S) /\ Len(t) = Len(ms) + 1
        /\ \A i \in DOMAIN ms : t[i] = ms[i]
        /\ t[Len(ms) + 1] = m
    BY <1>1, AppendIs
  <1> HIDE DEF t
  <1>3. a \in 1 .. Len(t) /\ Len(ms) \in Nat
    BY <1>2
  <1>4. /\ f \in Seq(S) /\ Len(f) = Len(ms) - a + 2 /\ f[1] = Summary
        /\ \A i \in 2 .. Len(ms) - a + 2 : f[i] = ms[a + i - 2]
    BY <1>1, FromIs
  <1>5. /\ g \in Seq(S) /\ Len(g) = Len(t) - a + 2 /\ g[1] = Summary
        /\ \A i \in 2 .. Len(t) - a + 2 : g[i] = t[a + i - 2]
    BY <1>1, <1>2, <1>3, FromIs
  <1> HIDE DEF f, g, S
  <1>6. /\ h \in Seq(S) /\ Len(h) = Len(f) + 1
        /\ \A i \in DOMAIN f : h[i] = f[i]
        /\ h[Len(f) + 1] = m
    <2>1. f \in Seq(S) /\ m \in S
      BY <1>1, <1>4
    <2>2. QED BY <2>1
  <1> HIDE DEF h
  <1>7. Len(g) = Len(h)
    BY <1>2, <1>3, <1>4, <1>5, <1>6
  <1>8. ASSUME NEW i \in 1 .. Len(g) PROVE g[i] = h[i]
    <2>1. CASE i = 1
      <3>1. 1 \in DOMAIN f
        BY <1>4
      <3>2. QED BY <2>1, <3>1, <1>4, <1>5, <1>6
    <2>2. CASE i \in 2 .. Len(ms) - a + 2
      <3>1. i \in 2 .. Len(t) - a + 2 /\ i \in DOMAIN f /\ a + i - 2 \in DOMAIN ms
        BY <2>2, <1>2, <1>3, <1>4
      <3>2. QED BY <2>2, <3>1, <1>2, <1>4, <1>5, <1>6
    <2>3. CASE i = Len(ms) - a + 3
      <3>1. i \in 2 .. Len(t) - a + 2 /\ a + i - 2 = Len(ms) + 1 /\ i = Len(f) + 1
        BY <2>3, <1>2, <1>3, <1>4
      <3>2. QED BY <3>1, <1>2, <1>5, <1>6
    <2>4. i = 1 \/ i \in 2 .. Len(ms) - a + 2 \/ i = Len(ms) - a + 3
      <3>1. Len(g) = Len(ms) - a + 3
        BY <1>2, <1>3, <1>5
      <3>2. QED BY <3>1
    <2>5. QED BY <2>1, <2>2, <2>3, <2>4
  <1>9. g = h
    BY <1>5, <1>6, <1>7, <1>8, SeqEqual
  <1>10. QED BY <1>9 DEF g, h, f, t

LEMMA ReadAppend ==
  ASSUME NEW n \in Nat, NEW lg \in Seq(MessagesUpTo(n)), Rising(lg),
         NEW ct, ct.first \in 0 .. n, NEW m \in MessagesUpTo(n + 1), m.id = n + 1
  PROVE  Read(Append(lg, m), ct)
           = [messages |-> Append(Read(lg, ct).messages, m), summary |-> Read(lg, ct).summary]
  <1> DEFINE a == Append(lg, m)
  <1>1. a \in Seq(MessagesUpTo(n + 1)) /\ Rising(a) /\ n + 1 \in Nat
    BY RisingAppend
  <1>2. /\ \A i \in DOMAIN lg : a[i] = lg[i]
        /\ a[Len(lg) + 1] = m /\ DOMAIN a = DOMAIN lg \cup {Len(lg) + 1}
    OBVIOUS
  <1>3. a[Len(lg) + 1].id # ct.first
    BY <1>2
  <1> HIDE DEF a
  <1>4. CASE \A i \in DOMAIN lg : lg[i].id # ct.first
    <2>1. \A i \in DOMAIN a : a[i].id # ct.first
      BY <1>2, <1>3, <1>4
    <2>2. Read(a, ct) = [messages |-> a, summary |-> {}]
      BY <1>1, <2>1, ReadIs
    <2>3. Read(lg, ct) = [messages |-> lg, summary |-> {}]
      BY <1>4, ReadIs
    <2>4. QED BY <2>2, <2>3 DEF a
  <1>5. ASSUME NEW k \in DOMAIN lg, lg[k].id = ct.first
        PROVE  Read(a, ct) = [messages |-> Append(Read(lg, ct).messages, m), summary |-> Read(lg, ct).summary]
    <2>1. k \in DOMAIN a /\ a[k].id = ct.first
      BY <1>2, <1>5
    <2>2. Read(a, ct) = [messages |-> From(a, k), summary |-> ct.covers]
      BY <1>1, <2>1, ReadIs
    <2>3. Read(lg, ct) = [messages |-> From(lg, k), summary |-> ct.covers]
      BY <1>5, ReadIs
    <2>4. From(a, k) = Append(From(lg, k), m)
      <3>1. k \in 1 .. Len(lg)
        OBVIOUS
      <3>2. QED BY <3>1, FromAppend DEF a
    <2>5. QED BY <2>2, <2>3, <2>4
  <1>6. QED BY <1>4, <1>5 DEF a

-----------------------------------------------------------------------------
(* What the invariant says of the list, its ids and the log.               *)
StoreTypeOK ==
  /\ messages \in Seq(Message) /\ ids \in Seq(0 .. last)
  /\ log \in Seq(Message) /\ cut \in [first : 0 .. last, covers : SUBSET (1 .. last)]
  /\ under \in [first : 0 .. last, covers : SUBSET (1 .. last)]
  /\ torn \in BOOLEAN /\ tail \in BOOLEAN /\ astray \in BOOLEAN /\ last \in Nat /\ parted \in Nat
  /\ summary \cup lost \cup dropped \subseteq 1 .. last

StoreOK ==
  /\ StoreTypeOK
  /\ LogInOrder /\ MemoryInOrder
  /\ LogIsContext /\ NothingForgotten

LEMMA StoreIs ==
  ASSUME StoreOK
  PROVE  /\ last \in Nat
         /\ messages \in Seq(MessagesUpTo(last)) /\ log \in Seq(MessagesUpTo(last))
         /\ Rising(messages) /\ Rising(log)
         /\ cut.first \in 0 .. last
         /\ Read(log, cut) = Load
  BY LoadIsRead DEF StoreOK, StoreTypeOK, Message, LogInOrder, MemoryInOrder, Rising

(* What would be left of the log under a glued last line.                  *)
LEMMA UnderIs ==
  ASSUME StoreOK
  PROVE  /\ LogUnder \in Seq(MessagesUpTo(last)) /\ Rising(LogUnder)
         /\ \A i \in DOMAIN LogUnder : i \in DOMAIN log /\ LogUnder[i] = log[i]
         /\ IdsOf(LogUnder) \subseteq IdsOf(log)
         /\ LogUnder = log \/ (torn /\ \E x : x \notin IdsOf(LogUnder) /\ IdsOf(log) = IdsOf(LogUnder) \cup {x})
         /\ IdsOf(log) \subseteq 1 .. last
         /\ CutUnder \in {cut, under}
         /\ \A ct : \A x \in IdsOf(LogUnder) :
              x \in Read(log, ct).summary \cup IdsOf(Read(log, ct).messages) =>
              x \in Read(LogUnder, ct).summary \cup IdsOf(Read(LogUnder, ct).messages)
  <1>1. /\ last \in Nat /\ log \in Seq(MessagesUpTo(last)) /\ Rising(log)
        /\ \A i \in DOMAIN log : log[i].id > 0
        /\ tail => log # << >>
    BY StoreIs DEF StoreOK, LogInOrder
  <1>2. CutUnder \in {cut, under}
    BY DEF CutUnder
  <1>3. IdsOf(log) \subseteq 1 .. last
    <2>1. \A i \in DOMAIN log : log[i].id \in 0 .. last
      BY <1>1, MessageIs
    <2>2. QED BY <1>1, <2>1 DEF IdsOf
  <1>4. CASE torn /\ tail
    <2>1. LogUnder = SubSeq(log, 1, Len(log) - 1) /\ log # << >>
      BY <1>1, <1>4 DEF LogUnder
    <2> DEFINE lu == SubSeq(log, 1, Len(log) - 1)
    <2>2. LogUnder = lu
      BY <2>1
    <2>3. /\ lu \in Seq(MessagesUpTo(last)) /\ Rising(lu)
          /\ \A i \in DOMAIN lu : i \in DOMAIN log /\ lu[i] = log[i]
          /\ IdsOf(lu) \subseteq IdsOf(log)
          /\ IdsOf(log) = IdsOf(lu) \cup {log[Len(log)].id} /\ log[Len(log)].id \notin IdsOf(lu)
          /\ \A ct : \A x \in IdsOf(lu) :
               x \in Read(log, ct).summary \cup IdsOf(Read(log, ct).messages) =>
               x \in Read(lu, ct).summary \cup IdsOf(Read(lu, ct).messages)
      BY <1>1, <2>1, ReadWithoutLast
    <2> HIDE DEF lu
    <2>4. torn /\ \E x : x \notin IdsOf(lu) /\ IdsOf(log) = IdsOf(lu) \cup {x}
      BY <1>4, <2>3
    <2>5. QED BY <1>2, <1>3, <2>2, <2>3, <2>4, Zenon
  <1>5. CASE ~(torn /\ tail)
    <2>1. LogUnder = log
      BY <1>5 DEF LogUnder
    <2>2. QED BY <1>1, <1>2, <1>3, <2>1
  <1>6. QED BY <1>4, <1>5

LEMMA UpIs ==
  ASSUME StoreOK, pc # "down"
  PROVE  LogUnder = log /\ lost \cup (IdsOf(log) \ IdsOf(LogUnder)) = lost
  <1>1. ~(torn /\ tail)
    BY DEF StoreOK, LogInOrder
  <1>2. QED BY <1>1 DEF LogUnder

(* A message reaches the readers of the file, or it does not.              *)
LEMMA AppendCases ==
  ASSUME StoreOK, pc # "down", NEW m, m.id = last + 1, AppendMessage(m)
  PROVE  /\ torn' = FALSE /\ cut' \in {cut, under} /\ under' = cut'
         /\ tail' \in BOOLEAN /\ astray' \in BOOLEAN
         /\ \/ /\ ~torn /\ log' = Append(log, m) /\ lost' = lost
               /\ cut' = cut /\ (astray => astray') /\ parted' = parted
            \/ /\ log' = log /\ lost' = lost \cup {last + 1}
               /\ tail' = FALSE /\ astray'
               /\ \/ torn /\ parted' = parted
                  \/ parted' = parted + 1
  <1>1. /\ last \in Nat /\ log \in Seq(MessagesUpTo(last)) /\ LogUnder = log
        /\ IdsOf(log) \subseteq 1 .. last
    BY StoreIs, UpIs, UnderIs
  <1>2. IdsOf(Append(log, m)) = IdsOf(log) \cup {last + 1}
    BY <1>1, IdsOfAppend
  <1>3. IdsOf(Append(log, m)) \ IdsOf(log) = {last + 1}
    BY <1>1, <1>2
  <1>4. torn' = FALSE /\ cut' \in {cut, under} /\ under' = cut'
    BY DEF AppendMessage, CutUnder
  <1>5. PICK readable \in BOOLEAN :
          /\ Written(readable)
          /\ log' = IF readable THEN Append(log, m) ELSE LogUnder
          /\ lost' = lost \cup (IdsOf(Append(log, m)) \ IdsOf(log'))
          /\ tail' = readable
          /\ astray' = (astray \/ ~readable)
    BY DEF AppendMessage
  <1>6. tail' \in BOOLEAN /\ astray' \in BOOLEAN
    BY <1>5, Zenon
  <1>7. CASE readable
    <2>1. ~torn /\ parted' = parted
      BY <1>5, <1>7, Zenon DEF Written
    <2>2. log' = Append(log, m) /\ lost' = lost
      BY <1>5, <1>7
    <2>3. astray => astray'
      BY <1>5, Zenon
    <2>4. cut' = cut
      BY <2>1 DEF AppendMessage, CutUnder
    <2>5. QED BY <1>4, <1>6, <2>1, <2>2, <2>3, <2>4
  <1>8. CASE ~readable
    <2>1. log' = log
      BY <1>1, <1>5, <1>8
    <2>2. lost' = lost \cup {last + 1}
      BY <1>3, <1>5, <2>1
    <2>3. tail' = FALSE /\ astray'
      BY <1>5, <1>8, Zenon
    <2>4. (torn /\ parted' = parted) \/ parted' = parted + 1
      BY <1>5, <1>8, Zenon DEF Written
    <2>5. QED BY <1>4, <1>6, <2>1, <2>2, <2>3, <2>4
  <1>9. QED BY <1>7, <1>8

LEMMA AppendTypes ==
  ASSUME StoreOK, pc # "down", NEW m \in MessagesUpTo(last + 1), m.id = last + 1,
         AppendMessage(m), dropped' = dropped
  PROVE  StoreTypeOK'
  <1>1. last \in Nat /\ last' = last + 1
    BY DEF StoreOK, StoreTypeOK, AppendMessage
  <1>2. MessagesUpTo(last) \subseteq MessagesUpTo(last + 1)
    BY <1>1, MessagesGrow
  <1> DEFINE S == MessagesUpTo(last + 1)
  <1>3. messages \in Seq(S) /\ log \in Seq(S) /\ ids \in Seq(0 .. last + 1)
    <2>1. 0 .. last \subseteq 0 .. last + 1
      BY <1>1
    <2>2. QED BY <1>2, <2>1 DEF StoreOK, StoreTypeOK, Message
  <1> HIDE DEF S
  <1>4. /\ torn' = FALSE /\ cut' \in {cut, under} /\ under' = cut'
        /\ tail' \in BOOLEAN /\ astray' \in BOOLEAN
        /\ log' = Append(log, m) \/ log' = log
        /\ lost' \subseteq lost \cup {last + 1}
        /\ parted' = parted \/ parted' = parted + 1
    BY AppendCases
  <1>5. messages' \in Seq(S) /\ log' \in Seq(S)
    <2>1. m \in S
      BY DEF S
    <2>2. messages' = Append(messages, m)
      BY DEF AppendMessage
    <2>3. Append(messages, m) \in Seq(S) /\ Append(log, m) \in Seq(S)
      BY <1>3, <2>1
    <2>4. QED BY <1>3, <1>4, <2>2, <2>3
  <1>6. ids' \in Seq(0 .. last + 1)
    <2>1. m.id \in 0 .. last + 1
      BY <1>1
    <2>2. QED BY <1>3, <2>1 DEF AppendMessage
  <1>7. /\ cut' \in [first : 0 .. last', covers : SUBSET (1 .. last')]
        /\ under' \in [first : 0 .. last', covers : SUBSET (1 .. last')]
    <2>1. cut \in [first : 0 .. last, covers : SUBSET (1 .. last)] /\ under \in [first : 0 .. last, covers : SUBSET (1 .. last)]
      BY DEF StoreOK, StoreTypeOK
    <2>2. cut' \in [first : 0 .. last, covers : SUBSET (1 .. last)]
      BY <1>4, <2>1
    <2>3. 0 .. last \subseteq 0 .. last + 1 /\ 1 .. last \subseteq 1 .. last + 1
      BY <1>1
    <2>4. cut' \in [first : 0 .. last + 1, covers : SUBSET (1 .. last + 1)]
      BY <2>2, <2>3
    <2>5. QED BY <1>1, <1>4, <2>4
  <1>8. torn' \in BOOLEAN /\ parted' \in Nat /\ (summary \cup lost \cup dropped)' \subseteq 1 .. last'
    <2>1. summary \cup lost \cup dropped \cup {m.id} \subseteq 1 .. last' /\ parted \in Nat
      BY <1>1 DEF StoreOK, StoreTypeOK
    <2>2. summary' = summary
      BY DEF AppendMessage
    <2>3. summary' \cup lost' \cup dropped' \subseteq summary \cup lost \cup dropped \cup {last + 1}
      BY <1>4, <2>2
    <2>4. parted' \in Nat
      BY <1>4, <2>1
    <2>5. QED BY <1>4, <2>1, <2>3, <2>4
  <1>9. QED BY <1>1, <1>4, <1>5, <1>6, <1>7, <1>8 DEF StoreTypeOK, Message, S

LEMMA AppendLog ==
  ASSUME StoreOK, pc # "down", pc' # "down", NEW m \in MessagesUpTo(last + 1), m.id = last + 1,
         AppendMessage(m)
  PROVE  LogInOrder'
  <1>1. /\ last \in Nat /\ last' = last + 1
        /\ log \in Seq(MessagesUpTo(last)) /\ Rising(log) /\ lost \subseteq 1 .. last
        /\ torn' = FALSE /\ under' = cut'
    BY StoreIs, AppendCases DEF StoreOK, StoreTypeOK, LogInOrder, AppendMessage
  <1>2. 1 .. last + 1 = (1 .. last) \cup {last + 1} /\ 1 .. last \subseteq lost \cup IdsOf(log)
    BY <1>1 DEF StoreOK, LogInOrder
  <1>3. CASE log' = log /\ lost' = lost \cup {last + 1} /\ tail' = FALSE
    <2>1. 1 .. last' \subseteq lost' \cup IdsOf(log')
      BY <1>1, <1>2, <1>3
    <2>2. QED BY <1>1, <1>3, <2>1, Zenon DEF StoreOK, LogInOrder
  <1>4. CASE log' = Append(log, m) /\ lost' = lost
    <2>1. Rising(log')
      BY <1>1, <1>4, RisingAppend
    <2>2. IdsOf(log') = IdsOf(log) \cup {last + 1}
      BY <1>1, <1>4, IdsOfAppend
    <2>3. (\A i \in DOMAIN log' : log'[i].id > 0) /\ log' # << >>
      <3>1. \A i \in DOMAIN log : log[i].id > 0 /\ log'[i] = log[i]
        BY <1>1, <1>4 DEF StoreOK, LogInOrder
      <3>2. log'[Len(log) + 1] = m /\ DOMAIN log' = DOMAIN log \cup {Len(log) + 1}
        BY <1>1, <1>4
      <3>3. last + 1 > 0
        BY <1>1
      <3>4. DOMAIN log' # {}
        BY <3>2
      <3>5. QED BY <3>1, <3>2, <3>3, <3>4
    <2>4. 1 .. last' \subseteq lost' \cup IdsOf(log')
      BY <1>1, <1>2, <1>4, <2>2
    <2>5. \A i, j \in DOMAIN log' : i < j => log'[i].id < log'[j].id
      BY <2>1 DEF Rising
    <2>6. ~(torn' /\ pc' # "down")
      BY <1>1, Zenon
    <2>7. QED BY <1>1, <2>3, <2>4, <2>5, <2>6, Zenon DEF LogInOrder
  <1>5. QED BY <1>3, <1>4, AppendCases

LEMMA AppendMemory ==
  ASSUME StoreOK, NEW m \in MessagesUpTo(last + 1), m.id = last + 1, AppendMessage(m)
  PROVE  MemoryInOrder'
  <1>1. /\ last \in Nat /\ last' = last + 1
        /\ messages \in Seq(MessagesUpTo(last)) /\ Rising(messages)
        /\ ids \in Seq(0 .. last) /\ Len(ids) >= Len(messages)
        /\ messages' = Append(messages, m) /\ ids' = Append(ids, last + 1)
    BY StoreIs DEF StoreOK, StoreTypeOK, MemoryInOrder, AppendMessage
  <1>2. Rising(messages')
    BY <1>1, RisingAppend
  <1>3. /\ Len(ids') = Len(ids) + 1 /\ DOMAIN ids' = DOMAIN ids \cup {Len(ids) + 1}
        /\ ids'[Len(ids) + 1] = last + 1
        /\ \A i \in DOMAIN ids : ids'[i] = ids[i] /\ ids[i] \in 0 .. last
    BY <1>1
  <1>4. /\ Len(messages') = Len(messages) + 1 /\ DOMAIN messages' = DOMAIN messages \cup {Len(messages) + 1}
        /\ messages'[Len(messages) + 1] = m
        /\ \A i \in DOMAIN messages : messages'[i] = messages[i]
    BY <1>1
  <1>5. ASSUME NEW i \in DOMAIN ids', NEW j \in DOMAIN ids', i < j PROVE ids'[i] < ids'[j]
    <2>1. i \in DOMAIN ids
      BY <1>1, <1>3, <1>5
    <2>2. CASE j \in DOMAIN ids
      BY <1>3, <1>5, <2>1, <2>2 DEF StoreOK, MemoryInOrder
    <2>3. CASE j = Len(ids) + 1
      BY <1>1, <1>3, <2>1, <2>3
    <2>4. QED BY <1>3, <2>2, <2>3
  <1>6. ASSUME NEW i \in DOMAIN messages' PROVE ids'[i] <= messages'[i].id
    <2>1. CASE i \in DOMAIN messages
      <3>1. i \in DOMAIN ids
        BY <1>1, <2>1
      <3>2. QED BY <1>3, <1>4, <2>1, <3>1 DEF StoreOK, MemoryInOrder
    <2>2. CASE i = Len(messages) + 1
      <3>1. messages'[i].id = last + 1
        BY <1>4, <2>2
      <3>2. i \in DOMAIN ids'
        BY <1>1, <1>3, <2>2
      <3>3. ids'[i] <= last + 1
        BY <1>1, <1>3, <3>2
      <3>4. QED BY <3>1, <3>3
    <2>3. QED BY <1>4, <2>1, <2>2
  <1>7. ASSUME Len(ids') = Len(messages')
        PROVE  ids' = [i \in DOMAIN messages' |-> messages'[i].id]
    <2>1. Len(ids) = Len(messages)
      BY <1>1, <1>3, <1>4, <1>7
    <2>2. ids = [i \in DOMAIN messages |-> messages[i].id]
      BY <2>1 DEF StoreOK, MemoryInOrder, Aligned
    <2>3. DOMAIN ids' = DOMAIN messages'
      BY <1>1, <1>3, <1>4, <2>1
    <2>4. \A i \in DOMAIN messages' : ids'[i] = messages'[i].id
      BY <1>3, <1>4, <2>1, <2>2
    <2>5. ids' \in [DOMAIN ids' -> 0 .. last + 1]
      <3>1. ids \in Seq(0 .. last + 1) /\ last + 1 \in 0 .. last + 1
        <4>1. 0 .. last \subseteq 0 .. last + 1
          BY <1>1
        <4>2. QED BY <1>1, <4>1
      <3>2. ids' \in Seq(0 .. last + 1)
        BY <1>1, <3>1
      <3>3. QED BY <3>2, SeqIsFunction
    <2>6. QED BY <2>3, <2>4, <2>5
  <1>8. Len(ids') >= Len(messages')
    BY <1>1, <1>3, <1>4
  <1>9. QED BY <1>2, <1>5, <1>6, <1>7, <1>8 DEF MemoryInOrder, Rising, Aligned

LEMMA AppendStore ==
  ASSUME StoreOK, pc \in Up \ {"reset"}, pc' \in Up \ {"reset"},
         NEW m \in MessagesUpTo(last + 1), m.id = last + 1,
         AppendMessage(m), dropped' = dropped
  PROVE  StoreOK'
  <1>1. StoreTypeOK' /\ LogInOrder' /\ MemoryInOrder' /\ pc # "down"
    BY AppendTypes, AppendLog, AppendMemory DEF Up
  <1>2. /\ last \in Nat /\ last' = last + 1
        /\ log \in Seq(MessagesUpTo(last)) /\ Rising(log)
        /\ messages \in Seq(MessagesUpTo(last))
        /\ cut.first \in 0 .. last /\ summary' = summary
        /\ messages' = Append(messages, m)
        /\ Read(log, cut) = Load
        /\ cut' \in {cut, under} /\ under' = cut'
    BY <1>1, StoreIs, AppendCases DEF StoreOK, StoreTypeOK, AppendMessage
  <1> DEFINE kept == (1 .. last) \ (lost \cup dropped)
  <1>3. /\ kept \subseteq Found(cut) /\ kept \subseteq Found(under)
        /\ kept \subseteq summary \cup IdsOf(messages)
    BY DEF StoreOK, NothingForgotten
  <1>4. IdsOf(messages') = IdsOf(messages) \cup {last + 1}
    BY <1>2, IdsOfAppend
  <1>5. CASE log' = log /\ lost' = lost \cup {last + 1} /\ astray'
    <2>1. LogIsContext'
      BY <1>5 DEF LogIsContext
    <2>2. NothingForgotten'
      <3>1. ((1 .. last) \ (lost \cup dropped))' \subseteq kept
        BY <1>2, <1>5
      <3>2. Found(cut)' = Found(cut) \/ Found(cut)' = Found(under)
        BY <1>2, <1>5 DEF Found, Read
      <3>3. Found(under)' = Found(cut)'
        BY <1>2 DEF Found, Read
      <3>4. QED BY <1>2, <1>3, <1>4, <3>1, <3>2, <3>3 DEF NothingForgotten
    <2>3. QED BY <1>1, <2>1, <2>2 DEF StoreOK
  <1>6. CASE log' = Append(log, m) /\ lost' = lost /\ cut' = cut /\ (astray => astray')
    <2>1. Load' = [messages |-> Append(Load.messages, m), summary |-> Load.summary]
      <3>1. Load' = Read(Append(log, m), cut)
        BY <1>6 DEF Load, Read
      <3>2. QED BY <1>2, <3>1, ReadAppend
    <2>2. LogIsContext'
      <3> SUFFICES ASSUME Aligned', ~astray'
                   PROVE  Load' = [messages |-> messages', summary |-> summary']
        BY DEF LogIsContext, Settled
      <3>1. Aligned
        <4>1. Len(ids') = Len(messages')
          <5>1. messages' \in Seq(MessagesUpTo(last'))
            BY <1>1 DEF StoreTypeOK, Message
          <5>2. QED BY <5>1 DEF Aligned
        <4>2. Len(ids) = Len(messages)
          BY <1>2, <4>1 DEF StoreOK, StoreTypeOK, AppendMessage
        <4>3. QED BY <4>2 DEF StoreOK, MemoryInOrder
      <3>2. ~astray
        BY <1>6
      <3>3. Load = [messages |-> messages, summary |-> summary]
        BY <3>1, <3>2 DEF StoreOK, LogIsContext, Settled
      <3>4. QED BY <1>2, <2>1, <3>3
    <2>3. NothingForgotten'
      <3>1. ((1 .. last) \ (lost \cup dropped))' \subseteq kept \cup {last + 1}
        BY <1>2, <1>6
      <3>2. IdsOf(Load'.messages) = IdsOf(Load.messages) \cup {last + 1}
        <4>1. Load.messages \in Seq(MessagesUpTo(last))
          <5>1. cut \in [first : 0 .. last, covers : SUBSET (1 .. last)]
            BY DEF StoreOK, StoreTypeOK
          <5>2. \A i \in DOMAIN log : log[i].id > 0
            BY DEF StoreOK, LogInOrder
          <5>3. Read(log, cut).messages \in Seq(MessagesUpTo(last))
            BY <1>2, <5>1, <5>2, ReadKeeps
          <5>4. QED BY <1>2, <5>3
        <4>2. last + 1 # 0
          BY <1>2
        <4>3. QED BY <2>1, <4>1, <4>2, IdsOfAppend
      <3>3. Load'.summary = Load.summary
        BY <2>1
      <3>4. Found(cut) = Load.summary \cup IdsOf(Load.messages)
        BY <1>2 DEF Found
      <3>5. Found(cut)' = Load'.summary \cup IdsOf(Load'.messages) /\ Found(under)' = Found(cut)'
        BY <1>2, LoadIsRead DEF Found, Load, Read
      <3>6. QED BY <1>2, <1>3, <1>4, <3>1, <3>2, <3>3, <3>4, <3>5 DEF NothingForgotten
    <2>4. QED BY <1>1, <2>2, <2>3 DEF StoreOK
  <1>7. QED BY <1>1, <1>5, <1>6, AppendCases

-----------------------------------------------------------------------------
(* Steps that leave the list and the log alone, and the deaths.            *)
LEMMA StoreUnchanged ==
  ASSUME StoreOK, pc \in Up \ {"reset"}, pc' \in Up \ {"reset"},
         UNCHANGED <<memVars, fileVars, dropped>>
  PROVE  StoreOK'
  <1>1. StoreTypeOK'
    BY DEF StoreOK, StoreTypeOK, Message, memVars, fileVars
  <1>2. LogInOrder'
    BY DEF StoreOK, LogInOrder, memVars, fileVars, Up
  <1>3. MemoryInOrder'
    BY DEF StoreOK, MemoryInOrder, Aligned, memVars
  <1>4. Load' = Load
    BY DEF Load, Read, fileVars
  <1>5. LogIsContext'
    BY <1>4 DEF StoreOK, LogIsContext, Aligned, Settled, memVars, fileVars
  <1>6. Found(cut)' = Found(cut) /\ Found(under)' = Found(under)
    BY DEF Found, Read, fileVars
  <1>7. NothingForgotten'
    BY <1>6 DEF StoreOK, NothingForgotten, memVars, fileVars
  <1>8. QED BY <1>1, <1>2, <1>3, <1>5, <1>7 DEF StoreOK

LEMMA CrashStore ==
  ASSUME StoreOK, Crash
  PROVE  StoreOK'
  <1>1. /\ pc \in Up /\ pc' = "down" /\ UNCHANGED <<log, lost, last, parted, astray, dropped>>
        /\ messages' = << >> /\ ids' = << >> /\ summary' = {}
        /\ \/ UNCHANGED <<cut, under, tail>>
           \/ tail' = FALSE /\ cut' \in {cut, under} /\ under' = cut'
    BY UpIs DEF Crash, CutUnder, Up
  <1>2. torn' \in BOOLEAN /\ tail' \in BOOLEAN
    <2>1. torn \in BOOLEAN /\ tail \in BOOLEAN
      BY DEF StoreOK, StoreTypeOK
    <2>2. QED BY <1>1, <2>1, Zenon DEF Crash
  <1>3. StoreTypeOK'
    <2>1. messages' \in Seq(Message)' /\ ids' \in Seq(0 .. last)'
      BY <1>1
    <2>2. QED BY <1>1, <1>2, <2>1 DEF StoreOK, StoreTypeOK, Message
  <1>4. LogInOrder'
    BY <1>1, <1>2 DEF StoreOK, LogInOrder
  <1>5. MemoryInOrder'
    BY <1>1 DEF MemoryInOrder, Aligned
  <1>6. LogIsContext'
    BY <1>1 DEF LogIsContext, Settled, Up
  <1>7. /\ Found(cut)' = Found(cut) \/ Found(cut)' = Found(under)
        /\ Found(under)' = Found(cut) \/ Found(under)' = Found(under)
    <2>1. CASE UNCHANGED <<cut, under>>
      BY <1>1, <2>1 DEF Found, Read
    <2>2. CASE cut' \in {cut, under} /\ under' = cut'
      BY <1>1, <2>2 DEF Found, Read
    <2>3. QED BY <1>1, <2>1, <2>2
  <1>8. NothingForgotten'
    <2>1. (1 .. last) \ (lost \cup dropped) \subseteq Found(cut) \cap Found(under)
      BY DEF StoreOK, NothingForgotten
    <2>2. QED BY <1>1, <1>7, <2>1 DEF NothingForgotten, Up
  <1>9. QED BY <1>3, <1>4, <1>5, <1>6, <1>8 DEF StoreOK

(* What the recovery record leaves of the file.                            *)
LEMMA RecoveredIs ==
  ASSUME StoreOK, Recovered
  PROVE  /\ torn' \in BOOLEAN /\ tail' \in BOOLEAN /\ astray' \in BOOLEAN
         /\ torn' => log' = << >>
         /\ ~astray' => log' = log /\ cut' = cut
         /\ lost' = lost \cup (IdsOf(log) \ IdsOf(log'))
         /\ \/ UNCHANGED <<log, cut, under, tail>>
            \/ /\ log' = LogUnder /\ tail' = FALSE
               /\ cut' \in {cut, under} /\ under' = cut'
  <1>1. CASE log = << >>
    <2>1. UNCHANGED <<log, cut, tail, under, torn, lost>> /\ astray' = FALSE
      BY <1>1 DEF Recovered
    <2>2. torn \in BOOLEAN /\ tail \in BOOLEAN
      BY DEF StoreOK, StoreTypeOK
    <2>3. IdsOf(log) \ IdsOf(log') = {}
      BY <2>1
    <2>4. QED BY <1>1, <2>1, <2>2, <2>3
  <1>2. CASE log # << >>
    <2>1. /\ log' = LogUnder /\ lost' = lost \cup (IdsOf(log) \ IdsOf(log'))
          /\ cut' = CutUnder /\ under' = CutUnder
          /\ astray' = (LogUnder # log \/ CutUnder # cut)
          /\ tail' = FALSE /\ torn' = FALSE
      BY <1>2 DEF Recovered
    <2>2. CutUnder \in {cut, under}
      BY DEF CutUnder
    <2>3. astray' \in BOOLEAN /\ (~astray' => log' = log /\ cut' = cut)
      BY <2>1, Zenon
    <2>4. QED BY <2>1, <2>2, <2>3
  <1>3. QED BY <1>1, <1>2

LEMMA RestartStore ==
  ASSUME StoreOK, Restart
  PROVE  StoreOK'
  <1> DEFINE l == Load
             ms == l.messages
             d == DropIncompleteRound(ms)
  <1>1. /\ last \in Nat /\ last' = last
        /\ messages' = d /\ ids' = [i \in DOMAIN ms |-> ms[i].id] /\ summary' = l.summary
        /\ dropped' = dropped \cup (IdsOf(ms) \ IdsOf(messages'))
        /\ pc' = "repair" /\ parted' = parted /\ parted \in Nat
    BY DEF StoreOK, StoreTypeOK, Restart
  <1>2. /\ ms \in Seq(MessagesUpTo(last)) /\ Rising(ms)
        /\ l.summary \in SUBSET (1 .. last)
        /\ Read(log, cut) = l
    <2>1. cut \in [first : 0 .. last, covers : SUBSET (1 .. last)]
      BY DEF StoreOK, StoreTypeOK
    <2>2. \A i \in DOMAIN log : log[i].id > 0
      BY DEF StoreOK, LogInOrder
    <2>3. log \in Seq(MessagesUpTo(last)) /\ Rising(log) /\ Read(log, cut) = Load
      BY StoreIs
    <2>4. QED BY <1>1, <2>1, <2>2, <2>3, ReadKeeps
  <1>3. l = [messages |-> ms, summary |-> l.summary]
    BY DEF Load, Read
  <1>4. /\ torn' \in BOOLEAN /\ tail' \in BOOLEAN /\ astray' \in BOOLEAN
        /\ torn' => log' = << >>
        /\ ~astray' => log' = log /\ cut' = cut
        /\ lost' = lost \cup (IdsOf(log) \ IdsOf(log'))
        /\ \/ UNCHANGED <<log, cut, under, tail>>
           \/ /\ log' = LogUnder /\ tail' = FALSE
              /\ cut' \in {cut, under} /\ under' = cut'
    BY RecoveredIs DEF Restart
  <1>5. /\ LogUnder \in Seq(MessagesUpTo(last)) /\ Rising(LogUnder)
        /\ \A i \in DOMAIN LogUnder : i \in DOMAIN log /\ LogUnder[i] = log[i]
        /\ IdsOf(LogUnder) \subseteq IdsOf(log) /\ IdsOf(log) \subseteq 1 .. last
        /\ \A ct : \A x \in IdsOf(LogUnder) :
             x \in Read(log, ct).summary \cup IdsOf(Read(log, ct).messages) =>
             x \in Read(LogUnder, ct).summary \cup IdsOf(Read(LogUnder, ct).messages)
    BY UnderIs
  <1> HIDE DEF l
  <1>6. /\ d \in Seq(MessagesUpTo(last)) /\ Rising(d)
        /\ Len(d) <= Len(ms) /\ (Len(d) = Len(ms) => d = ms)
        /\ \A k \in DOMAIN d : ms[k].id <= d[k].id
    BY <1>1, <1>2, DropKeepsOrder
  <1> HIDE DEF d, ms
  <1>7. \A i \in DOMAIN ms : ms[i].id \in 0 .. last
    BY <1>1, <1>2, MessageIs
  <1>8. Len(ids') = Len(ms) /\ DOMAIN ids' = DOMAIN ms /\ \A i \in DOMAIN ms : ids'[i] = ms[i].id
    BY <1>1, <1>2
  <1>9. IdsOf(ms) \subseteq 1 .. last
    BY <1>7, <1>1 DEF IdsOf
  <1>10. StoreTypeOK'
    <2>1. ids' \in Seq(0 .. last)
      BY <1>1, <1>2, <1>7
    <2>2. /\ log \in Seq(MessagesUpTo(last)) /\ lost \cup dropped \subseteq 1 .. last
          /\ cut \in [first : 0 .. last, covers : SUBSET (1 .. last)]
          /\ under \in [first : 0 .. last, covers : SUBSET (1 .. last)]
      BY DEF StoreOK, StoreTypeOK, Message
    <2>3. /\ log' \in Seq(MessagesUpTo(last))
          /\ cut' \in [first : 0 .. last, covers : SUBSET (1 .. last)]
          /\ under' \in [first : 0 .. last, covers : SUBSET (1 .. last)]
      <3>1. log' \in {log, LogUnder} /\ cut' \in {cut, under} /\ under' \in {cut, under}
        BY <1>4
      <3>2. QED BY <1>5, <2>2, <3>1
    <2>4. (summary \cup lost \cup dropped)' \subseteq 1 .. last
      BY <1>1, <1>2, <1>4, <1>5, <1>9, <2>2
    <2>5. QED BY <1>1, <1>4, <1>6, <2>1, <2>3, <2>4 DEF StoreTypeOK, Message
  <1>11. LogInOrder'
    <2>1. 1 .. last \subseteq lost' \cup IdsOf(log')
      <3>1. 1 .. last \subseteq lost \cup IdsOf(log)
        BY DEF StoreOK, LogInOrder
      <3>2. QED BY <1>4, <3>1
    <2>2. /\ \A i \in DOMAIN log' : log'[i].id > 0
          /\ \A i, j \in DOMAIN log' : i < j => log'[i].id < log'[j].id
      <3>1. CASE log' = log
        BY <3>1 DEF StoreOK, LogInOrder
      <3>2. CASE log' = LogUnder
        BY <1>5, <3>2 DEF StoreOK, LogInOrder, Rising
      <3>3. QED BY <1>4, <3>1, <3>2
    <2>3. tail' => log' # << >> /\ under' = cut'
      BY <1>4 DEF StoreOK, LogInOrder
    <2>4. torn' /\ pc' # "down" => log' = << >>
      BY <1>4
    <2>5. QED BY <1>1, <2>1, <2>2, <2>3, <2>4, Zenon DEF LogInOrder
  <1>12. MemoryInOrder'
    <2>1. \A i, j \in DOMAIN ids' : i < j => ids'[i] < ids'[j]
      BY <1>2, <1>8 DEF Rising
    <2>2. \A i \in DOMAIN messages' : ids'[i] <= messages'[i].id
      <3> SUFFICES ASSUME NEW i \in DOMAIN d PROVE ids'[i] <= d[i].id
        BY <1>1
      <3>1. i \in DOMAIN ms
        BY <1>2, <1>6
      <3>2. QED BY <1>6, <1>8, <3>1
    <2>3. Len(ids') = Len(messages') => Aligned'
      BY <1>1, <1>6, <1>8 DEF Aligned
    <2>4. Len(ids') >= Len(messages')
      BY <1>1, <1>2, <1>6, <1>8
    <2>5. QED BY <1>1, <1>6, <2>1, <2>2, <2>3, <2>4 DEF MemoryInOrder, Rising
  <1>13. LogIsContext'
    <2> SUFFICES ASSUME Aligned', ~astray' PROVE Load' = [messages |-> messages', summary |-> summary']
      BY <1>1 DEF LogIsContext
    <2>1. Len(ids') = Len(messages')
      BY <1>1, <1>6 DEF Aligned
    <2>2. messages' = ms
      BY <1>1, <1>6, <1>8, <2>1
    <2>3. Load' = l
      BY <1>2, <1>4 DEF Load, Read
    <2>4. QED BY <1>1, <1>3, <2>2, <2>3
  <1>14. NothingForgotten'
    <2> DEFINE kept == (1 .. last) \ (lost \cup dropped)
               now == ((1 .. last) \ (lost \cup dropped))'
    <2>1. kept \subseteq Found(cut) /\ kept \subseteq Found(under)
      BY DEF StoreOK, NothingForgotten
    <2>2. Found(cut) = l.summary \cup IdsOf(ms)
      BY <1>2 DEF Found, ms
    <2>3. now \subseteq kept \ (IdsOf(ms) \ IdsOf(messages')) /\ now \subseteq IdsOf(log')
      <3>1. 1 .. last \subseteq lost \cup IdsOf(log)
        BY DEF StoreOK, LogInOrder
      <3>2. QED BY <1>1, <1>4, <3>1
    <2>4. now \subseteq Found(cut)' /\ now \subseteq Found(under)'
      <3>1. CASE UNCHANGED <<log, cut, under>>
        <4>1. Found(cut)' = Found(cut) /\ Found(under)' = Found(under)
          BY <3>1 DEF Found, Read
        <4> HIDE DEF now, kept
        <4>2. QED BY <2>1, <2>3, <4>1
      <3>2. CASE log' = LogUnder /\ cut' \in {cut, under} /\ under' = cut'
        <4> DEFINE F(ct) == Read(LogUnder, ct).summary \cup IdsOf(Read(LogUnder, ct).messages)
        <4>1. \A ct : \A x \in IdsOf(LogUnder) : x \in Found(ct) => x \in F(ct)
          BY <1>5 DEF Found
        <4>2. Found(cut)' = F(cut') /\ Found(under)' = F(cut')
          BY <3>2 DEF Found, Read
        <4>3. now \subseteq Found(cut) /\ now \subseteq Found(under) /\ now \subseteq IdsOf(LogUnder)
          BY <2>1, <2>3, <3>2
        <4> HIDE DEF F, now
        <4>4. now \subseteq F(cut')
          BY <3>2, <4>1, <4>3
        <4>5. QED BY <4>2, <4>4
      <3>3. QED BY <1>4, <3>1, <3>2
    <2>5. now \subseteq summary' \cup IdsOf(messages')
      BY <1>1, <2>1, <2>2, <2>3
    <2>6. (1 .. last') \ (lost' \cup dropped') = now
      BY <1>1
    <2> HIDE DEF now
    <2>7. QED BY <2>4, <2>5, <2>6 DEF NothingForgotten
  <1>15. QED BY <1>10, <1>11, <1>12, <1>13, <1>14 DEF StoreOK

-----------------------------------------------------------------------------
(* A compaction.  The id that its record names is the one beside the first *)
(* message it keeps, and not behind that of the message.                   *)
LEMMA DurableIs ==
  ASSUME StoreOK, plan \in 2 .. Len(messages)
  PROVE  /\ messages[plan].id \in 1 .. last
         /\ DurableMessageId(plan) = ids[plan]
         /\ ids[plan] \in 1 .. last
         /\ ids[plan] <= messages[plan].id
         /\ Aligned => ids[plan] = messages[plan].id
  <1>1. /\ last \in Nat /\ messages \in Seq(MessagesUpTo(last)) /\ ids \in Seq(0 .. last)
        /\ Len(ids) >= Len(messages)
    BY StoreIs DEF StoreOK, StoreTypeOK, MemoryInOrder
  <1>2. /\ plan \in DOMAIN messages /\ plan \in DOMAIN ids /\ 1 \in DOMAIN messages /\ 1 \in DOMAIN ids
        /\ 1 < plan /\ plan \in Nat
    BY <1>1
  <1>3. messages[1].id \in 0 .. last /\ messages[plan].id \in 0 .. last
    BY <1>1, <1>2, MessageIs
  <1>4. messages[1].id < messages[plan].id
    BY <1>2 DEF StoreOK, MemoryInOrder
  <1>5. messages[plan].id \in 1 .. last
    BY <1>1, <1>3, <1>4
  <1>6. ids[1] \in 0 .. last /\ ids[plan] \in 0 .. last
    BY <1>1, <1>2
  <1>7. ids[1] < ids[plan] /\ ids[plan] <= messages[plan].id
    BY <1>2 DEF StoreOK, MemoryInOrder
  <1>8. ids[plan] \in 1 .. last
    BY <1>1, <1>6, <1>7
  <1>9. Aligned => ids[plan] = messages[plan].id
    BY <1>2 DEF Aligned
  <1>10. DurableMessageId(plan) = ids[plan]
    <2> DEFINE known == {j \in plan .. Len(ids) : ids[j] # 0}
    <2>1. plan \in known
      BY <1>1, <1>2, <1>8
    <2>2. known \in SUBSET Nat /\ \A j \in known : plan <= j
      BY <1>2
    <2>3. DurableMessageId(plan) = ids[Min(known)]
      BY <2>1 DEF DurableMessageId
    <2> HIDE DEF known
    <2>4. Min(known) \in known /\ Min(known) <= plan
      BY <2>1, <2>2, MinIs
    <2>5. Min(known) = plan
      <3>1. Min(known) \in Nat /\ plan <= Min(known)
        BY <2>2, <2>4
      <3>2. QED BY <1>2, <2>4, <3>1
    <2>6. QED BY <2>3, <2>5
  <1>11. QED BY <1>5, <1>7, <1>8, <1>9, <1>10

LEMMA CompactedIs ==
  ASSUME StoreOK, plan \in 2 .. Len(messages)
  PROVE  /\ Compacted \in Seq(MessagesUpTo(last))
         /\ Len(Compacted) = Len(messages) - plan + 2
         /\ Compacted[1] = Summary
         /\ \A i \in 2 .. Len(messages) - plan + 2 : Compacted[i] = messages[plan + i - 2]
  <1>1. last \in Nat /\ messages \in Seq(MessagesUpTo(last)) /\ plan \in 1 .. Len(messages)
    BY StoreIs
  <1>2. Compacted = From(messages, plan)
    BY DEF Compacted, From
  <1>3. QED BY <1>1, <1>2, FromIs

(* Each message of the list is archived or kept.                           *)
LEMMA ArchivedOrKept ==
  ASSUME StoreOK, plan \in 2 .. Len(messages)
  PROVE  /\ AfterSummary(plan) \subseteq 1 .. last
         /\ \A x \in IdsOf(messages) :
              IF x < messages[plan].id THEN x \in AfterSummary(plan) ELSE x \in IdsOf(Compacted)
  <1>1. /\ last \in Nat /\ messages \in Seq(MessagesUpTo(last)) /\ Rising(messages)
        /\ plan \in DOMAIN messages
    BY StoreIs
  <1>2. ASSUME NEW x \in AfterSummary(plan) PROVE x \in 1 .. last
    <2>1. PICK k \in 1 .. plan - 1 : messages[k].kind # "summary" /\ x = messages[k].id
      BY DEF AfterSummary
    <2>2. k \in DOMAIN messages
      BY <1>1
    <2>3. QED BY <1>1, <2>1, <2>2, MessageIs
  <1>3. ASSUME NEW x \in IdsOf(messages)
        PROVE  IF x < messages[plan].id THEN x \in AfterSummary(plan) ELSE x \in IdsOf(Compacted)
    <2>1. PICK k \in DOMAIN messages : messages[k].id = x /\ x # 0
      BY DEF IdsOf
    <2>2. messages[k].id \in 0 .. last /\ messages[k].kind # "summary" /\ messages[plan].id \in 0 .. last
      BY <1>1, <2>1, MessageIs
    <2>3. messages[plan].id <= messages[k].id <=> plan <= k
      BY <1>1, RisingOnce
    <2>4. CASE x < messages[plan].id
      <3>1. ~(plan <= k)
        BY <2>1, <2>2, <2>3, <2>4
      <3>2. k \in 1 .. plan - 1
        BY <1>1, <3>1
      <3>3. QED BY <2>1, <2>2, <2>4, <3>2 DEF AfterSummary
    <2>5. CASE ~(x < messages[plan].id)
      <3>1. plan <= k
        BY <2>1, <2>2, <2>3, <2>5
      <3>2. k - plan + 2 \in 2 .. Len(messages) - plan + 2 /\ plan + (k - plan + 2) - 2 = k
        BY <1>1, <3>1
      <3>3. /\ Len(Compacted) = Len(messages) - plan + 2 /\ Compacted \in Seq(MessagesUpTo(last))
            /\ Compacted[k - plan + 2] = messages[k]
        BY <3>2, CompactedIs
      <3>4. k - plan + 2 \in DOMAIN Compacted
        BY <1>1, <3>2, <3>3
      <3>5. QED BY <2>1, <2>5, <3>3, <3>4 DEF IdsOf
    <2>6. QED BY <2>4, <2>5
  <1>4. QED BY <1>2, <1>3

LEMMA CommitStore ==
  ASSUME StoreOK, plan \in 2 .. Len(messages), CommitCut
  PROVE  StoreOK'
  <1> DEFINE first == DurableMessageId(plan)
  <1>1. /\ last \in Nat /\ log \in Seq(MessagesUpTo(last)) /\ Rising(log)
        /\ messages \in Seq(MessagesUpTo(last)) /\ Rising(messages)
        /\ summary \cup lost \cup dropped \subseteq 1 .. last
        /\ Read(log, cut) = Load
    BY StoreIs DEF StoreOK, StoreTypeOK
  <1>2. /\ UNCHANGED <<messages, ids, summary, log, last, lost, dropped>>
        /\ pc = "commit" /\ pc' = "reset" /\ torn' = FALSE /\ plan' = plan
        /\ tail' = FALSE /\ under' \in {cut, under} /\ astray' \in BOOLEAN
        /\ parted' = parted \/ parted' = parted + 1
        /\ \/ cut' = under' /\ astray'
           \/ cut' = CutLine(first, Archived) /\ under' = cut /\ (~astray' => ~astray)
    <2>1. UNCHANGED <<messages, ids, summary, last, dropped>> /\ pc = "commit" /\ pc' = "reset" /\ plan' = plan
      BY DEF CommitCut, memVars, turnVars
    <2>2. log' = log /\ lost' = lost
      BY <2>1, UpIs DEF CommitCut
    <2>3. tail' = FALSE /\ torn' = FALSE /\ under' = CutUnder
      BY DEF CommitCut
    <2>4. PICK readable \in BOOLEAN :
            /\ Written(readable)
            /\ cut' = IF readable THEN CutLine(first, Archived) ELSE CutUnder
            /\ astray' = (astray \/ ~readable)
      BY DEF CommitCut
    <2> HIDE DEF first
    <2>5. astray' \in BOOLEAN /\ (parted' = parted \/ parted' = parted + 1)
      BY <2>4, Zenon DEF Written
    <2>6. CASE readable
      <3>1. ~torn /\ (~astray' => ~astray)
        BY <2>4, <2>6, Zenon DEF Written
      <3>2. cut' = CutLine(first, Archived) /\ under' = cut
        BY <2>3, <2>4, <2>6, <3>1 DEF CutUnder
      <3>3. QED BY <2>1, <2>2, <2>3, <2>5, <3>1, <3>2
    <2>7. CASE ~readable
      <3>1. cut' = under' /\ under' \in {cut, under}
        BY <2>3, <2>4, <2>7 DEF CutUnder
      <3>2. astray'
        BY <2>4, <2>7, Zenon
      <3>3. QED BY <2>1, <2>2, <2>3, <2>5, <3>1, <3>2
    <2>8. QED BY <2>6, <2>7
  <1>3. /\ first \in 1 .. last /\ first <= messages[plan].id /\ messages[plan].id \in 1 .. last
        /\ Aligned => first = messages[plan].id
    BY DurableIs, <1>1
  <1> HIDE DEF first
  <1>4. /\ AfterSummary(plan) \subseteq 1 .. last
        /\ \A x \in IdsOf(messages) :
             IF x < messages[plan].id THEN x \in AfterSummary(plan) ELSE x \in IdsOf(Compacted)
    BY ArchivedOrKept
  <1>5. CutLine(first, Archived) \in [first : 0 .. last, covers : SUBSET (1 .. last)]
    BY <1>1, <1>3, <1>4 DEF CutLine, Archived
  <1>6. StoreTypeOK'
    <2>1. /\ cut \in [first : 0 .. last, covers : SUBSET (1 .. last)]
          /\ under \in [first : 0 .. last, covers : SUBSET (1 .. last)]
      BY DEF StoreOK, StoreTypeOK
    <2>2. /\ cut' \in [first : 0 .. last, covers : SUBSET (1 .. last)]
          /\ under' \in [first : 0 .. last, covers : SUBSET (1 .. last)]
      BY <1>2, <1>5, <2>1
    <2>3. parted' \in Nat
      BY <1>2 DEF StoreOK, StoreTypeOK
    <2>4. QED BY <1>2, <2>2, <2>3 DEF StoreOK, StoreTypeOK, Message
  <1>7. LogInOrder' /\ MemoryInOrder'
    BY <1>2 DEF StoreOK, LogInOrder, MemoryInOrder, Aligned
  <1>8. Aligned' = Aligned /\ Compacted' = Compacted /\ Archived' = Archived
    BY <1>2 DEF Aligned, Compacted, Archived, AfterSummary
  <1>9. CASE cut' = under' /\ astray'
    <2>1. Found(cut)' = Found(cut) \/ Found(cut)' = Found(under)
      BY <1>2, <1>9 DEF Found, Read
    <2>2. Found(under)' = Found(cut)'
      BY <1>9 DEF Found, Read
    <2>3. /\ (1 .. last) \ (lost \cup dropped) \subseteq Found(cut) \cap Found(under)
          /\ (1 .. last) \ (lost \cup dropped) \subseteq summary \cup IdsOf(messages)
      BY <1>2 DEF StoreOK, NothingForgotten, Up
    <2>4. NothingForgotten'
      BY <1>2, <2>1, <2>2, <2>3 DEF NothingForgotten
    <2>5. LogIsContext'
      BY <1>9 DEF LogIsContext
    <2>6. QED BY <1>6, <1>7, <2>4, <2>5 DEF StoreOK
  <1>10. CASE cut' = CutLine(first, Archived) /\ under' = cut /\ (~astray' => ~astray)
    <2> DEFINE ct == CutLine(first, Archived)
    <2>1. Load' = Read(log, ct)
      BY <1>2, <1>10 DEF Load, Read
    <2>2. ct.first = first /\ ct.covers = Archived
      BY DEF CutLine
    <2> HIDE DEF ct
    <2> DEFINE kept == (1 .. last) \ (lost \cup dropped)
    <2>3. kept \subseteq summary \cup IdsOf(messages) /\ kept \subseteq IdsOf(log)
      BY <1>2 DEF StoreOK, NothingForgotten, LogInOrder, Up
    <2>4. kept \subseteq Load'.summary \cup IdsOf(Load'.messages)
      <3>1. CASE \A i \in DOMAIN log : log[i].id # first
        <4>1. Read(log, ct) = [messages |-> log, summary |-> {}]
          BY <1>1, <2>2, <3>1, ReadIs
        <4>2. QED BY <2>1, <2>3, <4>1
      <3>2. ASSUME NEW a \in DOMAIN log, log[a].id = first
            PROVE  kept \subseteq Load'.summary \cup IdsOf(Load'.messages)
        <4>1. Read(log, ct).summary = Archived
          BY <1>1, <2>2, <3>2, ReadIs
        <4>2. IdsOf(log) \subseteq {i \in IdsOf(log) : i < first} \cup IdsOf(Read(log, ct).messages)
          <5>1. \A i \in DOMAIN log : log[i].id > 0
            BY DEF StoreOK, LogInOrder
          <5>2. ct \in [first : 0 .. last, covers : SUBSET (1 .. last)]
            BY <1>5 DEF ct
          <5>3. QED BY <1>1, <2>2, <5>1, <5>2, ReadKeeps
        <4>3. ASSUME NEW x \in kept, x < first PROVE x \in Archived
          <5>1. CASE x \in summary
            BY <5>1 DEF Archived
          <5>2. CASE x \in IdsOf(messages)
            <6>1. x < messages[plan].id
              BY <1>1, <1>3, <4>3
            <6>2. QED BY <1>4, <5>2, <6>1 DEF Archived
          <5>3. QED BY <2>3, <5>1, <5>2
        <4> HIDE DEF kept
        <4>4. QED BY <2>1, <2>3, <4>1, <4>2, <4>3
      <3>3. QED BY <3>1, <3>2
    <2>5. NothingForgotten'
      <3>1. Found(cut)' = Load'.summary \cup IdsOf(Load'.messages)
        BY <1>2, <1>10, <2>1 DEF Found, Read, ct
      <3>2. Found(under)' = Found(cut) /\ kept \subseteq Found(cut)
        BY <1>2, <1>10 DEF Found, Read, StoreOK, NothingForgotten
      <3>3. QED BY <1>2, <2>3, <2>4, <3>1, <3>2 DEF NothingForgotten
    <2>6. LogIsContext'
      <3> SUFFICES ASSUME Aligned, ~astray
                   PROVE  Load' = [messages |-> Compacted, summary |-> Archived]
        BY <1>2, <1>8, <1>10 DEF LogIsContext, Settled
      <3>1. first = messages[plan].id /\ Load = [messages |-> messages, summary |-> summary]
        BY <1>2, <1>3 DEF StoreOK, LogIsContext, Settled, Up
      <3>2. PICK k \in DOMAIN log : log[k].id = first
        <4>1. first \in IdsOf(messages) /\ first # 0
          BY <1>1, <1>3, <3>1 DEF IdsOf
        <4>2. IdsOf(messages) \subseteq IdsOf(log)
          <5>1. CASE \A i \in DOMAIN log : log[i].id # cut.first
            <6>1. messages = log
              BY <1>1, <3>1, <5>1, ReadIs
            <6>2. QED BY <6>1
          <5>2. ASSUME NEW a \in DOMAIN log, log[a].id = cut.first
                PROVE  IdsOf(messages) \subseteq IdsOf(log)
            <6>1. messages = From(log, a) /\ a \in 1 .. Len(log)
              BY <1>1, <3>1, <5>2, ReadIs
            <6>2. /\ Len(messages) = Len(log) - a + 2 /\ messages[1] = Summary
                  /\ \A i \in 2 .. Len(log) - a + 2 : messages[i] = log[a + i - 2]
              BY <1>1, <6>1, FromIs
            <6>3. ASSUME NEW i \in DOMAIN messages, messages[i].id # 0
                  PROVE  \E j \in DOMAIN log : log[j].id = messages[i].id
              <7>1. i # 1
                BY <6>2, <6>3 DEF Summary
              <7>2. i \in 2 .. Len(log) - a + 2 /\ a + i - 2 \in DOMAIN log
                BY <1>1, <6>1, <6>2, <7>1
              <7>3. QED BY <6>2, <7>2
            <6>4. QED BY <6>3 DEF IdsOf
          <5>3. QED BY <5>1, <5>2
        <4>3. QED BY <4>1, <4>2 DEF IdsOf
      <3>3. Load' = [messages |-> From(log, k), summary |-> Archived]
        BY <1>1, <2>1, <2>2, <3>2, ReadIs
      <3>4. From(log, k) = Compacted
        <4>1. CASE \A i \in DOMAIN log : log[i].id # cut.first
          <5>1. messages = log
            BY <1>1, <3>1, <4>1, ReadIs
          <5>2. plan = k
            BY <1>1, <3>1, <3>2, <5>1, RisingOnce
          <5>3. QED BY <5>1, <5>2 DEF From, Compacted
        <4>2. ASSUME NEW a \in DOMAIN log, log[a].id = cut.first
              PROVE  From(log, k) = Compacted
          <5>1. messages = From(log, a)
            BY <1>1, <3>1, <4>2, ReadIs
          <5>2. /\ Len(messages) = Len(log) - a + 2
                /\ \A i \in 2 .. Len(log) - a + 2 : messages[i] = log[a + i - 2]
            <6>1. a \in 1 .. Len(log)
              BY <1>1
            <6>2. QED BY <1>1, <5>1, <6>1, FromIs
          <5>3. a + plan - 2 \in DOMAIN log /\ messages[plan] = log[a + plan - 2]
            BY <1>1, <5>2
          <5>4. k = a + plan - 2
            BY <1>1, <3>1, <3>2, <5>3, RisingOnce
          <5>5. k \in 1 .. Len(log) /\ plan \in 1 .. Len(messages)
            BY <1>1
          <5>6. /\ From(log, k) \in Seq(MessagesUpTo(last)) /\ Len(From(log, k)) = Len(log) - k + 2
                /\ From(log, k)[1] = Summary
                /\ \A i \in 2 .. Len(log) - k + 2 : From(log, k)[i] = log[k + i - 2]
            BY <1>1, <5>5, FromIs
          <5>7. /\ Compacted \in Seq(MessagesUpTo(last)) /\ Len(Compacted) = Len(messages) - plan + 2
                /\ Compacted[1] = Summary
                /\ \A i \in 2 .. Len(messages) - plan + 2 : Compacted[i] = messages[plan + i - 2]
            BY CompactedIs
          <5>8. Len(log) - k + 2 = Len(messages) - plan + 2
            BY <1>1, <5>2, <5>4
          <5>9. ASSUME NEW i \in 1 .. Len(log) - k + 2 PROVE From(log, k)[i] = Compacted[i]
            <6>1. CASE i = 1
              BY <5>6, <5>7, <6>1
            <6>2. CASE i # 1
              <7>1. i \in 2 .. Len(log) - k + 2 /\ plan + i - 2 \in 2 .. Len(log) - a + 2
                BY <1>1, <5>2, <5>4, <5>8, <6>2
              <7>2. a + (plan + i - 2) - 2 = k + i - 2
                BY <1>1, <5>4, <7>1
              <7>3. messages[plan + i - 2] = log[k + i - 2]
                BY <5>2, <7>1, <7>2
              <7>4. QED BY <5>6, <5>7, <5>8, <7>1, <7>3
            <6>3. QED BY <6>1, <6>2
          <5>10. QED BY <5>6, <5>7, <5>8, <5>9, SeqEqual
        <4>3. QED BY <4>1, <4>2
      <3>5. QED BY <3>3, <3>4
    <2>7. QED BY <1>6, <1>7, <2>5, <2>6 DEF StoreOK
  <1>11. QED BY <1>2, <1>9, <1>10

LEMMA FollowedIds ==
  ASSUME StoreOK, plan \in 2 .. Len(messages), FollowCut
  PROVE  /\ ids' \in Seq(0 .. last) /\ Len(ids') = Len(ids) - plan + 2
         /\ ids'[1] = 0
         /\ \A i \in 2 .. Len(ids) - plan + 2 : ids'[i] = ids[plan + i - 2]
  <1>1. last \in Nat /\ ids \in Seq(0 .. last) /\ Len(ids) >= Len(messages)
    BY DEF StoreOK, StoreTypeOK, MemoryInOrder
  <1>2. ids' = <<0>> \o SubSeq(ids, plan, Len(ids))
    BY <1>1 DEF FollowCut, KeptIds
  <1> DEFINE u == <<0>>
             t == SubSeq(ids, plan, Len(ids))
             S == 0 .. last
  <1>3. u \in Seq(S) /\ Len(u) = 1 /\ u[1] = 0
    BY <1>1
  <1>4. /\ t \in Seq(S) /\ Len(t) = Len(ids) - plan + 1
        /\ \A i \in 1 .. Len(ids) - plan + 1 : t[i] = ids[plan + i - 1]
    <2>1. plan \in Int /\ Len(ids) \in Int /\ plan <= Len(ids) /\ \A i \in plan .. Len(ids) : ids[i] \in S
      BY <1>1
    <2> HIDE DEF S
    <2>2. QED BY <2>1, SubSeqProperties
  <1>5. ids' = u \o t
    BY <1>2
  <1> HIDE DEF u, t, S
  <1>6. /\ u \o t \in Seq(S) /\ Len(u \o t) = Len(u) + Len(t)
        /\ \A i \in 1 .. Len(u) + Len(t) :
             (u \o t)[i] = IF i <= Len(u) THEN u[i] ELSE t[i - Len(u)]
    BY <1>3, <1>4, ConcatProperties, Zenon
  <1>7. Len(u) + Len(t) = Len(ids) - plan + 2 /\ Len(ids) - plan + 2 \in Nat \ {0, 1}
    BY <1>1, <1>3, <1>4
  <1>8. ids'[1] = 0
    BY <1>3, <1>5, <1>6, <1>7
  <1>9. ASSUME NEW i \in 2 .. Len(ids) - plan + 2 PROVE ids'[i] = ids[plan + i - 2]
    <2>1. i \in 1 .. Len(u) + Len(t) /\ ~(i <= 1) /\ i - 1 \in 1 .. Len(ids) - plan + 1
      BY <1>1, <1>7
    <2>2. plan + (i - 1) - 1 = plan + i - 2
      BY <2>1
    <2>3. ids'[i] = t[i - 1]
      BY <1>3, <1>5, <1>6, <2>1
    <2>4. QED BY <1>4, <2>1, <2>2, <2>3
  <1>10. QED BY <1>5, <1>6, <1>7, <1>8, <1>9 DEF S

LEMMA FollowStore ==
  ASSUME StoreOK, plan \in 2 .. Len(messages), FollowCut
  PROVE  StoreOK'
  <1> DEFINE c == Compacted
  <1>1. /\ last \in Nat /\ messages \in Seq(MessagesUpTo(last)) /\ Rising(messages)
        /\ ids \in Seq(0 .. last) /\ Len(ids) >= Len(messages)
        /\ summary \cup lost \cup dropped \subseteq 1 .. last
    BY StoreIs DEF StoreOK, StoreTypeOK, MemoryInOrder
  <1>2. /\ UNCHANGED <<log, cut, tail, under, torn, last, lost, parted, astray, dropped>>
        /\ pc = "reset" /\ pc' = "after"
        /\ messages' = c /\ summary' = Archived
        /\ ids' = <<0>> \o SubSeq(ids, plan, Len(ids))
    BY <1>1 DEF FollowCut, fileVars, history, KeptIds
  <1>3. /\ c \in Seq(MessagesUpTo(last)) /\ Len(c) = Len(messages) - plan + 2
        /\ c[1] = Summary
        /\ \A i \in 2 .. Len(messages) - plan + 2 : c[i] = messages[plan + i - 2]
    BY CompactedIs
  <1> HIDE DEF c
  <1>4. /\ ids' \in Seq(0 .. last) /\ Len(ids') = Len(ids) - plan + 2
        /\ ids'[1] = 0
        /\ \A i \in 2 .. Len(ids) - plan + 2 : ids'[i] = ids[plan + i - 2]
    BY FollowedIds
  <1>5. /\ AfterSummary(plan) \subseteq 1 .. last
        /\ \A x \in IdsOf(messages) :
             IF x < messages[plan].id THEN x \in AfterSummary(plan) ELSE x \in IdsOf(c)
    BY ArchivedOrKept DEF c
  <1>6. StoreTypeOK'
    BY <1>1, <1>2, <1>3, <1>4, <1>5 DEF StoreOK, StoreTypeOK, Message, Archived
  <1>7. LogInOrder'
    BY <1>2 DEF StoreOK, LogInOrder
  <1>8. \A i \in 2 .. Len(messages) - plan + 2 :
          plan + i - 2 \in DOMAIN messages /\ plan + i - 2 \in DOMAIN ids /\ plan + i - 2 > 1
    BY <1>1
  <1>9. ids[1] \in 0 .. last /\ \A i \in 2 .. Len(ids) - plan + 2 :
          plan + i - 2 \in DOMAIN ids /\ ids'[i] = ids[plan + i - 2] /\ ids'[i] \in 1 .. last
    <2>1. 1 \in DOMAIN ids /\ ids[1] \in 0 .. last
      BY <1>1
    <2>2. ASSUME NEW i \in 2 .. Len(ids) - plan + 2
          PROVE  plan + i - 2 \in DOMAIN ids /\ ids'[i] = ids[plan + i - 2] /\ ids'[i] \in 1 .. last
      <3>1. plan + i - 2 \in DOMAIN ids /\ 1 < plan + i - 2
        <4>1. plan + i - 2 \in 2 .. Len(ids)
          BY <1>1
        <4>2. QED BY <1>1, <4>1
      <3>2. ids[plan + i - 2] \in 0 .. last /\ ids[1] < ids[plan + i - 2]
        <4>1. ids[plan + i - 2] \in 0 .. last
          BY <1>1, <3>1
        <4>2. \A j, k \in DOMAIN ids : j < k => ids[j] < ids[k]
          BY DEF StoreOK, MemoryInOrder
        <4>3. QED BY <2>1, <3>1, <4>1, <4>2
      <3>3. ids[plan + i - 2] \in 1 .. last
        BY <1>1, <2>1, <3>2
      <3>4. QED BY <1>4, <3>1, <3>3
    <2>3. QED BY <2>1, <2>2
  <1>10. MemoryInOrder'
    <2>1. ASSUME NEW i \in DOMAIN c, NEW j \in DOMAIN c, i < j PROVE c[i].id < c[j].id
      <3>1. j \in 2 .. Len(messages) - plan + 2 /\ i \in 1 .. Len(messages) - plan + 2
        BY <1>3, <2>1
      <3>2. c[j] = messages[plan + j - 2] /\ plan + j - 2 \in DOMAIN messages
        BY <1>3, <1>8, <3>1
      <3>3. CASE i = 1
        <4>1. c[i].id = 0
          BY <1>3, <3>3 DEF Summary
        <4>2. 1 \in DOMAIN messages /\ 1 < plan + j - 2
          BY <1>1, <1>8, <3>1
        <4>3. messages[1].id < messages[plan + j - 2].id
          BY <3>2, <4>2 DEF Rising, StoreOK, MemoryInOrder
        <4>4. messages[1].id \in 0 .. last /\ messages[plan + j - 2].id \in 0 .. last
          BY <1>1, <3>2, <4>2, MessageIs
        <4>5. QED BY <1>1, <3>2, <4>1, <4>3, <4>4
      <3>4. CASE i # 1
        <4>1. i \in 2 .. Len(messages) - plan + 2 /\ plan + i - 2 < plan + j - 2
          BY <1>1, <2>1, <3>1, <3>4, SMTT(30)
        <4>2. c[i] = messages[plan + i - 2] /\ plan + i - 2 \in DOMAIN messages
          BY <1>3, <1>8, <4>1
        <4>3. QED BY <3>2, <4>1, <4>2 DEF StoreOK, MemoryInOrder
      <3>5. QED BY <3>3, <3>4
    <2>2. ASSUME NEW i \in DOMAIN ids', NEW j \in DOMAIN ids', i < j PROVE ids'[i] < ids'[j]
      <3>1. j \in 2 .. Len(ids) - plan + 2 /\ i \in 1 .. Len(ids) - plan + 2
        BY <1>4, <2>2
      <3>2. CASE i = 1
        <4>1. ids'[j] \in 1 .. last /\ ids'[i] = 0
          BY <1>4, <1>9, <3>1, <3>2
        <4>2. QED BY <1>1, <4>1
      <3>3. CASE i # 1
        <4>1. i \in 2 .. Len(ids) - plan + 2 /\ plan + i - 2 < plan + j - 2
          BY <1>1, <2>2, <3>1, <3>3, SMTT(30)
        <4>2. QED BY <1>9, <3>1, <4>1 DEF StoreOK, MemoryInOrder
      <3>4. QED BY <3>2, <3>3
    <2>3. ASSUME NEW i \in DOMAIN c PROVE ids'[i] <= c[i].id
      <3>1. i \in 1 .. Len(messages) - plan + 2
        BY <1>3
      <3>2. CASE i = 1
        BY <1>3, <1>4, <3>2 DEF Summary
      <3>3. CASE i # 1
        <4>1. i \in 2 .. Len(messages) - plan + 2 /\ i \in 2 .. Len(ids) - plan + 2
          BY <1>1, <3>1, <3>3
        <4>2. QED BY <1>3, <1>4, <1>8, <4>1 DEF StoreOK, MemoryInOrder
      <3>4. QED BY <3>2, <3>3
    <2>4. ASSUME Len(ids') = Len(c) PROVE ids' = [i \in DOMAIN c |-> c[i].id]
      <3>1. Len(ids) = Len(messages)
        BY <1>1, <1>3, <1>4, <2>4
      <3>2. ids = [i \in DOMAIN messages |-> messages[i].id]
        BY <3>1 DEF StoreOK, MemoryInOrder, Aligned
      <3>3. DOMAIN ids' = DOMAIN c
        BY <1>3, <1>4, <2>4
      <3>4. ASSUME NEW i \in DOMAIN c PROVE ids'[i] = c[i].id
        <4>1. i \in 1 .. Len(messages) - plan + 2
          BY <1>3
        <4>2. CASE i = 1
          BY <1>3, <1>4, <4>2 DEF Summary
        <4>3. CASE i # 1
          <5>1. i \in 2 .. Len(messages) - plan + 2
            BY <1>1, <4>1, <4>3
          <5>2. QED BY <1>3, <1>4, <1>8, <3>1, <3>2, <5>1
        <4>4. QED BY <4>2, <4>3
      <3>5. ids' \in [DOMAIN ids' -> 0 .. last]
        BY <1>4, SeqIsFunction
      <3>6. QED BY <3>3, <3>4, <3>5
    <2>5. Len(ids') >= Len(c)
      BY <1>1, <1>3, <1>4
    <2>6. QED BY <1>2, <2>1, <2>2, <2>3, <2>4, <2>5 DEF MemoryInOrder, Aligned
  <1>11. Load' = Load /\ Found(cut)' = Found(cut) /\ Found(under)' = Found(under)
    BY <1>2 DEF Load, Found, Read
  <1>12. LogIsContext'
    <2> SUFFICES ASSUME Aligned', ~astray PROVE Load = [messages |-> c, summary |-> Archived]
      BY <1>2, <1>11 DEF LogIsContext
    <2>1. Len(ids') = Len(c)
      <3>1. DOMAIN ids' = DOMAIN c
        BY <1>2 DEF Aligned
      <3>2. DOMAIN ids' = 1 .. Len(ids') /\ DOMAIN c = 1 .. Len(c) /\ Len(ids') \in Nat /\ Len(c) \in Nat
        BY <1>3, <1>4
      <3>3. 1 .. Len(ids') = 1 .. Len(c)
        BY <3>1, <3>2
      <3>4. QED BY <3>2, <3>3, SameInterval
    <2>2. Len(ids) = Len(messages)
      BY <1>1, <1>3, <1>4, <2>1
    <2>3. QED BY <1>2, <2>2 DEF StoreOK, MemoryInOrder, LogIsContext, c
  <1>13. NothingForgotten'
    <2> DEFINE kept == (1 .. last) \ (lost \cup dropped)
    <2>1. /\ kept \subseteq summary \cup IdsOf(messages)
          /\ kept \subseteq Found(cut) /\ kept \subseteq Found(under)
      BY <1>2 DEF StoreOK, NothingForgotten, Up
    <2>2. IdsOf(messages) \subseteq AfterSummary(plan) \cup IdsOf(c)
      BY <1>5
    <2>3. kept \subseteq Archived \cup IdsOf(c)
      BY <2>1, <2>2 DEF Archived
    <2>4. QED BY <1>2, <1>11, <2>1, <2>3 DEF NothingForgotten
  <1>14. QED BY <1>6, <1>7, <1>10, <1>12, <1>13 DEF StoreOK

-----------------------------------------------------------------------------
(* What a recursive function on 0 .. n computes, step by step. *)
StepsOn(S) == [Nat -> [S -> S]]

Runs(S, a, step, n) ==
  {g \in [0 .. n -> S] : g[0] = a /\ \A i \in 1 .. n : g[i] = step[i][g[i - 1]]}

LEMMA Recursion ==
  ASSUME NEW S, NEW a \in S, NEW step \in StepsOn(S), NEW n \in Nat
  PROVE  Runs(S, a, step, n) # {}
  <1> DEFINE Is(g, k) == g \in [0 .. k -> S] /\ g[0] = a /\ \A i \in 1 .. k : g[i] = step[i][g[i - 1]]
             P == {k \in Nat : \E g : Is(g, k)}
  <1>1. 0 \in P
    <2>1. Is([i \in 0 .. 0 |-> a], 0)
      OBVIOUS
    <2>2. QED BY <2>1
  <1>2. ASSUME NEW k \in Nat, k \in P PROVE k + 1 \in P
    <2>1. PICK g : Is(g, k)
      BY <1>2
    <2> DEFINE h == [i \in 0 .. k + 1 |-> IF i \in 0 .. k THEN g[i] ELSE step[k + 1][g[k]]]
    <2>2. step[k + 1][g[k]] \in S
      BY <2>1 DEF StepsOn
    <2>3. h \in [0 .. k + 1 -> S]
      BY <2>1, <2>2
    <2>4. h[0] = a
      BY <2>1
    <2>5. ASSUME NEW i \in 1 .. k + 1 PROVE h[i] = step[i][h[i - 1]]
      <3>1. CASE i \in 1 .. k
        BY <2>1, <3>1
      <3>2. CASE i = k + 1
        BY <2>1, <3>2
      <3>3. QED BY <3>1, <3>2
    <2>6. Is(h, k + 1)
      BY <2>3, <2>4, <2>5
    <2> HIDE DEF Is
    <2>7. QED BY <2>6
  <1>3. n \in P
    <2> HIDE DEF P
    <2>1. QED BY <1>1, <1>2, SetInduction
  <1>4. QED BY <1>3 DEF Runs

-----------------------------------------------------------------------------
(* The context that a request shows. *)
LEMMA ViewIs ==
  ASSUME NEW f
  PROVE  f \in Views <=> \E S \in SUBSET Keys : f \in [S -> Values]
  BY DEF Views

LEMMA AppliedType ==
  ASSUME NEW v \in Views, NEW d \in Delta
  PROVE  Applied(v, d) \in Views
  <1>1. PICK S \in SUBSET Keys : v \in [S -> Values]
    BY ViewIs
  <1>2. d.set \in Views
    BY DEF Delta
  <1>3. PICK T \in SUBSET Keys : d.set \in [T -> Values]
    BY <1>2, ViewIs
  <1> DEFINE base == IF d.reset THEN NoView ELSE v
             D == (DOMAIN base \ d.remove) \cup DOMAIN d.set
             f == [k \in D |-> IF k \in DOMAIN d.set THEN d.set[k] ELSE base[k]]
  <1>4. Applied(v, d) = f
    BY DEF Applied
  <1>5. DOMAIN base \subseteq Keys /\ \A k \in DOMAIN base : base[k] \in Values
    BY <1>1 DEF NoView
  <1> HIDE DEF base
  <1>6. D \in SUBSET Keys
    BY <1>3, <1>5
  <1>7. f \in [D -> Values]
    BY <1>3, <1>5
  <1> HIDE DEF f, D
  <1>8. QED BY <1>4, <1>6, <1>7, ViewIs

NextShown(v, m) == IF m.kind = "update" THEN Applied(v, m.delta) ELSE v

(* Shown goes through the list, message by message. *)
LEMMA ShownSteps ==
  ASSUME NEW n \in Nat, NEW ms \in Seq(MessagesUpTo(n))
  PROVE  \E g \in [0 .. Len(ms) -> Views] :
           /\ g[0] = NoView
           /\ \A i \in 1 .. Len(ms) : g[i] = NextShown(g[i - 1], ms[i])
           /\ Shown(ms) = g[Len(ms)]
  <1> DEFINE k == Len(ms)
             step == [i \in Nat |-> [v \in Views |->
                        IF i \in 1 .. k THEN NextShown(v, ms[i]) ELSE v]]
             Rec(f) == f = [i \in 0 .. k |->
                              IF i = 0 THEN NoView
                              ELSE IF ms[i].kind = "update" THEN Applied(f[i - 1], ms[i].delta)
                              ELSE f[i - 1]]
             upTo == CHOOSE f : Rec(f)
  <1>1. k \in Nat /\ \A i \in 1 .. k : ms[i] \in MessagesUpTo(n)
    OBVIOUS
  <1>2. ASSUME NEW i \in 1 .. k, NEW v \in Views PROVE NextShown(v, ms[i]) \in Views
    <2>1. ms[i].kind = "update" => ms[i].delta \in Delta
      BY <1>1, MessageIs
    <2>2. QED BY <2>1, AppliedType DEF NextShown
  <1>3. NoView \in Views
    <2>1. NoView \in [{} -> Values]
      BY DEF NoView
    <2>2. QED BY <2>1, ViewIs
  <1>4. step \in [Nat -> [Views -> Views]]
    BY <1>2
  <1>5. PICK g \in [0 .. k -> Views] : g[0] = NoView /\ \A i \in 1 .. k : g[i] = step[i][g[i - 1]]
    <2> HIDE DEF step, k, Rec, upTo
    <2>1. k \in Nat /\ step \in StepsOn(Views)
      BY <1>1, <1>4 DEF StepsOn
    <2>2. Runs(Views, NoView, step, k) # {}
      BY <1>3, <2>1, Recursion
    <2>3. QED BY <2>2 DEF Runs
  <1>6. ASSUME NEW i \in 1 .. k
        PROVE  g[i - 1] \in Views /\ g[i] = NextShown(g[i - 1], ms[i])
    <2>1. i \in Nat /\ i - 1 \in 0 .. k
      BY <1>1
    <2>2. g[i - 1] \in Views
      BY <2>1, <1>5
    <2>3. QED BY <2>1, <2>2, <1>5
  <1> HIDE DEF k, step
  <1>7. Rec(g)
    BY <1>1, <1>5, <1>6 DEF NextShown
  <1>8. Rec(upTo)
    BY <1>7
  <1>9. upTo[0] = NoView /\ \A i \in 1 .. k : upTo[i] = NextShown(upTo[i - 1], ms[i])
    <2> HIDE DEF upTo
    <2>1. QED BY <1>1, <1>8 DEF NextShown
  <1>10. Shown(ms) = upTo[k]
    BY DEF Shown, k
  <1> HIDE DEF upTo, Rec
  <1>11. \A j \in Nat : j \in {i \in Nat : i <= k => upTo[i] = g[i]}
    <2> DEFINE P == {i \in Nat : i <= k => upTo[i] = g[i]}
    <2>1. 0 \in P
      BY <1>5, <1>9
    <2>2. ASSUME NEW j \in Nat, j \in P PROVE j + 1 \in P
      <3>1. CASE j + 1 <= k
        <4>1. upTo[j] = g[j] /\ j + 1 \in 1 .. k /\ (j + 1) - 1 = j
          BY <1>1, <2>2, <3>1
        <4>2. QED BY <4>1, <1>6, <1>9
      <3>2. QED BY <3>1, <1>1
    <2> HIDE DEF P
    <2>3. \A j \in Nat : j \in P
      BY <2>1, <2>2, SetInduction
    <2>4. QED BY <2>3 DEF P
  <1>12. Shown(ms) = g[k]
    BY <1>1, <1>10, <1>11
  <1>13. QED BY <1>5, <1>6, <1>12 DEF k

LEMMA ShownType ==
  ASSUME NEW n \in Nat, NEW ms \in Seq(MessagesUpTo(n))
  PROVE  Shown(ms) \in Views
  <1>1. Len(ms) \in 0 .. Len(ms)
    OBVIOUS
  <1>2. QED BY <1>1, ShownSteps

LEMMA ShownAppend ==
  ASSUME NEW n \in Nat, NEW ms \in Seq(MessagesUpTo(n)), NEW m \in MessagesUpTo(n)
  PROVE  Shown(Append(ms, m)) = NextShown(Shown(ms), m)
  <1> DEFINE a == Append(ms, m)
  <1>1. /\ a \in Seq(MessagesUpTo(n)) /\ Len(a) = Len(ms) + 1 /\ Len(ms) \in Nat
        /\ \A i \in DOMAIN ms : a[i] = ms[i]
        /\ a[Len(ms) + 1] = m
    BY AppendIs
  <1> HIDE DEF a
  <1>2. PICK g \in [0 .. Len(ms) -> Views] :
          /\ g[0] = NoView
          /\ \A i \in 1 .. Len(ms) : g[i] = NextShown(g[i - 1], ms[i])
          /\ Shown(ms) = g[Len(ms)]
    BY ShownSteps
  <1>3. PICK h \in [0 .. Len(a) -> Views] :
          /\ h[0] = NoView
          /\ \A i \in 1 .. Len(a) : h[i] = NextShown(h[i - 1], a[i])
          /\ Shown(a) = h[Len(a)]
    BY <1>1, ShownSteps
  <1> DEFINE P == {i \in Nat : i <= Len(ms) => h[i] = g[i]}
  <1>4. 0 \in P
    BY <1>2, <1>3
  <1>5. ASSUME NEW j \in Nat, j \in P PROVE j + 1 \in P
    <2>1. CASE j + 1 <= Len(ms)
      <3>1. /\ h[j] = g[j] /\ j + 1 \in 1 .. Len(ms) /\ j + 1 \in 1 .. Len(a)
            /\ (j + 1) - 1 = j /\ j + 1 \in DOMAIN ms
        <4>1. Len(ms) \in Nat /\ Len(a) = Len(ms) + 1
          BY <1>1
        <4>2. j <= Len(ms) /\ j + 1 \in 1 .. Len(ms) /\ j + 1 \in 1 .. Len(a)
          BY <2>1, <4>1
        <4>3. h[j] = g[j]
          BY <1>5, <4>2
        <4>4. QED BY <4>2, <4>3
      <3>2. h[j + 1] = NextShown(h[j], a[j + 1])
        BY <1>3, <3>1
      <3>3. g[j + 1] = NextShown(g[j], ms[j + 1])
        BY <1>2, <3>1
      <3>4. QED BY <1>1, <3>1, <3>2, <3>3
    <2>2. QED BY <2>1, <1>1
  <1>6. Len(ms) \in P
    <2> HIDE DEF P
    <2>1. QED BY <1>1, <1>4, <1>5, SetInduction
  <1>7. h[Len(ms)] = Shown(ms)
    BY <1>1, <1>2, <1>6
  <1>8. Len(a) \in 1 .. Len(a) /\ Len(a) - 1 = Len(ms) /\ a[Len(a)] = m
    BY <1>1
  <1>9. QED BY <1>3, <1>7, <1>8 DEF a

(* An update says the difference to what is wanted, or all of it.          *)
LEMMA DeltasAre ==
  ASSUME NEW n \in Nat, NEW ms \in Seq(MessagesUpTo(n)), NEW desired \in Views
  PROVE  /\ \A d \in Deltas(ms, desired) : d \in Delta /\ Applied(Shown(ms), d) = desired
         /\ Unanswered(ms) = {} /\ Deltas(ms, desired) = {} => Shown(ms) = desired
  <1> DEFINE now == Shown(ms)
             changed == {k \in DOMAIN desired : k \notin DOMAIN now \/ now[k] # desired[k]}
             removed == DOMAIN now \ DOMAIN desired
             whole == [reset |-> TRUE, set |-> desired, remove |-> {}]
             diff == [k \in changed |-> desired[k]]
             part == [reset |-> FALSE, set |-> diff, remove |-> removed]
  <1>1. now \in Views
    BY ShownType
  <1>2. Deltas(ms, desired) \subseteq {whole, part}
    BY DEF Deltas
  <1>3. Unanswered(ms) = {} /\ Deltas(ms, desired) = {} => changed \cup removed = {}
    BY DEF Deltas
  <1> HIDE DEF now
  <1>4. PICK S \in SUBSET Keys : now \in [S -> Values]
    BY <1>1, ViewIs
  <1>5. PICK T \in SUBSET Keys : desired \in [T -> Values]
    BY ViewIs
  <1>6. changed \cup removed = {} => now = desired
    <2> SUFFICES ASSUME changed \cup removed = {} PROVE now = desired
      OBVIOUS
    <2>1. S = T
      BY <1>4, <1>5
    <2>2. \A k \in T : now[k] = desired[k]
      BY <1>4, <1>5
    <2>3. QED BY <1>4, <1>5, <2>1, <2>2
  <1>7. whole \in Delta
    BY DEF Delta
  <1>8. part \in Delta
    <2>1. diff \in [changed -> Values] /\ changed \in SUBSET Keys /\ removed \in SUBSET Keys
      BY <1>4, <1>5
    <2>2. diff \in Views
      BY <2>1, ViewIs
    <2>3. QED BY <2>1, <2>2 DEF Delta
  <1>9. Applied(now, whole) = desired
    <2>1. Applied(now, whole)
            = [k \in (DOMAIN NoView \ {}) \cup DOMAIN desired |->
                 IF k \in DOMAIN desired THEN desired[k] ELSE NoView[k]]
      BY DEF Applied
    <2>2. DOMAIN NoView = {}
      BY DEF NoView
    <2>3. QED BY <1>5, <2>1, <2>2
  <1>10. Applied(now, part) = desired
    <2>1. Applied(now, part)
            = [k \in (DOMAIN now \ removed) \cup DOMAIN diff |->
                 IF k \in DOMAIN diff THEN diff[k] ELSE now[k]]
      BY DEF Applied
    <2>2. (DOMAIN now \ removed) \cup DOMAIN diff = T
      BY <1>5
    <2>3. \A k \in T : (IF k \in DOMAIN diff THEN diff[k] ELSE now[k]) = desired[k]
      BY <1>5
    <2>4. QED BY <1>5, <2>1, <2>2, <2>3
  <1>11. ASSUME NEW d \in Deltas(ms, desired) PROVE d \in Delta /\ Applied(now, d) = desired
    <2>1. d = whole \/ d = part
      BY <1>2
    <2> HIDE DEF whole, part
    <2>2. QED BY <1>7, <1>8, <1>9, <1>10, <2>1
  <1>12. QED BY <1>3, <1>6, <1>11 DEF now

-----------------------------------------------------------------------------
(* The steps.  What the invariant says of the run: *)
ControlOK ==
  /\ pc \in Up \cup {"down"}
  /\ open \in 0 .. MaxRound /\ batch \in 0 .. MaxRound /\ plan \in Nat /\ view \in Views
  /\ skewed \in BOOLEAN /\ crashes \in Nat
  /\ CutPlanned /\ RoundUnderWay /\ FingerprintReadsBatch

LEMMA Parts ==
  /\ ContextInv <=> StoreOK /\ ControlOK
  /\ ContextInv' <=> StoreOK' /\ ControlOK'
  BY DEF ContextInv, ContextTypeOK, StoreOK, StoreTypeOK, ControlOK

LEMMA InitOK == Init => ContextInv
  <1> SUFFICES ASSUME Init PROVE ContextInv
    OBVIOUS
  <1> USE DEF Init
  <1>1. IdsOf(log) = {} /\ DOMAIN log = {} /\ DOMAIN messages = {}
    BY IdsOfEmpty
  <1>2. StoreTypeOK
    <2>1. cut \in [first : 0 .. last, covers : SUBSET (1 .. last)] /\ under = cut
      BY DEF NoCut, CutLine
    <2>2. messages \in Seq(Message) /\ ids \in Seq(0 .. last) /\ log \in Seq(Message)
      OBVIOUS
    <2>3. summary \cup lost \cup dropped = {} /\ last \in Nat /\ parted \in Nat
      OBVIOUS
    <2>4. torn \in BOOLEAN /\ tail \in BOOLEAN /\ astray \in BOOLEAN
      BY Zenon
    <2>5. QED BY <2>4,  <2>1, <2>2, <2>3 DEF StoreTypeOK
  <1>3. LogInOrder
    BY <1>1 DEF LogInOrder
  <1>4. MemoryInOrder
    BY DEF MemoryInOrder, Aligned
  <1>5. Load = [messages |-> << >>, summary |-> {}]
    BY <1>1 DEF Load, Read
  <1>6. LogIsContext
    BY <1>5 DEF LogIsContext
  <1>7. NothingForgotten
    <2>1. 1 .. last = {}
      OBVIOUS
    <2>2. QED BY <2>1 DEF NothingForgotten
  <1>8. ControlOK
    <2>1. view \in Views
      <3>1. NoView \in [{} -> Values]
        BY DEF NoView
      <3>2. QED BY <3>1, ViewIs
    <2>2. CutPlanned /\ RoundUnderWay /\ FingerprintReadsBatch /\ pc \in Up
      BY DEF Up, CutPlanned, RoundUnderWay, FingerprintReadsBatch
    <2>3. 0 \in 0 .. MaxRound
      BY ContextAssumption
    <2>4. skewed \in BOOLEAN
      BY Zenon
    <2>5. QED BY <2>1, <2>2, <2>3, <2>4 DEF ControlOK
  <1>9. QED BY <1>2, <1>3, <1>4, <1>6, <1>7, <1>8, Parts DEF StoreOK

LEMMA PromptOK == ASSUME ContextInv, Prompt PROVE ContextInv'
  <1>1. StoreOK /\ ControlOK /\ last \in Nat
    BY Parts, StoreIs
  <1>2. User(last + 1) \in MessagesUpTo(last + 1) /\ User(last + 1).id = last + 1
    BY <1>1, NewMessages
  <1>3. StoreOK'
    BY <1>1, <1>2, AppendStore DEF Prompt, history, Up
  <1>4. ControlOK'
    BY <1>1 DEF Prompt, ControlOK, CutPlanned, RoundUnderWay, FingerprintReadsBatch, turnVars, history, Up
  <1>5. QED BY <1>3, <1>4, Parts

LEMMA TurnOK ==
  ASSUME ContextInv, NEW desired \in Views, Turn(desired)
  PROVE  ContextInv' /\ RequestShowsView'
  <1>1. /\ StoreOK /\ ControlOK /\ last \in Nat /\ messages \in Seq(MessagesUpTo(last))
        /\ last + 1 \in Nat \ {0}
    BY Parts, StoreIs
  <1>2. /\ \A d \in Deltas(messages, desired) : d \in Delta /\ Applied(Shown(messages), d) = desired
        /\ Unanswered(messages) = {} /\ Deltas(messages, desired) = {} => Shown(messages) = desired
    BY <1>1, DeltasAre
  <1>3. ControlOK'
    BY <1>1 DEF Turn, ControlOK, CutPlanned, RoundUnderWay, FingerprintReadsBatch, history, Up
  <1>4. CASE Deltas(messages, desired) = {} /\ UNCHANGED <<memVars, fileVars>>
    <2>1. StoreOK'
      BY <1>1, <1>4, StoreUnchanged DEF Turn, history, Up
    <2>2. RequestShowsView'
      BY <1>2, <1>4 DEF RequestShowsView, Turn, memVars
    <2>3. QED BY <1>3, <2>1, <2>2, Parts
  <1>5. ASSUME NEW d \in Deltas(messages, desired), AppendMessage(Update(last + 1, d))
        PROVE  ContextInv' /\ RequestShowsView'
    <2> DEFINE m == Update(last + 1, d)
    <2>1. m \in MessagesUpTo(last + 1) /\ m.id = last + 1 /\ m.kind = "update" /\ m.delta = d
      BY <1>1, <1>2, NewMessages
    <2> HIDE DEF m
    <2>2. AppendMessage(m)
      BY <1>5 DEF m
    <2>3. StoreOK'
      BY <1>1, <2>1, <2>2, AppendStore DEF Turn, history, Up
    <2>4. messages \in Seq(MessagesUpTo(last + 1))
      <3>1. MessagesUpTo(last) \subseteq MessagesUpTo(last + 1)
        BY <1>1, MessagesGrow
      <3>2. QED BY <1>1, <3>1
    <2>5. Shown(Append(messages, m)) = desired
      <3>1. Shown(Append(messages, m)) = NextShown(Shown(messages), m)
        BY <1>1, <2>1, <2>4, ShownAppend
      <3>2. QED BY <1>2, <2>1, <3>1 DEF NextShown
    <2>6. messages' = Append(messages, m) /\ view' = desired
      BY <2>2 DEF AppendMessage, Turn
    <2>7. RequestShowsView'
      BY <2>5, <2>6 DEF RequestShowsView
    <2>8. QED BY <1>3, <2>3, <2>7, Parts
  <1>6. QED BY <1>4, <1>5 DEF Turn

LEMMA AskOK ==
  ASSUME ContextInv, NEW n \in 1 .. MaxRound, Ask(n)
  PROVE  ContextInv'
  <1>1. /\ StoreOK /\ ControlOK /\ last \in Nat /\ messages \in Seq(MessagesUpTo(last))
        /\ last + 1 \in Nat \ {0} /\ MaxRound \in Nat
    BY Parts, StoreIs, ContextAssumption
  <1> DEFINE m == Calls(last + 1, n)
  <1>2. m \in MessagesUpTo(last + 1) /\ m.id = last + 1 /\ m.kind = "calls"
    BY <1>1, NewMessages
  <1> HIDE DEF m
  <1>3. AppendMessage(m)
    BY DEF Ask, m
  <1>4. StoreOK'
    BY <1>1, <1>2, <1>3, AppendStore DEF Ask, history, Up
  <1>5. Len(messages') = Len(messages) + 1 /\ Len(messages) \in Nat /\ messages'[Len(messages) + 1] = m
    BY <1>1, <1>3 DEF AppendMessage
  <1>6. open' = n /\ batch' = n /\ pc' = "round" /\ view' = view /\ plan' = plan
        /\ skewed' = skewed /\ crashes' = crashes
    BY DEF Ask, history
  <1>7. batch' - open' = 0 /\ Len(messages') - (batch' - open') = Len(messages) + 1
    BY <1>5, <1>6
  <1>8. EndsWithResults(batch - open)'
    <2>1. \A i \in Len(messages') - (batch' - open') + 1 .. Len(messages') : FALSE
      BY <1>5, <1>7
    <2>2. batch' - open' < Len(messages')
      BY <1>5, <1>7
    <2>3. QED BY <2>1, <2>2 DEF EndsWithResults
  <1>9. RoundUnderWay'
    <2>1. open' \in 1 .. batch'
      BY <1>6
    <2>2. messages'[Len(messages') - (batch' - open')].kind = "calls"
      BY <1>2, <1>5, <1>7
    <2>3. QED BY <1>8, <2>1, <2>2 DEF RoundUnderWay
  <1>10. ControlOK'
    BY <1>1, <1>6, <1>9 DEF ControlOK, CutPlanned, FingerprintReadsBatch, Up
  <1>11. QED BY <1>4, <1>10, Parts

LEMMA ReplyOK == ASSUME ContextInv, Reply PROVE ContextInv'
  <1>1. /\ StoreOK /\ ControlOK /\ last \in Nat /\ messages \in Seq(MessagesUpTo(last))
        /\ last + 1 \in Nat \ {0} /\ MaxRound \in Nat
    BY Parts, StoreIs, ContextAssumption
  <1>2. batch' = 0 /\ open' = open /\ view' = view /\ plan' = plan /\ skewed' = skewed
        /\ crashes' = crashes /\ dropped' = dropped
    BY DEF Reply, history
  <1>3. CASE AppendMessage(Text(last + 1)) /\ pc' = "finished"
    <2>1. Text(last + 1) \in MessagesUpTo(last + 1) /\ Text(last + 1).id = last + 1
      BY <1>1, NewMessages
    <2>2. StoreOK'
      BY <1>1, <1>2, <1>3, <2>1, AppendStore DEF Reply, Up
    <2>3. Len(messages') = Len(messages) + 1 /\ Len(messages) \in Nat
      BY <1>1, <1>3 DEF AppendMessage
    <2>4. EndsWithResults(batch)'
      <3>1. \A i \in Len(messages') - batch' + 1 .. Len(messages') : FALSE
        BY <1>2, <2>3
      <3>2. QED BY <1>2, <2>3, <3>1 DEF EndsWithResults
    <2>5. ControlOK'
      BY <1>1, <1>2, <1>3, <2>4 DEF ControlOK, CutPlanned, RoundUnderWay, FingerprintReadsBatch, Up
    <2>6. QED BY <2>2, <2>5, Parts
  <1>4. CASE pc' = "idle" /\ UNCHANGED <<memVars, fileVars>>
    <2>1. StoreOK'
      BY <1>1, <1>2, <1>4, StoreUnchanged DEF Reply, Up
    <2>2. ControlOK'
      BY <1>1, <1>2, <1>4 DEF ControlOK, CutPlanned, RoundUnderWay, FingerprintReadsBatch, Up
    <2>3. QED BY <2>1, <2>2, Parts
  <1>5. QED BY <1>3, <1>4 DEF Reply

LEMMA ResultsAppend ==
  ASSUME NEW n \in Nat, messages \in Seq(MessagesUpTo(n)), NEW m, m.kind = "result",
         messages' = Append(messages, m), NEW k \in Nat, EndsWithResults(k)
  PROVE  k + 1 < Len(messages') /\ \A i \in Len(messages') - k .. Len(messages') : messages'[i].kind = "result"
  <1>1. /\ Len(messages') = Len(messages) + 1 /\ Len(messages) \in Nat
        /\ messages'[Len(messages) + 1] = m
        /\ \A i \in DOMAIN messages : messages'[i] = messages[i]
    OBVIOUS
  <1>2. k < Len(messages) /\ \A i \in Len(messages) - k + 1 .. Len(messages) : messages[i].kind = "result"
    BY DEF EndsWithResults
  <1> DEFINE len == Len(messages)
  <1>3. len \in Nat /\ Len(messages') = len + 1 /\ k < len /\ DOMAIN messages = 1 .. len
    BY <1>1, <1>2
  <1> HIDE DEF len
  <1>4. ASSUME NEW i \in len + 1 - k .. len + 1 PROVE messages'[i].kind = "result"
    <2>1. CASE i = len + 1
      BY <1>1, <2>1 DEF len
    <2>2. CASE i # len + 1
      <3>1. i \in len - k + 1 .. len /\ i \in DOMAIN messages
        BY <1>3, <2>2
      <3>2. QED BY <1>1, <1>2, <3>1 DEF len
    <2>3. QED BY <2>1, <2>2
  <1>5. k + 1 < len + 1
    BY <1>3
  <1>6. QED BY <1>3, <1>4, <1>5

LEMMA AnswerOK == ASSUME ContextInv, Answer PROVE ContextInv'
  <1>1. /\ StoreOK /\ ControlOK /\ last \in Nat /\ messages \in Seq(MessagesUpTo(last))
        /\ last + 1 \in Nat \ {0} /\ MaxRound \in Nat
    BY Parts, StoreIs, ContextAssumption
  <1>2. /\ pc = "round" /\ open' = open - 1 /\ batch' = batch /\ view' = view /\ plan' = plan
        /\ skewed' = skewed /\ crashes' = crashes /\ dropped' = dropped
        /\ pc' \in IF open = 1 THEN {"finished", "idle"} ELSE {"round"}
    BY DEF Answer, history
  <1>3. /\ open \in 1 .. batch /\ open \in 0 .. MaxRound /\ batch \in 0 .. MaxRound
        /\ EndsWithResults(batch - open)
        /\ messages[Len(messages) - (batch - open)].kind = "calls"
    BY <1>1, <1>2 DEF ControlOK, RoundUnderWay
  <1> DEFINE done == batch - open
             at == Len(messages) - done
  <1>4. done \in Nat /\ at \in DOMAIN messages /\ Len(messages) \in Nat
    BY <1>1, <1>3 DEF EndsWithResults
  <1>5. RoundId \in 1 .. last
    <2> DEFINE calls == {i \in DOMAIN messages : messages[i].kind = "calls"}
    <2>1. at \in calls
      BY <1>3, <1>4
    <2>2. calls \in SUBSET (0 .. Len(messages)) /\ calls # {}
      BY <1>1, <2>1
    <2>3. RoundId = messages[Max(calls)].id
      BY DEF RoundId
    <2>4. calls \subseteq DOMAIN messages /\ \A i \in calls : messages[i].kind = "calls"
      OBVIOUS
    <2> HIDE DEF calls
    <2>5. Max(calls) \in calls
      BY <1>4, <2>2, MaxIs
    <2>6. messages[Max(calls)] \in MessagesUpTo(last) /\ messages[Max(calls)].kind = "calls"
      BY <1>1, <2>4, <2>5
    <2>7. QED BY <1>1, <2>3, <2>6, MessageIs
  <1> DEFINE m == Result(last + 1, RoundId)
  <1>6. m \in MessagesUpTo(last + 1) /\ m.id = last + 1 /\ m.kind = "result"
    <2>1. RoundId \in 1 .. last + 1
      BY <1>1, <1>5
    <2>2. QED BY <1>1, <2>1, NewMessages
  <1> HIDE DEF m
  <1>7. AppendMessage(m)
    BY DEF Answer, m
  <1>8. StoreOK'
    BY <1>1, <1>2, <1>6, <1>7, AppendStore DEF Up
  <1>9. messages' = Append(messages, m)
    BY <1>7 DEF AppendMessage
  <1>10. done + 1 < Len(messages') /\ \A i \in Len(messages') - done .. Len(messages') : messages'[i].kind = "result"
    BY <1>1, <1>3, <1>4, <1>6, <1>9, ResultsAppend
  <1>11. Len(messages') = Len(messages) + 1 /\ messages'[at] = messages[at]
    BY <1>1, <1>4, <1>9
  <1>12. CASE open = 1
    <2>1. batch' = done + 1
      BY <1>2, <1>3, <1>12
    <2>2. EndsWithResults(batch)'
      BY <1>4, <1>10, <1>11, <2>1 DEF EndsWithResults
    <2>3. ControlOK'
      <3>1. open' \in 0 .. MaxRound
        BY <1>1, <1>2, <1>12
      <3>2. QED BY <1>1, <1>2, <1>12, <2>2, <3>1
              DEF ControlOK, CutPlanned, RoundUnderWay, FingerprintReadsBatch, Up
    <2>4. QED BY <1>8, <2>3, Parts
  <1>13. CASE open # 1
    <2>1. batch' - open' = done + 1 /\ open' \in 1 .. batch' /\ open' \in 0 .. MaxRound
      BY <1>1, <1>2, <1>3, <1>13
    <2>2. EndsWithResults(batch - open)'
      BY <1>4, <1>10, <1>11, <2>1 DEF EndsWithResults
    <2>3. messages'[Len(messages') - (batch' - open')].kind = "calls"
      <3>1. Len(messages') - (batch' - open') = at
        BY <1>4, <1>11, <2>1
      <3>2. QED BY <1>3, <1>11, <3>1
    <2>4. RoundUnderWay'
      BY <2>1, <2>2, <2>3 DEF RoundUnderWay
    <2>5. ControlOK'
      BY <1>1, <1>2, <1>13, <2>1, <2>4 DEF ControlOK, CutPlanned, FingerprintReadsBatch, Up
    <2>6. QED BY <1>8, <2>5, Parts
  <1>14. QED BY <1>12, <1>13

LEMMA NoCompactionOK == ASSUME ContextInv, NoCompaction PROVE ContextInv'
  <1>1. StoreOK /\ ControlOK
    BY Parts
  <1>2. StoreOK'
    BY <1>1, StoreUnchanged DEF NoCompaction, history, Up
  <1>3. ControlOK'
    BY <1>1 DEF NoCompaction, ControlOK, CutPlanned, RoundUnderWay, FingerprintReadsBatch,
                EndsWithResults, turnVars, memVars, history, Up
  <1>4. QED BY <1>2, <1>3, Parts

(* A cut does not begin with a result. *)
LEMMA CutPointIs ==
  ASSUME NEW approximate \in DOMAIN messages, messages \in Seq(Message), FindCutPoint(approximate) > 1
  PROVE  /\ FindCutPoint(approximate) \in 2 .. Len(messages)
         /\ messages[FindCutPoint(approximate)].kind # "result"
  <1> DEFINE safe == {i \in approximate .. Len(messages) : Unanswered(SubSeq(messages, 1, i - 1)) = {}}
             users == {i \in safe : messages[i].kind = "user"}
             model == {i \in safe : messages[i].kind \in {"text", "calls", "summary"}}
             at == FindCutPoint(approximate)
  <1>1. at = IF users # {} THEN Min(users) ELSE IF model # {} THEN Min(model) ELSE 0
    BY DEF FindCutPoint
  <1>2. safe \subseteq 1 .. Len(messages) /\ users \in SUBSET Nat /\ model \in SUBSET Nat
    OBVIOUS
  <1> HIDE DEF at, users, model
  <1>3. at \in users \/ at \in model
    BY <1>1, <1>2, MinIs DEF at
  <1>4. QED BY <1>2, <1>3 DEF users, model, at

LEMMA PrepareOK ==
  ASSUME ContextInv, NEW i \in DOMAIN messages, Prepare(i)
  PROVE  ContextInv'
  <1>1. StoreOK /\ ControlOK /\ messages \in Seq(Message)
    BY Parts DEF StoreOK, StoreTypeOK
  <1>2. /\ FindCutPoint(i) > 1 /\ plan' = FindCutPoint(i)
        /\ pc = "finished" /\ pc' = "summary"
        /\ UNCHANGED <<memVars, open, batch, view, fileVars, history>>
    BY DEF Prepare
  <1>3. plan' \in 2 .. Len(messages) /\ messages[plan'].kind # "result"
    BY <1>1, <1>2, CutPointIs
  <1>4. StoreOK'
    BY <1>1, <1>2, StoreUnchanged DEF history, Up
  <1>5. CutPlanned'
    BY <1>2, <1>3 DEF CutPlanned, memVars
  <1>6. FingerprintReadsBatch'
    BY <1>1, <1>2 DEF ControlOK, FingerprintReadsBatch, EndsWithResults, memVars
  <1>7. plan' \in Nat
    BY <1>3
  <1>8. ControlOK'
    BY <1>1, <1>2, <1>5, <1>6, <1>7 DEF ControlOK, RoundUnderWay, history, Up
  <1>9. QED BY <1>4, <1>8, Parts

LEMMA SummariseOK == ASSUME ContextInv, Summarise PROVE ContextInv'
  <1>1. StoreOK /\ ControlOK
    BY Parts
  <1>2. StoreOK'
    BY <1>1, StoreUnchanged DEF Summarise, history, Up
  <1>3. ControlOK'
    BY <1>1 DEF Summarise, ControlOK, CutPlanned, RoundUnderWay, FingerprintReadsBatch,
                EndsWithResults, turnVars, memVars, history, Up
  <1>4. QED BY <1>2, <1>3, Parts

LEMMA CommitCutOK == ASSUME ContextInv, CommitCut PROVE ContextInv'
  <1>1. StoreOK /\ ControlOK
    BY Parts
  <1>2. plan \in 2 .. Len(messages)
    BY <1>1 DEF CommitCut, ControlOK, CutPlanned
  <1>3. StoreOK'
    BY <1>1, <1>2, CommitStore
  <1>4. /\ pc = "commit" /\ pc' = "reset" /\ UNCHANGED <<memVars, turnVars>> /\ crashes' = crashes
        /\ skewed' = (skewed \/ DurableMessageId(plan) # messages[plan].id)
    BY DEF CommitCut
  <1>5. skewed' \in BOOLEAN
    BY <1>4, Zenon
  <1>6. CutPlanned' /\ RoundUnderWay' /\ FingerprintReadsBatch'
    BY <1>1, <1>4 DEF ControlOK, CutPlanned, RoundUnderWay, FingerprintReadsBatch, EndsWithResults,
                      memVars, turnVars
  <1>7. ControlOK'
    BY <1>1, <1>4, <1>5, <1>6 DEF ControlOK, turnVars, Up
  <1>8. QED BY <1>3, <1>7, Parts

LEMMA FollowCutOK == ASSUME ContextInv, FollowCut PROVE ContextInv'
  <1>1. /\ StoreOK /\ ControlOK /\ last \in Nat /\ messages \in Seq(MessagesUpTo(last))
        /\ MaxRound \in Nat
    BY Parts, StoreIs, ContextAssumption
  <1>2. plan \in 2 .. Len(messages) /\ messages[plan].kind # "result"
    BY <1>1 DEF FollowCut, ControlOK, CutPlanned
  <1>3. StoreOK'
    BY <1>1, <1>2, FollowStore
  <1>4. /\ pc = "reset" /\ pc' = "after" /\ plan' = 0 /\ open' = open /\ batch' = batch /\ view' = view
        /\ skewed' = skewed /\ crashes' = crashes /\ messages' = Compacted
    BY DEF FollowCut, history
  <1>5. /\ batch \in Nat /\ batch < Len(messages)
        /\ \A i \in Len(messages) - batch + 1 .. Len(messages) : messages[i].kind = "result"
    BY <1>1, <1>4 DEF ControlOK, FingerprintReadsBatch, EndsWithResults
  <1>6. plan <= Len(messages) - batch /\ Len(messages) \in Nat
    <2>1. ~(plan \in Len(messages) - batch + 1 .. Len(messages))
      BY <1>2, <1>5
    <2>2. QED BY <1>1, <1>2, <1>5, <2>1
  <1>7. /\ Len(messages') = Len(messages) - plan + 2
        /\ \A i \in 2 .. Len(messages) - plan + 2 : messages'[i] = messages[plan + i - 2]
    BY <1>1, <1>2, <1>4, CompactedIs
  <1>8. EndsWithResults(batch)'
    <2>1. batch' < Len(messages')
      BY <1>2, <1>4, <1>5, <1>6, <1>7
    <2>2. ASSUME NEW i \in Len(messages') - batch' + 1 .. Len(messages')
          PROVE  messages'[i].kind = "result"
      <3>1. i \in 2 .. Len(messages) - plan + 2 /\ plan + i - 2 \in Len(messages) - batch + 1 .. Len(messages)
        BY <1>2, <1>4, <1>5, <1>6, <1>7
      <3>2. QED BY <1>5, <1>7, <3>1
    <2>3. QED BY <2>1, <2>2 DEF EndsWithResults
  <1>9. ControlOK'
    BY <1>1, <1>4, <1>8 DEF ControlOK, CutPlanned, RoundUnderWay, FingerprintReadsBatch, Up
  <1>10. QED BY <1>3, <1>9, Parts

LEMMA EndTurnOK == ASSUME ContextInv, EndTurn PROVE ContextInv'
  <1>1. StoreOK /\ ControlOK /\ 0 \in 0 .. MaxRound
    BY Parts, ContextAssumption
  <1>2. /\ pc = "after" /\ pc' \in {"idle", "top"} /\ batch' = 0
        /\ UNCHANGED <<memVars, open, view, plan, fileVars, history>>
    BY DEF EndTurn
  <1>3. StoreOK'
    BY <1>1, <1>2, StoreUnchanged DEF history, Up
  <1>4. ControlOK'
    BY <1>1, <1>2 DEF ControlOK, CutPlanned, RoundUnderWay, FingerprintReadsBatch, history, Up
  <1>5. QED BY <1>3, <1>4, Parts

LEMMA CrashOK == ASSUME ContextInv, Crash PROVE ContextInv'
  <1>1. StoreOK /\ ControlOK /\ 0 \in 0 .. MaxRound
    BY Parts, ContextAssumption
  <1>2. StoreOK'
    BY <1>1, CrashStore
  <1>3. NoView \in Views
    <2>1. NoView \in [{} -> Values]
      BY DEF NoView
    <2>2. QED BY <2>1, ViewIs
  <1>4. ControlOK'
    BY <1>1, <1>3 DEF Crash, ControlOK, CutPlanned, RoundUnderWay, FingerprintReadsBatch
  <1>5. QED BY <1>2, <1>4, Parts

LEMMA RestartOK == ASSUME ContextInv, Restart PROVE ContextInv'
  <1>1. StoreOK /\ ControlOK
    BY Parts
  <1>2. StoreOK'
    BY <1>1, RestartStore
  <1>3. pc' = "repair" /\ UNCHANGED <<turnVars, skewed, crashes>>
    BY DEF Restart
  <1>4. ControlOK'
    BY <1>1, <1>3 DEF ControlOK, CutPlanned, RoundUnderWay, FingerprintReadsBatch, turnVars, Up
  <1>5. QED BY <1>2, <1>4, Parts

LEMMA RepairOK == ASSUME ContextInv, Repair PROVE ContextInv'
  <1>1. /\ StoreOK /\ ControlOK /\ last \in Nat /\ messages \in Seq(MessagesUpTo(last))
        /\ last + 1 \in Nat \ {0}
    BY Parts, StoreIs
  <1>2. pc = "repair" /\ UNCHANGED <<turnVars, history>>
    BY DEF Repair
  <1>3. CASE Unanswered(messages) = {}
    <2>1. pc' = "idle" /\ UNCHANGED <<memVars, fileVars>>
      BY <1>3 DEF Repair
    <2>2. StoreOK'
      BY <1>1, <1>2, <2>1, StoreUnchanged DEF history, Up
    <2>3. ControlOK'
      BY <1>1, <1>2, <2>1 DEF ControlOK, CutPlanned, RoundUnderWay, FingerprintReadsBatch, turnVars, history, Up
    <2>4. QED BY <2>2, <2>3, Parts
  <1>4. CASE Unanswered(messages) # {}
    <2> DEFINE i == Min(Unanswered(messages))
               m == Result(last + 1, messages[i].id)
    <2>1. AppendMessage(m) /\ pc' = pc
      BY <1>4 DEF Repair
    <2>2. /\ Unanswered(messages) \in SUBSET Nat /\ Unanswered(messages) \subseteq DOMAIN messages
          /\ \A j \in Unanswered(messages) : messages[j].kind = "calls"
      BY <1>1 DEF Unanswered
    <2>3. i \in DOMAIN messages /\ messages[i].kind = "calls"
      BY <1>4, <2>2, MinIs
    <2> HIDE DEF i
    <2>4. messages[i].id \in 1 .. last + 1
      <3>1. messages[i] \in MessagesUpTo(last)
        BY <1>1, <2>3
      <3>2. messages[i].id \in 0 .. last /\ messages[i].id # 0
        BY <1>1, <2>3, <3>1, MessageIs
      <3>3. QED BY <1>1, <3>2
    <2>5. m \in MessagesUpTo(last + 1) /\ m.id = last + 1
      BY <1>1, <2>4, NewMessages
    <2> HIDE DEF m
    <2>6. StoreOK'
      BY <1>1, <1>2, <2>1, <2>5, AppendStore DEF history, Up
    <2>7. ControlOK'
      BY <1>1, <1>2, <2>1 DEF ControlOK, CutPlanned, RoundUnderWay, FingerprintReadsBatch, turnVars, history, Up
    <2>8. QED BY <2>6, <2>7, Parts
  <1>5. QED BY <1>3, <1>4

LEMMA StutterOK == ASSUME ContextInv, UNCHANGED vars PROVE ContextInv'
  <1> USE DEF vars, memVars, turnVars, fileVars, history
  <1>1. /\ Load' = Load /\ Compacted' = Compacted /\ Archived' = Archived
        /\ Found(cut)' = Found(cut) /\ Found(under)' = Found(under)
    BY DEF Load, Found, Read, Compacted, Archived, AfterSummary
  <1>2. StoreOK'
    <2>1. StoreTypeOK' /\ LogInOrder' /\ MemoryInOrder'
      BY Parts DEF StoreOK, StoreTypeOK, Message, LogInOrder, MemoryInOrder, Aligned
    <2>2. LogIsContext' /\ NothingForgotten'
      BY <1>1, Parts DEF StoreOK, LogIsContext, NothingForgotten, Aligned, Settled
    <2>3. QED BY <2>1, <2>2 DEF StoreOK
  <1>3. ControlOK'
    BY Parts DEF ControlOK, CutPlanned, RoundUnderWay, FingerprintReadsBatch, EndsWithResults
  <1>4. QED BY <1>2, <1>3, Parts

-----------------------------------------------------------------------------
(* Every step keeps the invariant. *)
LEMMA NextOK == ASSUME ContextInv, [Next]_vars PROVE ContextInv'
  <1>1. CASE Prompt
    BY <1>1, PromptOK
  <1>2. ASSUME NEW v \in Views, Turn(v) PROVE ContextInv'
    BY <1>2, TurnOK
  <1>3. ASSUME NEW n \in 1 .. MaxRound, Ask(n) PROVE ContextInv'
    BY <1>3, AskOK
  <1>4. CASE Reply
    BY <1>4, ReplyOK
  <1>5. CASE Answer
    BY <1>5, AnswerOK
  <1>6. CASE NoCompaction
    BY <1>6, NoCompactionOK
  <1>7. ASSUME NEW i \in DOMAIN messages, Prepare(i) PROVE ContextInv'
    BY <1>7, PrepareOK
  <1>8. CASE Summarise
    BY <1>8, SummariseOK
  <1>9. CASE CommitCut
    BY <1>9, CommitCutOK
  <1>10. CASE FollowCut
    BY <1>10, FollowCutOK
  <1>11. CASE EndTurn
    BY <1>11, EndTurnOK
  <1>12. CASE Crash
    BY <1>12, CrashOK
  <1>13. CASE Restart
    BY <1>13, RestartOK
  <1>14. CASE Repair
    BY <1>14, RepairOK
  <1>15. CASE UNCHANGED vars
    BY <1>15, StutterOK
  <1>16. QED
    BY <1>1, <1>2, <1>3, <1>4, <1>5, <1>6, <1>7, <1>8, <1>9, <1>10, <1>11, <1>12, <1>13, <1>14,
       <1>15 DEF Next

(* The list, its ids and the log are at all times what the code that       *)
(* indexes them relies on (working.py 190-295, 613-919; loop.py 350-357),  *)
(* for any number of messages, deaths, updates and calls in a round.       *)
THEOREM ContextInvariant == Spec => []ContextInv
  <1>1. Init => ContextInv
    BY InitOK
  <1>2. ContextInv /\ [Next]_vars => ContextInv'
    BY NextOK
  <1>3. QED BY <1>1, <1>2, PTL DEF Spec

(* What a restart would read from the log is what the loop has in memory,  *)
(* or between the two halves of a compaction is about to have              *)
(* (working.py 190-285, 824-910); but for a record that is lost to readers *)
(* while memory still holds it - one with a line separator in its text, or *)
(* the last one, read without its newline and then glued to the recovery   *)
(* record - until the next restart.                                        *)
THEOREM RestartReadsMemory == Spec => []LogIsContext
  <1>1. ContextInv => LogIsContext
    BY DEF ContextInv
  <1>2. QED BY <1>1, ContextInvariant, PTL

(* Whatever compactions and deaths lie behind a conversation, each of its  *)
(* messages is in the context or stands behind the summary in it, also     *)
(* when a compaction record is lost under the record after it; but for the *)
(* messages whose own record is lost to readers and for the rounds a       *)
(* restart leaves out (working.py 616-619).                                *)
THEOREM NoMessageForgotten == Spec => []NothingForgotten
  <1>1. ContextInv => NothingForgotten
    BY DEF ContextInv
  <1>2. QED BY <1>1, ContextInvariant, PTL

(* A set that grows by one element at most.                                *)
LEMMA OneMore ==
  ASSUME NEW S, IsFiniteSet(S), NEW x, NEW T, T \subseteq S \cup {x}, S \subseteq T
  PROVE  /\ IsFiniteSet(T) /\ Cardinality(S) \in Nat /\ Cardinality(T) \in Nat
         /\ Cardinality(T) <= Cardinality(S) + 1
         /\ T = S => Cardinality(T) = Cardinality(S)
  <1>1. Cardinality(S) \in Nat
    BY FS_CardinalityType
  <1>2. CASE T = S
    BY <1>1, <1>2
  <1>3. CASE T # S
    <2>1. T = S \cup {x} /\ x \notin S
      BY <1>3
    <2>2. IsFiniteSet(S \cup {x}) /\ Cardinality(S \cup {x}) = Cardinality(S) + 1
      BY <2>1, FS_AddElement
    <2>3. QED BY <1>1, <1>3, <2>1, <2>2
  <1>4. QED BY <1>2, <1>3

(* What was lost so far, and what may be lost yet. *)
Spent == /\ IsFiniteSet(lost) /\ crashes \in Nat
         /\ Cardinality(lost) + (IF torn THEN 1 ELSE 0) <= parted + crashes

LEMMA AppendSpends ==
  ASSUME StoreOK, pc # "down", Spent, NEW m, m.id = last + 1, AppendMessage(m), crashes' = crashes
  PROVE  Spent'
  <1>1. /\ torn' = FALSE /\ parted \in Nat /\ crashes \in Nat
        /\ lost' \subseteq lost \cup {last + 1} /\ lost \subseteq lost'
        /\ \/ lost' = lost /\ parted' = parted
           \/ torn /\ parted' = parted
           \/ parted' = parted + 1
    BY AppendCases DEF StoreOK, StoreTypeOK, Spent
  <1>2. /\ IsFiniteSet(lost') /\ Cardinality(lost) \in Nat /\ Cardinality(lost') \in Nat
        /\ Cardinality(lost') <= Cardinality(lost) + 1
        /\ lost' = lost => Cardinality(lost') = Cardinality(lost)
    BY <1>1, OneMore DEF Spent
  <1>3. Cardinality(lost) + (IF torn THEN 1 ELSE 0) <= parted + crashes
    BY DEF Spent
  <1>4. QED BY <1>1, <1>2, <1>3 DEF Spent

LEMMA NextSpends ==
  ASSUME ContextInv, Spent, [Next]_vars
  PROVE  Spent'
  <1>1. StoreOK /\ parted \in Nat /\ crashes \in Nat /\ torn \in BOOLEAN /\ Cardinality(lost) \in Nat
    BY Parts, FS_CardinalityType DEF StoreOK, StoreTypeOK, Spent
  <1>2. CASE UNCHANGED <<lost, torn, parted, crashes>>
    BY <1>2 DEF Spent
  <1>3. /\ \A i \in Nat : User(i).id = i /\ Text(i).id = i
        /\ \A i \in Nat : \A c : Calls(i, c).id = i /\ Result(i, c).id = i /\ Update(i, c).id = i
        /\ last + 1 \in Nat
    BY <1>1 DEF User, Text, Calls, Result, Update, StoreOK, StoreTypeOK
  <1>4. CASE Prompt
    <2>1. AppendMessage(User(last + 1)) /\ pc # "down" /\ crashes' = crashes
      BY <1>4 DEF Prompt, history
    <2>2. User(last + 1).id = last + 1
      BY <1>3
    <2>3. QED BY <1>1, <2>1, <2>2, AppendSpends
  <1>5. ASSUME NEW v \in Views, Turn(v) PROVE Spent'
    <2>1. pc # "down" /\ crashes' = crashes
      BY <1>5 DEF Turn, history
    <2>2. CASE UNCHANGED <<memVars, fileVars>>
      BY <1>2, <2>1, <2>2 DEF fileVars
    <2>3. ASSUME NEW d, AppendMessage(Update(last + 1, d)) PROVE Spent'
      <3>1. Update(last + 1, d).id = last + 1
        BY <1>3
      <3>2. QED BY <1>1, <2>1, <2>3, <3>1, AppendSpends
    <2>4. QED BY <1>5, <2>2, <2>3 DEF Turn
  <1>6. ASSUME NEW n \in 1 .. MaxRound, Ask(n) PROVE Spent'
    <2>1. AppendMessage(Calls(last + 1, n)) /\ pc # "down" /\ crashes' = crashes
      BY <1>6 DEF Ask, history
    <2>2. Calls(last + 1, n).id = last + 1
      BY <1>3
    <2>3. QED BY <1>1, <2>1, <2>2, AppendSpends
  <1>7. CASE Reply
    <2>1. pc # "down" /\ crashes' = crashes /\ Text(last + 1).id = last + 1
      BY <1>3, <1>7 DEF Reply, history
    <2>2. CASE AppendMessage(Text(last + 1))
      BY <1>1, <2>1, <2>2, AppendSpends
    <2>3. CASE UNCHANGED <<memVars, fileVars>>
      BY <1>2, <2>1, <2>3 DEF fileVars
    <2>4. QED BY <1>7, <2>2, <2>3 DEF Reply
  <1>8. CASE Answer
    <2>1. AppendMessage(Result(last + 1, RoundId)) /\ pc # "down" /\ crashes' = crashes
      BY <1>8 DEF Answer, history
    <2>2. Result(last + 1, RoundId).id = last + 1
      BY <1>3
    <2>3. QED BY <1>1, <2>1, <2>2, AppendSpends
  <1>9. CASE Repair
    <2>1. pc # "down" /\ crashes' = crashes
      BY <1>9 DEF Repair, history
    <2>2. CASE UNCHANGED <<memVars, fileVars>>
      BY <1>2, <2>1, <2>2 DEF fileVars
    <2>3. ASSUME NEW c, AppendMessage(Result(last + 1, c)) PROVE Spent'
      <3>1. Result(last + 1, c).id = last + 1
        BY <1>3
      <3>2. QED BY <1>1, <2>1, <2>3, <3>1, AppendSpends
    <2>4. QED BY <1>9, <2>2, <2>3 DEF Repair
  <1>10. CASE CommitCut
    <2>1. pc # "down" /\ torn' = FALSE /\ crashes' = crashes
      BY <1>10 DEF CommitCut
    <2>2. lost' = lost
      BY <1>1, <1>10, <2>1, UpIs DEF CommitCut
    <2>3. parted' = parted \/ parted' = parted + 1
      BY <1>10, Zenon DEF CommitCut, Written
    <2>4. QED BY <1>1, <2>1, <2>2, <2>3 DEF Spent
  <1>11. CASE Crash
    <2>1. pc # "down" /\ crashes' = crashes + 1 /\ parted' = parted /\ torn' \in BOOLEAN
      BY <1>1, <1>11 DEF Crash, Up
    <2>2. lost' = lost
      BY <1>1, <1>11, <2>1, UpIs DEF Crash
    <2>3. QED BY <1>1, <2>1, <2>2 DEF Spent
  <1>12. CASE Restart
    <2>1. Recovered /\ parted' = parted /\ crashes' = crashes
      BY <1>12 DEF Restart
    <2>2. CASE log = << >>
      BY <1>2, <2>1, <2>2 DEF Recovered
    <2>3. CASE log # << >>
      <3>1. torn' = FALSE /\ lost' = lost \cup (IdsOf(log) \ IdsOf(LogUnder))
        BY <2>1, <2>3 DEF Recovered
      <3>2. CASE LogUnder = log
        <4>1. lost' = lost /\ IsFiniteSet(lost)
          BY <3>1, <3>2 DEF Spent
        <4>2. Cardinality(lost) + (IF torn THEN 1 ELSE 0) <= parted + crashes
          BY DEF Spent
        <4>3. Cardinality(lost) <= parted + crashes
          BY <1>1, <4>2
        <4>4. QED BY <1>1, <2>1, <3>1, <4>1, <4>3 DEF Spent
      <3>3. ASSUME torn, NEW x, IdsOf(log) = IdsOf(LogUnder) \cup {x} PROVE Spent'
        <4>1. lost' \subseteq lost \cup {x} /\ lost \subseteq lost'
          BY <3>1, <3>3
        <4>2. IsFiniteSet(lost') /\ Cardinality(lost') \in Nat /\ Cardinality(lost') <= Cardinality(lost) + 1
          BY <4>1, OneMore DEF Spent
        <4>3. QED BY <1>1, <2>1, <3>1, <3>3, <4>2 DEF Spent
      <3>4. QED BY <1>1, <3>2, <3>3, UnderIs
    <2>4. QED BY <2>2, <2>3
  <1>13. CASE NoCompaction \/ (\E i \in DOMAIN messages : Prepare(i)) \/ Summarise \/ FollowCut \/ EndTurn
    BY <1>2, <1>13 DEF NoCompaction, Prepare, Summarise, FollowCut, EndTurn, fileVars, history
  <1>14. CASE UNCHANGED vars
    BY <1>2, <1>14 DEF vars, fileVars, history
  <1>15. QED BY <1>4, <1>5, <1>6, <1>7, <1>8, <1>9, <1>10, <1>11, <1>12, <1>13, <1>14 DEF Next

(* A death costs the readers of the file one message at most, however      *)
(* often the process dies and whatever it leaves of the last line: the     *)
(* recovery record of load is glued to that line, and not the next         *)
(* message (working.py 172-176, 287-295).  Messages with a line separator  *)
(* in their text come on top.                                              *)
THEOREM DeathCostsOneMessage == Spec => []DeathCostsOne
  <1>1. Init => Spent
    <2>1. Init => lost = {} /\ torn = FALSE /\ crashes = 0 /\ parted = 0
      BY DEF Init
    <2>2. IsFiniteSet({}) /\ Cardinality({}) = 0
      BY FS_EmptySet
    <2>3. QED BY <2>1, <2>2 DEF Spent
  <1>2. ContextInv /\ Spent /\ [Next]_vars => Spent'
    BY NextSpends
  <1>3. Spent => DeathCostsOne
    BY DEF Spent, DeathCostsOne
  <1>4. QED BY <1>1, <1>2, <1>3, ContextInvariant, PTL DEF Spec

(* The context a request shows, which the reader folds from the updates in *)
(* the list, is the one it had to show (context.py 162-231), after any     *)
(* number of updates, resets, compactions and restarts.                    *)
THEOREM RequestsShowTheView == Spec => []RequestShowsView
  <1>1. Init => RequestShowsView
    BY DEF Init, RequestShowsView
  <1>2. ContextInv /\ RequestShowsView /\ [Next]_vars => RequestShowsView'
    <2> SUFFICES ASSUME ContextInv, RequestShowsView, [Next]_vars PROVE RequestShowsView'
      OBVIOUS
    <2>1. ASSUME NEW v \in Views, Turn(v) PROVE RequestShowsView'
      BY <2>1, TurnOK
    <2>2. CASE UNCHANGED vars
      BY <2>2 DEF RequestShowsView, vars, memVars, turnVars
    <2>3. CASE \/ Prompt \/ (\E n \in 1 .. MaxRound : Ask(n)) \/ Reply \/ Answer
               \/ NoCompaction \/ (\E i \in DOMAIN messages : Prepare(i)) \/ Summarise \/ CommitCut
               \/ FollowCut \/ EndTurn \/ Crash \/ Restart \/ Repair
      <3>1. pc' # "request"
        BY <2>3 DEF Prompt, Ask, Reply, Answer, NoCompaction, Prepare, Summarise, CommitCut, FollowCut,
                    EndTurn, Crash, Restart, Repair
      <3>2. QED BY <3>1 DEF RequestShowsView
    <2>4. QED BY <2>1, <2>2, <2>3 DEF Next
  <1>3. QED BY <1>1, <1>2, ContextInvariant, PTL DEF Spec

-----------------------------------------------------------------------------
(* Rounds in a list. *)
Run(ms, i, r) ==
  /\ r \in 0 .. Len(ms) - i
  /\ \A j \in i + 1 .. i + r : ms[j].kind = "result"
  /\ i + r < Len(ms) => ms[i + r + 1].kind # "result"

LEMMA RunIs ==
  ASSUME NEW S, NEW ms \in Seq(S), NEW i \in DOMAIN ms
  PROVE  /\ Run(ms, i, ResultsAfter(ms, i))
         /\ \A r : Run(ms, i, r) => ResultsAfter(ms, i) = r
         /\ i \in Nat /\ i >= 1 /\ Len(ms) \in Nat /\ ResultsAfter(ms, i) \in Nat
         /\ i + ResultsAfter(ms, i) <= Len(ms)
  <1>1. Run(ms, i, ResultsAfter(ms, i))
    BY ResultsAfterIs DEF Run
  <1>2. ASSUME NEW r, Run(ms, i, r) PROVE ResultsAfter(ms, i) = r
    <2>1. r \in 0 .. Len(ms) - i
      BY <1>2 DEF Run
    <2>2. QED BY <1>2, <2>1, ResultsAfterUnique DEF Run
  <1>3. i \in Nat /\ i >= 1 /\ Len(ms) \in Nat
    OBVIOUS
  <1>4. ResultsAfter(ms, i) \in 0 .. Len(ms) - i
    BY ResultsAfterIs
  <1>5. QED BY <1>1, <1>2, <1>3, <1>4

(* A stretch that stands in another list with the same end is as long.     *)
LEMMA SameRun ==
  ASSUME NEW S, NEW ms \in Seq(S), NEW i \in DOMAIN ms, NEW t \in Seq(S), NEW k \in DOMAIN t,
         k + ResultsAfter(ms, i) <= Len(t),
         \A j \in 1 .. ResultsAfter(ms, i) : t[k + j] = ms[i + j],
         k + ResultsAfter(ms, i) < Len(t) => t[k + ResultsAfter(ms, i) + 1].kind # "result"
  PROVE  ResultsAfter(t, k) = ResultsAfter(ms, i)
  <1> DEFINE r == ResultsAfter(ms, i)
  <1>1. Run(ms, i, r) /\ r \in Nat /\ i \in Nat
    BY RunIs
  <1>2. k \in Nat /\ Len(t) \in Nat
    OBVIOUS
  <1>3. k + r <= Len(t) /\ (\A j \in 1 .. r : t[k + j] = ms[i + j])
        /\ (k + r < Len(t) => t[k + r + 1].kind # "result")
    OBVIOUS
  <1> HIDE DEF r
  <1>4. ASSUME NEW j \in k + 1 .. k + r PROVE t[j].kind = "result"
    <2>1. j - k \in 1 .. r /\ k + (j - k) = j /\ i + (j - k) \in i + 1 .. i + r
      BY <1>1, <1>2
    <2>2. t[j] = ms[i + (j - k)]
      BY <1>3, <2>1
    <2>3. QED BY <1>1, <2>1, <2>2 DEF Run
  <1>5. r \in 0 .. Len(t) - k
    BY <1>1, <1>2, <1>3
  <1>6. Run(t, k, r)
    BY <1>3, <1>4, <1>5 DEF Run
  <1>7. QED BY <1>6, RunIs DEF r

LEMMA RunAppend ==
  ASSUME NEW S, NEW ms \in Seq(S), NEW m \in S, NEW i \in DOMAIN ms
  PROVE  ResultsAfter(Append(ms, m), i)
           = IF m.kind = "result" /\ AtEnd(ms, i) THEN ResultsAfter(ms, i) + 1 ELSE ResultsAfter(ms, i)
  <1> DEFINE t == Append(ms, m)
             r == ResultsAfter(ms, i)
             l == Len(ms)
  <1>1. /\ t \in Seq(S) /\ Len(t) = l + 1 /\ t[l + 1] = m
        /\ (\A j \in DOMAIN ms : t[j] = ms[j])
        /\ DOMAIN t = DOMAIN ms \cup {l + 1}
    BY AppendIs
  <1>2. /\ Run(ms, i, r) /\ i \in Nat /\ i >= 1 /\ l \in Nat /\ r \in Nat /\ i + r <= l
        /\ DOMAIN ms = 1 .. l /\ (AtEnd(ms, i) <=> i + r = l)
    BY RunIs DEF AtEnd
  <1> HIDE DEF t, r, l
  <1>3. i \in DOMAIN t
    BY <1>1
  <1>4. \A j \in i + 1 .. i + r : t[j].kind = "result"
    <2>1. \A j \in i + 1 .. i + r : j \in DOMAIN ms
      BY <1>2
    <2>2. QED BY <1>1, <1>2, <2>1 DEF Run
  <1>5. CASE m.kind = "result" /\ i + r = l
    <2>1. \A j \in i + 1 .. i + (r + 1) : j \in i + 1 .. i + r \/ j = l + 1
      BY <1>2, <1>5
    <2>2. \A j \in i + 1 .. i + (r + 1) : t[j].kind = "result"
      BY <1>1, <1>4, <1>5, <2>1
    <2>3. r + 1 \in 0 .. Len(t) - i /\ ~(i + (r + 1) < Len(t))
      BY <1>1, <1>2, <1>5
    <2>4. Run(t, i, r + 1)
      BY <2>2, <2>3 DEF Run
    <2>5. QED BY <1>1, <1>2, <1>3, <1>5, <2>4, RunIs DEF t, r
  <1>6. CASE ~(m.kind = "result" /\ i + r = l)
    <2>1. r \in 0 .. Len(t) - i
      BY <1>1, <1>2
    <2>2. t[i + r + 1].kind # "result"
      <3>1. CASE i + r = l
        BY <1>1, <1>6, <3>1
      <3>2. CASE i + r < l
        <4>1. i + r + 1 \in DOMAIN ms
          BY <1>2, <3>2
        <4>2. ms[i + r + 1].kind # "result"
          BY <1>2, <3>2 DEF Run, l
        <4>3. QED BY <1>1, <4>1, <4>2
      <3>3. QED BY <1>2, <3>1, <3>2
    <2>3. Run(t, i, r)
      BY <1>4, <2>1, <2>2 DEF Run
    <2>4. QED BY <1>1, <1>2, <1>3, <1>6, <2>3, RunIs DEF t, r
  <1>7. QED BY <1>5, <1>6

LEMMA RunNew ==
  ASSUME NEW S, NEW ms \in Seq(S), NEW m \in S
  PROVE  ResultsAfter(Append(ms, m), Len(ms) + 1) = 0
  <1> DEFINE t == Append(ms, m)
             l == Len(ms)
  <1>1. t \in Seq(S) /\ Len(t) = l + 1 /\ l + 1 \in DOMAIN t /\ l \in Nat
    BY AppendIs
  <1> HIDE DEF t, l
  <1>2. 0 \in 0 .. Len(t) - (l + 1) /\ (\A j \in l + 1 + 1 .. l + 1 + 0 : FALSE) /\ ~(l + 1 + 0 < Len(t))
    BY <1>1
  <1>3. Run(t, l + 1, 0)
    BY <1>2 DEF Run
  <1>4. QED BY <1>1, <1>3, RunIs DEF t, l

(* A message that is no result leaves the rounds as they are.              *)
LEMMA PlainRounds ==
  ASSUME NEW n \in Nat, NEW ms \in Seq(MessagesUpTo(n)), NEW m \in MessagesUpTo(n),
         m.kind # "result", Answered(ms)
  PROVE  /\ Answered(Append(ms, m))
         /\ Led(ms) => Led(Append(ms, m))
         /\ Short(Append(ms, m)) = Short(ms) \cup (IF m.kind = "calls" THEN {Len(ms) + 1} ELSE {})
         /\ AtEnd(Append(ms, m), Len(ms) + 1)
  <1> DEFINE t == Append(ms, m)
             l == Len(ms)
  <1>1. /\ t \in Seq(MessagesUpTo(n)) /\ Len(t) = l + 1 /\ t[l + 1] = m
        /\ (\A j \in DOMAIN ms : t[j] = ms[j])
        /\ DOMAIN t = DOMAIN ms \cup {l + 1}
    BY AppendIs
  <1>2. /\ \A i \in DOMAIN ms : ResultsAfter(t, i) = ResultsAfter(ms, i)
        /\ ResultsAfter(t, l + 1) = 0
    BY RunAppend, RunNew
  <1>3. \A i \in DOMAIN ms : /\ i \in Nat /\ i >= 1 /\ ResultsAfter(ms, i) \in Nat
                             /\ i + ResultsAfter(ms, i) <= l
    BY RunIs
  <1>4. l \in Nat /\ DOMAIN ms = 1 .. l
    OBVIOUS
  <1>5. m.kind = "calls" => m.n \in Nat /\ m.n > 0
    BY MessageIs, ContextAssumption
  <1> HIDE DEF t, l
  <1>6. Answered(t)
    <2> SUFFICES ASSUME NEW i \in DOMAIN t, t[i].kind = "calls"
                 PROVE  /\ ResultsAfter(t, i) <= t[i].n
                        /\ \A j \in i + 1 .. i + ResultsAfter(t, i) : t[j].of = t[i].id
      BY DEF Answered
    <2>1. CASE i \in DOMAIN ms
      <3>1. \A j \in i + 1 .. i + ResultsAfter(t, i) : j \in DOMAIN ms
        BY <1>2, <1>3, <1>4, <2>1
      <3>2. QED BY <1>1, <1>2, <2>1, <3>1 DEF Answered
    <2>2. CASE i = l + 1
      <3>1. t[i] = m /\ ResultsAfter(t, i) = 0
        BY <1>1, <1>2, <2>2
      <3>2. \A j \in i + 1 .. i + ResultsAfter(t, i) : FALSE
        BY <1>4, <2>2, <3>1
      <3>3. QED BY <1>5, <3>1, <3>2
    <2>3. QED BY <1>1, <2>1, <2>2
  <1>7. ASSUME Led(ms) PROVE Led(t)
    <2> SUFFICES ASSUME NEW i \in DOMAIN t, t[i].kind = "result"
                 PROVE  \E j \in 1 .. i - 1 :
                          t[j].kind = "calls" /\ t[j].id = t[i].of /\ i <= j + ResultsAfter(t, j)
      BY DEF Led
    <2>1. i \in DOMAIN ms /\ t[i] = ms[i]
      BY <1>1
    <2>2. PICK j \in 1 .. i - 1 :
            ms[j].kind = "calls" /\ ms[j].id = ms[i].of /\ i <= j + ResultsAfter(ms, j)
      BY <1>7, <2>1 DEF Led
    <2>3. j \in DOMAIN ms
      BY <1>4, <2>1
    <2>4. QED BY <1>1, <1>2, <2>1, <2>2, <2>3
  <1>8. Short(t) = Short(ms) \cup (IF m.kind = "calls" THEN {l + 1} ELSE {})
    <2>1. \A i \in DOMAIN ms : i \in Short(t) <=> i \in Short(ms)
      BY <1>1, <1>2 DEF Short
    <2>2. l + 1 \in Short(t) <=> m.kind = "calls"
      BY <1>1, <1>2, <1>5 DEF Short
    <2>3. Short(t) \subseteq DOMAIN ms \cup {l + 1} /\ Short(ms) \subseteq DOMAIN ms
      BY <1>1 DEF Short
    <2>4. QED BY <2>1, <2>2, <2>3
  <1>9. AtEnd(t, l + 1)
    BY <1>1, <1>2, <1>4 DEF AtEnd
  <1>10. QED BY <1>6, <1>7, <1>8, <1>9 DEF t, l

(* Only one message has nothing but results behind it.                     *)
LEMMA OneAtEnd ==
  ASSUME NEW S, NEW ms \in Seq(S), NEW i \in DOMAIN ms, NEW j \in DOMAIN ms,
         AtEnd(ms, i), AtEnd(ms, j), ms[i].kind # "result", ms[j].kind # "result"
  PROVE  i = j
  <1>1. /\ Run(ms, i, ResultsAfter(ms, i)) /\ Run(ms, j, ResultsAfter(ms, j))
        /\ i \in Nat /\ j \in Nat /\ Len(ms) \in Nat /\ i <= Len(ms) /\ j <= Len(ms)
        /\ i + ResultsAfter(ms, i) = Len(ms) /\ j + ResultsAfter(ms, j) = Len(ms)
    BY RunIs DEF AtEnd
  <1>2. ~(j \in i + 1 .. i + ResultsAfter(ms, i)) /\ ~(i \in j + 1 .. j + ResultsAfter(ms, j))
    BY <1>1 DEF Run
  <1>3. ~(j \in i + 1 .. Len(ms)) /\ ~(i \in j + 1 .. Len(ms))
    BY <1>1, <1>2
  <1>4. QED BY <1>1, <1>3

(* A result of the last round goes to it. *)
LEMMA ResultRounds ==
  ASSUME NEW n \in Nat, NEW ms \in Seq(MessagesUpTo(n)), NEW m \in MessagesUpTo(n),
         m.kind = "result", Answered(ms), NEW i \in Short(ms), AtEnd(ms, i), m.of = ms[i].id
  PROVE  /\ Answered(Append(ms, m))
         /\ Led(ms) => Led(Append(ms, m))
         /\ Short(Append(ms, m)) = IF ResultsAfter(ms, i) + 1 < ms[i].n THEN Short(ms) ELSE Short(ms) \ {i}
         /\ AtEnd(Append(ms, m), i)
         /\ \A k \in Short(ms) : AtEnd(ms, k) => k = i
  <1> DEFINE t == Append(ms, m)
             l == Len(ms)
  <1>1. /\ t \in Seq(MessagesUpTo(n)) /\ Len(t) = l + 1 /\ t[l + 1] = m
        /\ (\A j \in DOMAIN ms : t[j] = ms[j])
        /\ DOMAIN t = DOMAIN ms \cup {l + 1}
    BY AppendIs
  <1>2. /\ \A j \in DOMAIN ms :
             ResultsAfter(t, j) = IF AtEnd(ms, j) THEN ResultsAfter(ms, j) + 1 ELSE ResultsAfter(ms, j)
        /\ ResultsAfter(t, l + 1) = 0
    BY RunAppend, RunNew
  <1>3. \A j \in DOMAIN ms : /\ j \in Nat /\ j >= 1 /\ ResultsAfter(ms, j) \in Nat
                             /\ j + ResultsAfter(ms, j) <= l
    BY RunIs
  <1>4. l \in Nat /\ DOMAIN ms = 1 .. l
    OBVIOUS
  <1>5. i \in DOMAIN ms /\ ms[i].kind = "calls" /\ ResultsAfter(ms, i) < ms[i].n
    BY DEF Short
  <1>6. \A j \in DOMAIN ms : ms[j].kind = "calls" /\ AtEnd(ms, j) => j = i
    BY <1>5, OneAtEnd
  <1>7. ms[i].n \in Nat /\ i + ResultsAfter(ms, i) = l
    <2>1. ms[i] \in MessagesUpTo(n)
      BY <1>5
    <2>2. ms[i].n \in 1 .. MaxRound
      BY <1>5, <2>1, MessageIs
    <2>3. QED BY <2>2, ContextAssumption DEF AtEnd
  <1> HIDE DEF t, l
  <1>8. Answered(t)
    <2> SUFFICES ASSUME NEW j \in DOMAIN t, t[j].kind = "calls"
                 PROVE  /\ ResultsAfter(t, j) <= t[j].n
                        /\ \A k \in j + 1 .. j + ResultsAfter(t, j) : t[k].of = t[j].id
      BY DEF Answered
    <2>1. j \in DOMAIN ms /\ t[j] = ms[j]
      BY <1>1
    <2>2. CASE j = i
      <3>1. ResultsAfter(t, j) = ResultsAfter(ms, i) + 1
        BY <1>2, <2>1, <2>2
      <3>2. \A k \in j + 1 .. j + ResultsAfter(t, j) :
              k = l + 1 \/ (k \in i + 1 .. i + ResultsAfter(ms, i) /\ k \in DOMAIN ms)
        BY <1>3, <1>4, <1>5, <1>7, <2>2, <3>1
      <3>3. \A k \in i + 1 .. i + ResultsAfter(ms, i) : ms[k].of = ms[i].id
        BY <1>5 DEF Answered
      <3>4. \A k \in j + 1 .. j + ResultsAfter(t, j) : t[k].of = t[j].id
        BY <1>1, <2>1, <2>2, <3>2, <3>3
      <3>5. ResultsAfter(t, j) <= t[j].n
        BY <1>3, <1>5, <1>7, <2>1, <2>2, <3>1
      <3>6. QED BY <3>4, <3>5
    <2>3. CASE j # i
      <3>1. ResultsAfter(t, j) = ResultsAfter(ms, j)
        BY <1>2, <1>6, <2>1, <2>3
      <3>2. \A k \in j + 1 .. j + ResultsAfter(ms, j) : k \in DOMAIN ms
        BY <1>3, <1>4, <2>1
      <3>3. QED BY <1>1, <2>1, <3>1, <3>2 DEF Answered
    <2>4. QED BY <2>2, <2>3
  <1>9. ASSUME Led(ms) PROVE Led(t)
    <2> SUFFICES ASSUME NEW j \in DOMAIN t, t[j].kind = "result"
                 PROVE  \E k \in 1 .. j - 1 :
                          t[k].kind = "calls" /\ t[k].id = t[j].of /\ j <= k + ResultsAfter(t, k)
      BY DEF Led
    <2>1. CASE j \in DOMAIN ms
      <3>1. PICK k \in 1 .. j - 1 :
              ms[k].kind = "calls" /\ ms[k].id = ms[j].of /\ j <= k + ResultsAfter(ms, k)
        BY <1>9, <1>1, <2>1 DEF Led
      <3>2. k \in DOMAIN ms
        BY <1>4, <2>1
      <3>3. j <= k + ResultsAfter(t, k)
        <4>1. /\ j \in Nat /\ k \in Nat /\ ResultsAfter(ms, k) \in Nat
              /\ j <= k + ResultsAfter(ms, k)
          BY <1>3, <1>4, <2>1, <3>1, <3>2
        <4>2. ResultsAfter(t, k) = ResultsAfter(ms, k) \/ ResultsAfter(t, k) = ResultsAfter(ms, k) + 1
          BY <1>2, <3>2
        <4>3. QED BY <4>1, <4>2
      <3>4. QED BY <1>1, <2>1, <3>1, <3>2, <3>3
    <2>2. CASE j = l + 1
      <3>1. i \in 1 .. j - 1 /\ t[i] = ms[i] /\ t[j] = m
        BY <1>1, <1>4, <1>5, <2>2
      <3>2. j <= i + ResultsAfter(t, i)
        BY <1>2, <1>3, <1>4, <1>5, <1>7, <2>2
      <3>3. QED BY <1>5, <3>1, <3>2
    <2>3. QED BY <1>1, <2>1, <2>2
  <1>10. Short(t) = IF ResultsAfter(ms, i) + 1 < ms[i].n THEN Short(ms) ELSE Short(ms) \ {i}
    <2>1. \A j \in DOMAIN ms : j # i => (j \in Short(t) <=> j \in Short(ms))
      <3> SUFFICES ASSUME NEW j \in DOMAIN ms, j # i PROVE j \in Short(t) <=> j \in Short(ms)
        OBVIOUS
      <3>1. ms[j].kind = "calls" => ResultsAfter(t, j) = ResultsAfter(ms, j)
        BY <1>2, <1>6
      <3>2. QED BY <1>1, <3>1 DEF Short
    <2>2. i \in Short(t) <=> ResultsAfter(ms, i) + 1 < ms[i].n
      BY <1>1, <1>2, <1>5 DEF Short
    <2>3. l + 1 \notin Short(t)
      BY <1>1 DEF Short
    <2>4. Short(t) \subseteq DOMAIN ms \cup {l + 1} /\ Short(ms) \subseteq DOMAIN ms /\ i \in Short(ms)
      BY <1>1 DEF Short
    <2>5. CASE ResultsAfter(ms, i) + 1 < ms[i].n
      <3>1. \A j : j \in Short(t) <=> j \in Short(ms)
        BY <2>1, <2>2, <2>3, <2>4, <2>5
      <3>2. QED BY <2>5, <3>1
    <2>6. CASE ~(ResultsAfter(ms, i) + 1 < ms[i].n)
      <3>1. \A j : j \in Short(t) <=> j \in Short(ms) \ {i}
        BY <2>1, <2>2, <2>3, <2>4, <2>6
      <3>2. Short(t) = Short(ms) \ {i}
        BY <3>1
      <3>3. QED BY <2>6, <3>2
    <2>7. QED BY <2>5, <2>6
  <1>11. AtEnd(t, i)
    BY <1>1, <1>2, <1>3, <1>4, <1>5, <1>7 DEF AtEnd
  <1>12. \A k \in Short(ms) : AtEnd(ms, k) => k = i
    BY <1>6 DEF Short
  <1>13. QED BY <1>8, <1>9, <1>10, <1>11, <1>12 DEF t

(* The rounds of a list from a position on.                                *)
LEMMA FromRounds ==
  ASSUME NEW n \in Nat, NEW ms \in Seq(MessagesUpTo(n)), NEW a \in 1 .. Len(ms), Answered(ms)
  PROVE  /\ Answered(From(ms, a))
         /\ Led(ms) /\ ms[a].kind # "result" => Led(From(ms, a))
         /\ \A k \in Short(From(ms, a)) : k \in 2 .. Len(ms) - a + 2 /\ a + k - 2 \in Short(ms)
         /\ \A k \in 2 .. Len(ms) - a + 2 :
              /\ a + k - 2 \in Short(ms) => k \in Short(From(ms, a))
              /\ AtEnd(ms, a + k - 2) => AtEnd(From(ms, a), k)
              /\ ResultsAfter(From(ms, a), k) = ResultsAfter(ms, a + k - 2)
  <1> DEFINE S == MessagesUpTo(n)
             f == From(ms, a)
             l == Len(ms)
  <1>1. /\ f \in Seq(S) /\ Len(f) = l - a + 2 /\ f[1] = Summary
        /\ \A k \in 2 .. l - a + 2 : f[k] = ms[a + k - 2]
    BY FromIs
  <1>2. /\ l \in Nat /\ a \in Nat /\ a >= 1 /\ a <= l /\ DOMAIN ms = 1 .. l /\ DOMAIN f = 1 .. l - a + 2
    BY <1>1
  <1>3. \A k \in DOMAIN ms : /\ k \in Nat /\ k >= 1 /\ ResultsAfter(ms, k) \in Nat
                             /\ k + ResultsAfter(ms, k) <= l
                             /\ Run(ms, k, ResultsAfter(ms, k))
    BY RunIs
  <1>4. ms \in Seq(S)
    OBVIOUS
  <1>5. f[1].kind = "summary"
    BY <1>1, SummaryIs
  <1> HIDE DEF S, f, l
  <1>6. ASSUME NEW k \in 2 .. l - a + 2
        PROVE  /\ ResultsAfter(f, k) = ResultsAfter(ms, a + k - 2)
               /\ a + k - 2 \in DOMAIN ms /\ k \in DOMAIN f /\ f[k] = ms[a + k - 2]
               /\ AtEnd(ms, a + k - 2) => AtEnd(f, k)
               /\ \A x \in k + 1 .. k + ResultsAfter(f, k) :
                    x \in 2 .. l - a + 2 /\ a + x - 2 \in a + k - 2 + 1 .. a + k - 2 + ResultsAfter(ms, a + k - 2)
    <2> DEFINE y == a + k - 2
               r == ResultsAfter(ms, y)
    <2>1. y \in DOMAIN ms /\ k \in DOMAIN f /\ k \in Nat /\ y \in Nat /\ k >= 2 /\ k + a = y + 2
      BY <1>2
    <2>2. r \in Nat /\ y + r <= l /\ Run(ms, y, r)
      BY <1>3, <2>1
    <2>3. f[k] = ms[y]
      BY <1>1
    <2> HIDE DEF y, r
    <2>0. /\ k \in Nat /\ y \in Nat /\ r \in Nat /\ l \in Nat /\ a \in Nat
          /\ k >= 2 /\ a >= 1 /\ k + a = y + 2 /\ y + r <= l /\ Len(f) = l - a + 2
      BY <1>1, <1>2, <2>1, <2>2
    <2>4. k + r <= Len(f) /\ \A j \in 1 .. r : k + j \in 2 .. l - a + 2 /\ a + (k + j) - 2 = y + j
      BY <2>0
    <2>5. \A j \in 1 .. r : f[k + j] = ms[y + j]
      BY <1>1, <2>4
    <2>6. k + r < Len(f) => f[k + r + 1].kind # "result"
      <3> SUFFICES ASSUME k + r < Len(f) PROVE f[k + r + 1].kind # "result"
        OBVIOUS
      <3>1. y + r < l /\ k + r + 1 \in 2 .. l - a + 2 /\ a + (k + r + 1) - 2 = y + r + 1
        BY <2>0
      <3>2. f[k + r + 1] = ms[y + r + 1]
        BY <1>1, <3>1
      <3>3. QED BY <2>2, <3>1, <3>2 DEF Run, l
    <2>7. ResultsAfter(f, k) = r
      <3>1. f \in Seq(S) /\ ms \in Seq(S) /\ k \in DOMAIN f /\ y \in DOMAIN ms
        BY <1>1, <1>4, <2>1
      <3>2. k + ResultsAfter(ms, y) <= Len(f)
        BY <2>4 DEF r
      <3>3. \A j \in 1 .. ResultsAfter(ms, y) : f[k + j] = ms[y + j]
        BY <2>5 DEF r
      <3>4. k + ResultsAfter(ms, y) < Len(f) => f[k + ResultsAfter(ms, y) + 1].kind # "result"
        BY <2>6 DEF r
      <3>5. QED BY <3>1, <3>2, <3>3, <3>4, SameRun DEF r
    <2>8. AtEnd(ms, y) => AtEnd(f, k)
      <3>1. y + r = l => k + r = Len(f)
        BY <2>0
      <3>2. QED BY <2>7, <3>1 DEF AtEnd, r, l
    <2>9. \A x \in k + 1 .. k + r : x \in 2 .. l - a + 2 /\ a + x - 2 \in y + 1 .. y + r
      BY <2>0
    <2>10. QED BY <2>1, <2>3, <2>7, <2>8, <2>9 DEF r, y
  <1>7. \A k \in DOMAIN f : k \in 2 .. l - a + 2 \/ k = 1
    BY <1>2
  <1>8. Answered(f)
    <2> SUFFICES ASSUME NEW k \in DOMAIN f, f[k].kind = "calls"
                 PROVE  /\ ResultsAfter(f, k) <= f[k].n
                        /\ \A j \in k + 1 .. k + ResultsAfter(f, k) : f[j].of = f[k].id
      BY DEF Answered
    <2>1. k \in 2 .. l - a + 2
      BY <1>5, <1>7
    <2>2. /\ f[k] = ms[a + k - 2] /\ a + k - 2 \in DOMAIN ms /\ ResultsAfter(f, k) = ResultsAfter(ms, a + k - 2)
      BY <1>6, <2>1
    <2>3. /\ ResultsAfter(ms, a + k - 2) <= ms[a + k - 2].n
          /\ \A j \in a + k - 2 + 1 .. a + k - 2 + ResultsAfter(ms, a + k - 2) : ms[j].of = ms[a + k - 2].id
      BY <2>2 DEF Answered
    <2>4. ASSUME NEW j \in k + 1 .. k + ResultsAfter(f, k) PROVE f[j].of = f[k].id
      <3>1. j \in 2 .. l - a + 2 /\ a + j - 2 \in a + k - 2 + 1 .. a + k - 2 + ResultsAfter(ms, a + k - 2)
        BY <1>6, <2>1
      <3>2. f[j] = ms[a + j - 2]
        BY <1>1, <3>1
      <3>3. QED BY <2>2, <2>3, <3>1, <3>2
    <2>5. QED BY <2>2, <2>3, <2>4
  <1>9. ASSUME Led(ms), ms[a].kind # "result" PROVE Led(f)
    <2> SUFFICES ASSUME NEW x \in DOMAIN f, f[x].kind = "result"
                 PROVE  \E j \in 1 .. x - 1 :
                          f[j].kind = "calls" /\ f[j].id = f[x].of /\ x <= j + ResultsAfter(f, j)
      BY DEF Led
    <2>1. x \in 2 .. l - a + 2
      BY <1>5, <1>7
    <2>2. PICK y \in DOMAIN ms : y = a + x - 2 /\ f[x] = ms[y]
      BY <1>6, <2>1
    <2>3. PICK j \in 1 .. y - 1 :
            ms[j].kind = "calls" /\ ms[j].id = ms[y].of /\ y <= j + ResultsAfter(ms, j)
      BY <1>9, <2>2 DEF Led
    <2>4. j \in DOMAIN ms /\ y \in Nat /\ a <= y
      BY <1>2, <2>1, <2>2, <2>3
    <2>5. a <= j
      <3>1. Run(ms, j, ResultsAfter(ms, j)) /\ ResultsAfter(ms, j) \in Nat
        BY <1>3, <2>4
      <3>2. ~(a \in j + 1 .. j + ResultsAfter(ms, j))
        BY <1>9, <3>1 DEF Run
      <3>3. QED BY <1>2, <2>3, <2>4, <3>1, <3>2
    <2>6. j - a + 2 \in 2 .. l - a + 2 /\ j - a + 2 \in 1 .. x - 1 /\ a + (j - a + 2) - 2 = j
      BY <1>2, <2>1, <2>2, <2>3, <2>4, <2>5, SMTT(30)
    <2>7. f[j - a + 2] = ms[j] /\ ResultsAfter(f, j - a + 2) = ResultsAfter(ms, j)
      BY <1>6, <2>6
    <2>8. x <= j - a + 2 + ResultsAfter(ms, j)
      BY <1>2, <1>3, <2>1, <2>2, <2>3, <2>4, SMTT(30)
    <2>9. QED BY <2>2, <2>3, <2>6, <2>7, <2>8
  <1>10. \A k \in Short(f) : k \in 2 .. l - a + 2 /\ a + k - 2 \in Short(ms)
    BY <1>5, <1>6, <1>7 DEF Short
  <1>11. \A k \in 2 .. l - a + 2 : a + k - 2 \in Short(ms) => k \in Short(f)
    BY <1>6 DEF Short
  <1>12. QED BY <1>6, <1>8, <1>9, <1>10, <1>11 DEF f, l

(* A round is complete when it is not short. *)
LEMMA CompleteIs ==
  ASSUME NEW n \in Nat, NEW ms \in Seq(MessagesUpTo(n)), Answered(ms),
         NEW i \in DOMAIN ms, ms[i].kind = "calls"
  PROVE  Complete(ms, i) <=> i \notin Short(ms)
  <1> DEFINE r == ResultsAfter(ms, i)
             T == {j \in i + 1 .. i + r : ms[j].of = ms[i].id}
  <1>1. i \in Nat /\ r \in Nat
    BY RunIs
  <1>2. ms[i].n \in Nat
    <2>1. ms[i] \in MessagesUpTo(n)
      OBVIOUS
    <2>2. QED BY <2>1, MessageIs
  <1>3. r <= ms[i].n /\ \A j \in i + 1 .. i + r : ms[j].of = ms[i].id
    BY DEF Answered
  <1>4. Complete(ms, i) <=> Cardinality(T) = ms[i].n
    BY DEF Complete
  <1>5. i \in Short(ms) <=> r < ms[i].n
    BY DEF Short
  <1> HIDE DEF r
  <1>6. T = i + 1 .. i + r
    BY <1>3
  <1>7. Cardinality(i + 1 .. i + r) = r
    <2>1. i + 1 \in Int /\ i + r \in Int /\ (IF i + 1 > i + r THEN 0 ELSE (i + r) - (i + 1) + 1) = r
      BY <1>1
    <2>2. QED BY <2>1, FS_Interval
  <1> HIDE DEF T
  <1>8. QED BY <1>1, <1>2, <1>3, <1>4, <1>5, <1>6, <1>7

(* The rounds of a list that has lost its first incomplete one.            *)
LEMMA DropRounds ==
  ASSUME NEW n \in Nat, NEW ms \in Seq(MessagesUpTo(n)), Answered(ms),
         NEW i \in DOMAIN ms, NEW r \in Nat \ {0}, NEW d, LeavesOut(MessagesUpTo(n), ms, i, r, d)
  PROVE  /\ i \in Short(ms) /\ \A k \in Short(ms) : i <= k
         /\ Answered(d)
         /\ Led(ms) => Led(d)
         /\ \A k \in Short(d) :
              /\ k \in i .. Len(d) /\ k + r \in Short(ms)
              /\ AtEnd(ms, k + r) => AtEnd(d, k)
         /\ \A k \in Short(ms) : k > i => k - r \in Short(d)
  <1> DEFINE S == MessagesUpTo(n)
             l == Len(ms)
  <1>1. /\ ms[i].kind = "calls" /\ ~Complete(ms, i) /\ ResultsAfter(ms, i) = r - 1
        /\ \A k \in 1 .. i - 1 : ms[k].kind = "calls" => Complete(ms, k)
        /\ i + r - 1 <= l
        /\ d \in Seq(S) /\ Len(d) = l - r
        /\ \A k \in 1 .. l - r : d[k] = ms[IF k < i THEN k ELSE k + r]
    <2>1. ResultsAfter(ms, i) \in Nat
      BY RunIs
    <2>2. r = ResultsAfter(ms, i) + 1
      BY DEF LeavesOut
    <2>3. ResultsAfter(ms, i) = r - 1
      BY <2>1, <2>2
    <2>4. QED BY <2>3 DEF LeavesOut
  <1>2. \A k \in DOMAIN ms : /\ k \in Nat /\ k >= 1 /\ ResultsAfter(ms, k) \in Nat
                             /\ k + ResultsAfter(ms, k) <= l
                             /\ Run(ms, k, ResultsAfter(ms, k))
    BY RunIs
  <1>3. /\ l \in Nat /\ i \in Nat /\ r \in Nat /\ r >= 1 /\ i >= 1 /\ i + r - 1 <= l
        /\ DOMAIN ms = 1 .. l /\ DOMAIN d = 1 .. l - r
    BY <1>1
  <1>4. /\ i \in Short(ms)
        /\ \A k \in 1 .. i - 1 : k \notin Short(ms)
    <2>1. \A k \in 1 .. i - 1 : k \in DOMAIN ms
      BY <1>3
    <2>2. ASSUME NEW k \in 1 .. i - 1, k \in Short(ms) PROVE FALSE
      <3>1. ms[k].kind = "calls"
        BY <2>2 DEF Short
      <3>2. Complete(ms, k) /\ k \in DOMAIN ms
        BY <1>1, <2>1, <3>1
      <3>3. QED BY <2>2, <3>1, <3>2, CompleteIs
    <2>3. QED BY <1>1, <2>2, CompleteIs
  <1>5. ms \in Seq(S)
    OBVIOUS
  <1> HIDE DEF S, l
  <1>6. i + r <= l => ms[i + r].kind # "result"
    <2>1. Run(ms, i, r - 1)
      BY <1>1, <1>2
    <2>2. i + (r - 1) < l /\ i + (r - 1) + 1 = i + r <=> i + r <= l
      BY <1>3
    <2>3. QED BY <2>1, <2>2 DEF Run, l
  <1>7. /\ \A k \in 1 .. i - 1 : k \in DOMAIN ms /\ k \in Nat /\ (k \in DOMAIN d => d[k] = ms[k])
        /\ \A k \in i .. l - r : k + r \in DOMAIN ms /\ k \in DOMAIN d /\ d[k] = ms[k + r]
    <2>1. \A k \in 1 .. i - 1 : k \in DOMAIN ms /\ k < i
      BY <1>3
    <2>2. \A k \in i .. l - r : k + r \in DOMAIN ms /\ k \in DOMAIN d /\ ~(k < i)
      BY <1>3
    <2>3. QED BY <1>1, <1>3, <2>1, <2>2
  <1>8. \A k \in 1 .. i - 1 : k \in DOMAIN d
    BY <1>3
  <1>9. ASSUME NEW k \in 1 .. i - 1
        PROVE  /\ k + ResultsAfter(ms, k) <= i - 1
               /\ ResultsAfter(d, k) = ResultsAfter(ms, k)
    <2> DEFINE q == ResultsAfter(ms, k)
    <2>1. q \in Nat /\ Run(ms, k, q) /\ k \in Nat
      BY <1>2, <1>7
    <2>2. k + q <= i - 1
      <3>1. ~(i \in k + 1 .. k + q)
        BY <1>1, <2>1 DEF Run
      <3>2. QED BY <1>3, <2>1, <3>1
    <2> HIDE DEF q
    <2>3. \A j \in 1 .. q : d[k + j] = ms[k + j]
      <3>1. \A j \in 1 .. q : k + j \in 1 .. i - 1
        BY <1>3, <2>1, <2>2
      <3>2. QED BY <1>7, <1>8, <3>1
    <2>4. k + q <= Len(d)
      BY <1>1, <1>3, <2>1, <2>2
    <2>5. k + q < Len(d) => d[k + q + 1].kind # "result"
      <3> SUFFICES ASSUME k + q < Len(d) PROVE d[k + q + 1].kind # "result"
        OBVIOUS
      <3>1. CASE k + q + 1 <= i - 1
        <4>1. k + q + 1 \in 1 .. i - 1 /\ k + q < l
          BY <1>3, <2>1, <3>1
        <4>2. d[k + q + 1] = ms[k + q + 1]
          BY <1>7, <1>8, <4>1
        <4>3. QED BY <2>1, <4>1, <4>2 DEF Run, l
      <3>2. CASE k + q + 1 = i
        <4>1. i \in i .. l - r /\ i + r <= l
          BY <1>1, <1>3, <2>1, <3>2
        <4>2. QED BY <1>6, <1>7, <3>2, <4>1
      <3>3. QED BY <1>3, <2>1, <2>2, <3>1, <3>2
    <2>6. ResultsAfter(d, k) = q
      <3>1. d \in Seq(S) /\ ms \in Seq(S) /\ k \in DOMAIN ms /\ k \in DOMAIN d
        BY <1>1, <1>5, <1>7, <1>8
      <3>2. k + ResultsAfter(ms, k) <= Len(d)
        BY <2>4 DEF q
      <3>3. \A j \in 1 .. ResultsAfter(ms, k) : d[k + j] = ms[k + j]
        BY <2>3 DEF q
      <3>4. k + ResultsAfter(ms, k) < Len(d) => d[k + ResultsAfter(ms, k) + 1].kind # "result"
        BY <2>5 DEF q
      <3>5. QED BY <3>1, <3>2, <3>3, <3>4, SameRun DEF q
    <2>7. QED BY <2>2, <2>6 DEF q
  <1>10. ASSUME NEW k \in i .. l - r PROVE ResultsAfter(d, k) = ResultsAfter(ms, k + r)
    <2> DEFINE y == k + r
               q == ResultsAfter(ms, y)
    <2>1. y \in DOMAIN ms /\ k \in DOMAIN d /\ y = k + r
      BY <1>7
    <2> HIDE DEF y
    <2>2. q \in Nat /\ Run(ms, y, q) /\ y + q <= l
      BY <1>2, <2>1
    <2> HIDE DEF q
    <2>3. /\ k \in Nat /\ y \in Nat /\ q \in Nat /\ l \in Nat /\ r \in Nat /\ i \in Nat
          /\ i <= k /\ k <= l - r /\ y = k + r /\ y + q <= l /\ Len(d) = l - r
      BY <1>1, <1>3, <2>1, <2>2
    <2>4. k + q <= Len(d)
      BY <2>3
    <2>5. \A j \in 1 .. q : d[k + j] = ms[y + j]
      <3>1. \A j \in 1 .. q : k + j \in i .. l - r /\ (k + j) + r = y + j
        BY <2>3
      <3>2. QED BY <1>7, <3>1
    <2>6. k + q < Len(d) => d[k + q + 1].kind # "result"
      <3> SUFFICES ASSUME k + q < Len(d) PROVE d[k + q + 1].kind # "result"
        OBVIOUS
      <3>1. k + q + 1 \in i .. l - r /\ (k + q + 1) + r = y + q + 1 /\ y + q < l
        BY <2>3
      <3>2. d[k + q + 1] = ms[y + q + 1]
        BY <1>7, <3>1
      <3>3. QED BY <2>2, <3>1, <3>2 DEF Run, l
    <2>7. ResultsAfter(d, k) = q
      <3>1. d \in Seq(S) /\ ms \in Seq(S) /\ y \in DOMAIN ms /\ k \in DOMAIN d
        BY <1>1, <1>5, <2>1
      <3>2. k + ResultsAfter(ms, y) <= Len(d)
        BY <2>4 DEF q
      <3>3. \A j \in 1 .. ResultsAfter(ms, y) : d[k + j] = ms[y + j]
        BY <2>5 DEF q
      <3>4. k + ResultsAfter(ms, y) < Len(d) => d[k + ResultsAfter(ms, y) + 1].kind # "result"
        BY <2>6 DEF q
      <3>5. QED BY <3>1, <3>2, <3>3, <3>4, SameRun DEF q
    <2>8. QED BY <2>7 DEF q, y
  <1>11. \A k \in DOMAIN d : k \in 1 .. i - 1 \/ k \in i .. l - r
    BY <1>3
  <1>12. Answered(d)
    <2> SUFFICES ASSUME NEW k \in DOMAIN d, d[k].kind = "calls"
                 PROVE  /\ ResultsAfter(d, k) <= d[k].n
                        /\ \A j \in k + 1 .. k + ResultsAfter(d, k) : d[j].of = d[k].id
      BY DEF Answered
    <2>1. CASE k \in 1 .. i - 1
      <3>1. d[k] = ms[k] /\ k \in DOMAIN ms /\ ResultsAfter(d, k) = ResultsAfter(ms, k)
        BY <1>7, <1>8, <1>9, <2>1
      <3>2. /\ ResultsAfter(ms, k) <= ms[k].n
            /\ \A j \in k + 1 .. k + ResultsAfter(ms, k) : ms[j].of = ms[k].id
        BY <3>1 DEF Answered
      <3>3. \A j \in k + 1 .. k + ResultsAfter(ms, k) : j \in 1 .. i - 1
        <4>1. k + ResultsAfter(ms, k) <= i - 1 /\ ResultsAfter(ms, k) \in Nat
          BY <1>2, <1>9, <2>1, <3>1
        <4>2. QED BY <1>3, <2>1, <4>1
      <3>4. QED BY <1>7, <1>8, <3>1, <3>2, <3>3
    <2>2. CASE k \in i .. l - r
      <3> DEFINE q == ResultsAfter(ms, k + r)
      <3>1. d[k] = ms[k + r] /\ k + r \in DOMAIN ms /\ ResultsAfter(d, k) = q
        BY <1>7, <1>10, <2>2
      <3>2. q <= ms[k + r].n /\ \A j \in k + r + 1 .. k + r + q : ms[j].of = ms[k + r].id
        BY <3>1 DEF Answered
      <3>3. q \in Nat /\ k + r + q <= l
        BY <1>2, <3>1
      <3> HIDE DEF q
      <3>4. \A j \in k + 1 .. k + q : j \in i .. l - r /\ j + r \in k + r + 1 .. k + r + q
        BY <1>3, <2>2, <3>3
      <3>5. \A j \in k + 1 .. k + q : d[j] = ms[j + r]
        BY <1>7, <3>4
      <3>6. QED BY <3>1, <3>2, <3>4, <3>5
    <2>3. QED BY <1>11, <2>1, <2>2
  <1>13. ASSUME Led(ms) PROVE Led(d)
    <2> SUFFICES ASSUME NEW x \in DOMAIN d, d[x].kind = "result"
                 PROVE  \E j \in 1 .. x - 1 :
                          d[j].kind = "calls" /\ d[j].id = d[x].of /\ x <= j + ResultsAfter(d, j)
      BY DEF Led
    <2>1. CASE x \in 1 .. i - 1
      <3>1. d[x] = ms[x] /\ x \in DOMAIN ms
        BY <1>7, <1>8, <2>1
      <3>2. PICK j \in 1 .. x - 1 :
              ms[j].kind = "calls" /\ ms[j].id = ms[x].of /\ x <= j + ResultsAfter(ms, j)
        BY <1>13, <3>1 DEF Led
      <3>3. j \in 1 .. i - 1
        BY <1>3, <2>1
      <3>4. d[j] = ms[j] /\ ResultsAfter(d, j) = ResultsAfter(ms, j)
        BY <1>7, <1>8, <1>9, <3>3
      <3>5. QED BY <3>1, <3>2, <3>4
    <2>2. CASE x \in i .. l - r
      <3>1. PICK y \in DOMAIN ms : y = x + r /\ d[x] = ms[y]
        BY <1>7, <2>2
      <3>2. PICK j \in 1 .. y - 1 :
              ms[j].kind = "calls" /\ ms[j].id = ms[y].of /\ y <= j + ResultsAfter(ms, j)
        BY <1>13, <3>1 DEF Led
      <3>3. j \in DOMAIN ms /\ j \in Nat /\ y \in Nat /\ x \in Nat
        BY <1>3, <2>2, <3>1, <3>2
      <3>4. ~(j \in 1 .. i - 1)
        <4>1. j \in 1 .. i - 1 => j + ResultsAfter(ms, j) <= i - 1 /\ ResultsAfter(ms, j) \in Nat
          BY <1>2, <1>9, <3>3
        <4>2. QED BY <1>3, <2>2, <3>1, <3>2, <3>3, <4>1
      <3>5. j # i
        <4>1. j = i => j + ResultsAfter(ms, j) = i + r - 1
          BY <1>1, <1>3
        <4>2. QED BY <1>3, <2>2, <3>1, <3>2, <3>3, <4>1
      <3>6. ~(j \in i + 1 .. i + (r - 1))
        <4>1. Run(ms, i, r - 1)
          BY <1>1, <1>2
        <4>2. QED BY <3>2, <4>1 DEF Run
      <3>7. j - r \in i .. l - r /\ j - r \in 1 .. x - 1 /\ (j - r) + r = j
        BY <1>3, <3>1, <3>2, <3>3, <3>4, <3>5, <3>6, SMTT(30)
      <3>8. d[j - r] = ms[j] /\ ResultsAfter(d, j - r) = ResultsAfter(ms, j)
        BY <1>7, <1>10, <3>7
      <3>9. x <= j - r + ResultsAfter(ms, j)
        BY <1>2, <1>3, <3>1, <3>2, <3>3, SMTT(30)
      <3>10. QED BY <3>1, <3>2, <3>7, <3>8, <3>9
    <2>3. QED BY <1>11, <2>1, <2>2
  <1>14. \A k \in i .. l - r : k \in Short(d) <=> k + r \in Short(ms)
    BY <1>7, <1>10 DEF Short
  <1>15. \A k \in Short(d) : k \in i .. l - r
    <2> SUFFICES ASSUME NEW k \in Short(d), k \in 1 .. i - 1 PROVE FALSE
      BY <1>11 DEF Short
    <2>1. k \in Short(ms)
      BY <1>7, <1>8, <1>9 DEF Short
    <2>2. QED BY <1>4, <2>1
  <1>16. ASSUME NEW k \in i .. l - r, AtEnd(ms, k + r) PROVE AtEnd(d, k)
    <2>1. ResultsAfter(d, k) = ResultsAfter(ms, k + r) /\ k + r \in DOMAIN ms
      BY <1>7, <1>10
    <2>2. ResultsAfter(ms, k + r) \in Nat /\ k + r + ResultsAfter(ms, k + r) = l
      BY <1>2, <1>16, <2>1 DEF AtEnd, l
    <2>3. k + ResultsAfter(d, k) = l - r
      BY <1>3, <2>1, <2>2
    <2>4. QED BY <1>1, <2>3 DEF AtEnd
  <1>17. ASSUME NEW k \in Short(ms), k > i PROVE k - r \in Short(d)
    <2>1. k \in DOMAIN ms /\ ms[k].kind = "calls" /\ k \in Nat /\ k <= l
      BY <1>3 DEF Short
    <2>2. ~(k \in i + 1 .. i + (r - 1))
      <3>1. Run(ms, i, r - 1)
        BY <1>1, <1>2
      <3>2. QED BY <2>1, <3>1 DEF Run
    <2>3. k - r \in i .. l - r /\ (k - r) + r = k
      BY <1>3, <1>17, <2>1, <2>2
    <2>4. QED BY <1>14, <2>3
  <1>18. \A k \in Short(ms) : i <= k
    <2> SUFFICES ASSUME NEW k \in Short(ms), ~(i <= k) PROVE FALSE
      OBVIOUS
    <2>1. k \in 1 .. i - 1
      BY <1>3 DEF Short
    <2>2. QED BY <1>4, <2>1
  <1>19. QED BY <1>1, <1>4, <1>12, <1>13, <1>14, <1>15, <1>16, <1>17, <1>18

(* Calls lack a result when their round is short.                          *)
LEMMA UnansweredIsShort ==
  ASSUME NEW n \in Nat, NEW ms \in Seq(MessagesUpTo(n)), Answered(ms)
  PROVE  Unanswered(ms) \subseteq Short(ms)
  <1> SUFFICES ASSUME NEW i \in Unanswered(ms), i \notin Short(ms) PROVE FALSE
    OBVIOUS
  <1> DEFINE r == ResultsAfter(ms, i)
             T == {j \in DOMAIN ms : ms[j].kind = "result" /\ ms[j].of = ms[i].id}
             R == i + 1 .. i + r
  <1>1. i \in DOMAIN ms /\ ms[i].kind = "calls" /\ Cardinality(T) < ms[i].n
    BY DEF Unanswered, ResultsOf
  <1>2. i \in Nat /\ r \in Nat /\ Run(ms, i, r) /\ i + r <= Len(ms) /\ Len(ms) \in Nat /\ i >= 1
    BY <1>1, RunIs
  <1>3. ms[i].n \in Nat
    <2>1. ms[i] \in MessagesUpTo(n)
      BY <1>1
    <2>2. QED BY <1>1, <2>1, MessageIs
  <1>4. ~(r < ms[i].n)
    BY <1>1 DEF Short
  <1>5. \A j \in R : ms[j].of = ms[i].id
    BY <1>1 DEF Answered
  <1> HIDE DEF r
  <1>6. R \subseteq T
    <2>1. \A j \in R : j \in DOMAIN ms
      BY <1>2
    <2>2. QED BY <1>2, <1>5, <2>1 DEF Run
  <1>7. IsFiniteSet(T)
    <2>1. IsFiniteSet(1 .. Len(ms))
      BY <1>2, FS_Interval
    <2>2. T \in SUBSET (1 .. Len(ms))
      OBVIOUS
    <2> HIDE DEF T
    <2>3. QED BY <2>1, <2>2, FS_Subset
  <1>8. Cardinality(R) = r
    <2>1. i + 1 \in Int /\ i + r \in Int /\ (IF i + 1 > i + r THEN 0 ELSE (i + r) - (i + 1) + 1) = r
      BY <1>2
    <2>2. QED BY <2>1, FS_Interval
  <1> HIDE DEF T, R
  <1>9. Cardinality(R) <= Cardinality(T) /\ Cardinality(T) \in Nat
    BY <1>6, <1>7, FS_Subset, FS_CardinalityType
  <1>10. QED BY <1>1, <1>2, <1>3, <1>4, <1>8, <1>9

LEMMA ShortIsUnanswered ==
  ASSUME NEW n \in Nat, NEW ms \in Seq(MessagesUpTo(n)), Rising(ms),
         \A j \in DOMAIN ms : ms[j].kind = "result" => ms[j].of < ms[j].id,
         NEW i \in Short(ms), AtEnd(ms, i)
  PROVE  i \in Unanswered(ms)
  <1> DEFINE r == ResultsAfter(ms, i)
             T == {j \in DOMAIN ms : ms[j].kind = "result" /\ ms[j].of = ms[i].id}
             R == i + 1 .. i + r
  <1>1. i \in DOMAIN ms /\ ms[i].kind = "calls" /\ r < ms[i].n
    BY DEF Short
  <1>2. i \in Nat /\ r \in Nat /\ i + r = Len(ms) /\ Len(ms) \in Nat
    BY <1>1, RunIs DEF AtEnd
  <1>3. ms[i].n \in Nat
    <2>1. ms[i] \in MessagesUpTo(n)
      BY <1>1
    <2>2. QED BY <1>1, <2>1, MessageIs
  <1> HIDE DEF r
  <1>4. T \subseteq R
    <2> SUFFICES ASSUME NEW j \in DOMAIN ms, ms[j].kind = "result", ms[j].of = ms[i].id
                 PROVE  j \in R
      OBVIOUS
    <2>1. ms[i].id < ms[j].id
      OBVIOUS
    <2>2. ms[i].id \in 0 .. n /\ ms[j].id \in 0 .. n
      BY <1>1, MessageIs
    <2>3. ~(j <= i)
      BY <1>1, <2>1, <2>2, RisingOnce
    <2>4. j \in 1 .. Len(ms)
      OBVIOUS
    <2>5. QED BY <1>2, <2>3, <2>4
  <1>5. IsFiniteSet(R) /\ Cardinality(R) = r
    <2>1. i + 1 \in Int /\ i + r \in Int /\ (IF i + 1 > i + r THEN 0 ELSE (i + r) - (i + 1) + 1) = r
      BY <1>2
    <2>2. QED BY <2>1, FS_Interval
  <1>6. Unanswered(ms) = {k \in DOMAIN ms : ms[k].kind = "calls" /\ ResultsOf(ms, ms[k].id) < ms[k].n}
    BY DEF Unanswered
  <1>7. ResultsOf(ms, ms[i].id) = Cardinality(T)
    BY DEF ResultsOf
  <1> HIDE DEF T, R
  <1>8. Cardinality(T) <= r /\ Cardinality(T) \in Nat
    BY <1>4, <1>5, FS_Subset, FS_CardinalityType
  <1>9. ResultsOf(ms, ms[i].id) < ms[i].n
    BY <1>1, <1>2, <1>3, <1>7, <1>8
  <1>10. QED BY <1>1, <1>6, <1>9

-----------------------------------------------------------------------------
(* The steps, again: what they do to the rounds. *)
LEMMA RoundsKnown ==
  ASSUME ContextInv
  PROVE  /\ last \in Nat /\ messages \in Seq(MessagesUpTo(last)) /\ log \in Seq(MessagesUpTo(last))
         /\ ids \in Seq(0 .. last) /\ cut.first \in 0 .. last /\ Rising(messages) /\ Rising(log)
         /\ \A i \in DOMAIN messages : messages[i].id \in 0 .. last
         /\ \A i \in DOMAIN log : log[i].id \in 1 .. last
         /\ under.first \in 0 .. last
         /\ torn \in BOOLEAN /\ skewed \in BOOLEAN
         /\ torn /\ pc # "down" => log = << >>
  <1>1. StoreOK /\ ControlOK
    BY Parts
  <1>2. /\ last \in Nat /\ messages \in Seq(MessagesUpTo(last)) /\ log \in Seq(MessagesUpTo(last))
        /\ Rising(messages) /\ Rising(log) /\ cut.first \in 0 .. last
    BY <1>1, StoreIs
  <1>3. ids \in Seq(0 .. last) /\ torn \in BOOLEAN /\ under.first \in 0 .. last
    <2>1. ids \in Seq(0 .. last) /\ torn \in BOOLEAN
      BY <1>1, Zenon DEF StoreOK, StoreTypeOK
    <2>2. under.first \in 0 .. last
      BY <1>1 DEF StoreOK, StoreTypeOK
    <2>3. QED BY <2>1, <2>2
  <1>4. \A i \in DOMAIN messages : messages[i].id \in 0 .. last
    BY <1>2, MessageIs
  <1>5. \A i \in DOMAIN log : log[i].id \in 0 .. last /\ log[i].id > 0
    BY <1>1, <1>2, MessageIs DEF StoreOK, LogInOrder
  <1>6. \A i \in DOMAIN log : log[i].id \in 1 .. last
    BY <1>2, <1>5
  <1>7. torn /\ pc # "down" => log = << >>
    BY <1>1 DEF StoreOK, LogInOrder
  <1>8. skewed \in BOOLEAN
    BY <1>1, Zenon DEF ControlOK
  <1>9. QED BY <1>2, <1>3, <1>4, <1>6, <1>7, <1>8

(* A reader that loses the last line finds the same cut.                   *)
LEMMA FallsToCut ==
  ASSUME CutsAdvance', under' = cut', cut' .first \in Nat
  PROVE  FallsBack'
  BY DEF FallsBack, CutsAdvance

(* As long as no message is lost, each one appended reaches the log.       *)
LEMMA WholeAppend ==
  ASSUME ContextInv, lost' = {}, pc # "down", NEW m, m.id = last + 1, AppendMessage(m)
  PROVE  /\ ~torn /\ torn' = FALSE /\ log' = Append(log, m) /\ cut' = cut /\ under' = cut'
         /\ messages' = Append(messages, m) /\ ids' = Append(ids, m.id)
  <1>1. StoreOK
    BY Parts
  <1>2. lost' # lost \cup {last + 1}
    OBVIOUS
  <1>3. QED BY <1>1, <1>2, AppendCases DEF AppendMessage

(* A message that is no result is appended where no round is short.        *)
LEMMA PlainStep ==
  ASSUME ContextInv, RoundsHold, lost' = {}, NEW m \in MessagesUpTo(last + 1), m.id = last + 1,
         m.kind # "result", AppendMessage(m), skewed' = skewed,
         pc \in {"idle", "top", "request"}, pc' \in Up \ {"reset"},
         m.kind = "calls" => pc = "request" /\ pc' = "round",
         pc' = "round" => m.kind = "calls" /\ m.n = batch' /\ open' = batch'
  PROVE  RoundsHold'
  <1> DEFINE n == last + 1
             S == MessagesUpTo(n)
  <1>1. /\ n \in Nat /\ last \in Nat /\ messages \in Seq(S) /\ log \in Seq(S) /\ m \in S
        /\ ids \in Seq(0 .. last) /\ cut.first \in 0 .. last /\ torn \in BOOLEAN
        /\ \A i \in DOMAIN messages : messages[i].id \in 0 .. last
        /\ \A i \in DOMAIN log : log[i].id \in 1 .. last
    <2>1. MessagesUpTo(last) \subseteq S /\ n \in Nat
      BY RoundsKnown, MessagesGrow
    <2>2. QED BY <2>1, RoundsKnown
  <1>2. /\ messages' = Append(messages, m) /\ ids' = Append(ids, n)
        /\ torn => log' = log
        /\ ~torn => log' = Append(log, m)
        /\ torn' = FALSE /\ cut' = cut /\ under' = cut'
    BY WholeAppend DEF Up
  <1>3. /\ Answered(messages) /\ Answered(log) /\ Led(log) /\ (~skewed => Led(messages))
        /\ SameRecords /\ CutsAdvance /\ ShortIsLast /\ OneLeftOut /\ FallsBack
    BY DEF RoundsHold
  <1>4. Short(messages) = {}
    BY <1>3 DEF ShortIsLast
  <1>5. torn => pc = "idle" /\ log = << >>
    BY <1>3, RoundsKnown DEF SameRecords, Up
  <1>6. /\ Answered(messages') /\ (Led(messages) => Led(messages'))
        /\ Short(messages') = IF m.kind = "calls" THEN {Len(messages) + 1} ELSE {}
        /\ AtEnd(messages', Len(messages) + 1)
    <2> HIDE DEF S, n
    <2>1. messages \in Seq(MessagesUpTo(n)) /\ m \in MessagesUpTo(n) /\ n \in Nat
      BY <1>1 DEF S
    <2>2. /\ Answered(Append(messages, m)) /\ (Led(messages) => Led(Append(messages, m)))
          /\ Short(Append(messages, m)) = Short(messages) \cup (IF m.kind = "calls" THEN {Len(messages) + 1} ELSE {})
          /\ AtEnd(Append(messages, m), Len(messages) + 1)
      BY <1>3, <2>1, PlainRounds
    <2>3. QED BY <1>2, <1>4, <2>2
  <1>7. ~torn => /\ Answered(log') /\ Led(log')
                 /\ Short(log') = Short(log) \cup (IF m.kind = "calls" THEN {Len(log) + 1} ELSE {})
                 /\ AtEnd(log', Len(log) + 1)
    <2> HIDE DEF S, n
    <2>1. log \in Seq(MessagesUpTo(n)) /\ m \in MessagesUpTo(n) /\ n \in Nat
      BY <1>1 DEF S
    <2>2. /\ Answered(Append(log, m)) /\ (Led(log) => Led(Append(log, m)))
          /\ Short(Append(log, m)) = Short(log) \cup (IF m.kind = "calls" THEN {Len(log) + 1} ELSE {})
          /\ AtEnd(Append(log, m), Len(log) + 1)
      BY <1>3, <2>1, PlainRounds
    <2>3. QED BY <1>2, <1>3, <2>2
  <1>8. /\ Len(messages') = Len(messages) + 1 /\ messages'[Len(messages) + 1] = m
        /\ \A i \in DOMAIN messages : messages'[i] = messages[i]
        /\ DOMAIN messages' = DOMAIN messages \cup {Len(messages) + 1}
    BY <1>1, <1>2, AppendIs
  <1>9. ~torn => /\ Len(log') = Len(log) + 1 /\ log'[Len(log) + 1] = m
                 /\ \A i \in DOMAIN log : log'[i] = log[i]
                 /\ DOMAIN log' = DOMAIN log \cup {Len(log) + 1}
    <2> SUFFICES ASSUME ~torn
                 PROVE  /\ Len(log') = Len(log) + 1 /\ log'[Len(log) + 1] = m
                        /\ \A i \in DOMAIN log : log'[i] = log[i]
                        /\ DOMAIN log' = DOMAIN log \cup {Len(log) + 1}
      OBVIOUS
    <2>1. log' = Append(log, m)
      BY <1>2
    <2> HIDE DEF S
    <2>2. QED BY <1>1, <2>1, AppendIs
  <1>10. /\ \A i \in DOMAIN ids : ids'[i] = ids[i]
         /\ ids'[Len(ids) + 1] = n /\ DOMAIN ids' = DOMAIN ids \cup {Len(ids) + 1}
    BY <1>1, <1>2
  <1>11. \A j \in DOMAIN log' : (j \in DOMAIN log /\ log'[j] = log[j]) \/ (~torn /\ j = Len(log) + 1 /\ log'[j] = m)
    BY <1>2, <1>9
  <1>12. SameRecords'
    <2>1. ASSUME NEW i \in DOMAIN messages', messages'[i].kind = "result"
          PROVE  messages'[i].of < messages'[i].id
      BY <1>3, <1>8, <2>1 DEF SameRecords
    <2>2. ASSUME NEW j \in DOMAIN log', log'[j].kind = "result"
          PROVE  log'[j].of < log'[j].id
      BY <1>3, <1>11, <2>2 DEF SameRecords
    <2>3. ASSUME NEW i \in DOMAIN messages', NEW j \in DOMAIN log', messages'[i].id = log'[j].id
          PROVE  messages'[i] = log'[j]
      <3>1. CASE i \in DOMAIN messages /\ j \in DOMAIN log
        BY <1>3, <1>8, <1>9, <1>11, <2>3, <3>1 DEF SameRecords
      <3>2. CASE i \notin DOMAIN messages
        <4>1. messages'[i] = m
          BY <1>8, <3>2
        <4>2. log'[j] # m => log'[j].id \in 1 .. last
          BY <1>1, <1>11
        <4>3. QED BY <1>1, <2>3, <4>1, <4>2
      <3>3. CASE j \notin DOMAIN log
        <4>1. log'[j] = m
          BY <1>11, <3>3
        <4>2. messages'[i] # m => messages'[i].id \in 0 .. last
          BY <1>1, <1>8
        <4>3. QED BY <1>1, <2>3, <4>1, <4>2
      <3>4. QED BY <3>1, <3>2, <3>3
    <2>4. QED BY <1>2, <2>1, <2>2, <2>3 DEF SameRecords
  <1>13. CutsAdvance'
    <2>1. ASSUME NEW i \in DOMAIN ids', ids'[i] < cut' .first PROVE ids'[i] = 0
      <3>1. i \in DOMAIN ids
        BY <1>1, <1>2, <1>10, <2>1
      <3>2. ids[i] < cut.first /\ ids'[i] = ids[i]
        BY <1>2, <1>10, <2>1, <3>1
      <3>3. QED BY <1>3, <3>1, <3>2 DEF CutsAdvance
    <2>2. ASSUME NEW j \in DOMAIN log', log'[j].id = cut' .first, ~skewed' PROVE log'[j].kind # "result"
      BY <1>2, <1>3, <1>11, <2>2 DEF CutsAdvance
    <2>3. QED BY <2>1, <2>2 DEF CutsAdvance
  <1>14. ShortIsLast'
    <2>1. ASSUME NEW i \in Short(messages')
          PROVE  /\ pc' \in {"round", "repair"} /\ AtEnd(messages', i)
                 /\ Len(messages') - i < Len(log')
                 /\ \A k \in 0 .. Len(messages') - i :
                      log'[Len(log') - k] = messages'[Len(messages') - k]
      <3>1. m.kind = "calls" /\ i = Len(messages) + 1 /\ pc' = "round" /\ ~torn
        BY <1>5, <1>6, <2>1
      <3>2. Len(messages') - i = 0 /\ Len(log') = Len(log) + 1 /\ Len(log) \in Nat /\ Len(messages) \in Nat
        BY <1>1, <1>8, <1>9, <3>1
      <3>3. \A k \in 0 .. Len(messages') - i : k = 0 /\ Len(log') - k = Len(log) + 1 /\ Len(messages') - k = Len(messages) + 1
        BY <1>8, <3>2
      <3>4. Len(messages') - i < Len(log')
        BY <3>2
      <3>5. QED BY <1>6, <1>8, <1>9, <3>1, <3>3, <3>4
    <2>2. ASSUME pc' = "round" PROVE messages'[Len(messages') - (batch' - open')].n = batch'
      <3>1. m.n \in Nat /\ Len(messages) \in Nat
        <4>1. m.n \in 1 .. MaxRound
          BY <1>1, <2>2, MessageIs
        <4>2. QED BY <1>1, <4>1, ContextAssumption
      <3>2. Len(messages') - (batch' - open') = Len(messages) + 1
        BY <1>8, <2>2, <3>1
      <3>3. QED BY <1>8, <2>2, <3>2
    <2>3. QED BY <2>1, <2>2 DEF ShortIsLast
  <1>15. OneLeftOut'
    <2> SUFFICES ASSUME NEW j \in Short(log'), NEW k \in Short(log'), j < k, log'[j].id >= cut' .first
                 PROVE  AtEnd(log', k) /\ Short(messages') # {}
      BY DEF OneLeftOut
    <2>1. ~torn
      <3>1. torn => DOMAIN log' = {}
        BY <1>2, <1>5
      <3>2. QED BY <3>1 DEF Short
    <2>2. \A x \in Short(log) : x \in 1 .. Len(log)
      BY <1>1 DEF Short
    <2>3. /\ j \in Short(log) \/ (m.kind = "calls" /\ j = Len(log) + 1)
          /\ k \in Short(log) \/ (m.kind = "calls" /\ k = Len(log) + 1)
      BY <1>7, <2>1
    <2>4. Len(log) \in Nat
      BY <1>1
    <2>5. j \in Short(log)
      BY <2>2, <2>3, <2>4
    <2>6. k \notin Short(log)
      <3>1. log[j].id >= cut.first
        BY <1>2, <1>9, <2>1, <2>5 DEF Short
      <3>2. pc \in Up
        BY DEF Up
      <3>3. QED BY <1>3, <1>4, <2>5, <3>1, <3>2 DEF OneLeftOut
    <2>7. m.kind = "calls" /\ k = Len(log) + 1
      BY <2>3, <2>6
    <2>8. QED BY <1>6, <1>7, <2>1, <2>7
  <1>16. Answered(log') /\ Led(log') /\ (~skewed' => Led(messages'))
    BY <1>2, <1>3, <1>6, <1>7
  <1>17. FallsBack'
    BY <1>1, <1>2, <1>13, FallsToCut
  <1>18. QED BY <1>6, <1>12, <1>13, <1>14, <1>15, <1>16, <1>17 DEF RoundsHold

(* A result is appended to the round that is short.                        *)
LEMMA ResultStep ==
  ASSUME ContextInv, RoundsHold, lost' = {}, NEW m \in MessagesUpTo(last + 1), m.id = last + 1,
         NEW i \in Short(messages), m.kind = "result", m.of = messages[i].id,
         AppendMessage(m), skewed' = skewed, pc \in Up \ {"reset"}, pc' \in Up \ {"reset"},
         ResultsAfter(messages, i) + 1 < messages[i].n => pc' \in {"round", "repair"},
         pc' = "round" => i = (Len(messages) + 1) - (batch' - open') /\ messages[i].n = batch'
  PROVE  RoundsHold'
  <1> DEFINE n == last + 1
             S == MessagesUpTo(n)
             r == ResultsAfter(messages, i)
             e == Len(log) - r
  <1>1. /\ n \in Nat /\ last \in Nat /\ messages \in Seq(S) /\ log \in Seq(S) /\ m \in S
        /\ ids \in Seq(0 .. last) /\ cut.first \in 0 .. last
        /\ Len(messages) \in Nat /\ Len(log) \in Nat
        /\ \A x \in DOMAIN messages : messages[x].id \in 0 .. last
        /\ \A x \in DOMAIN log : log[x].id \in 1 .. last
    <2>1. MessagesUpTo(last) \subseteq S /\ n \in Nat
      BY RoundsKnown, MessagesGrow
    <2>2. QED BY <2>1, RoundsKnown
  <1>2. /\ Answered(messages) /\ Answered(log) /\ Led(log) /\ (~skewed => Led(messages))
        /\ SameRecords /\ CutsAdvance /\ ShortIsLast /\ OneLeftOut /\ FallsBack
    BY DEF RoundsHold
  <1>3. /\ i \in DOMAIN messages /\ messages[i].kind = "calls" /\ r < messages[i].n
    BY DEF Short
  <1>4. ~torn
    <2>1. torn => messages = << >>
      BY <1>2 DEF SameRecords
    <2>2. QED BY <1>3, <2>1
  <1>5. /\ messages' = Append(messages, m) /\ ids' = Append(ids, n) /\ log' = Append(log, m)
        /\ torn' = FALSE /\ cut' = cut /\ under' = cut'
    BY WholeAppend DEF Up
  <1>6. /\ AtEnd(messages, i) /\ Len(messages) - i < Len(log)
        /\ \A k \in 0 .. Len(messages) - i : log[Len(log) - k] = messages[Len(messages) - k]
    BY <1>2 DEF ShortIsLast
  <1>7. i \in Nat /\ i >= 1 /\ r \in Nat /\ i + r = Len(messages) /\ Len(messages) - i = r
    <2>1. i \in Nat /\ i >= 1 /\ r \in Nat
      <3> HIDE DEF S
      <3>1. QED BY <1>1, <1>3, RunIs
    <2>2. i + r = Len(messages)
      BY <1>6 DEF AtEnd
    <2> HIDE DEF r
    <2>3. QED BY <2>1, <2>2
  <1> HIDE DEF r, S, n
  <1>8. /\ e \in Nat /\ e >= 1 /\ e + r = Len(log) /\ e \in DOMAIN log
    BY <1>1, <1>6, <1>7
  <1>0. /\ Len(messages) \in Nat /\ Len(log) \in Nat /\ i \in Nat /\ r \in Nat /\ e \in Nat
        /\ i >= 1 /\ e >= 1 /\ i + r = Len(messages) /\ e + r = Len(log) /\ Len(messages) - i = r
    BY <1>1, <1>7, <1>8
  <1>9. log[e] = messages[i] /\ \A j \in 1 .. r : log[e + j] = messages[i + j]
    <2>1. \A j \in 0 .. r : r - j \in 0 .. Len(messages) - i
                            /\ Len(log) - (r - j) = e + j /\ Len(messages) - (r - j) = i + j
      <3> HIDE DEF e
      <3>1. \A j \in 0 .. r : /\ r - j \in 0 .. r /\ Len(log) - (r - j) = e + j
                             /\ Len(messages) - (r - j) = i + j
        BY <1>0
      <3>2. 0 .. r = 0 .. Len(messages) - i
        BY <1>0
      <3>3. QED BY <3>1, <3>2
    <2>2. \A j \in 0 .. r : log[e + j] = messages[i + j]
      BY <1>6, <2>1
    <2>3. 0 \in 0 .. r /\ e + 0 = e /\ i + 0 = i /\ 1 .. r \subseteq 0 .. r
      BY <1>7, <1>8
    <2> HIDE DEF e
    <2>4. log[e + 0] = messages[i + 0]
      BY <2>2, <2>3
    <2>5. QED BY <2>2, <2>3, <2>4
  <1> HIDE DEF e
  <1>10. ResultsAfter(log, e) = r
    <2>1. e + ResultsAfter(messages, i) <= Len(log) /\ ~(e + ResultsAfter(messages, i) < Len(log))
      BY <1>1, <1>8 DEF r
    <2>2. \A j \in 1 .. ResultsAfter(messages, i) : log[e + j] = messages[i + j]
      BY <1>9 DEF r
    <2>3. messages \in Seq(S) /\ log \in Seq(S) /\ i \in DOMAIN messages /\ e \in DOMAIN log
      BY <1>1, <1>3, <1>8
    <2>4. ResultsAfter(log, e) = ResultsAfter(messages, i)
      BY <2>1, <2>2, <2>3, SameRun
    <2>5. QED BY <2>4 DEF r
  <1>11. e \in Short(log) /\ AtEnd(log, e)
    BY <1>3, <1>8, <1>9, <1>10 DEF Short, AtEnd
  <1>12. /\ Answered(messages') /\ (Led(messages) => Led(messages'))
         /\ Short(messages') = IF r + 1 < messages[i].n THEN Short(messages) ELSE Short(messages) \ {i}
         /\ AtEnd(messages', i)
         /\ \A k \in Short(messages) : AtEnd(messages, k) => k = i
    <2>1. messages \in Seq(MessagesUpTo(n)) /\ m \in MessagesUpTo(n) /\ n \in Nat
      BY <1>1 DEF S
    <2>2. QED BY <1>2, <1>5, <1>6, <2>1, ResultRounds DEF r
  <1>13. /\ Answered(log') /\ (Led(log) => Led(log'))
         /\ Short(log') = IF r + 1 < messages[i].n THEN Short(log) ELSE Short(log) \ {e}
         /\ AtEnd(log', e)
         /\ \A k \in Short(log) : AtEnd(log, k) => k = e
    <2>1. log \in Seq(MessagesUpTo(n)) /\ m \in MessagesUpTo(n) /\ n \in Nat /\ m.of = log[e].id
      BY <1>1, <1>9 DEF S
    <2>2. /\ Answered(Append(log, m)) /\ (Led(log) => Led(Append(log, m)))
          /\ Short(Append(log, m))
               = IF ResultsAfter(log, e) + 1 < log[e].n THEN Short(log) ELSE Short(log) \ {e}
          /\ AtEnd(Append(log, m), e)
          /\ \A k \in Short(log) : AtEnd(log, k) => k = e
      BY <1>2, <1>11, <2>1, ResultRounds
    <2>3. QED BY <1>5, <1>9, <1>10, <2>2
  <1>14. /\ Len(messages') = Len(messages) + 1 /\ messages'[Len(messages) + 1] = m
         /\ \A x \in DOMAIN messages : messages'[x] = messages[x]
         /\ DOMAIN messages' = DOMAIN messages \cup {Len(messages) + 1}
    BY <1>1, <1>5, AppendIs
  <1>15. /\ Len(log') = Len(log) + 1 /\ log'[Len(log) + 1] = m
         /\ \A x \in DOMAIN log : log'[x] = log[x]
         /\ DOMAIN log' = DOMAIN log \cup {Len(log) + 1}
    BY <1>1, <1>5, AppendIs
  <1>16. /\ \A x \in DOMAIN ids : ids'[x] = ids[x]
         /\ ids'[Len(ids) + 1] = n /\ DOMAIN ids' = DOMAIN ids \cup {Len(ids) + 1}
    <2>1. ids \in Seq(Nat) /\ n \in Nat
      BY <1>1
    <2>2. QED BY <1>5, <2>1, AppendIs
  <1>17. m.of < m.id
    BY <1>1, <1>3 DEF n
  <1>18. SameRecords'
    <2>1. ASSUME NEW x \in DOMAIN messages', messages'[x].kind = "result"
          PROVE  messages'[x].of < messages'[x].id
      BY <1>2, <1>14, <1>17, <2>1 DEF SameRecords
    <2>2. ASSUME NEW x \in DOMAIN log', log'[x].kind = "result"
          PROVE  log'[x].of < log'[x].id
      BY <1>2, <1>15, <1>17, <2>2 DEF SameRecords
    <2>3. ASSUME NEW x \in DOMAIN messages', NEW y \in DOMAIN log', messages'[x].id = log'[y].id
          PROVE  messages'[x] = log'[y]
      <3>1. /\ messages'[x] = m \/ (x \in DOMAIN messages /\ messages'[x] = messages[x])
            /\ log'[y] = m \/ (y \in DOMAIN log /\ log'[y] = log[y])
        BY <1>14, <1>15
      <3>2. /\ x \in DOMAIN messages => messages[x].id # m.id
            /\ y \in DOMAIN log => log[y].id # m.id
        BY <1>1 DEF n
      <3>3. QED BY <1>2, <2>3, <3>1, <3>2 DEF SameRecords
    <2>4. QED BY <1>5, <2>1, <2>2, <2>3 DEF SameRecords
  <1>19. CutsAdvance'
    <2>1. ASSUME NEW x \in DOMAIN ids', ids'[x] < cut' .first PROVE ids'[x] = 0
      <3>1. x \in DOMAIN ids
        BY <1>1, <1>5, <1>16, <2>1 DEF n
      <3>2. ids[x] < cut.first /\ ids'[x] = ids[x]
        BY <1>5, <1>16, <2>1, <3>1
      <3>3. QED BY <1>2, <3>1, <3>2 DEF CutsAdvance
    <2>2. ASSUME NEW y \in DOMAIN log', log'[y].id = cut' .first, ~skewed' PROVE log'[y].kind # "result"
      <3>1. y \in DOMAIN log /\ log'[y] = log[y]
        BY <1>1, <1>5, <1>15, <2>2 DEF n
      <3>2. QED BY <1>2, <1>5, <2>2, <3>1 DEF CutsAdvance
    <2>3. QED BY <2>1, <2>2 DEF CutsAdvance
  <1>20. \A k \in Short(messages) : k = i
    BY <1>2, <1>12 DEF ShortIsLast
  <1>21. ShortIsLast'
    <2>1. ASSUME NEW k \in Short(messages')
          PROVE  /\ pc' \in {"round", "repair"} /\ AtEnd(messages', k)
                 /\ Len(messages') - k < Len(log')
                 /\ \A x \in 0 .. Len(messages') - k :
                      log'[Len(log') - x] = messages'[Len(messages') - x]
      <3>1. r + 1 < messages[i].n /\ k = i
        BY <1>12, <1>20, <2>1
      <3>2. pc' \in {"round", "repair"}
        BY <3>1 DEF r
      <3>3. Len(messages') - k = r + 1 /\ Len(messages') - k < Len(log')
        <4>1. Len(messages') = Len(messages) + 1 /\ Len(log') = Len(log) + 1
          BY <1>14, <1>15
        <4>2. QED BY <1>0, <3>1, <4>1, SMTT(30)
      <3>4. ASSUME NEW x \in 0 .. Len(messages') - k
            PROVE  log'[Len(log') - x] = messages'[Len(messages') - x]
        <4>1. CASE x = 0
          <5>1. Len(log') - x = Len(log) + 1 /\ Len(messages') - x = Len(messages) + 1
            BY <1>1, <1>14, <1>15, <4>1
          <5>2. QED BY <1>14, <1>15, <5>1
        <4>2. CASE x # 0
          <5>1. PICK y \in 0 .. r : x = y + 1
            <6>1. x - 1 \in 0 .. r /\ x = (x - 1) + 1
              BY <1>7, <3>3, <4>2
            <6>2. QED BY <6>1
          <5>2. /\ Len(log') - x = Len(log) - y /\ Len(messages') - x = Len(messages) - y
                /\ Len(log) - y \in 1 .. Len(log) /\ Len(messages) - y \in 1 .. Len(messages)
            BY <1>1, <1>7, <1>8, <1>14, <1>15, <5>1
          <5>3. Len(log) - y \in DOMAIN log /\ Len(messages) - y \in DOMAIN messages
            BY <1>1, <5>2, SMTT(30)
          <5>4. log[Len(log) - y] = messages[Len(messages) - y]
            BY <1>6, <1>7
          <5>5. QED BY <1>14, <1>15, <5>2, <5>3, <5>4
        <4>3. QED BY <4>1, <4>2
      <3>5. QED BY <1>12, <3>1, <3>2, <3>3, <3>4
    <2>2. ASSUME pc' = "round" PROVE messages'[Len(messages') - (batch' - open')].n = batch'
      <3>1. i = (Len(messages) + 1) - (batch' - open') /\ messages[i].n = batch'
        BY <2>2
      <3>2. messages'[i] = messages[i] /\ Len(messages') = Len(messages) + 1
        BY <1>3, <1>14
      <3>3. Len(messages') - (batch' - open') = i
        BY <3>1, <3>2, Zenon
      <3>4. QED BY <3>1, <3>2, <3>3
    <2>3. QED BY <2>1, <2>2 DEF ShortIsLast
  <1>22. OneLeftOut'
    <2> SUFFICES ASSUME NEW j \in Short(log'), NEW k \in Short(log'), j < k, log'[j].id >= cut' .first
                 PROVE  AtEnd(log', k) /\ Short(messages') # {}
      BY DEF OneLeftOut
    <2>1. j \in Short(log) /\ k \in Short(log) /\ j \in DOMAIN log
      BY <1>13 DEF Short
    <2>2. log[j].id >= cut.first
      BY <1>5, <1>15, <2>1
    <2>3. AtEnd(log, k)
      BY <1>2, <2>1, <2>2 DEF OneLeftOut
    <2>4. k = e
      BY <1>13, <2>1, <2>3
    <2>5. r + 1 < messages[i].n
      BY <1>13, <2>4
    <2>6. QED BY <1>12, <1>13, <2>4, <2>5
  <1>23. FallsBack'
    BY <1>1, <1>5, <1>19, FallsToCut
  <1>24. QED BY <1>2, <1>12, <1>13, <1>18, <1>19, <1>21, <1>22, <1>23 DEF RoundsHold

(* A step that leaves the list and the log alone. *)
LEMMA QuietStep ==
  ASSUME RoundsHold, UNCHANGED <<messages, ids, log, cut, under, torn, skewed>>,
         pc \in Up \ {"reset"}, pc' \in Up, pc' # "round",
         Short(messages) = {}, torn => pc' \in {"idle", "repair"}
  PROVE  RoundsHold'
  <1>1. /\ Answered(messages) /\ Answered(log) /\ Led(log) /\ (~skewed => Led(messages))
        /\ SameRecords /\ CutsAdvance /\ ShortIsLast /\ OneLeftOut /\ FallsBack
    BY DEF RoundsHold
  <1>2. SameRecords'
    BY <1>1 DEF SameRecords
  <1>3. CutsAdvance'
    BY <1>1 DEF CutsAdvance
  <1>4. ShortIsLast'
    BY DEF ShortIsLast
  <1>5. OneLeftOut'
    BY <1>1 DEF OneLeftOut
  <1>6. FallsBack'
    BY <1>1 DEF FallsBack
  <1>7. QED BY <1>1, <1>2, <1>3, <1>4, <1>5, <1>6 DEF RoundsHold

LEMMA StutterRounds == ASSUME RoundsHold, UNCHANGED vars PROVE RoundsHold'
  <1> USE DEF vars, memVars, turnVars, fileVars, history
  <1>1. /\ Answered(messages) /\ Answered(log) /\ Led(log) /\ (~skewed => Led(messages))
        /\ SameRecords /\ CutsAdvance /\ ShortIsLast /\ OneLeftOut /\ FallsBack
    BY DEF RoundsHold
  <1>2. SameRecords'
    BY <1>1 DEF SameRecords
  <1>3. CutsAdvance'
    BY <1>1 DEF CutsAdvance
  <1>4. ShortIsLast'
    BY <1>1 DEF ShortIsLast
  <1>5. OneLeftOut'
    BY <1>1 DEF OneLeftOut
  <1>6. FallsBack'
    BY <1>1 DEF FallsBack
  <1>7. QED BY <1>1, <1>2, <1>3, <1>4, <1>5, <1>6 DEF RoundsHold

LEMMA NoRounds == Answered(<< >>) /\ Led(<< >>) /\ Short(<< >>) = {}
  BY DEF Answered, Led, Short

LEMMA InitRounds == Init => RoundsHold
  <1> SUFFICES ASSUME Init PROVE RoundsHold
    OBVIOUS
  <1>1. messages = << >> /\ log = << >> /\ ids = << >> /\ pc = "idle" /\ under = cut /\ cut.first = 0
    BY DEF Init, NoCut, CutLine
  <1>2. SameRecords
    BY <1>1 DEF SameRecords
  <1>3. CutsAdvance
    BY <1>1 DEF CutsAdvance
  <1>4. ShortIsLast /\ OneLeftOut
    BY <1>1, NoRounds DEF ShortIsLast, OneLeftOut
  <1>5. FallsBack
    BY <1>1 DEF FallsBack
  <1>6. QED BY <1>1, <1>2, <1>3, <1>4, <1>5, NoRounds DEF RoundsHold

LEMMA CrashRounds == ASSUME ContextInv, RoundsHold, Crash PROVE RoundsHold'
  <1>1. StoreOK /\ pc \in Up /\ pc # "down" /\ pc' = "down" /\ pc' \notin Up
    BY Parts DEF Crash, Up
  <1>2. /\ messages' = << >> /\ ids' = << >> /\ UNCHANGED <<log, skewed>>
        /\ \/ UNCHANGED <<cut, under>>
           \/ cut' = CutUnder /\ under' = cut'
    BY <1>1, UpIs DEF Crash
  <1>3. /\ Answered(log) /\ Led(log) /\ SameRecords /\ CutsAdvance /\ OneLeftOut /\ FallsBack
    BY DEF RoundsHold
  <1>4. log = << >> \/ cut' = cut
    BY <1>1, <1>2, RoundsKnown DEF CutUnder
  <1>5. log = << >> => DOMAIN log = {} /\ Short(log) = {}
    BY NoRounds
  <1>6. SameRecords'
    BY <1>1, <1>2, <1>3 DEF SameRecords
  <1>7. CutsAdvance'
    BY <1>2, <1>3, <1>4, <1>5 DEF CutsAdvance
  <1>8. ShortIsLast'
    BY <1>1, <1>2, NoRounds DEF ShortIsLast
  <1>9. OneLeftOut'
    BY <1>1, <1>2, <1>3, <1>4, <1>5 DEF OneLeftOut
  <1>10. FallsBack'
    <2>1. CASE UNCHANGED <<cut, under>>
      BY <1>2, <1>3, <2>1 DEF FallsBack
    <2>2. CASE cut' = CutUnder /\ under' = cut'
      <3>1. cut' .first \in Nat
        BY <2>2, RoundsKnown DEF CutUnder
      <3>2. QED BY <1>7, <2>2, <3>1, FallsToCut
    <2>3. QED BY <1>2, <2>1, <2>2
  <1>11. QED BY <1>2, <1>3, <1>6, <1>7, <1>8, <1>9, <1>10, NoRounds DEF RoundsHold

LEMMA CommitRounds == ASSUME ContextInv, RoundsHold, CommitCut PROVE RoundsHold'
  <1>1. /\ StoreOK /\ ControlOK
    BY Parts
  <1>2. /\ pc = "commit" /\ pc' = "reset" /\ plan' = plan /\ UNCHANGED <<messages, ids, log>>
        /\ torn' = FALSE /\ under' = CutUnder
        /\ cut' = CutUnder \/ cut' = CutLine(DurableMessageId(plan), Archived)
        /\ skewed' = (skewed \/ DurableMessageId(plan) # messages[plan].id)
    <2>1. pc # "down"
      BY DEF CommitCut
    <2>2. log' = log
      BY <1>1, <2>1, UpIs DEF CommitCut
    <2>3. cut' = CutUnder \/ cut' = CutLine(DurableMessageId(plan), Archived)
      BY DEF CommitCut
    <2>4. QED BY <2>2, <2>3 DEF CommitCut, memVars, turnVars
  <1>3. plan \in 2 .. Len(messages) /\ messages[plan].kind # "result"
    BY <1>1, <1>2 DEF ControlOK, CutPlanned
  <1>4. /\ DurableMessageId(plan) = ids[plan] /\ ids[plan] \in 1 .. last
        /\ last \in Nat /\ messages \in Seq(MessagesUpTo(last)) /\ log \in Seq(MessagesUpTo(last))
        /\ ids \in Seq(0 .. last) /\ cut.first \in 0 .. last
        /\ Len(ids) >= Len(messages) /\ \A i, j \in DOMAIN ids : i < j => ids[i] < ids[j]
        /\ \A j \in DOMAIN log : log[j].id \in 1 .. last
    BY <1>1, <1>3, DurableIs, RoundsKnown DEF StoreOK, MemoryInOrder
  <1>5. /\ Answered(messages) /\ Answered(log) /\ Led(log) /\ (~skewed => Led(messages))
        /\ SameRecords /\ CutsAdvance /\ ShortIsLast /\ OneLeftOut /\ FallsBack
    BY DEF RoundsHold
  <1>6. ~torn /\ Short(messages) = {}
    BY <1>2, <1>5 DEF SameRecords, ShortIsLast, Up
  <1>7. under' = cut /\ (cut' = cut \/ cut' .first = ids[plan])
    BY <1>2, <1>4, <1>6 DEF CutUnder, CutLine
  <1>8. plan \in DOMAIN ids /\ plan \in DOMAIN messages /\ plan \in Nat
    BY <1>3, <1>4
  <1>9. cut.first <= ids[plan]
    <2>1. ~(ids[plan] < cut.first)
      BY <1>2, <1>4, <1>5, <1>8 DEF CutsAdvance
    <2>2. QED BY <1>4, <2>1
  <1>14. ~skewed' => ~skewed
    BY <1>2, Zenon
  <1>10. SameRecords'
    BY <1>2, <1>5 DEF SameRecords
  <1>11. CutsAdvance'
    <2>1. ASSUME NEW i \in DOMAIN ids, ids[i] < ids[plan] PROVE i < plan
      <3>1. i \in Nat /\ ids[i] \in Nat /\ ids[plan] \in Nat
        BY <1>4, <1>8
      <3>2. ~(plan < i)
        BY <1>4, <1>8, <2>1, <3>1
      <3>3. plan # i
        BY <2>1, <3>1
      <3>4. QED BY <1>8, <3>1, <3>2, <3>3
    <2>2. ASSUME NEW j \in DOMAIN log, log[j].id = ids[plan], ~skewed' PROVE log[j].kind # "result"
      <3>1. messages[plan].id = log[j].id
        BY <1>2, <1>4, <2>2
      <3>2. messages[plan] = log[j]
        BY <1>5, <1>8, <3>1 DEF SameRecords
      <3>3. QED BY <1>3, <3>2
    <2>3. CASE cut' = cut
      BY <1>2, <1>5, <1>14, <2>3 DEF CutsAdvance
    <2>4. CASE cut' .first = ids[plan]
      BY <1>2, <2>1, <2>2, <2>4 DEF CutsAdvance
    <2>5. QED BY <1>7, <2>3, <2>4
  <1>12. ShortIsLast'
    BY <1>2, <1>6 DEF ShortIsLast
  <1>13. OneLeftOut'
    <2> SUFFICES ASSUME NEW j \in Short(log), NEW k \in Short(log), j < k, log[j].id >= cut' .first PROVE FALSE
      BY <1>2 DEF OneLeftOut
    <2>1. log[j].id \in 1 .. last
      BY <1>4 DEF Short
    <2>2. log[j].id >= cut.first
      BY <1>4, <1>7, <1>9, <2>1
    <2>3. QED BY <1>2, <1>5, <1>6, <2>2 DEF OneLeftOut, Up
  <1>15. FallsBack'
    <2>1. CASE cut' = cut
      BY <1>4, <1>7, <1>11, <2>1, FallsToCut
    <2>2. CASE cut' .first = ids[plan]
      <3>1. \A j \in DOMAIN log : log[j].id = cut.first /\ ~skewed' => log[j].kind # "result"
        BY <1>5, <1>14 DEF CutsAdvance
      <3>2. ASSUME NEW j \in Short(log), NEW k \in Short(log), j < k PROVE log[j].id < cut.first
        <4>1. log[j].id \in 1 .. last
          BY <1>4 DEF Short
        <4>2. ~(log[j].id >= cut.first)
          BY <1>2, <1>5, <1>6, <3>2 DEF OneLeftOut, Up
        <4>3. QED BY <1>4, <4>1, <4>2
      <3>3. QED BY <1>2, <1>7, <1>9, <2>2, <3>1, <3>2 DEF FallsBack
    <2>3. QED BY <1>7, <2>1, <2>2
  <1>16. QED BY <1>2, <1>5, <1>10, <1>11, <1>12, <1>13, <1>14, <1>15 DEF RoundsHold

LEMMA FollowRounds == ASSUME ContextInv, RoundsHold, FollowCut PROVE RoundsHold'
  <1>1. /\ StoreOK /\ ControlOK
    BY Parts
  <1>2. /\ pc = "reset" /\ pc' = "after" /\ UNCHANGED <<log, cut, under, torn, skewed>>
        /\ messages' = Compacted
    BY DEF FollowCut, fileVars, history
  <1>3. plan \in 2 .. Len(messages) /\ messages[plan].kind # "result"
    BY <1>1, <1>2 DEF ControlOK, CutPlanned
  <1>4. /\ last \in Nat /\ messages \in Seq(MessagesUpTo(last)) /\ ids \in Seq(0 .. last)
        /\ \A i \in DOMAIN log : log[i].id \in 1 .. last
        /\ plan \in 1 .. Len(messages) /\ Len(messages) \in Nat
    BY <1>3, RoundsKnown
  <1>5. /\ Answered(messages) /\ Answered(log) /\ Led(log) /\ (~skewed => Led(messages))
        /\ SameRecords /\ CutsAdvance /\ ShortIsLast /\ OneLeftOut /\ FallsBack
    BY DEF RoundsHold
  <1>6. Short(messages) = {} /\ ~torn
    BY <1>2, <1>5 DEF ShortIsLast, SameRecords, Up
  <1>7. messages' = From(messages, plan)
    BY <1>2 DEF Compacted, From
  <1>8. /\ Answered(messages') /\ (~skewed => Led(messages')) /\ Short(messages') = {}
    <2>1. /\ Answered(From(messages, plan))
          /\ Led(messages) /\ messages[plan].kind # "result" => Led(From(messages, plan))
          /\ \A k \in Short(From(messages, plan)) : plan + k - 2 \in Short(messages)
      BY <1>4, <1>5, FromRounds
    <2>2. QED BY <1>3, <1>5, <1>6, <1>7, <2>1
  <1>9. /\ Len(messages') = Len(messages) - plan + 2
        /\ messages'[1] = Summary /\ messages' \in Seq(MessagesUpTo(last))
        /\ \A i \in 2 .. Len(messages) - plan + 2 : messages'[i] = messages[plan + i - 2]
    BY <1>4, <1>7, FromIs
  <1>10. \A i \in DOMAIN messages' : i = 1 \/ \E j \in DOMAIN messages : messages'[i] = messages[j]
    <2> SUFFICES ASSUME NEW i \in DOMAIN messages', i # 1
                 PROVE  \E j \in DOMAIN messages : messages'[i] = messages[j]
      OBVIOUS
    <2>1. i \in 2 .. Len(messages) - plan + 2
      BY <1>9
    <2>2. plan + i - 2 \in DOMAIN messages
      BY <1>3, <1>4, <2>1
    <2>3. QED BY <1>9, <2>1, <2>2
  <1>11. SameRecords'
    <2>1. Summary.kind # "result" /\ Summary.id = 0
      BY <1>4, SummaryIs
    <2>2. ASSUME NEW i \in DOMAIN messages', messages'[i].kind = "result"
          PROVE  messages'[i].of < messages'[i].id
      BY <1>5, <1>9, <1>10, <2>1, <2>2 DEF SameRecords
    <2>3. ASSUME NEW i \in DOMAIN messages', NEW j \in DOMAIN log, messages'[i].id = log[j].id
          PROVE  messages'[i] = log[j]
      <3>1. i # 1
        BY <1>4, <1>9, <2>1, <2>3
      <3>2. QED BY <1>5, <1>10, <2>3, <3>1 DEF SameRecords
    <2>4. QED BY <1>2, <1>5, <1>6, <2>2, <2>3 DEF SameRecords
  <1>12. CutsAdvance'
    <2>1. /\ ids' \in Seq(0 .. last) /\ Len(ids') = Len(ids) - plan + 2 /\ ids'[1] = 0
          /\ \A i \in 2 .. Len(ids) - plan + 2 : ids'[i] = ids[plan + i - 2]
      BY <1>1, <1>3, FollowedIds
    <2>2. ASSUME NEW i \in DOMAIN ids', ids'[i] < cut.first PROVE ids'[i] = 0
      <3>1. CASE i = 1
        BY <2>1, <3>1
      <3>2. CASE i # 1
        <4>1. i \in 2 .. Len(ids) - plan + 2 /\ Len(ids) \in Nat
          BY <1>4, <2>1, <3>2, SMTT(30)
        <4>2. plan + i - 2 \in DOMAIN ids /\ ~(plan + i - 2 < plan)
          BY <1>4, <4>1
        <4>3. QED BY <1>5, <2>1, <2>2, <4>1, <4>2 DEF CutsAdvance
      <3>3. QED BY <3>1, <3>2
    <2>3. QED BY <1>2, <1>5, <2>2 DEF CutsAdvance
  <1>13. ShortIsLast'
    BY <1>2, <1>8 DEF ShortIsLast
  <1>14. OneLeftOut'
    BY <1>2, <1>5, <1>6 DEF OneLeftOut, Up
  <1>15. FallsBack'
    BY <1>2, <1>5 DEF FallsBack
  <1>16. QED BY <1>2, <1>5, <1>8, <1>11, <1>12, <1>13, <1>14, <1>15 DEF RoundsHold

(* What load reads: the end of the log, and where each message of it is.   *)
LEMMA LoadRounds ==
  ASSUME ContextInv, RoundsHold, lost = {}, NEW l, l = Load.messages
  PROVE  /\ l \in Seq(MessagesUpTo(last)) /\ Answered(l) /\ (~skewed => Led(l))
         /\ \A i \in DOMAIN l : l[i] = Summary \/ \E j \in DOMAIN log : l[i] = log[j]
         /\ \A i \in DOMAIN l : l[i].id < cut.first => l[i].id = 0
         /\ \E o \in Int :
              /\ Len(log) = Len(l) + o
              /\ \A i \in Short(l) :
                   /\ i + o \in Short(log) /\ log[i + o].id >= cut.first
                   /\ AtEnd(log, i + o) => AtEnd(l, i)
                   /\ \A x \in i .. Len(l) : log[x + o] = l[x]
              /\ \A j \in Short(log) : log[j].id >= cut.first => j - o \in Short(l)
  <1>1. /\ last \in Nat /\ log \in Seq(MessagesUpTo(last)) /\ Rising(log) /\ cut.first \in 0 .. last
        /\ Len(log) \in Nat
        /\ \A i \in DOMAIN log : log[i].id \in 1 .. last
    BY RoundsKnown
  <1>2. /\ Answered(log) /\ Led(log) /\ CutsAdvance
    BY DEF RoundsHold
  <1>3. Load = Read(log, cut)
    BY LoadIsRead
  <1>4. CASE \A i \in DOMAIN log : log[i].id # cut.first
    <2>1. l = log
      BY <1>1, <1>3, <1>4, ReadIs
    <2>2. ASSUME NEW i \in DOMAIN log PROVE log[i].id >= cut.first
      <3>1. cut.first = 0
        <4>1. cut.first \notin IdsOf(log) /\ 1 .. last \subseteq lost \cup IdsOf(log)
          BY <1>4, Parts DEF IdsOf, StoreOK, LogInOrder
        <4>2. QED BY <1>1, <4>1
      <3>2. QED BY <1>1, <3>1
    <2>3. \A i \in DOMAIN log : ~(log[i].id < cut.first)
      BY <1>1, <2>2
    <2>4. /\ \A i \in Short(log) : i \in Nat /\ i + 0 = i /\ i - 0 = i /\ i \in DOMAIN log
          /\ \A i \in Short(log) : \A x \in i .. Len(log) : x + 0 = x
          /\ 0 \in Int /\ Len(log) = Len(log) + 0
      BY <1>1 DEF Short
    <2>5. QED BY <1>1, <1>2, <2>1, <2>2, <2>3, <2>4
  <1>5. ASSUME NEW a \in DOMAIN log, log[a].id = cut.first
        PROVE  /\ l \in Seq(MessagesUpTo(last)) /\ Answered(l) /\ (~skewed => Led(l))
               /\ \A i \in DOMAIN l : l[i] = Summary \/ \E j \in DOMAIN log : l[i] = log[j]
               /\ \A i \in DOMAIN l : l[i].id < cut.first => l[i].id = 0
               /\ Len(log) = Len(l) + (a - 2)
               /\ \A i \in Short(l) :
                    /\ i + (a - 2) \in Short(log) /\ log[i + (a - 2)].id >= cut.first
                    /\ AtEnd(log, i + (a - 2)) => AtEnd(l, i)
                    /\ \A x \in i .. Len(l) : log[x + (a - 2)] = l[x]
               /\ \A j \in Short(log) : log[j].id >= cut.first => j - (a - 2) \in Short(l)
    <2>1. l = From(log, a)
      BY <1>1, <1>3, <1>5, ReadIs
    <2>2. /\ l \in Seq(MessagesUpTo(last)) /\ Len(l) = Len(log) - a + 2 /\ l[1] = Summary
          /\ \A i \in 2 .. Len(log) - a + 2 : l[i] = log[a + i - 2]
      <3>1. a \in 1 .. Len(log) /\ last \in Nat /\ log \in Seq(MessagesUpTo(last))
        BY <1>1
      <3>2. QED BY <2>1, <3>1, FromIs
    <2>3. /\ Answered(l)
          /\ Led(log) /\ log[a].kind # "result" => Led(l)
          /\ \A k \in Short(l) : k \in 2 .. Len(log) - a + 2 /\ a + k - 2 \in Short(log)
          /\ \A k \in 2 .. Len(log) - a + 2 :
               /\ a + k - 2 \in Short(log) => k \in Short(l)
               /\ AtEnd(log, a + k - 2) => AtEnd(l, k)
      BY <1>1, <1>2, <2>1, FromRounds
    <2>4. ~skewed => log[a].kind # "result"
      BY <1>2, <1>5 DEF CutsAdvance
    <2>5. /\ a \in Nat /\ a >= 1 /\ a <= Len(log) /\ DOMAIN log = 1 .. Len(log)
          /\ DOMAIN l = 1 .. Len(log) - a + 2
      BY <1>1, <2>2
    <2>6. \A i \in 2 .. Len(log) - a + 2 :
            /\ a + i - 2 \in DOMAIN log /\ a <= a + i - 2 /\ i + (a - 2) = a + i - 2
      BY <1>1, <2>5
    <2>7. \A i \in 2 .. Len(log) - a + 2 : log[a].id <= log[a + i - 2].id
      BY <1>1, <2>6, RisingOnce
    <2>8. \A i \in DOMAIN l : i = 1 \/ i \in 2 .. Len(log) - a + 2
      BY <2>5
    <2>9. \A i \in DOMAIN l : l[i] = Summary \/ \E j \in DOMAIN log : l[i] = log[j]
      BY <2>2, <2>6, <2>8
    <2>10. ASSUME NEW i \in DOMAIN l, l[i].id < cut.first PROVE l[i].id = 0
      <3>1. CASE i = 1
        BY <1>1, <2>2, <3>1, SummaryIs
      <3>2. CASE i \in 2 .. Len(log) - a + 2
        <4>1. l[i] = log[a + i - 2] /\ log[a].id <= log[a + i - 2].id /\ a + i - 2 \in DOMAIN log
          BY <2>2, <2>6, <2>7, <3>2
        <4>2. log[a + i - 2].id \in 1 .. last
          BY <1>1, <4>1
        <4>3. QED BY <1>1, <1>5, <2>10, <4>1, <4>2
      <3>3. QED BY <2>8, <3>1, <3>2
    <2>11. Len(log) = Len(l) + (a - 2)
      BY <1>1, <2>2, <2>5
    <2>12. ASSUME NEW i \in Short(l)
           PROVE  /\ i + (a - 2) \in Short(log) /\ log[i + (a - 2)].id >= cut.first
                  /\ AtEnd(log, i + (a - 2)) => AtEnd(l, i)
                  /\ \A x \in i .. Len(l) : log[x + (a - 2)] = l[x]
      <3>1. i \in 2 .. Len(log) - a + 2 /\ a + i - 2 \in Short(log)
        BY <2>3
      <3>2. i + (a - 2) = a + i - 2 /\ a + i - 2 \in DOMAIN log
        BY <2>6, <3>1
      <3>3. log[a + i - 2].id >= cut.first
        <4>1. log[a + i - 2].id \in 1 .. last
          BY <1>1, <3>2
        <4>2. log[a].id <= log[a + i - 2].id
          BY <2>7, <3>1
        <4>3. QED BY <1>1, <1>5, <4>1, <4>2
      <3>4. \A x \in i .. Len(l) : x \in 2 .. Len(log) - a + 2
        BY <1>1, <2>2, <2>5, <3>1
      <3>5. \A x \in i .. Len(l) : log[x + (a - 2)] = l[x]
        BY <2>2, <2>6, <3>4
      <3>6. QED BY <2>3, <3>1, <3>2, <3>3, <3>5
    <2>13. ASSUME NEW j \in Short(log), log[j].id >= cut.first PROVE j - (a - 2) \in Short(l)
      <3>1. j \in DOMAIN log /\ log[j].id \in 1 .. last
        BY <1>1 DEF Short
      <3>2. a <= j
        <4>1. log[a].id <= log[j].id
          BY <1>1, <1>5, <2>13, <3>1
        <4>2. QED BY <1>1, <3>1, <4>1, RisingOnce
      <3>3. j - (a - 2) \in 2 .. Len(log) - a + 2 /\ a + (j - (a - 2)) - 2 = j
        BY <1>1, <2>5, <3>1, <3>2
      <3>4. QED BY <2>3, <3>3
    <2>14. QED BY <1>2, <2>2, <2>3, <2>4, <2>9, <2>10, <2>11, <2>12, <2>13
  <1>6. ASSUME NEW a \in DOMAIN log, log[a].id = cut.first
        PROVE  \E o \in Int :
                 /\ Len(log) = Len(l) + o
                 /\ \A i \in Short(l) :
                      /\ i + o \in Short(log) /\ log[i + o].id >= cut.first
                      /\ AtEnd(log, i + o) => AtEnd(l, i)
                      /\ \A x \in i .. Len(l) : log[x + o] = l[x]
                 /\ \A j \in Short(log) : log[j].id >= cut.first => j - o \in Short(l)
    <2>1. a - 2 \in Int
      BY <1>1
    <2>2. WITNESS a - 2 \in Int
    <2>3. QED BY <1>5, <1>6
  <1>7. QED BY <1>4, <1>5, <1>6

(* The list a restart begins with: only the last round can be short, and   *)
(* is so if the log has two short rounds behind the cut.                   *)
LEMMA RestartShort ==
  ASSUME ContextInv, RoundsHold, lost = {}, NEW l, l = Load.messages, NEW d, d = DropIncompleteRound(l)
  PROVE  /\ Answered(d) /\ (~skewed => Led(d))
         /\ \A x \in DOMAIN d : \E y \in DOMAIN l : d[x] = l[y]
         /\ \A k \in Short(d) :
              /\ AtEnd(d, k) /\ Len(d) - k < Len(log)
              /\ \A x \in 0 .. Len(d) - k : log[Len(log) - x] = d[Len(d) - x]
         /\ \A j, k \in Short(log) :
              j < k /\ log[j].id >= cut.first => AtEnd(log, k) /\ Short(d) # {}
  <1>1. /\ last \in Nat /\ log \in Seq(MessagesUpTo(last)) /\ Len(log) \in Nat
    BY RoundsKnown
  <1>2. l \in Seq(MessagesUpTo(last)) /\ Answered(l) /\ (~skewed => Led(l))
    BY LoadRounds
  <1>3. PICK o \in Int :
          /\ Len(log) = Len(l) + o
          /\ \A i \in Short(l) :
               /\ i + o \in Short(log) /\ log[i + o].id >= cut.first
               /\ AtEnd(log, i + o) => AtEnd(l, i)
               /\ \A x \in i .. Len(l) : log[x + o] = l[x]
          /\ \A j \in Short(log) : log[j].id >= cut.first => j - o \in Short(l)
    BY LoadRounds
  <1>4. \A j, k \in Short(log) : j < k /\ log[j].id >= cut.first => AtEnd(log, k)
    BY DEF RoundsHold, OneLeftOut
  <1>5. \A j, k \in Short(log) : j < k /\ log[j].id >= cut.first => log[k].id >= cut.first
    <2> SUFFICES ASSUME NEW j \in Short(log), NEW k \in Short(log), j < k, log[j].id >= cut.first
                 PROVE  log[k].id >= cut.first
      OBVIOUS
    <2>1. j \in DOMAIN log /\ k \in DOMAIN log
      BY DEF Short
    <2>2. log[j].id < log[k].id /\ log[j].id \in 1 .. last /\ log[k].id \in 1 .. last /\ cut.first \in 0 .. last
      BY <2>1, RoundsKnown DEF Rising
    <2>3. QED BY <1>1, <2>2
  <1>6. CASE AllComplete(l)
    <2>1. d = l
      BY <1>6, DropsNone
    <2>2. Short(l) = {}
      <3> SUFFICES ASSUME NEW i \in Short(l) PROVE FALSE
        OBVIOUS
      <3>1. i \in DOMAIN l /\ l[i].kind = "calls"
        BY DEF Short
      <3>2. Complete(l, i)
        BY <1>6, <3>1 DEF AllComplete
      <3>3. QED BY <1>1, <1>2, <3>1, <3>2, CompleteIs
    <2>3. \A j, k \in Short(log) : ~(j < k /\ log[j].id >= cut.first)
      BY <1>3, <2>2
    <2>4. QED BY <1>2, <2>1, <2>2, <2>3
  <1>7. CASE ~AllComplete(l)
    <2>1. PICK i \in DOMAIN l, r \in Nat \ {0} : LeavesOut(MessagesUpTo(last), l, i, r, d)
      <3> DEFINE S == MessagesUpTo(last)
      <3>1. l \in Seq(S)
        BY <1>2
      <3> HIDE DEF S
      <3>2. \E i \in DOMAIN l, r \in Nat \ {0} : LeavesOut(S, l, i, r, DropIncompleteRound(l))
        BY <1>7, <3>1, DropIs, Zenon
      <3>3. QED BY <3>2, Zenon DEF S
    <2>2. /\ i \in Short(l) /\ \A k \in Short(l) : i <= k
          /\ Answered(d)
          /\ Led(l) => Led(d)
          /\ \A k \in Short(d) :
               /\ k \in i .. Len(d) /\ k + r \in Short(l)
               /\ AtEnd(l, k + r) => AtEnd(d, k)
          /\ \A k \in Short(l) : k > i => k - r \in Short(d)
      BY <1>1, <1>2, <2>1, DropRounds
    <2>3. /\ Len(d) = Len(l) - r /\ d \in Seq(MessagesUpTo(last))
          /\ \A k \in 1 .. Len(l) - r : d[k] = l[IF k < i THEN k ELSE k + r]
      BY <2>1 DEF LeavesOut
    <2>4. /\ i \in Nat /\ i >= 1 /\ r \in Nat /\ r >= 1 /\ Len(l) \in Nat /\ Len(d) \in Nat /\ Len(log) \in Nat
          /\ o \in Int /\ Len(d) = Len(l) - r /\ Len(log) = Len(l) + o
      BY <1>1, <1>2, <1>3, <2>3
    <2>5. ASSUME NEW x \in DOMAIN d PROVE \E y \in DOMAIN l : d[x] = l[y]
      <3>1. x \in 1 .. Len(l) - r
        BY <2>3
      <3>2. (IF x < i THEN x ELSE x + r) \in 1 .. Len(l)
        BY <2>4, <3>1
      <3>3. QED BY <2>3, <2>4, <3>1, <3>2, SMTT(30)
    <2>6. ASSUME NEW k \in Short(d)
          PROVE  /\ AtEnd(d, k) /\ Len(d) - k < Len(log)
                 /\ \A x \in 0 .. Len(d) - k : log[Len(log) - x] = d[Len(d) - x]
      <3>1. k \in i .. Len(d) /\ k + r \in Short(l)
        BY <2>2
      <3>2. i + o \in Short(log) /\ (k + r) + o \in Short(log) /\ log[i + o].id >= cut.first
        BY <1>3, <2>2, <3>1
      <3>3. i + o < (k + r) + o
        BY <2>4, <3>1
      <3>4. AtEnd(log, (k + r) + o)
        BY <1>4, <3>2, <3>3
      <3>5. AtEnd(d, k)
        BY <1>3, <2>2, <3>1, <3>4
      <3>6. (k + r) + o \in 1 .. Len(log)
        BY <1>1, <3>2 DEF Short
      <3>7. Len(d) - k < Len(log)
        BY <2>4, <3>1, <3>6
      <3>8. ASSUME NEW x \in 0 .. Len(d) - k PROVE log[Len(log) - x] = d[Len(d) - x]
        <4>1. PICK y \in k .. Len(d) : y = Len(d) - x
          <5>1. Len(d) - x \in k .. Len(d)
            BY <2>4, <3>1, SMTT(30)
          <5>2. QED BY <5>1
        <4>2. y \in 1 .. Len(l) - r /\ ~(y < i) /\ y + r \in (k + r) .. Len(l) /\ (y + r) + o = Len(log) - x
          <5>1. /\ y \in Nat /\ k \in Nat /\ x \in Nat /\ i <= k /\ k <= y /\ y <= Len(d)
                /\ x = Len(d) - y
            BY <2>4, <3>1, <4>1, SMTT(30)
          <5>2. y \in 1 .. Len(l) - r /\ ~(y < i)
            BY <2>4, <5>1
          <5>3. y + r \in (k + r) .. Len(l)
            BY <2>4, <5>1
          <5>4. (y + r) + o = Len(log) - x
            <6>1. Len(log) = (Len(d) + r) + o
              BY <2>4
            <6>2. x = Len(d) - y /\ x \in Int /\ y \in Int /\ Len(d) \in Int /\ r \in Int
              BY <2>4, <5>1
            <6>3. QED BY <6>1, <6>2, SMTT(30)
          <5>5. QED BY <5>2, <5>3, <5>4
        <4>3. d[y] = l[y + r]
          BY <2>3, <4>2
        <4>4. log[(y + r) + o] = l[y + r]
          BY <1>3, <3>1, <4>2
        <4>5. QED BY <4>1, <4>2, <4>3, <4>4
      <3>9. QED BY <3>5, <3>7, <3>8
    <2>7. ASSUME NEW j \in Short(log), NEW k \in Short(log), j < k, log[j].id >= cut.first
          PROVE  AtEnd(log, k) /\ Short(d) # {}
      <3>1. AtEnd(log, k) /\ log[k].id >= cut.first
        BY <1>4, <1>5, <2>7
      <3>2. j - o \in Short(l) /\ k - o \in Short(l)
        BY <1>3, <2>7, <3>1
      <3>3. j \in Nat /\ k \in Nat
        BY <1>1 DEF Short
      <3>4. i <= j - o /\ j - o < k - o
        BY <2>2, <2>4, <2>7, <3>2, <3>3
      <3>5. k - o > i
        BY <2>4, <3>3, <3>4
      <3>6. QED BY <2>2, <3>1, <3>2, <3>5
    <2>8. QED BY <1>2, <2>2, <2>5, <2>6, <2>7
  <1>8. QED BY <1>6, <1>7

LEMMA RestartRounds == ASSUME ContextInv, RoundsHold, lost' = {}, Restart PROVE RoundsHold'
  <1> DEFINE l == Load.messages
             d == DropIncompleteRound(l)
  <1>0. StoreOK /\ Recovered
    BY Parts DEF Restart
  <1>1. /\ messages' = d /\ ids' = [i \in DOMAIN l |-> l[i].id] /\ (torn' => log = << >>)
        /\ pc' = "repair" /\ UNCHANGED <<log, skewed>> /\ lost = {}
        /\ UNCHANGED <<cut, under>> \/ (cut' = under' /\ under' \in {cut, under})
    <2>1. /\ lost' = lost \cup (IdsOf(log) \ IdsOf(log')) /\ (torn' => log' = << >>)
          /\ log' = log \/ log' = LogUnder
          /\ UNCHANGED <<cut, under>> \/ (cut' = under' /\ under' \in {cut, under})
      BY <1>0, RecoveredIs
    <2>2. lost = {} /\ IdsOf(log) \subseteq IdsOf(log')
      BY <2>1
    <2>3. LogUnder = log \/ \E x : x \notin IdsOf(LogUnder) /\ IdsOf(log) = IdsOf(LogUnder) \cup {x}
      BY <1>0, UnderIs
    <2>4. log' = log
      BY <2>1, <2>2, <2>3
    <2>5. QED BY <2>1, <2>2, <2>4 DEF Restart
  <1>2. /\ Answered(d) /\ (~skewed => Led(d))
        /\ \A x \in DOMAIN d : \E y \in DOMAIN l : d[x] = l[y]
        /\ \A k \in Short(d) :
             /\ AtEnd(d, k) /\ Len(d) - k < Len(log)
             /\ \A x \in 0 .. Len(d) - k : log[Len(log) - x] = d[Len(d) - x]
        /\ \A j, k \in Short(log) :
             j < k /\ log[j].id >= cut.first => AtEnd(log, k) /\ Short(d) # {}
    <2> HIDE DEF l
    <2>1. l = Load.messages
      BY DEF l
    <2> HIDE DEF d
    <2>2. d = DropIncompleteRound(l)
      BY DEF d
    <2>3. QED BY <1>1, <2>1, <2>2, RestartShort
  <1>3. /\ \A i \in DOMAIN l : l[i] = Summary \/ \E j \in DOMAIN log : l[i] = log[j]
        /\ \A i \in DOMAIN l : l[i].id < cut.first => l[i].id = 0
        /\ \A i \in DOMAIN l : l[i].id \in 0 .. last
    <2> HIDE DEF l
    <2>1. l = Load.messages
      BY DEF l
    <2>2. /\ l \in Seq(MessagesUpTo(last)) /\ last \in Nat
          /\ \A i \in DOMAIN l : l[i] = Summary \/ \E j \in DOMAIN log : l[i] = log[j]
          /\ \A i \in DOMAIN l : l[i].id < cut.first => l[i].id = 0
      BY <1>1, <2>1, LoadRounds, RoundsKnown
    <2>3. \A i \in DOMAIN l : l[i].id \in 0 .. last
      BY <2>2, MessageIs
    <2>4. QED BY <2>2, <2>3
  <1>4. log = << >> => d = << >>
    <2> SUFFICES ASSUME log = << >> PROVE d = << >>
      OBVIOUS
    <2>1. l = << >>
      <3>1. Load = Read(log, cut) /\ log \in Seq(MessagesUpTo(last)) /\ Rising(log) /\ last \in Nat
        BY LoadIsRead, RoundsKnown
      <3>2. \A i \in DOMAIN log : FALSE
        OBVIOUS
      <3>3. Read(log, cut) = [messages |-> log, summary |-> {}]
        BY <3>1, <3>2, ReadIs
      <3>4. QED BY <3>1, <3>3
    <2> HIDE DEF l
    <2>2. AllComplete(l)
      BY <2>1 DEF AllComplete
    <2>3. QED BY <2>1, <2>2, DropsNone
  <1> HIDE DEF d, l
  <1>5. /\ Answered(log) /\ Led(log) /\ SameRecords /\ CutsAdvance /\ FallsBack
    BY DEF RoundsHold
  <1>6. /\ under.first \in 0 .. last /\ cut.first \in 0 .. last
        /\ last \in Nat /\ Rising(log) /\ log \in Seq(MessagesUpTo(last))
        /\ \A i \in DOMAIN log : log[i].id \in 1 .. last
    BY RoundsKnown
  <1>7. SameRecords'
    <2>1. Summary.kind = "summary" /\ Summary.id = 0
      BY <1>6, SummaryIs
    <2>2. \A i \in DOMAIN d : d[i] = Summary \/ \E j \in DOMAIN log : d[i] = log[j]
      BY <1>2, <1>3
    <2>3. ASSUME NEW i \in DOMAIN d, d[i].kind = "result" PROVE d[i].of < d[i].id
      BY <1>5, <2>1, <2>2, <2>3 DEF SameRecords
    <2>4. ASSUME NEW i \in DOMAIN d, NEW j \in DOMAIN log, d[i].id = log[j].id
          PROVE  d[i] = log[j]
      <3>1. d[i] # Summary
        BY <1>6, <2>1, <2>4
      <3>2. PICK k \in DOMAIN log : d[i] = log[k]
        BY <2>2, <3>1
      <3>3. k = j
        BY <1>6, <2>4, <3>2, RisingOnce
      <3>4. QED BY <3>2, <3>3
    <2>5. torn' => d = << >>
      BY <1>1, <1>4
    <2>6. QED BY <1>1, <1>5, <2>3, <2>4, <2>5 DEF SameRecords
  <1>8. CutsAdvance'
    <2>1. cut' .first <= cut.first /\ cut' .first \in 0 .. last
      BY <1>1, <1>5, <1>6 DEF FallsBack
    <2>2. \A i \in DOMAIN ids' : ids'[i] < cut' .first => ids'[i] = 0
      BY <1>1, <1>3, <1>6, <2>1
    <2>3. \A j \in DOMAIN log : log[j].id = cut' .first /\ ~skewed => log[j].kind # "result"
      BY <1>1, <1>5 DEF CutsAdvance, FallsBack
    <2>4. QED BY <1>1, <2>2, <2>3 DEF CutsAdvance
  <1>9. ShortIsLast'
    BY <1>1, <1>2 DEF ShortIsLast
  <1>10. OneLeftOut'
    <2> SUFFICES ASSUME NEW j \in Short(log), NEW k \in Short(log), j < k, log[j].id >= cut' .first
                 PROVE  AtEnd(log, k) /\ Short(d) # {}
      BY <1>1 DEF OneLeftOut
    <2>1. cut' = cut
      <3> SUFFICES ASSUME cut' = under, under # cut PROVE FALSE
        BY <1>1
      <3>1. log[j].id < under.first /\ j \in DOMAIN log
        BY <1>5 DEF FallsBack, Short
      <3>2. QED BY <1>6, <3>1
    <2>2. QED BY <1>2, <2>1
  <1>11. FallsBack'
    <2>1. CASE UNCHANGED <<cut, under>>
      BY <1>1, <1>5, <2>1 DEF FallsBack
    <2>2. CASE cut' = under' /\ under' \in {cut, under}
      <3>1. cut' .first \in Nat
        BY <1>6, <2>2
      <3>2. QED BY <1>8, <2>2, <3>1, FallsToCut
    <2>3. QED BY <1>1, <2>1, <2>2
  <1>12. QED BY <1>1, <1>2, <1>5, <1>7, <1>8, <1>9, <1>10, <1>11 DEF RoundsHold

LEMMA PromptRounds == ASSUME ContextInv, RoundsHold, lost' = {}, Prompt PROVE RoundsHold'
  <1> DEFINE m == User(last + 1)
  <1>1. m \in MessagesUpTo(last + 1) /\ m.id = last + 1 /\ m.kind = "user"
    <2>1. last + 1 \in Nat \ {0}
      BY RoundsKnown
    <2>2. QED BY <2>1, NewMessages
  <1>2. AppendMessage(m) /\ pc = "idle" /\ pc' = "top" /\ skewed' = skewed
    BY DEF Prompt, history
  <1> HIDE DEF m
  <1>3. QED BY <1>1, <1>2, PlainStep DEF Up

LEMMA TurnRounds ==
  ASSUME ContextInv, RoundsHold, lost' = {}, NEW desired \in Views, Turn(desired)
  PROVE  RoundsHold'
  <1>1. pc = "top" /\ pc' = "request" /\ skewed' = skewed
    BY DEF Turn, history
  <1>2. last \in Nat /\ messages \in Seq(MessagesUpTo(last)) /\ last + 1 \in Nat \ {0}
    BY RoundsKnown
  <1>3. CASE UNCHANGED <<memVars, fileVars>>
    <2>1. Short(messages) = {} /\ ~torn
      BY <1>1 DEF RoundsHold, ShortIsLast, SameRecords, Up
    <2>2. QED BY <1>1, <1>3, <2>1, QuietStep DEF memVars, fileVars, Up
  <1>4. ASSUME NEW d \in Deltas(messages, desired), AppendMessage(Update(last + 1, d))
        PROVE  RoundsHold'
    <2> DEFINE m == Update(last + 1, d)
    <2>1. d \in Delta
      BY <1>2, DeltasAre
    <2>2. m \in MessagesUpTo(last + 1) /\ m.id = last + 1 /\ m.kind = "update"
      BY <1>2, <2>1, NewMessages
    <2>3. AppendMessage(m)
      BY <1>4
    <2> HIDE DEF m
    <2>4. QED BY <1>1, <2>2, <2>3, PlainStep DEF Up
  <1>5. QED BY <1>3, <1>4 DEF Turn

LEMMA AskRounds ==
  ASSUME ContextInv, RoundsHold, lost' = {}, NEW n \in 1 .. MaxRound, Ask(n)
  PROVE  RoundsHold'
  <1> DEFINE m == Calls(last + 1, n)
  <1>1. m \in MessagesUpTo(last + 1) /\ m.id = last + 1 /\ m.kind = "calls" /\ m.n = n
    <2>1. last + 1 \in Nat \ {0}
      BY RoundsKnown
    <2>2. QED BY <2>1, NewMessages DEF Calls
  <1>2. /\ AppendMessage(m) /\ pc = "request" /\ pc' = "round" /\ skewed' = skewed
        /\ open' = n /\ batch' = n
    BY DEF Ask, history
  <1> HIDE DEF m
  <1>3. QED BY <1>1, <1>2, PlainStep DEF Up

LEMMA ReplyRounds == ASSUME ContextInv, RoundsHold, lost' = {}, Reply PROVE RoundsHold'
  <1>1. pc = "request" /\ skewed' = skewed
    BY DEF Reply, history
  <1>2. CASE pc' = "idle" /\ UNCHANGED <<memVars, fileVars>>
    <2>1. Short(messages) = {} /\ ~torn
      BY <1>1 DEF RoundsHold, ShortIsLast, SameRecords, Up
    <2>2. QED BY <1>1, <1>2, <2>1, QuietStep DEF memVars, fileVars, Up
  <1>3. CASE AppendMessage(Text(last + 1)) /\ pc' = "finished"
    <2> DEFINE m == Text(last + 1)
    <2>1. m \in MessagesUpTo(last + 1) /\ m.id = last + 1 /\ m.kind = "text"
      <3>1. last + 1 \in Nat \ {0}
        BY RoundsKnown
      <3>2. QED BY <3>1, NewMessages
    <2>2. AppendMessage(m)
      BY <1>3
    <2> HIDE DEF m
    <2>3. QED BY <1>1, <1>3, <2>1, <2>2, PlainStep DEF Up
  <1>4. QED BY <1>2, <1>3 DEF Reply

LEMMA AnswerRounds == ASSUME ContextInv, RoundsHold, lost' = {}, Answer PROVE RoundsHold'
  <1>1. /\ last \in Nat /\ messages \in Seq(MessagesUpTo(last)) /\ Len(messages) \in Nat
        /\ last + 1 \in Nat \ {0} /\ MaxRound \in Nat
        /\ \A i \in DOMAIN messages : messages[i].id \in 0 .. last
    BY RoundsKnown, ContextAssumption
  <1>2. /\ pc = "round" /\ open' = open - 1 /\ batch' = batch /\ skewed' = skewed
        /\ pc' \in IF open = 1 THEN {"finished", "idle"} ELSE {"round"}
        /\ AppendMessage(Result(last + 1, RoundId))
    BY DEF Answer, history
  <1>3. /\ open \in 1 .. batch /\ batch \in 0 .. MaxRound
        /\ EndsWithResults(batch - open)
        /\ messages[Len(messages) - (batch - open)].kind = "calls"
    BY <1>2, Parts DEF ControlOK, RoundUnderWay
  <1>4. messages[Len(messages) - (batch - open)].n = batch
    BY <1>2 DEF RoundsHold, ShortIsLast
  <1> DEFINE done == batch - open
             at == Len(messages) - done
             m == Result(last + 1, RoundId)
  <1>5. /\ done \in Nat /\ at \in DOMAIN messages /\ at \in Nat /\ at + done = Len(messages) /\ done < batch
        /\ batch = done + open /\ open \in Nat
        /\ \A i \in at + 1 .. Len(messages) : messages[i].kind = "result"
    BY <1>1, <1>3 DEF EndsWithResults
  <1>6. messages[at].kind = "calls" /\ messages[at].n = batch
    BY <1>3, <1>4
  <1> HIDE DEF done, at
  <1>7. ResultsAfter(messages, at) = done
    <2>1. done \in 0 .. Len(messages) - at /\ ~(at + done < Len(messages)) /\ at + 1 .. at + done = at + 1 .. Len(messages)
      BY <1>1, <1>5
    <2>2. Run(messages, at, done)
      BY <1>5, <2>1 DEF Run
    <2>3. QED BY <1>1, <1>5, <2>2, RunIs
  <1>8. at \in Short(messages)
    BY <1>5, <1>6, <1>7 DEF Short
  <1>9. RoundId = messages[at].id
    <2> DEFINE calls == {i \in DOMAIN messages : messages[i].kind = "calls"}
    <2>1. at \in calls
      BY <1>5, <1>6
    <2>2. calls \in SUBSET (0 .. Len(messages)) /\ calls # {} /\ \A i \in calls : ~(i \in at + 1 .. Len(messages))
      BY <1>1, <1>5, <2>1
    <2>3. RoundId = messages[Max(calls)].id
      BY DEF RoundId
    <2> HIDE DEF calls
    <2>4. Max(calls) \in calls /\ at <= Max(calls)
      BY <1>1, <2>1, <2>2, MaxIs
    <2>5. Max(calls) = at
      <3>1. Max(calls) \in 0 .. Len(messages) /\ ~(Max(calls) \in at + 1 .. Len(messages))
        BY <2>2, <2>4
      <3>2. QED BY <1>1, <1>5, <2>4, <3>1
    <2>6. QED BY <2>3, <2>5
  <1>10. m.id = last + 1 /\ m.kind = "result" /\ m.of = messages[at].id
    BY <1>9 DEF Result
  <1>11. m \in MessagesUpTo(last + 1)
    <2>1. messages[at] \in MessagesUpTo(last)
      BY <1>1, <1>5
    <2>2. messages[at].id \in 0 .. last /\ messages[at].id # 0
      BY <1>1, <1>6, <2>1, MessageIs
    <2>3. messages[at].id \in 1 .. last + 1
      BY <1>1, <2>2
    <2>4. QED BY <1>1, <1>9, <2>3, NewMessages
  <1>12. AppendMessage(m)
    BY <1>2
  <1>13. ResultsAfter(messages, at) + 1 < messages[at].n => pc' \in {"round", "repair"}
    <2>1. done + 1 < batch => open # 1
      BY <1>5
    <2>2. QED BY <1>2, <1>6, <1>7, <2>1
  <1>14. pc' = "round" => at = (Len(messages) + 1) - (batch' - open') /\ messages[at].n = batch'
    <2>1. at = (Len(messages) + 1) - (batch - (open - 1))
      <3>1. batch - (open - 1) = done + 1
        BY <1>5
      <3>2. QED BY <1>1, <1>5, <3>1
    <2>2. QED BY <1>2, <1>6, <2>1
  <1> HIDE DEF m
  <1>15. pc' \in Up \ {"reset"} /\ pc \in Up \ {"reset"}
    BY <1>2 DEF Up
  <1>16. QED BY <1>2, <1>8, <1>10, <1>11, <1>12, <1>13, <1>14, <1>15, ResultStep

LEMMA RepairRounds == ASSUME ContextInv, RoundsHold, lost' = {}, Repair PROVE RoundsHold'
  <1>1. /\ last \in Nat /\ messages \in Seq(MessagesUpTo(last)) /\ Rising(messages)
        /\ last + 1 \in Nat \ {0}
    BY RoundsKnown
  <1>2. pc = "repair" /\ skewed' = skewed
    BY DEF Repair, history
  <1>3. Answered(messages) /\ SameRecords /\ ShortIsLast
    BY DEF RoundsHold
  <1>4. CASE Unanswered(messages) = {}
    <2>1. pc' = "idle" /\ UNCHANGED <<memVars, fileVars>>
      BY <1>4 DEF Repair
    <2>2. Short(messages) = {}
      <3> SUFFICES ASSUME NEW i \in Short(messages) PROVE FALSE
        OBVIOUS
      <3>1. AtEnd(messages, i)
        BY <1>3 DEF ShortIsLast
      <3>2. \A j \in DOMAIN messages : messages[j].kind = "result" => messages[j].of < messages[j].id
        BY <1>3 DEF SameRecords
      <3>3. i \in Unanswered(messages)
        BY <1>1, <3>1, <3>2, ShortIsUnanswered
      <3>4. QED BY <1>4, <3>3
    <2>3. QED BY <1>2, <2>1, <2>2, QuietStep DEF memVars, fileVars, Up
  <1>5. CASE Unanswered(messages) # {}
    <2> DEFINE i == Min(Unanswered(messages))
               m == Result(last + 1, messages[i].id)
    <2>1. AppendMessage(m) /\ pc' = pc
      BY <1>5 DEF Repair
    <2>2. Unanswered(messages) \in SUBSET Nat
      BY <1>1 DEF Unanswered
    <2>3. i \in Short(messages)
      <3>1. i \in Unanswered(messages)
        BY <1>5, <2>2, MinIs
      <3>2. QED BY <1>1, <1>3, <3>1, UnansweredIsShort
    <2> HIDE DEF i
    <2>4. i \in DOMAIN messages /\ messages[i].kind = "calls"
      BY <2>3 DEF Short
    <2>5. messages[i].id \in 1 .. last + 1
      <3>1. messages[i] \in MessagesUpTo(last)
        BY <1>1, <2>4
      <3>2. messages[i].id \in 0 .. last /\ messages[i].id # 0
        BY <1>1, <2>4, <3>1, MessageIs
      <3>3. QED BY <1>1, <3>2
    <2>6. m \in MessagesUpTo(last + 1) /\ m.id = last + 1 /\ m.kind = "result"
      BY <1>1, <2>5, NewMessages
    <2>7. m.of = messages[i].id
      BY DEF Result
    <2> HIDE DEF m
    <2>8. QED BY <1>2, <2>1, <2>3, <2>6, <2>7, ResultStep DEF Up
  <1>6. QED BY <1>4, <1>5

LEMMA QuietRounds ==
  ASSUME RoundsHold, NoCompaction \/ (\E i \in DOMAIN messages : Prepare(i)) \/ Summarise \/ EndTurn
  PROVE  RoundsHold'
  <1>1. /\ UNCHANGED <<messages, ids, log, cut, under, torn, skewed>>
        /\ pc \in {"finished", "summary", "after"} /\ pc' \in {"after", "summary", "commit", "idle", "top"}
    BY DEF NoCompaction, Prepare, Summarise, EndTurn, memVars, fileVars, history
  <1>2. Short(messages) = {} /\ ~torn
    BY <1>1 DEF RoundsHold, ShortIsLast, SameRecords, Up
  <1>3. QED BY <1>1, <1>2, QuietStep DEF Up

(* What is lost stays lost. *)
LEMMA LostGrows ==
  ASSUME [Next]_vars
  PROVE  lost \subseteq lost'
  <1>1. \A m : AppendMessage(m) => lost \subseteq lost'
    BY DEF AppendMessage
  <1>2. UNCHANGED fileVars => lost \subseteq lost'
    BY DEF fileVars
  <1>3. CASE Prompt \/ (\E v \in Views : Turn(v)) \/ (\E n \in 1 .. MaxRound : Ask(n)) \/ Reply \/ Answer \/ Repair
    BY <1>1, <1>2, <1>3, Zenon DEF Prompt, Turn, Ask, Reply, Answer, Repair
  <1>4. CASE CommitCut \/ Crash
    BY <1>4 DEF CommitCut, Crash
  <1>5. CASE Restart
    BY <1>5 DEF Restart, Recovered
  <1>6. CASE NoCompaction \/ (\E i \in DOMAIN messages : Prepare(i)) \/ Summarise \/ FollowCut \/ EndTurn
    BY <1>2, <1>6, Zenon DEF NoCompaction, Prepare, Summarise, FollowCut, EndTurn
  <1>7. CASE UNCHANGED vars
    BY <1>2, <1>7 DEF vars
  <1>8. QED BY <1>3, <1>4, <1>5, <1>6, <1>7 DEF Next

LEMMA NextRounds == ASSUME ContextInv, RoundsInv, [Next]_vars PROVE RoundsInv'
  <1> SUFFICES ASSUME lost' = {} PROVE RoundsHold'
    BY DEF RoundsInv
  <1>0. RoundsHold
    BY LostGrows DEF RoundsInv
  <1>1. CASE Prompt
    BY <1>0, <1>1, PromptRounds
  <1>2. ASSUME NEW v \in Views, Turn(v) PROVE RoundsHold'
    BY <1>0, <1>2, TurnRounds
  <1>3. ASSUME NEW n \in 1 .. MaxRound, Ask(n) PROVE RoundsHold'
    BY <1>0, <1>3, AskRounds
  <1>4. CASE Reply
    BY <1>0, <1>4, ReplyRounds
  <1>5. CASE Answer
    BY <1>0, <1>5, AnswerRounds
  <1>6. CASE NoCompaction \/ (\E i \in DOMAIN messages : Prepare(i)) \/ Summarise \/ EndTurn
    BY <1>0, <1>6, QuietRounds
  <1>7. CASE CommitCut
    BY <1>0, <1>7, CommitRounds
  <1>8. CASE FollowCut
    BY <1>0, <1>8, FollowRounds
  <1>9. CASE Crash
    BY <1>0, <1>9, CrashRounds
  <1>10. CASE Restart
    BY <1>0, <1>10, RestartRounds
  <1>11. CASE Repair
    BY <1>0, <1>11, RepairRounds
  <1>12. CASE UNCHANGED vars
    BY <1>0, <1>12, StutterRounds
  <1>13. QED
    BY <1>1, <1>2, <1>3, <1>4, <1>5, <1>6, <1>7, <1>8, <1>9, <1>10, <1>11, <1>12 DEF Next

(* Behind calls stand results of theirs and no more than they ask for, in  *)
(* the list and in the log; only the last round is ever short of them; and *)
(* what a restart leaves out is one round at most (loop.py 333-350,        *)
(* working.py 1001-1045, coding.py 287-338) - until a message is lost to   *)
(* readers of the file.  Compaction records may be.                        *)
THEOREM RoundsInvariant == Spec => []RoundsInv
  <1>1. Init => RoundsInv
    BY InitRounds DEF RoundsInv
  <1>2. ContextInv /\ RoundsInv /\ [Next]_vars => RoundsInv'
    BY NextRounds
  <1>3. QED BY <1>1, <1>2, ContextInvariant, PTL DEF Spec

(* In every request each call has its results right behind it and each     *)
(* result has its call before it (working.py 1036), whatever compactions,  *)
(* deaths and repairs lie behind it, as long as no message was lost to     *)
(* readers of the file and no cut was made while the ids were out of step  *)
(* with the messages.                                                      *)
THEOREM PairsNeverPart == Spec => []PairsStayInStep
  <1>1. ContextInv /\ RoundsInv => PairsStayInStep
    <2> SUFFICES ASSUME ContextInv, RoundsInv, pc = "request", lost = {}, ~skewed PROVE Paired(messages)
      BY DEF PairsStayInStep
    <2>1. last \in Nat /\ messages \in Seq(MessagesUpTo(last))
      BY RoundsKnown
    <2>2. Answered(messages) /\ Led(messages) /\ Short(messages) = {}
      BY DEF RoundsInv, RoundsHold, ShortIsLast
    <2>3. ASSUME NEW i \in DOMAIN messages, messages[i].kind = "calls"
          PROVE  Complete(messages, i) /\ ResultsAfter(messages, i) = messages[i].n
      <3>1. Complete(messages, i)
        BY <2>1, <2>2, <2>3, CompleteIs
      <3>2. ResultsAfter(messages, i) \in Nat
        BY <2>1, RunIs
      <3>3. messages[i].n \in Nat
        <4>1. messages[i] \in MessagesUpTo(last)
          BY <2>1
        <4>2. QED BY <2>1, <2>3, <4>1, MessageIs
      <3>4. ResultsAfter(messages, i) <= messages[i].n /\ ~(ResultsAfter(messages, i) < messages[i].n)
        BY <2>2, <2>3 DEF Answered, Short
      <3>5. QED BY <3>1, <3>2, <3>3, <3>4
    <2>4. ASSUME NEW i \in DOMAIN messages, messages[i].kind = "result"
          PROVE  \E j \in 1 .. i - 1 : messages[j].kind = "calls" /\ messages[j].id = messages[i].of
      BY <2>2, <2>4 DEF Led
    <2>5. QED BY <2>3, <2>4 DEF Paired
  <1>2. QED BY <1>1, ContextInvariant, RoundsInvariant, PTL
=============================================================================
