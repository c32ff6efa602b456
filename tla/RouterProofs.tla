----------------------------- MODULE RouterProofs -----------------------------
(***************************************************************************)
(* No message is lost in silence, no queue is stranded and no message      *)
(* takes effect twice without becoming claimable in between, for any       *)
(* number of messages, conversations and slots: RouterInv is an inductive  *)
(* invariant of the router.                                                *)
(*                                                                         *)
(* The inbox a restart reads back and what close fails are computed one    *)
(* line, one conversation after the other; what is true of them is proved  *)
(* by induction, of the set of lengths it is true of.                      *)
(***************************************************************************)
EXTENDS Router, FiniteSetTheorems, WellFoundedInduction, TLAPS

-----------------------------------------------------------------------------
(* Induction, of a set of numbers. *)
LEMMA SetInduction ==
  ASSUME NEW P, 0 \in P, \A n \in Nat : n \in P => n + 1 \in P
  PROVE  \A n \in Nat : n \in P
  <1> SUFFICES ASSUME NEW k \in Nat, k \notin P PROVE FALSE
    OBVIOUS
  <1> DEFINE missing == {n \in Nat : n \notin P}
  <1>1. PICK n \in missing : \A m \in missing : ~(<<m, n>> \in OpToRel(<, Nat))
    <2>1. missing \subseteq Nat /\ missing # {}
      OBVIOUS
    <2> HIDE DEF missing
    <2>2. QED BY <2>1, WFMin, NatLessThanWellFounded, Zenon
  <1>2. n # 0 /\ n \in Nat
    BY <1>1
  <1>3. n - 1 \in Nat /\ n - 1 < n /\ (n - 1) + 1 = n
    BY <1>2
  <1>4. <<n - 1, n>> \in OpToRel(<, Nat)
    BY <1>2, <1>3 DEF OpToRel
  <1>5. n - 1 \in P
    BY <1>1, <1>3, <1>4
  <1>6. QED BY <1>1, <1>3, <1>5

(* What a recursive function on 0 .. n computes, step by step. *)
StepsOn(S) == [Nat -> [S -> S]]

Runs(S, a, step, n) ==
  {g \in [0 .. n -> S] : g[0] = a /\ \A i \in 1 .. n : g[i] = step[i][g[i - 1]]}

LEMMA Recursion ==
  ASSUME NEW S, NEW a \in S, NEW step \in StepsOn(S), NEW n \in Nat
  PROVE  Runs(S, a, step, n) # {}
  <1> DEFINE Is(g, k) == g \in [0 .. k -> S] /\ g[0] = a /\ \A i \in 1 .. k : g[i] = step[i][g[i - 1]]
             P == {k \in Nat : \E g : Is(g, k)}
  <1>1. 0 \in P
    <2>1. Is([i \in 0 .. 0 |-> a], 0)
      OBVIOUS
    <2>2. QED BY <2>1
  <1>2. ASSUME NEW k \in Nat, k \in P PROVE k + 1 \in P
    <2>1. PICK g : Is(g, k)
      BY <1>2
    <2> DEFINE h == [i \in 0 .. k + 1 |-> IF i \in 0 .. k THEN g[i] ELSE step[k + 1][g[k]]]
    <2>2. step[k + 1][g[k]] \in S
      BY <2>1 DEF StepsOn
    <2>3. h \in [0 .. k + 1 -> S]
      BY <2>1, <2>2
    <2>4. h[0] = a
      BY <2>1
    <2>5. ASSUME NEW i \in 1 .. k + 1 PROVE h[i] = step[i][h[i - 1]]
      <3>1. CASE i \in 1 .. k
        BY <2>1, <3>1
      <3>2. CASE i = k + 1
        BY <2>1, <3>2
      <3>3. QED BY <3>1, <3>2
    <2>6. Is(h, k + 1)
      BY <2>3, <2>4, <2>5
    <2> HIDE DEF Is
    <2>7. QED BY <2>6
  <1>3. n \in P
    <2> HIDE DEF P
    <2>1. QED BY <1>1, <1>2, SetInduction
  <1>4. QED BY <1>3 DEF Runs
-----------------------------------------------------------------------------
(* The inbox. *)
LEMMA LastLinesType ==
  ASSUME NEW S, NEW s \in Seq(S)
  PROVE  LastLines(s) \in Seq(S)
  BY EventInboxAssumption DEF LastLines

LEMMA RememberIs ==
  ASSUME NEW d \in Inbox, NEW m \in Message
  PROVE  /\ Remember(d, m) \in Inbox
         /\ \A x \in Message : Remember(d, m).status[x] \in {d.status[x], "none"}
  <1> DEFINE kept == LastLines(Append(d.order, m))
             seen == [x \in Message |-> IF x \in Range(kept) THEN d.status[x] ELSE "none"]
             r == [d EXCEPT !.order = kept, !.status = seen, !.stale = @ \cap Range(kept)]
  <1>1. d.order \in Seq(Message) /\ d.status \in [Message -> InboxStatus] /\ d.stale \in SUBSET Message
    BY DEF Inbox
  <1>2. kept \in Seq(Message)
    <2>1. Append(d.order, m) \in Seq(Message)
      BY <1>1
    <2>2. QED BY <2>1, LastLinesType
  <1> HIDE DEF kept
  <1>3. seen \in [Message -> InboxStatus] /\ \A x \in Message : seen[x] \in {d.status[x], "none"}
    BY <1>1 DEF InboxStatus
  <1> HIDE DEF seen
  <1>4. r \in Inbox /\ r.status = seen
    BY <1>1, <1>2, <1>3 DEF Inbox
  <1>5. Remember(d, m) \in {d, r}
    BY DEF Remember, r, kept, seen
  <1> HIDE DEF r
  <1>6. QED BY <1>3, <1>4, <1>5

(* A mark changes the status of its message; of the others it may at most  *)
(* forget one.                                                             *)
LEMMA MarkIs ==
  ASSUME NEW d \in Inbox, NEW m \in Message, NEW s \in InboxStatus
  PROVE  /\ Mark(d, m, s) \in Inbox
         /\ Mark(d, m, s).status[m] = s
         /\ m \notin Mark(d, m, s).stale
         /\ \A x \in Message \ {m} : Mark(d, m, s).status[x] \in {d.status[x], "none"}
  <1> DEFINE r == Remember(d, m)
  <1>1. r \in Inbox /\ \A x \in Message : r.status[x] \in {d.status[x], "none"}
    BY RememberIs
  <1> DEFINE st == [r.status EXCEPT ![m] = s]
             new == [order |-> r.order, status |-> st, stale |-> r.stale \ {m}]
  <1>2. Mark(d, m, s) = [r EXCEPT !.status[m] = s, !.stale = @ \ {m}]
    BY DEF Mark
  <1> HIDE DEF r
  <1>3. Mark(d, m, s) = new
    BY <1>1, <1>2 DEF Inbox
  <1>4. r.order \in Seq(Message) /\ r.status \in [Message -> InboxStatus] /\ r.stale \in SUBSET Message
    BY <1>1 DEF Inbox
  <1>5. st \in [Message -> InboxStatus] /\ st[m] = s /\ \A x \in Message \ {m} : st[x] = r.status[x]
    BY <1>4
  <1> HIDE DEF st
  <1>6. QED BY <1>1, <1>3, <1>4, <1>5 DEF Inbox

LEMMA LineIs ==
  ASSUME NEW ls \in Seq(Line), NEW i \in 1 .. Len(ls)
  PROVE  ls[i].id \in Message /\ ls[i].status \in InboxStatus
  <1>1. ls[i] \in Line
    OBVIOUS
  <1>2. QED BY <1>1 DEF Line

(* MarkAll marks one line after another. *)
LEMMA MarkAllSteps ==
  ASSUME NEW d \in Inbox, NEW ls \in Seq(Line)
  PROVE  \E g \in [0 .. Len(ls) -> Inbox] :
           /\ g[0] = d
           /\ \A i \in 1 .. Len(ls) : g[i] = Mark(g[i - 1], ls[i].id, ls[i].status)
           /\ MarkAll(d, ls) = g[Len(ls)]
  <1> DEFINE n == Len(ls)
             step == [i \in Nat |-> [e \in Inbox |->
                        IF i \in 1 .. n THEN Mark(e, ls[i].id, ls[i].status) ELSE e]]
             Rec(f) == f = [i \in 0 .. n |->
                              IF i = 0 THEN d ELSE Mark(f[i - 1], ls[i].id, ls[i].status)]
             upto == CHOOSE f : Rec(f)
  <1>1. n \in Nat /\ \A i \in 1 .. n : ls[i].id \in Message /\ ls[i].status \in InboxStatus
    BY LineIs
  <1>2. step \in [Nat -> [Inbox -> Inbox]]
    BY <1>1, MarkIs
  <1>3. PICK g \in [0 .. n -> Inbox] : g[0] = d /\ \A i \in 1 .. n : g[i] = step[i][g[i - 1]]
    <2> HIDE DEF step, n, Rec, upto
    <2>1. n \in Nat /\ step \in StepsOn(Inbox)
      BY <1>1, <1>2 DEF StepsOn
    <2>2. Runs(Inbox, d, step, n) # {}
      BY <2>1, Recursion
    <2>3. QED BY <2>2 DEF Runs
  <1>4. ASSUME NEW i \in 1 .. n
        PROVE  g[i - 1] \in Inbox /\ g[i] = Mark(g[i - 1], ls[i].id, ls[i].status)
    <2>1. i \in Nat /\ i - 1 \in 0 .. n
      BY <1>1
    <2>2. g[i - 1] \in Inbox
      BY <2>1, <1>3
    <2>3. QED BY <2>1, <2>2, <1>3
  <1> HIDE DEF n, step
  <1>5. Rec(g)
    BY <1>1, <1>3, <1>4
  <1>6. Rec(upto)
    BY <1>5
  <1>7. upto[0] = d /\ \A i \in 1 .. n : upto[i] = Mark(upto[i - 1], ls[i].id, ls[i].status)
    <2> HIDE DEF upto
    <2>1. QED BY <1>1, <1>6
  <1>8. MarkAll(d, ls) = upto[n]
    BY DEF MarkAll, n
  <1> HIDE DEF upto, Rec
  <1>9. \A k \in Nat : k \in {i \in Nat : i <= n => upto[i] = g[i]}
    <2> DEFINE P == {i \in Nat : i <= n => upto[i] = g[i]}
    <2>1. 0 \in P
      BY <1>3, <1>7
    <2>2. ASSUME NEW k \in Nat, k \in P PROVE k + 1 \in P
      <3>1. CASE k + 1 <= n
        <4>1. upto[k] = g[k] /\ k + 1 \in 1 .. n /\ (k + 1) - 1 = k
          BY <1>1, <2>2, <3>1
        <4>2. QED BY <4>1, <1>4, <1>7
      <3>2. QED BY <3>1, <1>1
    <2> HIDE DEF P
    <2>3. \A k \in Nat : k \in P
      BY <2>1, <2>2, SetInduction
    <2>4. QED BY <2>3 DEF P
  <1>10. MarkAll(d, ls) = g[n]
    BY <1>1, <1>8, <1>9
  <1>11. QED BY <1>3, <1>4, <1>10 DEF n

LEMMA MarkAllType ==
  ASSUME NEW d \in Inbox, NEW ls \in Seq(Line)
  PROVE  MarkAll(d, ls) \in Inbox
  <1>1. Len(ls) \in 0 .. Len(ls)
    OBVIOUS
  <1>2. QED BY <1>1, MarkAllSteps

LEMMA LoadType == ASSUME NEW ls \in Seq(Line) PROVE Load(ls) \in Inbox
  <1>1. EmptyInbox \in Inbox
    BY DEF EmptyInbox, Inbox, InboxStatus
  <1>2. QED BY <1>1, LastLinesType, MarkAllType DEF Load

(* What is still under processing when messages have been failed was so    *)
(* before, and is none of them.                                            *)
LEMMA FailedAre ==
  ASSUME NEW d \in Inbox, NEW ls \in Seq(Line), \A i \in 1 .. Len(ls) : ls[i].status = "failed",
         NEW x \in Message, MarkAll(d, ls).status[x] = "processing"
  PROVE  d.status[x] = "processing" /\ \A i \in 1 .. Len(ls) : ls[i].id # x
  <1> DEFINE n == Len(ls)
  <1>1. PICK g \in [0 .. n -> Inbox] :
          /\ g[0] = d
          /\ \A i \in 1 .. n : g[i] = Mark(g[i - 1], ls[i].id, ls[i].status)
          /\ MarkAll(d, ls) = g[n]
    BY MarkAllSteps
  <1>2. n \in Nat /\ \A i \in 1 .. n : ls[i].id \in Message
    BY LineIs
  <1> DEFINE P == {k \in Nat : k <= n /\ g[k].status[x] = "processing" =>
                                 d.status[x] = "processing" /\ \A i \in 1 .. k : ls[i].id # x}
  <1>3. 0 \in P
    BY <1>1
  <1> HIDE DEF n
  <1>4. ASSUME NEW k \in Nat, k \in P PROVE k + 1 \in P
    <2> SUFFICES ASSUME k + 1 <= n, g[k + 1].status[x] = "processing"
                 PROVE  d.status[x] = "processing" /\ \A i \in 1 .. k + 1 : ls[i].id # x
      OBVIOUS
    <2>1. k \in 0 .. n /\ k + 1 \in 1 .. n /\ (k + 1) - 1 = k
      BY <1>2
    <2>2. g[k + 1] = Mark(g[k], ls[k + 1].id, "failed") /\ g[k] \in Inbox
      BY <2>1, <1>1 DEF n
    <2>3. ls[k + 1].id # x /\ g[k].status[x] = "processing"
      <3>1. ls[k + 1].id \in Message /\ "failed" \in InboxStatus
        BY <2>1, <1>2 DEF InboxStatus
      <3>2. /\ g[k + 1].status[ls[k + 1].id] = "failed"
            /\ \A y \in Message \ {ls[k + 1].id} : g[k + 1].status[y] \in {g[k].status[y], "none"}
        BY <2>2, <3>1, MarkIs
      <3>3. QED BY <3>2
    <2>4. QED BY <2>1, <2>3, <1>2, <1>4
  <1>5. n \in P
    <2> HIDE DEF P
    <2>1. QED BY <1>2, <1>3, <1>4, SetInduction
  <1>6. QED BY <1>1, <1>2, <1>5 DEF n

-----------------------------------------------------------------------------
(* What is queued, of all conversations. *)
LEMMA AllConversations ==
  /\ Cardinality(Session) \in Nat
  /\ Conversations \in [1 .. Cardinality(Session) -> Session]
  /\ Len(Conversations) = Cardinality(Session)
  /\ \A s \in Session : \E i \in 1 .. Cardinality(Session) : Conversations[i] = s
  <1> DEFINE n == Cardinality(Session)
             D == 1 .. n
  <1>1. n \in Nat /\ ExistsBijection(D, Session) /\ IsFiniteSet(Session)
    BY RouterAssumption, FS_CardinalityType
  <1>2. IsFiniteSet(D) /\ Cardinality(D) = n
    BY <1>1, FS_Interval
  <1>3. \E f \in [D -> Session] : IsInjective(f)
    BY <1>1 DEF ExistsBijection, Bijection, Injection, IsInjective
  <1>4. Conversations \in [D -> Session] /\ IsInjective(Conversations)
    BY <1>3 DEF Conversations, SetToSeq
  <1>5. Conversations \in Injection(D, Session)
    BY <1>4 DEF Injection, IsInjective
  <1>6. Conversations \in Surjection(D, Session)
    BY <1>1, <1>2, <1>5, FS_Injection
  <1>7. Len(Conversations) = n
    BY <1>1, <1>4
  <1>8. QED BY <1>1, <1>4, <1>6, <1>7 DEF Surjection

LEMMA RangeOfConcat ==
  ASSUME NEW e \in Seq(Message), NEW q \in Seq(Message)
  PROVE  e \o q \in Seq(Message) /\ Range(e) \subseteq Range(e \o q) /\ Range(q) \subseteq Range(e \o q)
  <1>1. e \o q \in Seq(Message) /\ Len(e \o q) = Len(e) + Len(q)
    OBVIOUS
  <1>2. \A i \in 1 .. Len(e) : i \in 1 .. Len(e \o q) /\ (e \o q)[i] = e[i]
    OBVIOUS
  <1>3. \A i \in 1 .. Len(q) : Len(e) + i \in 1 .. Len(e \o q) /\ (e \o q)[Len(e) + i] = q[i]
    OBVIOUS
  <1>4. DOMAIN e = 1 .. Len(e) /\ DOMAIN q = 1 .. Len(q) /\ DOMAIN (e \o q) = 1 .. Len(e \o q)
    BY <1>1
  <1>5. QED BY <1>1, <1>2, <1>3, <1>4 DEF Range

(* Everything that is queued is in Queued. *)
LEMMA QueuedHasAll ==
  ASSUME queue \in [Session -> Seq(Message)]
  PROVE  Queued \in Seq(Message) /\ \A s \in Session : Range(queue[s]) \subseteq Range(Queued)
  <1> DEFINE n == Len(Conversations)
             plus(e, i) == e \o queue[Conversations[i]]
             step == [i \in Nat |-> [e \in Seq(Message) |-> IF i \in 1 .. n THEN plus(e, i) ELSE e]]
             Rec(f) == f = [i \in 0 .. n |-> IF i = 0 THEN << >> ELSE plus(f[i - 1], i)]
             upto == CHOOSE f : Rec(f)
             P == {k \in Nat : k <= n =>
                     /\ upto[k] \in Seq(Message)
                     /\ \A j \in 1 .. k : Range(queue[Conversations[j]]) \subseteq Range(upto[k])}
  <1>1. n \in Nat /\ \A i \in 1 .. n : queue[Conversations[i]] \in Seq(Message)
    BY AllConversations
  <1>2. \A s \in Session : \E j \in 1 .. n : Conversations[j] = s
    BY AllConversations
  <1>3. Queued = upto[n]
    BY DEF Queued
  <1>4. ASSUME NEW e \in Seq(Message), NEW i \in 1 .. n
        PROVE  /\ plus(e, i) \in Seq(Message) /\ Range(e) \subseteq Range(plus(e, i))
               /\ Range(queue[Conversations[i]]) \subseteq Range(plus(e, i))
    BY <1>1, RangeOfConcat
  <1> HIDE DEF n, plus
  <1>5. step \in StepsOn(Seq(Message))
    <2>1. \A i \in Nat : step[i] \in [Seq(Message) -> Seq(Message)]
      BY <1>4
    <2>2. QED BY <2>1 DEF StepsOn
  <1>6. PICK g \in [0 .. n -> Seq(Message)] :
          g[0] = << >> /\ \A i \in 1 .. n : g[i] = step[i][g[i - 1]]
    <2> HIDE DEF step, Rec, upto, P
    <2>1. << >> \in Seq(Message)
      OBVIOUS
    <2>2. Runs(Seq(Message), << >>, step, n) # {}
      BY <1>1, <1>5, <2>1, Recursion
    <2>3. QED BY <2>2 DEF Runs
  <1>7. ASSUME NEW i \in 1 .. n
        PROVE  g[i - 1] \in Seq(Message) /\ g[i] = plus(g[i - 1], i)
    <2>1. i \in Nat /\ i - 1 \in 0 .. n
      BY <1>1
    <2>2. g[i - 1] \in Seq(Message)
      BY <2>1, <1>6
    <2>3. QED BY <2>1, <2>2, <1>6
  <1> HIDE DEF step
  <1>8. Rec(upto)
    <2>1. Rec(g)
      BY <1>1, <1>6, <1>7
    <2> HIDE DEF Rec
    <2>2. QED BY <2>1
  <1>9. upto[0] = << >> /\ \A i \in 1 .. n : upto[i] = plus(upto[i - 1], i)
    <2> HIDE DEF upto
    <2>1. QED BY <1>1, <1>8
  <1> HIDE DEF upto, Rec
  <1>10. 0 \in P
    <2>1. << >> \in Seq(Message)
      OBVIOUS
    <2>2. upto[0] \in Seq(Message)
      BY <2>1, <1>9, Zenon
    <2>3. \A j \in 1 .. 0 : FALSE
      OBVIOUS
    <2>4. QED BY <2>2, <2>3
  <1>11. ASSUME NEW k \in Nat, k \in P PROVE k + 1 \in P
    <2> SUFFICES ASSUME k + 1 <= n
                 PROVE  /\ upto[k + 1] \in Seq(Message)
                        /\ \A j \in 1 .. k + 1 : Range(queue[Conversations[j]]) \subseteq Range(upto[k + 1])
      OBVIOUS
    <2>1. k + 1 \in 1 .. n /\ (k + 1) - 1 = k /\ k <= n
      BY <1>1
    <2>2. /\ upto[k] \in Seq(Message) /\ upto[k + 1] = plus(upto[k], k + 1)
          /\ \A j \in 1 .. k : Range(queue[Conversations[j]]) \subseteq Range(upto[k])
      BY <2>1, <1>9, <1>11
    <2>3. /\ upto[k + 1] \in Seq(Message) /\ Range(upto[k]) \subseteq Range(upto[k + 1])
          /\ Range(queue[Conversations[k + 1]]) \subseteq Range(upto[k + 1])
      BY <2>1, <2>2, <1>4
    <2>4. \A j \in 1 .. k + 1 : j \in 1 .. k \/ j = k + 1
      OBVIOUS
    <2>5. QED BY <2>2, <2>3, <2>4
  <1>12. n \in P
    <2> HIDE DEF P
    <2>1. QED BY <1>1, <1>10, <1>11, SetInduction
  <1>13. Queued \in Seq(Message) /\ \A j \in 1 .. n : Range(queue[Conversations[j]]) \subseteq Range(Queued)
    BY <1>1, <1>3, <1>12
  <1>14. QED BY <1>2, <1>13

-----------------------------------------------------------------------------
(* How often a message is queued. *)
Times(q, m) == {i \in DOMAIN q : q[i] = m}

LEMMA TimesType ==
  ASSUME NEW q \in Seq(Message), NEW m
  PROVE  IsFiniteSet(Times(q, m)) /\ Cardinality(Times(q, m)) \in Nat
  <1>1. IsFiniteSet(1 .. Len(q)) /\ Times(q, m) \in SUBSET (1 .. Len(q))
    BY FS_Interval DEF Times
  <1>2. QED BY <1>1, FS_Subset, FS_CardinalityType

LEMMA TimesEmpty == ASSUME NEW m PROVE Cardinality(Times(<< >>, m)) = 0
  <1>1. Times(<< >>, m) = {}
    BY DEF Times
  <1>2. QED BY <1>1, FS_EmptySet

LEMMA TimesAppend ==
  ASSUME NEW q \in Seq(Message), NEW c \in Message, NEW m
  PROVE  Cardinality(Times(Append(q, c), m)) = Cardinality(Times(q, m)) + (IF m = c THEN 1 ELSE 0)
  <1> DEFINE k == Len(q) + 1
  <1>1. k \notin Times(q, m) /\ IsFiniteSet(Times(q, m)) /\ Cardinality(Times(q, m)) \in Nat
    <2>1. k \notin Times(q, m)
      BY DEF Times
    <2>2. QED BY <2>1, TimesType
  <1>2. CASE m = c
    <2>1. Times(Append(q, c), m) = Times(q, m) \cup {k}
      BY <1>2 DEF Times
    <2>2. QED BY <1>1, <1>2, <2>1, FS_AddElement
  <1>3. CASE m # c
    <2>1. Times(Append(q, c), m) = Times(q, m)
      BY <1>3 DEF Times
    <2>2. QED BY <1>1, <1>3, <2>1
  <1>4. QED BY <1>2, <1>3

LEMMA TimesTail ==
  ASSUME NEW q \in Seq(Message), q # << >>, NEW m
  PROVE  Cardinality(Times(q, m)) = Cardinality(Times(Tail(q), m)) + (IF m = Head(q) THEN 1 ELSE 0)
  <1> DEFINE later == {i \in Times(q, m) : i # 1}
             next == [i \in Times(Tail(q), m) |-> i + 1]
  <1>1. Tail(q) \in Seq(Message) /\ Len(Tail(q)) = Len(q) - 1 /\ Len(q) >= 1
        /\ Head(q) = q[1] /\ \A i \in 1 .. Len(q) - 1 : Tail(q)[i] = q[i + 1]
    OBVIOUS
  <1>2. next \in Bijection(Times(Tail(q), m), later)
    <2>1. \A i \in Times(Tail(q), m) : i \in Nat /\ i + 1 \in later
      BY <1>1 DEF Times
    <2>2. \A j \in later : j - 1 \in Times(Tail(q), m) /\ (j - 1) + 1 = j
      BY <1>1 DEF Times
    <2>3. next \in Injection(Times(Tail(q), m), later)
      BY <2>1 DEF Injection, IsInjective
    <2>4. \A j \in later : next[j - 1] = j
      BY <2>2
    <2>5. next \in Surjection(Times(Tail(q), m), later)
      BY <2>1, <2>2, <2>4 DEF Surjection
    <2>6. QED BY <2>3, <2>5 DEF Bijection
  <1> HIDE DEF next, later
  <1>3. IsFiniteSet(later) /\ Cardinality(later) = Cardinality(Times(Tail(q), m))
    <2>1. ExistsBijection(Times(Tail(q), m), later)
      BY <1>2 DEF ExistsBijection
    <2>2. QED BY <2>1, <1>1, TimesType, FS_Bijection
  <1>4. Cardinality(later) \in Nat
    BY <1>3, FS_CardinalityType
  <1>5. CASE m = Head(q)
    <2>1. Times(q, m) = later \cup {1} /\ 1 \notin later
      BY <1>1, <1>5 DEF Times, later
    <2>2. Cardinality(later \cup {1}) = Cardinality(later) + 1
      BY <2>1, <1>3, FS_AddElement, Zenon
    <2>3. QED BY <2>1, <2>2, <1>3, <1>4, <1>5
  <1>6. CASE m # Head(q)
    <2>1. Times(q, m) = later
      BY <1>1, <1>6 DEF Times, later
    <2>2. QED BY <2>1, <1>3, <1>4, <1>6
  <1>7. QED BY <1>5, <1>6

-----------------------------------------------------------------------------
(* What a step does to the inbox, and to the effects that are due. *)
Can(d, m) == IF Claimable(d, m) THEN 1 ELSE 0

LEMMA WriteType ==
  ASSUME lines \in Seq(Line), NEW new \in Seq(Line), Write(new)
  PROVE  lines' \in Seq(Line)
  <1>1. lines \o new \in Seq(Line)
    OBVIOUS
  <1>2. QED BY <1>1, LastLinesType DEF Write

(* What becomes claimable, or takes effect. *)
LEMMA ChangeIs ==
  ASSUME RouterTypeOK, NEW d \in Inbox, NEW effects, Change(d, effects)
  PROVE  /\ inbox' = d /\ excess' \in [Message -> Int]
         /\ \A m \in Message :
              excess'[m] + Can(inbox', m) <= excess[m] + Can(inbox, m) + (IF m \in effects THEN 1 ELSE 0)
         /\ \A m \in Message : Claimable(inbox, m) /\ ~ Claimable(inbox', m) =>
              excess'[m] = excess[m] + (IF m \in effects THEN 1 ELSE 0)
  <1>1. excess \in [Message -> Int]
    BY DEF RouterTypeOK
  <1>2. QED BY <1>1 DEF Change, Can

LEMMA MarkChanges ==
  ASSUME RouterTypeOK, NEW m \in Message, NEW s \in {"processing", "completed", "failed"},
         NEW effects, Change(Mark(inbox, m, s), effects)
  PROVE  /\ inbox' \in Inbox /\ excess' \in [Message -> Int]
         /\ inbox'.status[m] = s
         /\ \A x \in Message \ {m} : inbox'.status[x] = "processing" => inbox.status[x] = "processing"
         /\ \A x \in Message :
              excess'[x] + Can(inbox', x) <= excess[x] + Can(inbox, x) + (IF x \in effects THEN 1 ELSE 0)
         /\ s = "processing" /\ Claimable(inbox, m) =>
              excess'[m] + Can(inbox', m) <= excess[m] + (IF m \in effects THEN 1 ELSE 0)
  <1>1. inbox \in Inbox /\ s \in InboxStatus /\ excess \in [Message -> Int]
    BY DEF RouterTypeOK, InboxStatus
  <1> DEFINE d == Mark(inbox, m, s)
  <1>2. /\ d \in Inbox /\ d.status[m] = s /\ m \notin d.stale
        /\ \A x \in Message \ {m} : d.status[x] \in {inbox.status[x], "none"}
    BY <1>1, MarkIs
  <1>3. s = "processing" => ~ Claimable(d, m)
    BY <1>2 DEF Claimable
  <1> HIDE DEF d
  <1>4. /\ inbox' = d /\ excess' \in [Message -> Int]
        /\ \A x \in Message :
             excess'[x] + Can(inbox', x) <= excess[x] + Can(inbox, x) + (IF x \in effects THEN 1 ELSE 0)
        /\ \A x \in Message : Claimable(inbox, x) /\ ~ Claimable(inbox', x) =>
             excess'[x] = excess[x] + (IF x \in effects THEN 1 ELSE 0)
    BY <1>2, ChangeIs DEF d
  <1>5. s = "processing" /\ Claimable(inbox, m) =>
          excess'[m] + Can(inbox', m) <= excess[m] + (IF m \in effects THEN 1 ELSE 0)
    BY <1>1, <1>3, <1>4 DEF Can
  <1>6. QED BY <1>2, <1>4, <1>5

LEMMA MarkBecomes ==
  ASSUME RouterTypeOK, NEW m \in Message, NEW s \in {"processing", "completed", "failed"},
         Change(Mark(inbox, m, s), {})
  PROVE  /\ inbox' \in Inbox /\ excess' \in [Message -> Int]
         /\ inbox'.status[m] = s
         /\ \A x \in Message \ {m} : inbox'.status[x] = "processing" => inbox.status[x] = "processing"
         /\ \A x \in Message : excess'[x] + Can(inbox', x) <= excess[x] + Can(inbox, x)
         /\ s = "processing" /\ Claimable(inbox, m) => excess'[m] + Can(inbox', m) <= excess[m]
  <1>1. /\ inbox' \in Inbox /\ excess' \in [Message -> Int]
        /\ inbox'.status[m] = s
        /\ \A x \in Message \ {m} : inbox'.status[x] = "processing" => inbox.status[x] = "processing"
        /\ \A x \in Message :
             excess'[x] + Can(inbox', x) <= excess[x] + Can(inbox, x) + (IF x \in {} THEN 1 ELSE 0)
        /\ s = "processing" /\ Claimable(inbox, m) =>
             excess'[m] + Can(inbox', m) <= excess[m] + (IF m \in {} THEN 1 ELSE 0)
    BY MarkChanges
  <1>2. excess \in [Message -> Int] /\ \A x : Can(inbox, x) \in {0, 1}
    BY DEF RouterTypeOK, Can
  <1>3. QED BY <1>1, <1>2

(* A line is appended, or the append raises. *)
LEMMA RecordChanges ==
  ASSUME RouterTypeOK, NEW m \in Message, NEW s \in {"processing", "completed", "failed"},
         Record(m, s) \/ RecordRaises(m, s)
  PROVE  /\ inbox' \in Inbox /\ excess' \in [Message -> Int]
         /\ inbox'.status[m] = s
         /\ \A x \in Message \ {m} : inbox'.status[x] = "processing" => inbox.status[x] = "processing"
         /\ \A x \in Message : excess'[x] + Can(inbox', x) <= excess[x] + Can(inbox, x)
         /\ s = "processing" /\ Claimable(inbox, m) => excess'[m] + Can(inbox', m) <= excess[m]
         /\ lines' \in Seq(Line) /\ troubles' \in 0 .. MaxTroubles
  <1>1. [id |-> m, status |-> s] \in Line
    BY DEF Line, InboxStatus
  <1>2. <<[id |-> m, status |-> s]>> \in Seq(Line)
    BY <1>1
  <1>3. lines \in Seq(Line) /\ troubles \in 0 .. MaxTroubles /\ MaxTroubles \in Nat
    BY RouterAssumption DEF RouterTypeOK
  <1>4. lines' \in Seq(Line) /\ troubles' \in 0 .. MaxTroubles
    <2>1. CASE Record(m, s)
      BY <1>2, <1>3, <2>1, WriteType DEF Record
    <2>2. CASE RecordRaises(m, s)
      BY <1>3, <2>2 DEF RecordRaises, Raise
    <2>3. QED BY <2>1, <2>2
  <1>5. Change(Mark(inbox, m, s), {})
    BY DEF Record, RecordRaises, Become
  <1>6. QED BY <1>4, <1>5, MarkBecomes

LEMMA StaleChanges ==
  ASSUME RouterTypeOK, NEW m \in Message, Become([inbox EXCEPT !.stale = @ \cup {m}])
  PROVE  /\ inbox' \in Inbox /\ excess' \in [Message -> Int]
         /\ \A x \in Message : inbox'.status[x] = inbox.status[x]
         /\ \A x \in Message : excess'[x] + Can(inbox', x) <= excess[x] + Can(inbox, x)
  <1> DEFINE d == [inbox EXCEPT !.stale = @ \cup {m}]
  <1>1. d \in Inbox /\ d.status = inbox.status
    BY DEF RouterTypeOK, Inbox
  <1> HIDE DEF d
  <1>2. Change(d, {})
    BY DEF Become, d
  <1>3. excess \in [Message -> Int] /\ \A x : Can(inbox, x) \in {0, 1}
    BY DEF RouterTypeOK, Can
  <1>4. QED BY <1>1, <1>2, <1>3, ChangeIs

(* The effects that are due of what is queued or waits for a slot. *)
Due(m) == Cardinality(Copies(m)) + (IF AtSlot(m) THEN 1 ELSE 0)

LEMMA CopiesAre == ASSUME NEW m PROVE Copies(m) = Times(queue[SessionOf[m]], m)
  BY DEF Copies, Times

LEMMA TimesOfQueue ==
  ASSUME NEW q \in [Session -> Seq(Message)], NEW m \in Message
  PROVE  Cardinality(Times(q[SessionOf[m]], m)) \in Nat
  <1>1. q[SessionOf[m]] \in Seq(Message)
    BY RouterAssumption
  <1>2. QED BY <1>1, TimesType

LEMMA DueType ==
  ASSUME queue \in [Session -> Seq(Message)], NEW m \in Message
  PROVE  Cardinality(Copies(m)) \in Nat /\ Due(m) \in Nat
  BY CopiesAre, TimesOfQueue DEF Due

(* A step that brings no more effects about than it lets happen. *)
LEMMA EffectsStep ==
  ASSUME RouterInv, queue' \in [Session -> Seq(Message)], excess' \in [Message -> Int],
         \A m \in Message :
           Due(m)' + excess'[m] + Can(inbox', m) <= Due(m) + excess[m] + Can(inbox, m)
  PROVE  EffectsBounded'
  <1> SUFFICES ASSUME NEW m \in Message
               PROVE  excess'[m] + Cardinality(Copies(m)') + (IF AtSlot(m)' THEN 1 ELSE 0)
                        + Can(inbox', m) <= 1
    BY DEF EffectsBounded, Can
  <1>1. Cardinality(Copies(m)) \in Nat
    BY DueType DEF RouterInv, RouterTypeOK
  <1>2. Cardinality(Copies(m)') \in Nat
    <2>1. Copies(m)' = Times(queue'[SessionOf[m]], m)
      BY DEF Copies, Times
    <2>2. QED BY <2>1, TimesOfQueue
  <1>3. excess[m] \in Int /\ excess'[m] \in Int
    BY DEF RouterInv, RouterTypeOK
  <1>4. Can(inbox, m) \in {0, 1} /\ Can(inbox', m) \in {0, 1}
    BY DEF Can
  <1>5. excess[m] + Cardinality(Copies(m)) + (IF AtSlot(m) THEN 1 ELSE 0) + Can(inbox, m) <= 1
    BY DEF RouterInv, EffectsBounded, Can
  <1>6. Due(m)' = Cardinality(Copies(m)') + (IF AtSlot(m)' THEN 1 ELSE 0)
    BY DEF Due
  <1>7. Due(m) = Cardinality(Copies(m)) + (IF AtSlot(m) THEN 1 ELSE 0)
    BY DEF Due
  <1>8. Due(m)' + excess'[m] + Can(inbox', m) <= Due(m) + excess[m] + Can(inbox, m)
    OBVIOUS
  <1> HIDE DEF Due, Can
  <1>9. CASE AtSlot(m)
    BY <1>1, <1>2, <1>3, <1>4, <1>5, <1>6, <1>7, <1>8, <1>9
  <1>10. CASE ~AtSlot(m)
    BY <1>1, <1>2, <1>3, <1>4, <1>5, <1>6, <1>7, <1>8, <1>10
  <1>11. QED BY <1>9, <1>10

(* Nothing more is due in a conversation whose queue stays. *)
LEMMA DueStays ==
  ASSUME queue \in [Session -> Seq(Message)], queue' = queue, NEW m \in Message,
         AtSlot(m)' => AtSlot(m)
  PROVE  Due(m)' <= Due(m)
  <1>1. Cardinality(Copies(m)) \in Nat
    BY DueType
  <1>2. Copies(m)' = Copies(m)
    BY DEF Copies
  <1>3. QED BY <1>1, <1>2 DEF Due

-----------------------------------------------------------------------------
(* Steps that leave the queues and the workers as they are. *)
LEMMA InboxStep ==
  ASSUME RouterInv, UNCHANGED <<tasks, died>>,
         phase' \in {"up", "closing", "closed"}, inbox' \in Inbox, lines' \in Seq(Line),
         answering' \in [Message -> 0 .. MaxSubmits], dropped' \subseteq Message,
         excess' \in [Message -> Int], submits' \in 0 .. MaxSubmits, troubles' \in 0 .. MaxTroubles,
         \A m \in Message : answering'[m] <= submits',
         \A m \in Message : inbox'.status[m] = "processing" =>
           \/ answering'[m] > 0 \/ m \in dropped'
           \/ inbox.status[m] = "processing" /\ answering[m] = answering'[m] /\ m \notin dropped \ dropped',
         \A m \in Message : excess'[m] + Can(inbox', m) <= excess[m] + Can(inbox, m)
  PROVE  RouterInv'
  <1>1. UNCHANGED <<queue, worker, msg, free, died>>
    BY DEF tasks
  <1>2. RouterTypeOK'
    BY <1>1 DEF RouterInv, RouterTypeOK
  <1>3. InPlace'
    BY <1>1 DEF RouterInv, InPlace
  <1>4. ProcessingIsHeld'
    BY <1>1 DEF RouterInv, ProcessingIsHeld, Held
  <1>5. QueueServed'
    BY <1>1 DEF RouterInv, QueueServed
  <1>6. EffectsBounded'
    <2>1. queue \in [Session -> Seq(Message)]
      BY DEF RouterInv, RouterTypeOK
    <2>2. ASSUME NEW m \in Message
          PROVE  Due(m)' + excess'[m] + Can(inbox', m) <= Due(m) + excess[m] + Can(inbox, m)
      <3>1. Due(m)' = Due(m) /\ Due(m) \in Nat
        BY <1>1, <2>1, DueType DEF Due, Copies, AtSlot
      <3>2. excess[m] \in Int /\ excess'[m] \in Int /\ Can(inbox, m) \in Int /\ Can(inbox', m) \in Int
        BY DEF RouterInv, RouterTypeOK, Can
      <3>3. QED BY <3>1, <3>2
    <2>3. QED BY <1>1, <2>1, <2>2, EffectsStep
  <1>7. QED BY <1>2, <1>3, <1>4, <1>5, <1>6 DEF RouterInv

(* The constants, and what has its type before a step, as the steps use it. *)
LEMMA Typed ==
  ASSUME RouterInv
  PROVE  /\ RouterTypeOK /\ MaxSubmits \in Nat /\ MaxTroubles \in Nat
         /\ {"processing", "completed", "failed"} \subseteq InboxStatus
         /\ excess \in [Message -> Int] /\ \A x : Can(inbox, x) \in {0, 1}
         /\ answering \in [Message -> 0 .. MaxSubmits] /\ submits \in 0 .. MaxSubmits
         /\ \A m \in Message : answering[m] <= submits
         /\ \A m \in Message : m # NoMessage
  BY RouterAssumption DEF RouterInv, RouterTypeOK, InPlace, Can, InboxStatus

(* An event the inbox accepts. *)
LEMMA SubmitRaisesInv ==
  ASSUME RouterInv, NEW m \in Message, SubmitRaises(m)
  PROVE  RouterInv'
  <1>1. RecordRaises(m, "processing")
    BY DEF SubmitRaises
  <1>2. /\ inbox' \in Inbox /\ excess' \in [Message -> Int]
        /\ lines' \in Seq(Line) /\ troubles' \in 0 .. MaxTroubles
    BY <1>1, Typed, RecordChanges
  <1>3. /\ \A x \in Message \ {m} : inbox'.status[x] = "processing" => inbox.status[x] = "processing"
        /\ \A x \in Message : excess'[x] + Can(inbox', x) <= excess[x] + Can(inbox, x)
    BY <1>1, Typed, RecordChanges
  <1>4. /\ UNCHANGED <<tasks, died, phase, answering>> /\ submits' = submits + 1 /\ submits < MaxSubmits
        /\ dropped' = dropped \cup {m}
    BY DEF SubmitRaises, Claim, tasks
  <1>5. /\ phase' \in {"up", "closing", "closed"} /\ dropped' \subseteq Message
        /\ answering' \in [Message -> 0 .. MaxSubmits] /\ submits' \in 0 .. MaxSubmits
        /\ \A x \in Message : answering'[x] <= submits'
    BY <1>4, Typed DEF RouterTypeOK
  <1>6. \A x \in Message : inbox'.status[x] = "processing" =>
          \/ x \in dropped'
          \/ inbox.status[x] = "processing" /\ answering[x] = answering'[x] /\ x \notin dropped \ dropped'
    BY <1>3, <1>4
  <1>7. QED
    BY <1>2, <1>3, <1>4, <1>5, <1>6, InboxStep

LEMMA SubmitCommandInv ==
  ASSUME RouterInv, NEW m \in Message, SubmitCommand(m)
  PROVE  RouterInv'
  <1> DEFINE line == [id |-> m, status |-> "processing"]
  <1>1. Change(Mark(inbox, m, "processing"), {m}) /\ Claimable(inbox, m) /\ Write(<<line>>)
    BY DEF SubmitCommand, Claim
  <1>2. lines' \in Seq(Line)
    <2>1. line \in Line /\ <<line>> \in Seq(Line)
      BY DEF Line, InboxStatus
    <2>2. QED BY <2>1, <1>1, Typed, WriteType DEF RouterTypeOK
  <1>3. /\ inbox' \in Inbox /\ excess' \in [Message -> Int]
        /\ \A x \in Message \ {m} : inbox'.status[x] = "processing" => inbox.status[x] = "processing"
        /\ \A x \in Message : excess'[x] + Can(inbox', x) <= excess[x] + Can(inbox, x) + (IF x \in {m} THEN 1 ELSE 0)
        /\ excess'[m] + Can(inbox', m) <= excess[m] + (IF m \in {m} THEN 1 ELSE 0)
    BY <1>1, Typed, MarkChanges
  <1>4. \A x \in Message : excess'[x] + Can(inbox', x) <= excess[x] + Can(inbox, x)
    BY <1>1, <1>3, Typed DEF Can
  <1>5. /\ UNCHANGED <<tasks, died, phase, troubles>> /\ submits' = submits + 1 /\ submits < MaxSubmits
        /\ dropped' = dropped \ {m} /\ answering' = [answering EXCEPT ![m] = @ + 1]
    BY DEF SubmitCommand, Claim, tasks
  <1>6. /\ phase' \in {"up", "closing", "closed"} /\ dropped' \subseteq Message
        /\ answering' \in [Message -> 0 .. MaxSubmits] /\ submits' \in 0 .. MaxSubmits
        /\ \A x \in Message : answering'[x] <= submits'
        /\ troubles' \in 0 .. MaxTroubles
        /\ answering'[m] > 0 /\ \A x \in Message \ {m} : answering'[x] = answering[x]
    BY <1>5, Typed DEF RouterTypeOK
  <1>7. \A x \in Message : inbox'.status[x] = "processing" =>
          \/ answering'[x] > 0
          \/ inbox.status[x] = "processing" /\ answering[x] = answering'[x] /\ x \notin dropped \ dropped'
    BY <1>3, <1>5, <1>6
  <1>8. QED
    BY <1>2, <1>3, <1>4, <1>5, <1>6, <1>7, InboxStep

LEMMA SubmitFullInv ==
  ASSUME RouterInv, NEW m \in Message, SubmitFull(m)
  PROVE  RouterInv'
  <1>1. Record(m, "processing")
    BY DEF SubmitFull
  <1>2. /\ inbox' \in Inbox /\ excess' \in [Message -> Int]
        /\ lines' \in Seq(Line) /\ troubles' \in 0 .. MaxTroubles
    BY <1>1, Typed, RecordChanges
  <1>3. /\ \A x \in Message \ {m} : inbox'.status[x] = "processing" => inbox.status[x] = "processing"
        /\ \A x \in Message : excess'[x] + Can(inbox', x) <= excess[x] + Can(inbox, x)
    BY <1>1, Typed, RecordChanges
  <1>4. /\ UNCHANGED <<tasks, died, phase>> /\ submits' = submits + 1 /\ submits < MaxSubmits
        /\ dropped' = dropped \ {m} /\ answering' = [answering EXCEPT ![m] = @ + 1]
    BY DEF SubmitFull, Claim, tasks
  <1>5. /\ phase' \in {"up", "closing", "closed"} /\ dropped' \subseteq Message
        /\ answering' \in [Message -> 0 .. MaxSubmits] /\ submits' \in 0 .. MaxSubmits
        /\ \A x \in Message : answering'[x] <= submits'
        /\ answering'[m] > 0 /\ \A x \in Message \ {m} : answering'[x] = answering[x]
    BY <1>4, Typed DEF RouterTypeOK
  <1>6. \A x \in Message : inbox'.status[x] = "processing" =>
          \/ answering'[x] > 0
          \/ inbox.status[x] = "processing" /\ answering[x] = answering'[x] /\ x \notin dropped \ dropped'
    BY <1>3, <1>4, <1>5
  <1>7. QED
    BY <1>2, <1>3, <1>4, <1>5, <1>6, InboxStep

(* A reply gets out, or does not. *)
LEMMA AnsweredInv ==
  ASSUME RouterInv, NEW m \in Message, Answered(m) \/ AnswerRaises(m)
  PROVE  RouterInv'
  <1>1. /\ inbox' \in Inbox /\ excess' \in [Message -> Int]
        /\ lines' \in Seq(Line) /\ troubles' \in 0 .. MaxTroubles
        /\ \A x \in Message \ {m} : inbox'.status[x] = "processing" => inbox.status[x] = "processing"
        /\ \A x \in Message : excess'[x] + Can(inbox', x) <= excess[x] + Can(inbox, x)
    <2>1. CASE Record(m, "completed") \/ RecordRaises(m, "completed")
      BY <2>1, Typed, RecordChanges
    <2>2. CASE Raise /\ UNCHANGED <<inbox, lines, excess>>
      <3>1. \A x \in Message : excess'[x] + Can(inbox', x) <= excess[x] + Can(inbox, x)
        BY <2>2, Typed
      <3>2. troubles' \in 0 .. MaxTroubles
        BY <2>2, Typed DEF Raise, RouterTypeOK
      <3>3. QED BY <2>2, <3>1, <3>2, Typed DEF RouterTypeOK
    <2>3. QED BY <2>1, <2>2 DEF Answered, AnswerRaises
  <1>2. /\ UNCHANGED <<tasks, died, phase, submits>> /\ answering[m] > 0
        /\ answering' = [answering EXCEPT ![m] = @ - 1]
    BY DEF Answered, AnswerRaises, tasks
  <1>3. /\ phase' \in {"up", "closing", "closed"}
        /\ answering' \in [Message -> 0 .. MaxSubmits] /\ submits' \in 0 .. MaxSubmits
        /\ \A x \in Message : answering'[x] <= submits'
        /\ \A x \in Message \ {m} : answering'[x] = answering[x]
    BY <1>2, Typed DEF RouterTypeOK
  <1>4. dropped' \subseteq Message /\ dropped \subseteq dropped'
    BY Typed DEF Answered, AnswerRaises, RouterTypeOK
  <1>5. inbox'.status[m] = "processing" => m \in dropped'
    <2>1. CASE Answered(m)
      <3>1. Record(m, "completed")
        BY <2>1 DEF Answered
      <3>2. inbox'.status[m] = "completed"
        BY <3>1, Typed, RecordChanges
      <3>3. QED BY <3>2
    <2>2. CASE AnswerRaises(m)
      BY <2>2 DEF AnswerRaises
    <2>3. QED BY <2>1, <2>2
  <1>6. QED
    BY <1>1, <1>2, <1>3, <1>4, <1>5, InboxStep

LEMMA AgeInv ==
  ASSUME RouterInv, NEW m \in Message, Age(m)
  PROVE  RouterInv'
  <1>1. Become([inbox EXCEPT !.stale = @ \cup {m}]) /\ UNCHANGED <<phase, lines, tasks, answering, dropped, died, bounds>>
    BY DEF Age
  <1>2. /\ inbox' \in Inbox /\ excess' \in [Message -> Int]
        /\ \A x \in Message : inbox'.status[x] = inbox.status[x]
        /\ \A x \in Message : excess'[x] + Can(inbox', x) <= excess[x] + Can(inbox, x)
    BY <1>1, Typed, StaleChanges
  <1>3. QED BY <1>1, <1>2, Typed, InboxStep DEF bounds, RouterTypeOK

LEMMA CloseInv == RouterInv /\ (Close \/ UNCHANGED vars) => RouterInv'
  <1> SUFFICES ASSUME RouterInv, Close \/ UNCHANGED vars PROVE RouterInv'
    OBVIOUS
  <1>1. /\ UNCHANGED <<inbox, lines, tasks, answering, died, dropped, excess, submits, troubles>>
        /\ phase' \in {"up", "closing", "closed"}
    BY Typed DEF Close, vars, history, bounds, RouterTypeOK
  <1>2. \A x \in Message : excess'[x] + Can(inbox', x) <= excess[x] + Can(inbox, x)
    BY <1>1, Typed
  <1>3. /\ inbox' \in Inbox /\ lines' \in Seq(Line) /\ dropped' \subseteq Message
        /\ excess' \in [Message -> Int] /\ troubles' \in 0 .. MaxTroubles
        /\ answering' \in [Message -> 0 .. MaxSubmits] /\ submits' \in 0 .. MaxSubmits
        /\ \A x \in Message : answering'[x] <= submits'
    BY <1>1, Typed DEF RouterTypeOK
  <1>4. QED BY <1>1, <1>2, <1>3, InboxStep

-----------------------------------------------------------------------------
(* Steps of the workers. *)
Handling == {s \in Session : worker[s] = "handling"}

LEMMA HandlingType ==
  ASSUME RouterInv
  PROVE  IsFiniteSet(Handling) /\ Cardinality(Handling) \in Nat /\ free + Cardinality(Handling) = MaxSessions
         /\ free \in Nat /\ MaxSessions \in Nat
  <1>1. IsFiniteSet(Session) /\ Handling \in SUBSET Session /\ MaxSessions \in Nat
    BY RouterAssumption DEF Handling
  <1>2. IsFiniteSet(Handling) /\ Cardinality(Handling) \in Nat
    BY <1>1, FS_Subset, FS_CardinalityType
  <1>3. QED BY <1>1, <1>2 DEF RouterInv, RouterTypeOK, Handling

(* The slots add up. *)
LEMMA SlotsAddUp ==
  ASSUME RouterInv, NEW s \in Session, NEW w \in Worker, worker' = [worker EXCEPT ![s] = w],
         free' = free + (IF worker[s] = "handling" THEN 1 ELSE 0) - (IF w = "handling" THEN 1 ELSE 0),
         free' >= 0
  PROVE  free' \in 0 .. MaxSessions /\ free' + Cardinality(Handling') = MaxSessions
  <1>1. worker \in [Session -> Worker]
    BY DEF RouterInv, RouterTypeOK
  <1>2. \A t \in Session : worker'[t] = IF t = s THEN w ELSE worker[t]
    BY <1>1
  <1>3. CASE worker[s] = "handling" /\ w # "handling"
    <2>1. Handling' = Handling \ {s} /\ s \in Handling
      BY <1>2, <1>3 DEF Handling
    <2>2. Cardinality(Handling') = Cardinality(Handling) - 1 /\ Cardinality(Handling') \in Nat
      BY <2>1, HandlingType, FS_RemoveElement, FS_CardinalityType
    <2>3. QED BY <2>2, <1>3, HandlingType
  <1>4. CASE worker[s] # "handling" /\ w = "handling"
    <2>1. Handling' = Handling \cup {s} /\ s \notin Handling
      BY <1>2, <1>4 DEF Handling
    <2>2. Cardinality(Handling') = Cardinality(Handling) + 1
      BY <2>1, HandlingType, FS_AddElement
    <2>3. QED BY <2>2, <1>4, HandlingType
  <1>5. CASE (worker[s] = "handling") = (w = "handling")
    <2>1. Handling' = Handling
      BY <1>2, <1>5 DEF Handling
    <2>2. free' = free
      BY <1>5, HandlingType
    <2>3. QED BY <2>1, <2>2, HandlingType
  <1>6. QED BY <1>3, <1>4, <1>5

(* Tasks as they are typed, before a step. *)
LEMMA TasksTyped ==
  ASSUME RouterInv
  PROVE  /\ queue \in [Session -> Seq(Message)] /\ worker \in [Session -> Worker]
         /\ msg \in [Session -> Message \cup {NoMessage}]
         /\ \A s \in Session : Len(queue[s]) <= QueueSize
         /\ SessionOf \in [Message -> Session] /\ QueueSize \in Nat /\ NoMessage \notin Message
         /\ \A s \in Session : worker[s] \in {"slot", "handling", "reporting"} <=> msg[s] # NoMessage
         /\ \A s \in Session : msg[s] # NoMessage => SessionOf[msg[s]] = s /\ msg[s] \in Message
         /\ \A s \in Session : \A m \in Range(queue[s]) : SessionOf[m] = s
  BY RouterAssumption DEF RouterInv, RouterTypeOK, InPlace

(* A worker is done with its message, which it marks completed or failed.  *)
LEMMA DoneStep ==
  ASSUME RouterInv, NEW s \in Session, worker[s] \in {"handling", "reporting"},
         NEW st \in {"completed", "failed"}, Change(Mark(inbox, msg[s], st), {}),
         NEW w \in {"none", "ready"}, worker' = [worker EXCEPT ![s] = w],
         msg' = [msg EXCEPT ![s] = NoMessage],
         free' = free + (IF worker[s] = "handling" THEN 1 ELSE 0),
         lines' \in Seq(Line), troubles' \in 0 .. MaxTroubles,
         died' \in SUBSET Session, died \subseteq died', w = "none" => queue[s] = << >> \/ s \in died',
         UNCHANGED <<phase, queue, answering, dropped, submits>>
  PROVE  RouterInv'
  <1> DEFINE m == msg[s]
  <1>1. m \in Message /\ SessionOf[m] = s
    BY TasksTyped
  <1>2. /\ inbox' \in Inbox /\ excess' \in [Message -> Int]
        /\ inbox'.status[m] = st
        /\ \A x \in Message \ {m} : inbox'.status[x] = "processing" => inbox.status[x] = "processing"
        /\ \A x \in Message : excess'[x] + Can(inbox', x) <= excess[x] + Can(inbox, x)
    BY <1>1, Typed, MarkBecomes
  <1>3. free' \in 0 .. MaxSessions /\ free' + Cardinality(Handling') = MaxSessions
    <2>1. w \in Worker /\ w # "handling"
      BY DEF Worker
    <2>2. free' >= 0 /\ free' = free + (IF worker[s] = "handling" THEN 1 ELSE 0) - (IF w = "handling" THEN 1 ELSE 0)
      BY <2>1, HandlingType
    <2>3. QED BY <2>1, <2>2, SlotsAddUp
  <1>4. /\ worker' \in [Session -> Worker] /\ msg' \in [Session -> Message \cup {NoMessage}]
        /\ worker'[s] = w /\ msg'[s] = NoMessage
        /\ \A t \in Session \ {s} : worker'[t] = worker[t] /\ msg'[t] = msg[t]
    BY TasksTyped DEF Worker
  <1>5. RouterTypeOK'
    BY <1>2, <1>3, <1>4 DEF RouterInv, RouterTypeOK, Handling
  <1>6. InPlace'
    BY <1>4 DEF RouterInv, InPlace
  <1>7. ProcessingIsHeld'
    BY <1>1, <1>2, <1>4, TasksTyped DEF RouterInv, ProcessingIsHeld, Held
  <1>8. QueueServed'
    BY <1>4 DEF RouterInv, QueueServed
  <1>9. EffectsBounded'
    <2>1. ASSUME NEW x \in Message
          PROVE  Due(x)' + excess'[x] + Can(inbox', x) <= Due(x) + excess[x] + Can(inbox, x)
      <3>1. Due(x)' <= Due(x)
        <4>1. AtSlot(x)' => AtSlot(x)
          BY <1>4, TasksTyped DEF AtSlot
        <4>2. QED BY <4>1, DueStays, TasksTyped
      <3>2. Due(x) \in Nat /\ Due(x)' \in Nat
        <4>1. Copies(x)' = Copies(x)
          BY DEF Copies
        <4>2. QED BY <4>1, TasksTyped, DueType DEF Due
      <3>3. Can(inbox, x) \in Int /\ Can(inbox', x) \in Int
        BY DEF Can
      <3>4. /\ excess'[x] + Can(inbox', x) <= excess[x] + Can(inbox, x)
            /\ excess[x] \in Int /\ excess'[x] \in Int
        BY <1>2, Typed
      <3>5. QED BY SMTT(30), <3>1, <3>2, <3>3, <3>4
    <2>2. QED BY <2>1, <1>2, <1>5, EffectsStep DEF RouterTypeOK
  <1>10. QED BY <1>5, <1>6, <1>7, <1>8, <1>9 DEF RouterInv

LEMMA LoopIs ==
  ASSUME NEW s \in Session, Loop(s)
  PROVE  \E w \in {"none", "ready"} :
           /\ worker' = [worker EXCEPT ![s] = w] /\ (w = "none" => queue[s] = << >>)
           /\ msg' = [msg EXCEPT ![s] = NoMessage]
  BY DEF Loop

(* The message was handled, the error was reported, or even that failed.   *)
LEMMA HandledInv ==
  ASSUME RouterInv, NEW s \in Session, Handled(s) \/ Reported(s)
  PROVE  RouterInv'
  <1>1. /\ worker[s] \in {"handling", "reporting"} /\ Record(msg[s], "completed") /\ Loop(s)
        /\ free' = free + (IF worker[s] = "handling" THEN 1 ELSE 0)
        /\ UNCHANGED <<phase, queue, answering, dropped, died, submits>>
    BY HandlingType DEF Handled, Reported
  <1>2. msg[s] \in Message
    BY <1>1, TasksTyped
  <1>3. Change(Mark(inbox, msg[s], "completed"), {})
    BY <1>1 DEF Record, Become
  <1>4. lines' \in Seq(Line) /\ troubles' \in 0 .. MaxTroubles
    BY <1>1, <1>2, Typed, RecordChanges
  <1>5. died' \in SUBSET Session /\ died \subseteq died'
    BY <1>1 DEF RouterInv, RouterTypeOK
  <1>6. QED BY <1>1, <1>3, <1>4, <1>5, LoopIs, DoneStep

LEMMA ReportRaisesInv ==
  ASSUME RouterInv, NEW s \in Session, ReportRaises(s) \/ WorkerDies(s)
  PROVE  RouterInv'
  <1>1. /\ worker[s] = "reporting" /\ Change(Mark(inbox, msg[s], "failed"), {}) /\ Raise
        /\ free' = free /\ UNCHANGED <<phase, queue, answering, dropped, submits>>
    BY DEF ReportRaises, WorkerDies, Become
  <1>2. msg[s] \in Message
    BY <1>1, TasksTyped
  <1>3. troubles' \in 0 .. MaxTroubles
    BY <1>1, Typed DEF Raise, RouterTypeOK
  <1>4. free' = free + (IF worker[s] = "handling" THEN 1 ELSE 0)
    BY <1>1, HandlingType
  <1>5. CASE ReportRaises(s)
    <2>1. lines' \in Seq(Line)
      <3>1. [id |-> msg[s], status |-> "failed"] \in Line
        BY <1>2 DEF Line, InboxStatus
      <3>2. <<[id |-> msg[s], status |-> "failed"]>> \in Seq(Line) /\ lines \in Seq(Line)
        BY <3>1, Typed DEF RouterTypeOK
      <3>3. QED BY <3>2, <1>5, WriteType DEF ReportRaises
    <2>2. died' \in SUBSET Session /\ died \subseteq died' /\ Loop(s)
      BY <1>5 DEF ReportRaises, RouterInv, RouterTypeOK
    <2>3. QED BY <1>1, <1>3, <1>4, <2>1, <2>2, LoopIs, DoneStep
  <1>6. CASE WorkerDies(s)
    <2>1. lines' \in Seq(Line)
      BY <1>6, Typed DEF WorkerDies, RouterTypeOK
    <2>2. died' \in SUBSET Session /\ died \subseteq died' /\ s \in died'
      BY <1>6 DEF WorkerDies, RouterInv, RouterTypeOK
    <2>3. worker' = [worker EXCEPT ![s] = "none"] /\ msg' = [msg EXCEPT ![s] = NoMessage]
      BY <1>6 DEF WorkerDies
    <2>4. QED BY <1>1, <1>3, <1>4, <2>1, <2>2, <2>3, DoneStep
  <1>7. QED BY <1>5, <1>6

(* The run raises: the slot is free again, and the error will be reported. *)
LEMMA HandleRaisesInv ==
  ASSUME RouterInv, NEW s \in Session, HandleRaises(s)
  PROVE  RouterInv'
  <1> DEFINE m == msg[s]
  <1>1. /\ worker[s] = "handling" /\ free' = free + 1 /\ worker' = [worker EXCEPT ![s] = "reporting"]
        /\ UNCHANGED <<phase, queue, msg, answering, dropped, died, submits>>
    BY DEF HandleRaises
  <1>2. m \in Message
    BY <1>1, TasksTyped
  <1>3. /\ inbox' \in Inbox /\ excess' \in [Message -> Int]
        /\ lines' \in Seq(Line) /\ troubles' \in 0 .. MaxTroubles
        /\ \A x \in Message \ {m} : inbox'.status[x] = "processing" => inbox.status[x] = "processing"
        /\ \A x \in Message : excess'[x] + Can(inbox', x) <= excess[x] + Can(inbox, x)
    <2>1. CASE RecordRaises(m, "completed")
      BY <1>2, <2>1, Typed, RecordChanges
    <2>2. CASE UNCHANGED <<inbox, lines, excess, troubles>>
      <3>1. \A x \in Message : excess'[x] + Can(inbox', x) <= excess[x] + Can(inbox, x)
        BY <2>2, Typed
      <3>2. QED BY <2>2, <3>1, Typed DEF RouterTypeOK
    <2>3. QED BY <2>1, <2>2 DEF HandleRaises
  <1>4. free' \in 0 .. MaxSessions /\ free' + Cardinality(Handling') = MaxSessions
    <2>1. "reporting" \in Worker
      BY DEF Worker
    <2>2. free' >= 0 /\ free' = free + (IF worker[s] = "handling" THEN 1 ELSE 0)
                                    - (IF "reporting" = "handling" THEN 1 ELSE 0)
      BY <1>1, HandlingType
    <2>3. QED BY <1>1, <2>1, <2>2, SlotsAddUp
  <1>5. /\ worker' \in [Session -> Worker] /\ worker'[s] = "reporting"
        /\ \A t \in Session \ {s} : worker'[t] = worker[t]
    BY <1>1, TasksTyped DEF Worker
  <1>6. RouterTypeOK'
    BY <1>1, <1>3, <1>4, <1>5 DEF RouterInv, RouterTypeOK, Handling
  <1>7. InPlace'
    BY <1>1, <1>5 DEF RouterInv, InPlace
  <1>8. ProcessingIsHeld'
    BY <1>1, <1>2, <1>3 DEF RouterInv, ProcessingIsHeld, Held
  <1>9. QueueServed'
    BY <1>1, <1>5 DEF RouterInv, QueueServed
  <1>10. EffectsBounded'
    <2>1. ASSUME NEW x \in Message
          PROVE  Due(x)' + excess'[x] + Can(inbox', x) <= Due(x) + excess[x] + Can(inbox, x)
      <3>1. Due(x)' <= Due(x)
        <4>1. AtSlot(x)' => AtSlot(x)
          BY <1>1, <1>5, TasksTyped DEF AtSlot
        <4>2. QED BY <4>1, <1>1, DueStays, TasksTyped
      <3>2. Due(x) \in Nat /\ Due(x)' \in Nat
        <4>1. Copies(x)' = Copies(x)
          BY <1>1 DEF Copies
        <4>2. QED BY <4>1, TasksTyped, DueType DEF Due
      <3>3. Can(inbox, x) \in Int /\ Can(inbox', x) \in Int
        BY DEF Can
      <3>4. QED BY <3>1, <3>2, <3>3, <1>3, Typed
    <2>2. QED BY <2>1, <1>3, <1>6, EffectsStep DEF RouterTypeOK
  <1>11. QED BY <1>6, <1>7, <1>8, <1>9, <1>10 DEF RouterInv

(* A slot is free: the message takes effect, and is no longer due.         *)
LEMMA AcquireInv ==
  ASSUME RouterInv, NEW s \in Session, Acquire(s)
  PROVE  RouterInv'
  <1> DEFINE m == msg[s]
  <1>1. /\ worker[s] = "slot" /\ free > 0 /\ free' = free - 1
        /\ worker' = [worker EXCEPT ![s] = "handling"] /\ Change(inbox, {m})
        /\ UNCHANGED <<phase, lines, queue, msg, answering, dropped, died, bounds>>
    BY DEF Acquire
  <1>2. m \in Message /\ SessionOf[m] = s
    BY <1>1, TasksTyped
  <1>3. /\ inbox' = inbox /\ excess' \in [Message -> Int]
        /\ \A x \in Message :
             excess'[x] + Can(inbox', x) <= excess[x] + Can(inbox, x) + (IF x \in {m} THEN 1 ELSE 0)
    <2>1. inbox \in Inbox
      BY Typed DEF RouterTypeOK
    <2>2. QED BY <1>1, <2>1, Typed, ChangeIs
  <1>4. free' \in 0 .. MaxSessions /\ free' + Cardinality(Handling') = MaxSessions
    <2>1. "handling" \in Worker
      BY DEF Worker
    <2>2. free' >= 0 /\ free' = free + (IF worker[s] = "handling" THEN 1 ELSE 0)
                                    - (IF "handling" = "handling" THEN 1 ELSE 0)
      BY <1>1, HandlingType
    <2>3. QED BY <1>1, <2>1, <2>2, SlotsAddUp
  <1>5. /\ worker' \in [Session -> Worker] /\ worker'[s] = "handling"
        /\ \A t \in Session \ {s} : worker'[t] = worker[t]
    BY <1>1, TasksTyped DEF Worker
  <1>6. RouterTypeOK'
    BY <1>1, <1>3, <1>4, <1>5 DEF bounds, RouterInv, RouterTypeOK, Handling
  <1>7. InPlace'
    BY <1>1, <1>5 DEF bounds, RouterInv, InPlace
  <1>8. ProcessingIsHeld'
    BY <1>1, <1>3 DEF RouterInv, ProcessingIsHeld, Held
  <1>9. QueueServed'
    BY <1>1, <1>5 DEF RouterInv, QueueServed
  <1>10. EffectsBounded'
    <2>1. ASSUME NEW x \in Message
          PROVE  Due(x)' + excess'[x] + Can(inbox', x) <= Due(x) + excess[x] + Can(inbox, x)
      <3>1. Copies(x)' = Copies(x) /\ Cardinality(Copies(x)) \in Nat
        <4>1. Copies(x)' = Copies(x)
          BY <1>1 DEF Copies
        <4>2. QED BY <4>1, TasksTyped, DueType
      <3>2. CASE x = m
        <4>1. AtSlot(x) /\ ~ AtSlot(x)'
          BY <1>1, <1>2, <1>5, <3>2 DEF AtSlot
        <4>2. Due(x)' = Cardinality(Copies(x)) /\ Due(x) = Cardinality(Copies(x)) + 1
          BY <3>1, <4>1 DEF Due
        <4>3. excess'[x] + Can(inbox', x) <= excess[x] + Can(inbox, x) + 1
          BY <1>3, <3>2
        <4>4. QED BY <4>2, <4>3, <3>1, <1>3, Typed
      <3>3. CASE x # m
        <4>1. AtSlot(x)' => AtSlot(x)
          BY <1>1, <1>5, TasksTyped DEF AtSlot
        <4>2. Due(x)' <= Due(x) /\ Due(x) \in Nat /\ Due(x)' \in Nat
          BY <3>1, <4>1 DEF Due
        <4>3. excess'[x] + Can(inbox', x) <= excess[x] + Can(inbox, x)
          <5>1. excess'[x] + Can(inbox', x) <= excess[x] + Can(inbox, x) + 0
            BY <1>3, <3>3
          <5>2. QED BY <5>1, Typed
        <4>4. QED BY <4>2, <4>3, <1>3, Typed
      <3>4. QED BY <3>2, <3>3
    <2>2. QED BY <2>1, <1>3, <1>6, EffectsStep DEF RouterTypeOK
  <1>11. QED BY <1>6, <1>7, <1>8, <1>9, <1>10 DEF RouterInv

(* The head of the queue: it is in hand instead of queued.                 *)
LEMMA TakeInv ==
  ASSUME RouterInv, NEW s \in Session, Take(s)
  PROVE  RouterInv'
  <1> DEFINE m == Head(queue[s])
  <1>1. /\ worker[s] = "ready" /\ queue[s] # << >> /\ msg' = [msg EXCEPT ![s] = m]
        /\ queue' = [queue EXCEPT ![s] = Tail(queue[s])] /\ worker' = [worker EXCEPT ![s] = "slot"]
        /\ UNCHANGED <<phase, inbox, lines, free, answering, history, bounds>>
    BY DEF Take
  <1>2. queue[s] \in Seq(Message) /\ queue[s] # << >>
    BY <1>1, TasksTyped
  <1>3. /\ m \in Message /\ m \in Range(queue[s]) /\ Tail(queue[s]) \in Seq(Message)
        /\ Len(Tail(queue[s])) = Len(queue[s]) - 1 /\ Len(queue[s]) \in Nat
        /\ \A x : x \in Range(Tail(queue[s])) => x \in Range(queue[s])
        /\ \A x : x \in Range(queue[s]) => x = m \/ x \in Range(Tail(queue[s]))
    <2> DEFINE q == queue[s]
    <2>1. /\ Len(q) \in Nat /\ Len(q) > 0 /\ Tail(q) \in Seq(Message) /\ Len(Tail(q)) = Len(q) - 1
          /\ m = q[1] /\ \A i \in 1 .. Len(q) - 1 : Tail(q)[i] = q[i + 1]
          /\ DOMAIN q = 1 .. Len(q) /\ DOMAIN Tail(q) = 1 .. Len(q) - 1 /\ \A i \in 1 .. Len(q) : q[i] \in Message
      BY <1>2
    <2> HIDE DEF q
    <2>2. 1 \in DOMAIN q /\ \A i \in DOMAIN q : i = 1 \/ (i - 1 \in DOMAIN Tail(q) /\ (i - 1) + 1 = i)
      BY <2>1
    <2>3. \A i \in DOMAIN Tail(q) : i + 1 \in DOMAIN q
      BY <2>1
    <2>4. \A i \in DOMAIN q : i = 1 \/ q[i] = Tail(q)[i - 1]
      BY <2>1, <2>2
    <2>5. /\ \A x : x \in Range(Tail(q)) => x \in Range(q)
          /\ \A x : x \in Range(q) => x = q[1] \/ x \in Range(Tail(q))
          /\ q[1] \in Range(q) /\ q[1] \in Message
      BY <2>1, <2>2, <2>3, <2>4 DEF Range
    <2>6. QED BY <2>1, <2>5 DEF q
  <1>4. SessionOf[m] = s /\ m # NoMessage
    BY <1>3, TasksTyped
  <1> DEFINE rest == Tail(queue[s])
  <1> HIDE DEF m, rest
  <1>5. /\ queue' \in [Session -> Seq(Message)] /\ queue'[s] = rest
        /\ \A t \in Session \ {s} : queue'[t] = queue[t] /\ worker'[t] = worker[t] /\ msg'[t] = msg[t]
        /\ worker' \in [Session -> Worker] /\ worker'[s] = "slot"
        /\ msg' \in [Session -> Message \cup {NoMessage}] /\ msg'[s] = m
    BY <1>1, <1>3, TasksTyped DEF Worker, rest
  <1>6. free' \in 0 .. MaxSessions /\ free' + Cardinality(Handling') = MaxSessions
    <2>1. "slot" \in Worker
      BY DEF Worker
    <2>2. free' >= 0 /\ free' = free + (IF worker[s] = "handling" THEN 1 ELSE 0)
                                    - (IF "slot" = "handling" THEN 1 ELSE 0)
      BY <1>1, HandlingType
    <2>3. QED BY <1>1, <2>1, <2>2, SlotsAddUp
  <1>7. \A t \in Session : Len(queue'[t]) <= QueueSize
    <2>1. ASSUME NEW t \in Session PROVE Len(queue'[t]) <= QueueSize
      <3>1. CASE t = s
        BY <3>1, <1>3, <1>5, TasksTyped DEF rest
      <3>2. CASE t # s
        BY <3>2, <1>5, TasksTyped
      <3>3. QED BY <3>1, <3>2
    <2>2. QED BY <2>1
  <1>8. RouterTypeOK'
    BY <1>1, <1>5, <1>6, <1>7 DEF history, bounds, RouterInv, RouterTypeOK, Handling
  <1>9. InPlace'
    <2>1. \A t \in Session : \A x \in Range(queue'[t]) : SessionOf[x] = t
      BY <1>3, <1>5, TasksTyped DEF rest
    <2>2. \A t \in Session :
            /\ msg'[t] # NoMessage => SessionOf[msg'[t]] = t
            /\ worker'[t] \in {"slot", "handling", "reporting"} <=> msg'[t] # NoMessage
      <3>1. ASSUME NEW t \in Session
            PROVE  /\ msg'[t] # NoMessage => SessionOf[msg'[t]] = t
                   /\ worker'[t] \in {"slot", "handling", "reporting"} <=> msg'[t] # NoMessage
        <4>1. CASE t = s
          BY <4>1, <1>4, <1>5
        <4>2. CASE t # s
          BY <4>2, <1>5, TasksTyped
        <4>3. QED BY <4>1, <4>2
      <3>2. QED BY <3>1
    <2>3. \A x \in Message : answering'[x] <= submits'
      BY <1>1, Typed DEF bounds
    <2>4. QED BY <2>1, <2>2, <2>3 DEF InPlace
  <1>10. ProcessingIsHeld'
    <2> SUFFICES ASSUME NEW x \in Message, inbox.status[x] = "processing", x \notin dropped
                 PROVE  \/ answering[x] > 0
                        \/ \E t \in Session : x \in Range(queue'[t]) \/ msg'[t] = x
      BY <1>1 DEF history, ProcessingIsHeld, Held
    <2>1. CASE answering[x] > 0
      BY <2>1
    <2>2. ASSUME NEW t \in Session, x \in Range(queue[t]) \/ msg[t] = x
          PROVE  \E u \in Session : x \in Range(queue'[u]) \/ msg'[u] = x
      <3>1. CASE t # s
        BY <2>2, <3>1, <1>5
      <3>2. CASE t = s
        <4>1. msg[s] = NoMessage
          BY <1>1, TasksTyped
        <4>2. x \in Range(queue[s])
          BY <2>2, <3>2, <4>1, TasksTyped
        <4>3. QED BY <4>2, <1>3, <1>5 DEF rest
      <3>3. QED BY <3>1, <3>2
    <2>3. QED BY <2>1, <2>2 DEF RouterInv, ProcessingIsHeld, Held
  <1>11. QueueServed'
    BY <1>1, <1>5 DEF history, RouterInv, QueueServed
  <1>12. EffectsBounded'
    <2>1. ASSUME NEW x \in Message
          PROVE  Due(x)' + excess'[x] + Can(inbox', x) <= Due(x) + excess[x] + Can(inbox, x)
      <3>1. Copies(x) = Times(queue[SessionOf[x]], x) /\ Copies(x)' = Times(queue'[SessionOf[x]], x)
        BY DEF Copies, Times
      <3>2. Cardinality(Copies(x)) \in Nat /\ Cardinality(Copies(x)') \in Nat
        BY <3>1, <1>5, TasksTyped, TimesOfQueue
      <3>3. Due(x)' <= Due(x)
        <4>1. CASE SessionOf[x] # s
          BY <4>1, <1>5, <3>1, <3>2, TasksTyped DEF Due, AtSlot
        <4>2. CASE SessionOf[x] = s
          <5>1. Cardinality(Copies(x)) = Cardinality(Copies(x)') + (IF x = m THEN 1 ELSE 0)
            <6>1. Copies(x) = Times(queue[s], x) /\ Copies(x)' = Times(Tail(queue[s]), x)
              BY <4>2, <1>5, <3>1 DEF rest
            <6>2. Cardinality(Times(queue[s], x))
                    = Cardinality(Times(Tail(queue[s]), x)) + (IF x = Head(queue[s]) THEN 1 ELSE 0)
              BY <1>2, TimesTail
            <6>3. QED BY <6>1, <6>2 DEF m
          <5>2. ~ AtSlot(x) /\ (AtSlot(x)' <=> x = m)
            BY <4>2, <1>1, <1>5 DEF AtSlot
          <5>3. QED BY <5>1, <5>2, <3>2 DEF Due
        <4>3. QED BY <4>1, <4>2
      <3>4. Due(x) \in Nat /\ Due(x)' \in Nat
        BY <3>2 DEF Due
      <3>5. inbox' = inbox /\ excess' = excess
        BY <1>1 DEF history
      <3>6. excess[x] \in Int /\ Can(inbox, x) \in Int
        BY Typed
      <3>7. QED BY <3>3, <3>4, <3>5, <3>6
    <2>2. QED BY <2>1, <1>8, EffectsStep DEF RouterTypeOK
  <1>13. QED BY <1>8, <1>9, <1>10, <1>11, <1>12 DEF RouterInv

(* A task is queued instead of claimable. *)
LEMMA SubmitTaskInv ==
  ASSUME RouterInv, NEW m \in Message, SubmitTask(m)
  PROVE  RouterInv'
  <1> DEFINE s == SessionOf[m]
             longer == Append(queue[s], m)
             w == IF worker[s] = "none" THEN "ready" ELSE worker[s]
  <1>1. s \in Session /\ m # NoMessage
    BY TasksTyped
  <1>2. /\ Len(queue[s]) < QueueSize /\ Record(m, "processing") /\ Claimable(inbox, m)
        /\ queue' = [queue EXCEPT ![s] = longer] /\ worker' = [worker EXCEPT ![s] = w]
        /\ dropped' = dropped \ {m} /\ died' = died \ {s}
        /\ submits < MaxSubmits /\ submits' = submits + 1
        /\ UNCHANGED <<phase, msg, free, answering>>
    BY DEF SubmitTask, Claim
  <1>3. /\ inbox' \in Inbox /\ excess' \in [Message -> Int]
        /\ lines' \in Seq(Line) /\ troubles' \in 0 .. MaxTroubles
        /\ \A x \in Message \ {m} : inbox'.status[x] = "processing" => inbox.status[x] = "processing"
        /\ \A x \in Message : excess'[x] + Can(inbox', x) <= excess[x] + Can(inbox, x)
        /\ excess'[m] + Can(inbox', m) <= excess[m]
    BY <1>2, Typed, RecordChanges
  <1>4. /\ queue[s] \in Seq(Message) /\ longer \in Seq(Message) /\ Len(longer) = Len(queue[s]) + 1
        /\ m \in Range(longer) /\ \A x : x \in Range(queue[s]) => x \in Range(longer)
        /\ \A x : x \in Range(longer) => x = m \/ x \in Range(queue[s])
        /\ longer # << >>
    <2> DEFINE q == queue[s]
    <2>1. q \in Seq(Message)
      BY <1>1, TasksTyped
    <2> HIDE DEF q
    <2>2. /\ Append(q, m) \in Seq(Message) /\ Len(Append(q, m)) = Len(q) + 1 /\ Append(q, m) # << >>
          /\ DOMAIN q = 1 .. Len(q) /\ DOMAIN Append(q, m) = 1 .. Len(q) + 1
          /\ Append(q, m)[Len(q) + 1] = m /\ \A i \in 1 .. Len(q) : Append(q, m)[i] = q[i]
      BY <2>1
    <2>3. Len(q) + 1 \in DOMAIN Append(q, m) /\ \A i \in DOMAIN q : i \in DOMAIN Append(q, m)
          /\ \A j \in DOMAIN Append(q, m) : j = Len(q) + 1 \/ j \in DOMAIN q
      BY <2>1, <2>2
    <2>4. /\ m \in Range(Append(q, m)) /\ \A x : x \in Range(q) => x \in Range(Append(q, m))
          /\ \A x : x \in Range(Append(q, m)) => x = m \/ x \in Range(q)
      BY <2>2, <2>3 DEF Range
    <2>5. QED BY <2>1, <2>2, <2>4 DEF q
  <1> HIDE DEF longer
  <1>5. /\ w \in Worker /\ w # "none" /\ (w = "handling" <=> worker[s] = "handling")
        /\ (w = "slot" <=> worker[s] = "slot")
        /\ (w \in {"slot", "handling", "reporting"} <=> worker[s] \in {"slot", "handling", "reporting"})
    BY <1>1, TasksTyped DEF Worker
  <1> HIDE DEF w, s
  <1>6. /\ queue' \in [Session -> Seq(Message)] /\ queue'[s] = longer
        /\ \A t \in Session \ {s} : queue'[t] = queue[t] /\ worker'[t] = worker[t]
        /\ worker' \in [Session -> Worker] /\ worker'[s] = w
    BY <1>1, <1>2, <1>4, <1>5, TasksTyped
  <1>7. free' \in 0 .. MaxSessions /\ free' + Cardinality(Handling') = MaxSessions
    <2>1. free' >= 0 /\ free' = free + (IF worker[s] = "handling" THEN 1 ELSE 0)
                                    - (IF w = "handling" THEN 1 ELSE 0)
      BY <1>2, <1>5, HandlingType
    <2>2. QED BY <1>1, <1>2, <1>5, <2>1, SlotsAddUp
  <1>8. RouterTypeOK'
    <2>1. \A t \in Session : Len(queue'[t]) <= QueueSize
      <3>1. ASSUME NEW t \in Session PROVE Len(queue'[t]) <= QueueSize
        <4>1. CASE t = s
          <5>1. Len(queue[s]) \in Nat
            BY <1>4
          <5>2. QED BY <4>1, <5>1, <1>2, <1>4, <1>6, TasksTyped
        <4>2. CASE t # s
          BY <4>2, <1>6, TasksTyped
        <4>3. QED BY <4>1, <4>2
      <3>2. QED BY <3>1
    <2>2. submits' \in 0 .. MaxSubmits
      BY <1>2, Typed
    <2>3. /\ phase' \in {"up", "closing", "closed"} /\ msg' \in [Session -> Message \cup {NoMessage}]
          /\ answering' \in [Message -> 0 .. MaxSubmits] /\ dropped' \subseteq Message /\ died' \subseteq Session
      BY <1>2 DEF RouterInv, RouterTypeOK
    <2>4. QED BY <2>1, <2>2, <2>3, <1>3, <1>6, <1>7 DEF RouterTypeOK, Handling
  <1>9. InPlace'
    <2>1. \A t \in Session : \A x \in Range(queue'[t]) : SessionOf[x] = t
      BY <1>4, <1>6, TasksTyped DEF s
    <2>2. \A t \in Session :
            /\ msg'[t] # NoMessage => SessionOf[msg'[t]] = t
            /\ worker'[t] \in {"slot", "handling", "reporting"} <=> msg'[t] # NoMessage
      <3>1. ASSUME NEW t \in Session
            PROVE  worker'[t] \in {"slot", "handling", "reporting"} <=> msg'[t] # NoMessage
        <4>1. CASE t = s
          BY <4>1, <1>2, <1>5, <1>6, TasksTyped
        <4>2. CASE t # s
          BY <4>2, <1>2, <1>6, TasksTyped
        <4>3. QED BY <4>1, <4>2
      <3>2. QED BY <3>1, <1>2, TasksTyped
    <2>3. \A x \in Message : answering'[x] <= submits'
      BY <1>2, Typed
    <2>4. QED BY <2>1, <2>2, <2>3 DEF InPlace
  <1>10. ProcessingIsHeld'
    <2> SUFFICES ASSUME NEW x \in Message, inbox'.status[x] = "processing", x \notin dropped'
                 PROVE  \/ answering[x] > 0
                        \/ \E t \in Session : x \in Range(queue'[t]) \/ msg[t] = x
      BY <1>2 DEF ProcessingIsHeld, Held
    <2>1. CASE x = m
      BY <2>1, <1>1, <1>4, <1>6
    <2>2. CASE x # m
      <3>1. inbox.status[x] = "processing" /\ x \notin dropped
        BY <2>2, <1>2, <1>3
      <3>2. \A t \in Session : x \in Range(queue[t]) => x \in Range(queue'[t])
        BY <1>4, <1>6
      <3>3. QED BY <3>1, <3>2 DEF RouterInv, ProcessingIsHeld, Held
    <2>3. QED BY <2>1, <2>2
  <1>11. QueueServed'
    <2>1. ASSUME NEW t \in Session, queue'[t] # << >> PROVE worker'[t] # "none" \/ t \in died'
      <3>1. CASE t = s
        BY <3>1, <1>5, <1>6
      <3>2. CASE t # s
        BY <2>1, <3>2, <1>2, <1>6 DEF RouterInv, QueueServed
      <3>3. QED BY <3>1, <3>2
    <2>2. QED BY <2>1 DEF QueueServed
  <1>12. EffectsBounded'
    <2>1. ASSUME NEW x \in Message
          PROVE  Due(x)' + excess'[x] + Can(inbox', x) <= Due(x) + excess[x] + Can(inbox, x)
      <3>1. Copies(x) = Times(queue[SessionOf[x]], x) /\ Copies(x)' = Times(queue'[SessionOf[x]], x)
        BY DEF Copies, Times
      <3>2. Cardinality(Copies(x)) \in Nat /\ Cardinality(Copies(x)') \in Nat
        BY <3>1, <1>6, TasksTyped, TimesOfQueue
      <3>3. AtSlot(x)' <=> AtSlot(x)
        BY <1>2, <1>5, <1>6, TasksTyped DEF AtSlot
      <3>4. Cardinality(Copies(x)') = Cardinality(Copies(x)) + (IF x = m THEN 1 ELSE 0)
        <4>1. CASE SessionOf[x] # s
          <5>1. Copies(x)' = Copies(x) /\ x # m
            BY <4>1, <1>6, <3>1, TasksTyped DEF s
          <5>2. QED BY <5>1, <3>2
        <4>2. CASE SessionOf[x] = s
          <5>1. Copies(x) = Times(queue[s], x) /\ Copies(x)' = Times(Append(queue[s], m), x)
            BY <4>2, <1>6, <3>1 DEF longer
          <5>2. Cardinality(Times(Append(queue[s], m), x))
                  = Cardinality(Times(queue[s], x)) + (IF x = m THEN 1 ELSE 0)
            BY <1>4, TimesAppend
          <5>3. QED BY <5>1, <5>2
        <4>3. QED BY <4>1, <4>2
      <3>5. CASE x = m
        <4>1. Due(x)' = Due(x) + 1 /\ Due(x) \in Nat
          BY <3>2, <3>3, <3>4, <3>5 DEF Due
        <4>2. excess'[x] + Can(inbox', x) <= excess[x] /\ Can(inbox, x) = 1
          BY <3>5, <1>2, <1>3 DEF Can
        <4>3. excess'[x] \in Int /\ Can(inbox', x) \in Int /\ excess[x] \in Int
          BY <1>3, Typed DEF Can
        <4>4. QED BY <4>1, <4>2, <4>3
      <3>6. CASE x # m
        <4>1. Due(x)' = Due(x) /\ Due(x) \in Nat
          BY <3>2, <3>3, <3>4, <3>6 DEF Due
        <4>2. excess'[x] \in Int /\ Can(inbox', x) \in Int /\ excess[x] \in Int /\ Can(inbox, x) \in Int
          BY <1>3, Typed DEF Can
        <4>3. QED BY <4>1, <4>2, <1>3
      <3>7. QED BY <3>5, <3>6
    <2>2. QED BY <2>1, <1>3, <1>8, EffectsStep DEF RouterTypeOK
  <1>13. QED BY <1>8, <1>9, <1>10, <1>11, <1>12 DEF RouterInv

-----------------------------------------------------------------------------
(* The end: all queues and workers are gone. *)
LEMMA GoneStep ==
  ASSUME RouterInv, phase' \in {"up", "closing", "closed"}, NEW d \in Inbox, Become(d),
         lines' \in Seq(Line), troubles' \in 0 .. MaxTroubles, submits' = submits,
         queue' = [s \in Session |-> << >>], worker' = [s \in Session |-> "none"],
         msg' = [s \in Session |-> NoMessage], free' = MaxSessions,
         answering' \in [Message -> 0 .. MaxSubmits], \A m \in Message : answering'[m] <= submits,
         dropped' \subseteq Message, died' \subseteq Session,
         \A m \in Message : d.status[m] = "processing" => answering'[m] > 0 \/ m \in dropped'
  PROVE  RouterInv'
  <1>1. Change(d, {})
    BY DEF Become
  <1>2. /\ inbox' = d /\ excess' \in [Message -> Int]
        /\ \A x \in Message : excess'[x] + Can(inbox', x) <= excess[x] + Can(inbox, x) + (IF x \in {} THEN 1 ELSE 0)
    BY <1>1, Typed, ChangeIs
  <1>3. Cardinality(Handling') = 0
    <2>1. Handling' = {}
      BY DEF Handling
    <2>2. QED BY <2>1, FS_EmptySet
  <1>4. queue' \in [Session -> Seq(Message)] /\ \A s \in Session : queue'[s] = << >> /\ Len(queue'[s]) = 0
    OBVIOUS
  <1>5. worker' \in [Session -> Worker] /\ msg' \in [Session -> Message \cup {NoMessage}]
        /\ free' \in 0 .. MaxSessions /\ free' + Cardinality(Handling') = MaxSessions /\ QueueSize \in Nat
    BY <1>3, RouterAssumption DEF Worker
  <1>6. RouterTypeOK'
    BY <1>2, <1>4, <1>5, Typed DEF RouterTypeOK, Handling
  <1>7. InPlace'
    BY <1>4, Typed DEF InPlace, Range
  <1>8. ProcessingIsHeld'
    BY <1>2 DEF ProcessingIsHeld, Held
  <1>9. QueueServed'
    BY <1>4 DEF QueueServed
  <1>10. EffectsBounded'
    <2>1. ASSUME NEW x \in Message
          PROVE  Due(x)' + excess'[x] + Can(inbox', x) <= Due(x) + excess[x] + Can(inbox, x)
      <3>1. Due(x)' = 0
        <4>1. Copies(x)' = {} /\ ~ AtSlot(x)'
          BY <1>4, TasksTyped DEF Copies, AtSlot
        <4>2. QED BY <4>1, FS_EmptySet DEF Due
      <3>2. Due(x) \in Nat
        BY TasksTyped, DueType
      <3>3. QED BY <3>1, <3>2, <1>2, Typed DEF Can
    <2>2. QED BY <2>1, <1>2, <1>6, EffectsStep DEF RouterTypeOK
  <1>11. QED BY <1>6, <1>7, <1>8, <1>9, <1>10 DEF RouterInv

LEMMA RestartInv == ASSUME RouterInv, Restart PROVE RouterInv'
  <1>1. Load(lines) \in Inbox
    BY Typed, LoadType DEF RouterTypeOK
  <1>2. /\ phase' = "up" /\ Become(Load(lines)) /\ lines' = lines /\ submits' = submits
        /\ queue' = [s \in Session |-> << >>] /\ worker' = [s \in Session |-> "none"]
        /\ msg' = [s \in Session |-> NoMessage] /\ free' = MaxSessions
        /\ answering' = [m \in Message |-> 0] /\ dropped' = Message /\ died' = {}
    BY DEF Restart
  <1>3. troubles' \in 0 .. MaxTroubles
    BY Typed DEF Restart, RouterTypeOK
  <1>4. lines' \in Seq(Line)
    BY <1>2, Typed DEF RouterTypeOK
  <1>5. answering' \in [Message -> 0 .. MaxSubmits] /\ \A m \in Message : answering'[m] <= submits
    BY <1>2, Typed
  <1>6. QED BY <1>1, <1>2, <1>3, <1>4, <1>5, GoneStep

(* Whoever is queued when close ends is failed, or its coroutine is gone.  *)
LEMMA CloseEndsInv == ASSUME RouterInv, CloseEnds PROVE RouterInv'
  <1> DEFINE failed(n) == [i \in 1 .. n |-> [id |-> Queued[i], status |-> "failed"]]
  <1>1. Queued \in Seq(Message) /\ \A s \in Session : Range(queue[s]) \subseteq Range(Queued)
    BY TasksTyped, QueuedHasAll
  <1>2. PICK n \in 0 .. Len(Queued) :
          /\ IF n = Len(Queued) THEN UNCHANGED troubles ELSE Raise
          /\ Become(MarkAll(inbox, failed(n)))
          /\ Write(failed(n))
          /\ dropped' = dropped \cup Range(SubSeq(Queued, n + 1, Len(Queued))) \cup (Range(msg) \ {NoMessage})
    BY DEF CloseEnds
  <1> DEFINE ls == failed(n)
             d == MarkAll(inbox, ls)
             left == SubSeq(Queued, n + 1, Len(Queued))
  <1>3. n \in Nat /\ \A i \in 1 .. n : i \in 1 .. Len(Queued) /\ Queued[i] \in Message
    BY <1>1
  <1>4. ls \in Seq(Line) /\ Len(ls) = n /\ \A i \in 1 .. n : ls[i].id = Queued[i] /\ ls[i].status = "failed"
    BY <1>3 DEF Line, InboxStatus
  <1>5. left \in Seq(Message) /\ DOMAIN left = 1 .. Len(Queued) - n
        /\ \A i \in 1 .. Len(Queued) - n : left[i] = Queued[n + i]
    BY <1>1, <1>3
  <1> HIDE DEF failed, ls, left
  <1>6. d \in Inbox
    BY <1>4, Typed, MarkAllType DEF RouterTypeOK
  <1>7. troubles' \in 0 .. MaxTroubles
    BY <1>2, Typed DEF Raise, RouterTypeOK
  <1>8. lines' \in Seq(Line)
    BY <1>2, <1>4, Typed, WriteType DEF RouterTypeOK, ls
  <1>9. dropped' = dropped \cup Range(left) \cup (Range(msg) \ {NoMessage})
    BY <1>2 DEF left
  <1>10. dropped' \subseteq Message
    <2>1. Range(left) \subseteq Message
      BY <1>5 DEF Range
    <2>2. Range(msg) \ {NoMessage} \subseteq Message
      BY TasksTyped DEF Range
    <2>3. dropped \subseteq Message
      BY Typed DEF RouterTypeOK
    <2>4. QED BY <1>9, <2>1, <2>2, <2>3
  <1>11. ASSUME NEW m \in Message, d.status[m] = "processing"
         PROVE  answering[m] > 0 \/ m \in dropped'
    <2>1. inbox.status[m] = "processing" /\ \A i \in 1 .. n : Queued[i] # m
      <3>1. inbox \in Inbox /\ \A i \in 1 .. Len(ls) : ls[i].status = "failed"
        BY <1>4, Typed DEF RouterTypeOK
      <3>2. inbox.status[m] = "processing" /\ \A i \in 1 .. Len(ls) : ls[i].id # m
        BY <3>1, <1>4, <1>11, FailedAre, Zenon DEF d
      <3>3. QED BY <3>2, <1>4
    <2>2. ASSUME NEW s \in Session, m \in Range(queue[s]) PROVE m \in Range(left)
      <3>1. m \in Range(Queued)
        BY <1>1, <2>2
      <3>2. PICK j \in 1 .. Len(Queued) : Queued[j] = m
        BY <3>1, <1>1 DEF Range
      <3>3. j \notin 1 .. n
        BY <2>1, <3>2
      <3>4. Len(Queued) \in Nat
        BY <1>1
      <3>5. j - n \in 1 .. Len(Queued) - n /\ n + (j - n) = j
        BY <3>3, <3>4, <1>3
      <3>6. left[j - n] = m /\ j - n \in DOMAIN left
        BY <3>2, <3>5, <1>5
      <3>7. QED BY <3>6 DEF Range
    <2>3. ASSUME NEW s \in Session, msg[s] = m PROVE m \in Range(msg) \ {NoMessage}
      BY <2>3, TasksTyped DEF Range
    <2>4. Held(m) \/ m \in dropped
      BY <2>1 DEF RouterInv, ProcessingIsHeld
    <2>5. QED BY <2>2, <2>3, <2>4, <1>9 DEF Held
  <1>12. /\ phase' = "closed" /\ queue' = [s \in Session |-> << >>] /\ worker' = [s \in Session |-> "none"]
         /\ msg' = [s \in Session |-> NoMessage] /\ free' = MaxSessions
         /\ answering' = answering /\ died' = died /\ submits' = submits
    BY DEF CloseEnds
  <1>13. answering' \in [Message -> 0 .. MaxSubmits] /\ (\A m \in Message : answering'[m] <= submits)
         /\ died' \subseteq Session
    BY <1>12, Typed DEF RouterTypeOK
  <1>14. Become(d)
    BY <1>2 DEF ls
  <1> HIDE DEF d
  <1>15. QED BY <1>6, <1>7, <1>8, <1>10, <1>11, <1>12, <1>13, <1>14, GoneStep

-----------------------------------------------------------------------------
LEMMA InitInv == ASSUME Init PROVE RouterInv
  <1>1. /\ MaxSessions \in Nat /\ QueueSize \in Nat /\ MaxSubmits \in Nat /\ MaxTroubles \in Nat
        /\ SessionOf \in [Message -> Session] /\ NoMessage \notin Message
    BY RouterAssumption
  <1>2. {s \in Session : worker[s] = "handling"} = {} /\ Cardinality({}) = 0
    BY FS_EmptySet DEF Init
  <1>3. EmptyInbox \in Inbox /\ \A m \in Message : EmptyInbox.status[m] = "none"
    BY DEF EmptyInbox, Inbox, InboxStatus
  <1>4. queue \in [Session -> Seq(Message)] /\ \A s \in Session : queue[s] = << >> /\ Len(queue[s]) = 0
    BY DEF Init
  <1>5. RouterTypeOK
    <2>1. phase \in {"up", "closing", "closed"} /\ inbox \in Inbox /\ lines \in Seq(Line)
      BY <1>3 DEF Init
    <2>2. \A s \in Session : Len(queue[s]) <= QueueSize
      BY <1>1, <1>4
    <2>3. worker \in [Session -> Worker] /\ msg \in [Session -> Message \cup {NoMessage}]
      BY DEF Init, Worker
    <2>4. /\ free \in 0 .. MaxSessions
          /\ free + Cardinality({s \in Session : worker[s] = "handling"}) = MaxSessions
      <3>1. free = MaxSessions
        BY DEF Init
      <3>2. Cardinality({s \in Session : worker[s] = "handling"}) = 0
        BY <1>2
      <3>3. QED BY <3>1, <3>2, <1>1
    <2>5. /\ answering \in [Message -> 0 .. MaxSubmits] /\ excess \in [Message -> Int]
          /\ dropped \subseteq Message /\ died \subseteq Session
          /\ submits \in 0 .. MaxSubmits /\ troubles \in 0 .. MaxTroubles
      BY <1>1 DEF Init
    <2>6. QED BY <1>4, <2>1, <2>2, <2>3, <2>4, <2>5 DEF RouterTypeOK
  <1>6. InPlace
    BY <1>1, <1>4 DEF Init, InPlace, Range
  <1>7. ProcessingIsHeld
    <2>1. \A m \in Message : inbox.status[m] = "none"
      BY <1>3 DEF Init
    <2>2. QED BY <2>1 DEF ProcessingIsHeld
  <1>8. QueueServed
    BY <1>4 DEF QueueServed
  <1>9. EffectsBounded
    <2>1. ASSUME NEW m \in Message PROVE Cardinality(Copies(m)) = 0 /\ ~ AtSlot(m) /\ excess[m] = 0
      <3>1. Copies(m) = {}
        BY <1>1, <1>4 DEF Copies
      <3>2. QED BY <3>1, <1>1, <1>2 DEF Init, AtSlot
    <2>2. QED BY <2>1 DEF EffectsBounded
  <1>10. QED BY <1>5, <1>6, <1>7, <1>8, <1>9 DEF RouterInv

LEMMA NextInv == RouterInv /\ [Next]_vars => RouterInv'
  <1> SUFFICES ASSUME RouterInv, [Next]_vars PROVE RouterInv'
    OBVIOUS
  <1>1. ASSUME NEW m \in Message, Serve(m) PROVE RouterInv'
    BY <1>1, SubmitRaisesInv, SubmitCommandInv, SubmitFullInv, SubmitTaskInv DEF Serve
  <1>2. ASSUME NEW s \in Session, Work(s) PROVE RouterInv'
    BY <1>2, TakeInv, AcquireInv, HandledInv, HandleRaisesInv, ReportRaisesInv DEF Work
  <1>3. QED
    BY <1>1, <1>2, AnsweredInv, AgeInv, CloseInv, CloseEndsInv, RestartInv DEF Next

(* RouterInv holds in every state of the router: a message the inbox has   *)
(* under processing, so that redeliveries are refused, is queued or in the *)
(* hands of a coroutine unless one raised or the process stopped; slots,   *)
(* queues and replies stay within their bounds (router.py 113-199,         *)
(* dedupe.py 39-98).                                                       *)
THEOREM RouterInvariant == Spec => []RouterInv
  BY InitInv, NextInv, PTL DEF Spec

(* No queue is stranded: while messages are queued their worker lives,     *)
(* unless an exception ended it and no later message has replaced it       *)
(* (router.py 162-199).                                                    *)
THEOREM NoQueueIsStranded == Spec => []QueueServed
  <1>1. RouterInv => QueueServed
    BY DEF RouterInv
  <1>2. QED BY <1>1, RouterInvariant, PTL

(* A message takes effect again only if it became claimable again in       *)
(* between - stale, failed, or forgotten: how often it took effect, is     *)
(* queued, waits for a slot or can be claimed is bounded together, and no  *)
(* step of any conversation, no outage and no restart adds to it           *)
(* (router.py 113-199, dedupe.py 39-98).                                   *)
THEOREM DuplicatesAreSuppressed == Spec => []BegunOnlyWhenReleased
  <1>1. ASSUME RouterInv, NEW m \in Message PROVE excess[m] <= 1
    <2>1. Cardinality(Copies(m)) \in Nat /\ excess[m] \in Int
      BY <1>1, TasksTyped, Typed, DueType
    <2>2. excess[m] + Cardinality(Copies(m)) + (IF AtSlot(m) THEN 1 ELSE 0)
            + (IF Claimable(inbox, m) THEN 1 ELSE 0) <= 1
      BY <1>1 DEF RouterInv, EffectsBounded
    <2>3. QED BY <2>1, <2>2
  <1>2. RouterInv => BegunOnlyWhenReleased
    BY <1>1 DEF BegunOnlyWhenReleased
  <1>3. QED BY <1>2, RouterInvariant, PTL
=============================================================================
