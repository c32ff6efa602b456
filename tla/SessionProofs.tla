---------------------------- MODULE SessionProofs ----------------------------
(***************************************************************************)
(* One session for any calls, any length of its history and any number of  *)
(* deaths and exceptions: SessionInv is an inductive invariant of Spec,    *)
(* and from it follow that requests stay valid, that the journal can       *)
(* always be recovered, and that memory is what a restart would give.      *)
(*                                                                         *)
(* The proof is about lists of messages first: which rounds are open in a  *)
(* list, and what an append, a prefix, leaving out a round and a restart's *)
(* repairs do to them; then about memory and journal, of values; and at    *)
(* last about the steps.                                                   *)
(***************************************************************************)
EXTENDS Session, SequenceTheorems, FiniteSetTheorems, WellFoundedInduction, TLAPS

-----------------------------------------------------------------------------
(* Sequences.                                                              *)

(* Numbers: induction, and the least of a set.                             *)
LEMMA SetInduction ==
  ASSUME NEW P, 0 \in P, \A n \in Nat : n \in P => n + 1 \in P
  PROVE  \A n \in Nat : n \in P
  <1> SUFFICES ASSUME NEW k \in Nat, k \notin P PROVE FALSE
    OBVIOUS
  <1> DEFINE missing == {n \in Nat : n \notin P}
  <1>1. PICK n \in missing : \A m \in missing : ~(<<m, n>> \in OpToRel(<, Nat))
    <2>1. missing \subseteq Nat /\ missing # {}
      OBVIOUS
    <2> HIDE DEF missing
    <2>2. QED BY <2>1, WFMin, NatLessThanWellFounded, Zenon
  <1>2. n # 0 /\ n \in Nat
    BY <1>1
  <1>3. n - 1 \in Nat /\ n - 1 < n /\ (n - 1) + 1 = n
    BY <1>2
  <1>4. <<n - 1, n>> \in OpToRel(<, Nat)
    BY <1>2, <1>3 DEF OpToRel
  <1>5. n - 1 \in P
    BY <1>1, <1>3, <1>4
  <1>6. QED BY <1>1, <1>3, <1>5

(* A set of numbers has a least one.                                       *)
LEMMA LeastOf ==
  ASSUME NEW S \in SUBSET Nat, S # {}
  PROVE  \E n \in S : \A x \in S : n <= x
  <1>1. PICK n \in S : \A m \in S : ~(<<m, n>> \in OpToRel(<, Nat))
    BY WFMin, NatLessThanWellFounded, Zenon
  <1>2. \A x \in S : n <= x
    <2> SUFFICES ASSUME NEW x \in S, ~(n <= x) PROVE FALSE
      OBVIOUS
    <2>1. <<x, n>> \in OpToRel(<, Nat)
      BY DEF OpToRel
    <2>2. QED BY <1>1, <2>1
  <1>3. QED BY <1>2

(* Sequences: flattening, one member at a time.                            *)
LEMMA AppendIs ==
  ASSUME NEW S, NEW s \in Seq(S), NEW e \in S
  PROVE  /\ Append(s, e) \in Seq(S) /\ Len(Append(s, e)) = Len(s) + 1 /\ Len(s) \in Nat
         /\ DOMAIN Append(s, e) = DOMAIN s \cup {Len(s) + 1} /\ Len(s) + 1 \notin DOMAIN s
         /\ \A i \in DOMAIN s : Append(s, e)[i] = s[i]
         /\ Append(s, e)[Len(s) + 1] = e
         /\ Append(s, e) = s \o <<e>>
  <1>1. Append(s, e) = s \o <<e>>
    BY AppendIsConcat
  <1>2. QED BY <1>1

(* What a concatenation is made of.                                        *)
LEMMA ConcatIs ==
  ASSUME NEW S, NEW s \in Seq(S), NEW t \in Seq(S)
  PROVE  /\ s \o t \in Seq(S) /\ Len(s \o t) = Len(s) + Len(t)
         /\ Len(s) \in Nat /\ Len(t) \in Nat
         /\ \A i \in 1 .. Len(s) : (s \o t)[i] = s[i]
         /\ \A i \in 1 .. Len(t) : (s \o t)[Len(s) + i] = t[i]
  <1>1. /\ s \o t \in Seq(S) /\ Len(s \o t) = Len(s) + Len(t)
        /\ \A i \in 1 .. Len(s) + Len(t) : (s \o t)[i] = IF i <= Len(s) THEN s[i] ELSE t[i - Len(s)]
    BY ConcatProperties, Zenon
  <1>2. Len(s) \in Nat /\ Len(t) \in Nat
    BY LenProperties
  <1>3. ASSUME NEW i \in 1 .. Len(s) PROVE (s \o t)[i] = s[i]
    <2>1. i \in 1 .. Len(s) + Len(t) /\ i <= Len(s)
      BY <1>2
    <2>2. QED BY <1>1, <2>1
  <1>4. ASSUME NEW i \in 1 .. Len(t) PROVE (s \o t)[Len(s) + i] = t[i]
    <2>1. Len(s) + i \in 1 .. Len(s) + Len(t) /\ ~(Len(s) + i <= Len(s)) /\ (Len(s) + i) - Len(s) = i
      BY <1>2
    <2>2. QED BY <1>1, <2>1
  <1>5. QED BY <1>1, <1>2, <1>3, <1>4

(* What is left of a sequence after its first n members. *)
LEMMA RestIs ==
  ASSUME NEW S, NEW s \in Seq(S), NEW n \in 0 .. Len(s)
  PROVE  /\ SubSeq(s, n + 1, Len(s)) \in Seq(S)
         /\ Len(SubSeq(s, n + 1, Len(s))) = Len(s) - n
         /\ \A i \in 1 .. Len(s) - n : SubSeq(s, n + 1, Len(s))[i] = s[n + i]
         /\ SubSeq(s, n + 1, Len(s)) = << >> <=> n = Len(s)
  <1> DEFINE t == SubSeq(s, n + 1, Len(s))
             l == Len(s)
  <1>1. l \in Nat /\ n + 1 \in Int /\ l \in Int /\ n \in 0 .. l /\ \A i \in n + 1 .. l : s[i] \in S
    OBVIOUS
  <1>2. /\ t \in Seq(S) /\ Len(t) = (IF n + 1 <= l THEN l - (n + 1) + 1 ELSE 0)
        /\ \A i \in 1 .. l - (n + 1) + 1 : t[i] = s[(n + 1) + i - 1]
    BY <1>1, SubSeqProperties
  <1> HIDE DEF t, l
  <1>3. Len(t) = l - n
    BY <1>1, <1>2
  <1>4. ASSUME NEW i \in 1 .. l - n PROVE t[i] = s[n + i]
    <2>1. i \in 1 .. l - (n + 1) + 1 /\ (n + 1) + i - 1 = n + i
      BY <1>1
    <2>2. QED BY <1>2, <2>1
  <1>5. t = << >> <=> Len(t) = 0
    BY <1>2
  <1>6. l - n = 0 <=> n = l
    BY <1>1
  <1>7. QED BY <1>2, <1>3, <1>4, <1>5, <1>6 DEF t, l

(* A sequence is empty or one longer than another. *)
LEMMA LastOff ==
  ASSUME NEW S, NEW n \in Nat, NEW s \in Seq(S), Len(s) = n + 1
  PROVE  \E t \in Seq(S), e \in S : s = Append(t, e) /\ Len(t) = n
  <1>1. s # << >>
    OBVIOUS
  <1>2. PICK t \in Seq(S), e \in S : s = Append(t, e)
    BY <1>1, SequenceEmptyOrAppend
  <1>3. Len(t) \in Nat /\ Len(s) = Len(t) + 1
    BY <1>2, AppendIs
  <1>4. QED BY <1>2, <1>3

(* A fold over a sequence runs through its partial results: how            *)
(* FlattenSeq, a fold of concatenation, is computed.                       *)
LEMMA FlatSteps ==
  ASSUME NEW T, \A x, y \in T : x \o y \in T, NEW ss \in Seq(T), ss # << >>
  PROVE  \E g \in [1 .. Len(ss) -> T] :
           /\ g[1] = ss[1]
           /\ \A i \in 2 .. Len(ss) : g[i] = g[i - 1] \o ss[i]
           /\ FlattenSeq(ss) = g[Len(ss)]
  <1> DEFINE k == Len(ss)
             Is(g, n) == /\ g \in [1 .. n -> T] /\ g[1] = ss[1]
                         /\ \A i \in 2 .. n : g[i] = g[i - 1] \o ss[i]
             P == {n \in Nat : n + 1 <= k => \E g : Is(g, n + 1)}
             Rec(f) == f = [i \in 1 .. k |-> IF i = 1 THEN ss[i] ELSE f[i - 1] \o ss[i]]
             upTo == CHOOSE f : Rec(f)
  <1>1. k \in Nat /\ k >= 1 /\ \A i \in 1 .. k : ss[i] \in T
    OBVIOUS
  <1> HIDE DEF k
  <1>2. 0 \in P
    <2> DEFINE g == [i \in 1 .. 1 |-> ss[1]]
    <2>1. ss[1] \in T
      BY <1>1
    <2>2. g \in [1 .. 1 -> T] /\ g[1] = ss[1]
      BY <2>1
    <2>3. \A i \in 2 .. 1 : g[i] = g[i - 1] \o ss[i]
      OBVIOUS
    <2>4. Is(g, 1)
      BY <2>2, <2>3
    <2>5. 0 + 1 = 1
      OBVIOUS
    <2> HIDE DEF Is
    <2>6. QED BY <2>4, <2>5
  <1>3. ASSUME NEW n \in Nat, n \in P PROVE n + 1 \in P
    <2> SUFFICES ASSUME n + 2 <= k PROVE \E g : Is(g, n + 2)
      <3>1. (n + 1) + 1 = n + 2 /\ n + 1 \in Nat
        OBVIOUS
      <3> HIDE DEF Is
      <3>2. QED BY <3>1
    <2>1. PICK g : Is(g, n + 1)
      <3>1. n + 1 <= k
        BY <1>1
      <3> HIDE DEF Is
      <3>2. QED BY <1>3, <3>1
    <2> DEFINE h == [i \in 1 .. n + 2 |-> IF i \in 1 .. n + 1 THEN g[i] ELSE g[n + 1] \o ss[n + 2]]
    <2>2. g[n + 1] \in T /\ ss[n + 2] \in T
      BY <1>1, <2>1
    <2>3. g[n + 1] \o ss[n + 2] \in T
      BY <2>2
    <2>4. h \in [1 .. n + 2 -> T] /\ h[1] = ss[1]
      BY <2>1, <2>3
    <2>5. ASSUME NEW i \in 2 .. n + 2 PROVE h[i] = h[i - 1] \o ss[i]
      <3>1. CASE i \in 2 .. n + 1
        <4>1. i \in 1 .. n + 1 /\ i - 1 \in 1 .. n + 1 /\ i \in 1 .. n + 2 /\ i - 1 \in 1 .. n + 2
          BY <3>1
        <4>2. h[i] = g[i] /\ h[i - 1] = g[i - 1]
          BY <4>1
        <4>3. QED BY <2>1, <3>1, <4>2
      <3>2. CASE i = n + 2
        <4>1. /\ i \notin 1 .. n + 1 /\ i \in 1 .. n + 2 /\ i - 1 = n + 1
              /\ n + 1 \in 1 .. n + 2 /\ n + 1 \in 1 .. n + 1
          BY <3>2
        <4>2. h[i] = g[n + 1] \o ss[n + 2] /\ h[n + 1] = g[n + 1]
          BY <4>1, Zenon
        <4>3. QED BY <3>2, <4>1, <4>2
      <3>3. i \in 2 .. n + 1 \/ i = n + 2
        OBVIOUS
      <3>4. QED BY <3>1, <3>2, <3>3, Zenon
    <2>6. Is(h, n + 2)
      BY <2>4, <2>5
    <2> HIDE DEF Is
    <2>7. QED BY <2>6
  <1>4. k - 1 \in P
    <2> HIDE DEF P
    <2>1. \A n \in Nat : n \in P
      BY <1>2, <1>3, SetInduction, Zenon
    <2>2. QED BY <1>1, <2>1
  <1>5. PICK g : Is(g, k)
    <2> HIDE DEF Is
    <2>1. (k - 1) + 1 = k
      BY <1>1
    <2>2. QED BY <1>4, <2>1
  <1>6. Rec(g)
    <2>1. ASSUME NEW i \in 1 .. k PROVE g[i] = IF i = 1 THEN ss[i] ELSE g[i - 1] \o ss[i]
      <3>1. CASE i = 1
        BY <1>5, <3>1
      <3>2. CASE i # 1
        <4>1. i \in 2 .. k
          BY <1>1, <3>2
        <4>2. g[i] = g[i - 1] \o ss[i]
          BY <1>5, <4>1, Zenon
        <4>3. QED BY <3>2, <4>2, Zenon
      <3>3. QED BY <3>1, <3>2
    <2>2. g = [i \in 1 .. k |-> g[i]]
      BY <1>5
    <2>3. QED BY <2>1, <2>2
  <1>7. Rec(upTo)
    <2> HIDE DEF Rec
    <2>1. QED BY <1>6
  <1>8. FlattenSeq(ss) = upTo[k]
    BY <1>1 DEF FlattenSeq, k
  <1> HIDE DEF upTo
  <1>9. upTo[1] = ss[1] /\ \A i \in 2 .. k : upTo[i] = upTo[i - 1] \o ss[i]
    <2>1. \A i \in 1 .. k : upTo[i] = IF i = 1 THEN ss[i] ELSE upTo[i - 1] \o ss[i]
      BY <1>7
    <2> HIDE DEF Rec
    <2>2. 1 \in 1 .. k /\ \A i \in 2 .. k : i \in 1 .. k /\ i # 1
      BY <1>1
    <2>3. QED BY <2>1, <2>2
  <1> HIDE DEF Rec
  <1> DEFINE Q == {n \in Nat : n + 1 <= k => upTo[n + 1] = g[n + 1]}
  <1>10. 0 \in Q
    BY <1>5, <1>9
  <1>11. ASSUME NEW n \in Nat, n \in Q PROVE n + 1 \in Q
    <2> SUFFICES ASSUME n + 2 <= k PROVE upTo[n + 2] = g[n + 2]
      OBVIOUS
    <2>1. upTo[n + 1] = g[n + 1] /\ n + 2 \in 2 .. k /\ (n + 2) - 1 = n + 1
      BY <1>1, <1>11
    <2>2. QED BY <1>5, <1>9, <2>1
  <1>12. k - 1 \in Q
    <2> HIDE DEF Q
    <2>1. \A n \in Nat : n \in Q
      BY <1>10, <1>11, SetInduction, Zenon
    <2>2. QED BY <1>1, <2>1
  <1>13. upTo[k] = g[k]
    BY <1>1, <1>12
  <1>14. QED BY <1>5, <1>8, <1>13 DEF k

(* The concatenation of two sequences over S is one.                       *)
LEMMA SeqClosed == ASSUME NEW S PROVE \A x, y \in Seq(S) : x \o y \in Seq(S)
  BY ConcatProperties, Zenon

(* Nothing flattened is nothing.                                           *)
LEMMA FlatEmpty == FlattenSeq(<< >>) = << >>
  BY DEF FlattenSeq

(* Flattening gives a sequence over the same set.                          *)
LEMMA FlatType ==
  ASSUME NEW S, NEW ss \in Seq(Seq(S))
  PROVE  FlattenSeq(ss) \in Seq(S)
  <1> DEFINE T == Seq(S)
  <1>1. << >> \in T /\ \A x, y \in T : x \o y \in T
    BY SeqClosed
  <1>2. ss \in Seq(T)
    OBVIOUS
  <1> HIDE DEF T
  <1>3. FlattenSeq(ss) \in T
    <2>1. CASE ss = << >>
      BY <1>1, <2>1, FlatEmpty
    <2>2. CASE ss # << >>
      <3>1. PICK g \in [1 .. Len(ss) -> T] : FlattenSeq(ss) = g[Len(ss)]
        BY <1>1, <1>2, <2>2, FlatSteps, Zenon
      <3>2. Len(ss) \in 1 .. Len(ss)
        BY <1>2, <2>2
      <3>3. QED BY <3>1, <3>2
    <2>3. QED BY <2>1, <2>2
  <1>4. QED BY <1>3 DEF T

(* One more sequence to flatten comes at the end.                          *)
LEMMA FlatAppend ==
  ASSUME NEW S, NEW ss \in Seq(Seq(S)), NEW x \in Seq(S)
  PROVE  FlattenSeq(Append(ss, x)) = FlattenSeq(ss) \o x
  <1> DEFINE T == Seq(S)
             a == Append(ss, x)
             k == Len(ss)
  <1>1. x \in T /\ << >> \o x = x /\ \A y, z \in T : y \o z \in T
    BY SeqClosed, ConcatEmptySeq
  <1>2. ss \in Seq(T)
    OBVIOUS
  <1> HIDE DEF T
  <1>3. /\ a \in Seq(T) /\ Len(a) = k + 1 /\ k \in Nat /\ a # << >>
        /\ \A i \in 1 .. k : a[i] = ss[i]
        /\ a[k + 1] = x
    <2>1. x \in T
      BY <1>1
    <2>2. k \in Nat
      BY <1>2, LenProperties
    <2>3. a \in Seq(T) /\ a # << >> /\ Len(a) = k + 1 /\ a[k + 1] = x
      BY <1>2, <2>1, AppendProperties
    <2>4. \A i \in 1 .. k : a[i] = ss[i]
      BY <1>2, <2>1, AppendProperties
    <2>5. QED BY <2>2, <2>3, <2>4
  <1>4. CASE ss = << >>
    <2>1. k = 0
      BY <1>4
    <2> HIDE DEF a, k
    <2>2. PICK h \in [1 .. Len(a) -> T] :
            h[1] = a[1] /\ FlattenSeq(a) = h[Len(a)]
      BY <1>1, <1>3, FlatSteps, Zenon
    <2>3. FlattenSeq(a) = x
      BY <1>3, <2>1, <2>2
    <2>4. QED BY <1>1, <1>4, <2>3, FlatEmpty DEF a
  <1>5. CASE ss # << >>
    <2>1. PICK g \in [1 .. k -> T] :
            /\ g[1] = ss[1] /\ \A i \in 2 .. k : g[i] = g[i - 1] \o ss[i]
            /\ FlattenSeq(ss) = g[k]
      BY <1>1, <1>2, <1>5, FlatSteps, Zenon
    <2>2. k >= 1
      BY <1>2, <1>5
    <2> HIDE DEF a, k
    <2>3. PICK h \in [1 .. k + 1 -> T] :
            /\ h[1] = a[1] /\ \A i \in 2 .. k + 1 : h[i] = h[i - 1] \o a[i]
            /\ FlattenSeq(a) = h[k + 1]
      <3>1. \E h \in [1 .. Len(a) -> T] :
              /\ h[1] = a[1] /\ \A i \in 2 .. Len(a) : h[i] = h[i - 1] \o a[i]
              /\ FlattenSeq(a) = h[Len(a)]
        BY <1>1, <1>3, FlatSteps, Zenon
      <3>2. QED BY <1>3, <3>1
    <2> DEFINE P == {n \in Nat : n + 1 <= k => h[n + 1] = g[n + 1]}
    <2>4. 0 \in P
      BY <1>3, <2>1, <2>2, <2>3
    <2>5. ASSUME NEW n \in Nat, n \in P PROVE n + 1 \in P
      <3> SUFFICES ASSUME n + 2 <= k PROVE h[n + 2] = g[n + 2]
        OBVIOUS
      <3>1. /\ h[n + 1] = g[n + 1] /\ n + 2 \in 2 .. k /\ n + 2 \in 2 .. k + 1 /\ n + 2 \in 1 .. k
            /\ (n + 2) - 1 = n + 1
        BY <1>3, <2>5
      <3>2. h[n + 2] = h[n + 1] \o a[n + 2]
        BY <2>3, <3>1
      <3>3. g[n + 2] = g[n + 1] \o ss[n + 2]
        BY <2>1, <3>1
      <3>4. a[n + 2] = ss[n + 2]
        BY <1>3, <3>1
      <3>5. QED BY <3>1, <3>2, <3>3, <3>4, Zenon
    <2>6. k - 1 \in P
      <3> HIDE DEF P
      <3>1. \A n \in Nat : n \in P
        BY <2>4, <2>5, SetInduction, Zenon
      <3>2. QED BY <1>3, <2>2, <3>1
    <2>7. h[k] = g[k]
      BY <1>3, <2>2, <2>6
    <2>8. k + 1 \in 2 .. k + 1 /\ (k + 1) - 1 = k
      BY <1>3, <2>2
    <2>9. h[k + 1] = h[k] \o x
      BY <1>3, <2>3, <2>8
    <2>10. QED BY <2>1, <2>3, <2>7, <2>9 DEF a
  <1>6. QED BY <1>4, <1>5

(* Flattening distributes over concatenation.                              *)
LEMMA FlatConcat ==
  ASSUME NEW S, NEW ss \in Seq(Seq(S)), NEW tt \in Seq(Seq(S))
  PROVE  FlattenSeq(ss \o tt) = FlattenSeq(ss) \o FlattenSeq(tt)
  <1> DEFINE T == Seq(S)
             P == {n \in Nat : \A t \in Seq(T) :
                     Len(t) = n => FlattenSeq(ss \o t) = FlattenSeq(ss) \o FlattenSeq(t)}
  <1>1. /\ \A y \in T : y \o << >> = y
        /\ \A y, z \in T : y \o z \in T
        /\ \A x, y, z \in T : (x \o y) \o z = x \o (y \o z)
    <2>1. \A y \in T : y \o << >> = y
      BY ConcatEmptySeq
    <2>2. ASSUME NEW x \in T, NEW y \in T, NEW z \in T
          PROVE  (x \o y) \o z = x \o (y \o z)
      <3> HIDE DEF P
      <3>1. x \in Seq(S) /\ y \in Seq(S) /\ z \in Seq(S)
        OBVIOUS
      <3> HIDE DEF T
      <3>2. QED BY <3>1, ConcatAssociative, SMTT(40)
    <2>3. QED BY <2>1, <2>2, SeqClosed, Zenon
  <1>2. \A t \in Seq(T) : FlattenSeq(t) \in T /\ \A x \in T : FlattenSeq(Append(t, x)) = FlattenSeq(t) \o x
    BY FlatType, FlatAppend, Zenon
  <1>3. ss \in Seq(T) /\ tt \in Seq(T)
    OBVIOUS
  <1> HIDE DEF T
  <1>4. 0 \in P
    <2> SUFFICES ASSUME NEW t \in Seq(T), Len(t) = 0
                 PROVE  FlattenSeq(ss \o t) = FlattenSeq(ss) \o FlattenSeq(t)
      OBVIOUS
    <2>1. t = << >>
      OBVIOUS
    <2>2. ss \o t = ss /\ FlattenSeq(ss) \o << >> = FlattenSeq(ss)
      BY <1>1, <1>2, <1>3, <2>1, ConcatEmptySeq
    <2>3. QED BY <2>1, <2>2, FlatEmpty
  <1>5. ASSUME NEW n \in Nat, n \in P PROVE n + 1 \in P
    <2> SUFFICES ASSUME NEW t \in Seq(T), Len(t) = n + 1
                 PROVE  FlattenSeq(ss \o t) = FlattenSeq(ss) \o FlattenSeq(t)
      OBVIOUS
    <2>1. PICK u \in Seq(T), x \in T : t = Append(u, x) /\ Len(u) = n
      BY LastOff
    <2>2. ss \o u \in Seq(T) /\ ss \o t = Append(ss \o u, x)
      <3>1. t = u \o <<x>> /\ <<x>> \in Seq(T)
        BY <2>1, AppendIsConcat
      <3>2. (ss \o u) \o <<x>> = ss \o (u \o <<x>>)
        BY <1>3, <3>1, ConcatAssociative
      <3>3. ss \o u \in Seq(T)
        BY <1>3, ConcatProperties
      <3>4. Append(ss \o u, x) = (ss \o u) \o <<x>>
        BY <3>3, AppendIsConcat
      <3>5. QED BY <3>1, <3>2, <3>3, <3>4
    <2>3. FlattenSeq(ss \o u) = FlattenSeq(ss) \o FlattenSeq(u)
      BY <1>5, <2>1
    <2>4. FlattenSeq(t) = FlattenSeq(u) \o x
      BY <1>2, <2>1
    <2>5. FlattenSeq(ss \o t) = FlattenSeq(ss \o u) \o x
      BY <1>2, <2>2
    <2>6. FlattenSeq(ss) \in T /\ FlattenSeq(u) \in T
      BY <1>2, <1>3
    <2>7. (FlattenSeq(ss) \o FlattenSeq(u)) \o x = FlattenSeq(ss) \o (FlattenSeq(u) \o x)
      BY <1>1, <2>6
    <2>8. QED BY <2>3, <2>4, <2>5, <2>7
  <1>6. Len(tt) \in P
    <2>1. Len(tt) \in Nat
      BY <1>3, LenProperties
    <2> HIDE DEF P
    <2>2. \A n \in Nat : n \in P
      BY <1>4, <1>5, SetInduction, Zenon
    <2>3. QED BY <2>1, <2>2
  <1>7. QED BY <1>3, <1>6

(* One sequence flattened is itself.                                       *)
LEMMA FlatOne ==
  ASSUME NEW S, NEW x \in Seq(S)
  PROVE  FlattenSeq(<<x>>) = x
  <1> DEFINE T == Seq(S)
  <1>1. << >> \o x = x /\ x \in T
    BY ConcatEmptySeq
  <1> HIDE DEF T
  <1>2. << >> \in Seq(T) /\ Append(<< >>, x) = <<x>>
    BY <1>1
  <1>3. << >> \in Seq(Seq(S))
    BY <1>2 DEF T
  <1>4. FlattenSeq(Append(<< >>, x)) = FlattenSeq(<< >>) \o x
    BY <1>3, FlatAppend, Zenon
  <1>5. QED BY <1>1, <1>2, <1>4, FlatEmpty

-----------------------------------------------------------------------------
(* Messages and the rounds they make.                                      *)

(* Messages and the rounds they make.                                      *)
LEMMA MessageIs ==
  ASSUME NEW m \in Message
  PROVE  /\ m.calls \in Seq(Call)
         /\ m.role = "tool" => m.calls = << >> /\ m.call \in Call /\ m = Result(m.call)
         /\ m.role # "tool" => m.call = NoCall
         /\ m.calls # << >> => m.role = "assistant" /\ m = ToolCalls(m.calls)
  <1>1. \A s \in SeqOf(Call, MaxReply) : s \in Seq(Call)
    BY SessionAssumption DEF SeqOf
  <1>2. << >> \in Seq(Call)
    OBVIOUS
  <1>3. CASE m \in {User, Text}
    <2>1. m.role # "tool" /\ m.calls = << >> /\ m.call = NoCall
      BY <1>3 DEF User, Text
    <2>2. QED BY <1>2, <2>1
  <1>5. CASE m \in {Result(c) : c \in Call}
    <2>1. PICK c \in Call : m = Result(c)
      BY <1>5
    <2>2. m.role = "tool" /\ m.calls = << >> /\ m.call = c
      BY <2>1 DEF Result
    <2>3. QED BY <1>2, <2>1, <2>2
  <1>4. CASE m \in {ToolCalls(s) : s \in SeqOf(Call, MaxReply)}
    BY <1>1, <1>4 DEF ToolCalls
  <1>6. QED BY <1>3, <1>4, <1>5 DEF Message

(* A result is a tool message without calls.                               *)
LEMMA ResultIs ==
  ASSUME NEW c \in Call
  PROVE  /\ Result(c) \in Message /\ Result(c).role = "tool" /\ Result(c).call = c
         /\ Result(c).calls = << >>
  BY DEF Result, Message

(* A prompt and a text are messages without calls.                         *)
LEMMA PlainIs ==
  /\ User \in Message /\ User.role # "tool" /\ User.calls = << >>
  /\ Text \in Message /\ Text.role # "tool" /\ Text.calls = << >>
  BY DEF User, Text, Message

(* Who calls is not a result. *)
LEMMA CallsOf ==
  ASSUME NEW ms \in Seq(Message), NEW i \in 1 .. Len(ms)
  PROVE  /\ ms[i] \in Message /\ ms[i].calls \in Seq(Call)
         /\ ToSet(ms[i].calls) \subseteq Call
         /\ ms[i].role = "tool" => ToSet(ms[i].calls) = {} /\ ms[i].calls = << >>
  <1>1. ms[i] \in Message
    OBVIOUS
  <1>2. ms[i].calls \in Seq(Call) /\ (ms[i].role = "tool" => ms[i].calls = << >>)
    BY <1>1, MessageIs
  <1>3. \A s \in Seq(Call) : ToSet(s) \subseteq Call /\ (s = << >> => ToSet(s) = {})
    BY DEF ToSet
  <1>4. QED BY <1>1, <1>2, <1>3

(* A round ends somewhere: RoundEnd is well defined.                       *)
LEMMA RoundEndIs ==
  ASSUME NEW ms \in Seq(Message), NEW i \in 1 .. Len(ms)
  PROVE  /\ RoundEnd(ms, i) \in i .. Len(ms)
         /\ \A q \in i + 1 .. RoundEnd(ms, i) : ms[q].role = "tool"
         /\ RoundEnd(ms, i) = Len(ms) \/ ms[RoundEnd(ms, i) + 1].role # "tool"
  <1> DEFINE E == {n \in i .. Len(ms) : n = Len(ms) \/ ms[n + 1].role # "tool"}
             Fits(n) == /\ \A j \in i + 1 .. n : ms[j].role = "tool"
                        /\ n = Len(ms) \/ ms[n + 1].role # "tool"
  <1>1. Len(ms) \in Nat /\ i \in Nat
    OBVIOUS
  <1>2. E \in SUBSET Nat /\ Len(ms) \in E
    BY <1>1
  <1>3. PICK n \in E : \A x \in E : n <= x
    <2> HIDE DEF E
    <2>1. QED BY <1>2, LeastOf
  <1>4. \A j \in i + 1 .. n : ms[j].role = "tool"
    <2> SUFFICES ASSUME NEW j \in i + 1 .. n, ms[j].role # "tool" PROVE FALSE
      OBVIOUS
    <2>1. (j - 1) + 1 = j /\ j - 1 \in i .. Len(ms) /\ ~(n <= j - 1)
      BY <1>1, <1>3
    <2>2. j - 1 \in E
      BY <2>1
    <2>3. QED BY <1>3, <2>1, <2>2
  <1>5. n \in i .. Len(ms) /\ Fits(n)
    BY <1>3, <1>4
  <1>6. RoundEnd(ms, i) = CHOOSE k \in i .. Len(ms) : Fits(k)
    BY DEF RoundEnd
  <1>7. RoundEnd(ms, i) \in i .. Len(ms) /\ Fits(RoundEnd(ms, i))
    <2> HIDE DEF Fits
    <2>1. QED BY <1>5, <1>6
  <1>8. QED BY <1>7

(* There is no other place where a round ends.                             *)
LEMMA RoundEndWhen ==
  ASSUME NEW ms \in Seq(Message), NEW i \in 1 .. Len(ms), NEW n \in i .. Len(ms),
         \A q \in i + 1 .. n : ms[q].role = "tool",
         n = Len(ms) \/ ms[n + 1].role # "tool"
  PROVE  RoundEnd(ms, i) = n
  <1>1. /\ RoundEnd(ms, i) \in i .. Len(ms)
        /\ \A q \in i + 1 .. RoundEnd(ms, i) : ms[q].role = "tool"
        /\ RoundEnd(ms, i) = Len(ms) \/ ms[RoundEnd(ms, i) + 1].role # "tool"
    BY RoundEndIs
  <1> DEFINE e == RoundEnd(ms, i)
  <1> HIDE DEF e
  <1>2. e \in Int /\ n \in Int /\ i \in Int /\ Len(ms) \in Int /\ e <= Len(ms) /\ n <= Len(ms) /\ i <= n /\ i <= e
    BY <1>1 DEF e
  <1>3. ASSUME e < n PROVE FALSE
    <2>1. e + 1 \in i + 1 .. n /\ e # Len(ms)
      BY <1>2, <1>3
    <2>2. QED BY <1>1, <2>1 DEF e
  <1>4. ASSUME n < e PROVE FALSE
    <2>1. n + 1 \in i + 1 .. e /\ n # Len(ms)
      BY <1>2, <1>4
    <2>2. QED BY <1>1, <2>1 DEF e
  <1>5. e = n
    BY <1>2, <1>3, <1>4
  <1>6. QED BY <1>5 DEF e

(* A later message that is no result is past the round. *)
LEMMA RoundsApart ==
  ASSUME NEW ms \in Seq(Message), NEW i \in 1 .. Len(ms), NEW j \in i + 1 .. Len(ms),
         ms[j].role # "tool"
  PROVE  RoundEnd(ms, i) < j
  <1>1. RoundEnd(ms, i) \in i .. Len(ms) /\ \A q \in i + 1 .. RoundEnd(ms, i) : ms[q].role = "tool"
    BY RoundEndIs
  <1>2. QED BY <1>1

(* The results of a round are the messages up to its end.                  *)
LEMMA ResultsAre ==
  ASSUME NEW ms \in Seq(Message), NEW i \in 1 .. Len(ms)
  PROVE  /\ Results(ms, i) \in Seq(Message) /\ Len(Results(ms, i)) = RoundEnd(ms, i) - i
         /\ \A j \in 1 .. RoundEnd(ms, i) - i : Results(ms, i)[j] = ms[i + j]
         /\ {Results(ms, i)[j].call : j \in DOMAIN Results(ms, i)}
               = {ms[q].call : q \in i + 1 .. RoundEnd(ms, i)}
  <1> DEFINE e  == RoundEnd(ms, i)
             rs == SubSeq(ms, i + 1, e)
  <1>1. e \in i .. Len(ms) /\ e \in Int /\ i + 1 \in Int
    BY RoundEndIs
  <1> HIDE DEF e
  <1>2. \A q \in i + 1 .. e : ms[q] \in Message
    BY <1>1
  <1>3. /\ rs \in Seq(Message) /\ Len(rs) = (IF i + 1 <= e THEN e - (i + 1) + 1 ELSE 0)
        /\ \A j \in 1 .. e - (i + 1) + 1 : rs[j] = ms[(i + 1) + j - 1]
    BY <1>1, <1>2, SubSeqProperties
  <1>4. Len(rs) = e - i /\ \A j \in 1 .. e - i : rs[j] = ms[i + j]
    <2>1. Len(rs) = e - i
      BY <1>1, <1>3
    <2>2. ASSUME NEW j \in 1 .. e - i PROVE rs[j] = ms[i + j]
      <3>1. j \in 1 .. e - (i + 1) + 1 /\ (i + 1) + j - 1 = i + j
        BY <1>1
      <3>2. QED BY <1>3, <3>1
    <2>3. QED BY <2>1, <2>2
  <1> HIDE DEF rs
  <1>5. {rs[j].call : j \in DOMAIN rs} = {ms[q].call : q \in i + 1 .. e}
    <2>1. DOMAIN rs = 1 .. e - i
      BY <1>3, <1>4
    <2>2. \A j \in 1 .. e - i : rs[j].call = ms[i + j].call /\ i + j \in i + 1 .. e
      BY <1>1, <1>4
    <2>3. \A q \in i + 1 .. e : q - i \in 1 .. e - i /\ i + (q - i) = q
      BY <1>1
    <2>4. \A q \in i + 1 .. e : rs[q - i].call = ms[q].call
      BY <2>2, <2>3
    <2>5. QED BY <2>1, <2>2, <2>3, <2>4
  <1>6. QED BY <1>3, <1>4, <1>5 DEF Results, rs, e

(* A round is open when one of its calls has no result in it.              *)
LEMMA OpenIs ==
  ASSUME NEW ms \in Seq(Message), NEW i
  PROVE  i \in Open(ms) <=>
           /\ i \in 1 .. Len(ms)
           /\ \E c \in ToSet(ms[i].calls) : \A q \in i + 1 .. RoundEnd(ms, i) : ms[q].call # c
  <1> SUFFICES ASSUME i \in 1 .. Len(ms)
               PROVE  i \in Open(ms) <=>
                        \E c \in ToSet(ms[i].calls) : \A q \in i + 1 .. RoundEnd(ms, i) : ms[q].call # c
    BY DEF Open
  <1>1. Answered(ms, i) <=> ToSet(ms[i].calls) \subseteq {ms[q].call : q \in i + 1 .. RoundEnd(ms, i)}
    BY ResultsAre DEF Answered
  <1>2. ms[i].calls = << >> => ToSet(ms[i].calls) = {}
    BY DEF ToSet
  <1>3. DOMAIN ms = 1 .. Len(ms)
    OBVIOUS
  <1>4. QED BY <1>1, <1>2, <1>3 DEF Open

(* A round that is not open: every call has a result in it. *)
LEMMA NotOpen ==
  ASSUME NEW ms \in Seq(Message), NEW i \in 1 .. Len(ms), i \notin Open(ms),
         NEW c \in ToSet(ms[i].calls)
  PROVE  \E q \in i + 1 .. RoundEnd(ms, i) : ms[q].call = c
  BY OpenIs

(* What a restart drops is the first open round.                           *)
LEMMA FirstOpen ==
  ASSUME NEW ms \in Seq(Message), Open(ms) # {}
  PROVE  \E i \in Open(ms) :
           /\ \A j \in Open(ms) : i <= j
           /\ DropIncompleteRound(ms) = LeaveOut(ms, i)
           /\ i \in 1 .. Len(ms)
  <1>1. Open(ms) \in SUBSET Nat /\ \A i \in Open(ms) : i \in 1 .. Len(ms)
    BY DEF Open
  <1>2. \E i \in Open(ms) : \A j \in Open(ms) : i <= j
    BY <1>1, LeastOf
  <1> DEFINE i == CHOOSE i \in Open(ms) : \A j \in Open(ms) : i <= j
  <1>3. i \in Open(ms) /\ \A j \in Open(ms) : i <= j
    BY <1>2
  <1>4. DropIncompleteRound(ms) = LeaveOut(ms, i)
    BY DEF DropIncompleteRound
  <1> HIDE DEF i
  <1>5. QED BY <1>1, <1>3, <1>4

Tidy(ms) == AskedOnce(ms) /\ AnsweredOnce(ms) /\ Follows(ms)

(* A round ends where it did unless it was at the end and results follow.  *)
LEMMA RoundEndConcat ==
  ASSUME NEW ms \in Seq(Message), NEW more \in Seq(Message), NEW i \in 1 .. Len(ms)
  PROVE  /\ RoundEnd(ms, i) <= RoundEnd(ms \o more, i)
         /\ RoundEnd(ms, i) < Len(ms) => RoundEnd(ms \o more, i) = RoundEnd(ms, i)
         /\ more = << >> \/ more[1].role # "tool" => RoundEnd(ms \o more, i) = RoundEnd(ms, i)
         /\ (\A j \in 1 .. Len(more) : more[j].role = "tool") /\ RoundEnd(ms, i) = Len(ms)
              => RoundEnd(ms \o more, i) = Len(ms) + Len(more)
  <1> DEFINE w == ms \o more
             e == RoundEnd(ms, i)
             f == RoundEnd(w, i)
             n == Len(ms)
             k == Len(more)
  <1>1. /\ w \in Seq(Message) /\ Len(w) = n + k /\ n \in Nat /\ k \in Nat
        /\ \A j \in 1 .. n : w[j] = ms[j]
        /\ \A j \in 1 .. k : w[n + j] = more[j]
    BY ConcatIs
  <1>2. /\ e \in i .. n /\ \A q \in i + 1 .. e : ms[q].role = "tool"
        /\ e = n \/ ms[e + 1].role # "tool"
    BY RoundEndIs
  <1> HIDE DEF w
  <1>3. i \in 1 .. Len(w)
    BY <1>1
  <1>4. /\ f \in i .. Len(w) /\ \A q \in i + 1 .. f : w[q].role = "tool"
        /\ f = Len(w) \/ w[f + 1].role # "tool"
    BY <1>1, <1>3, RoundEndIs
  <1> HIDE DEF e, f, n, k
  <1>5. \A q \in i + 1 .. e : w[q].role = "tool"
    <2>1. \A q \in i + 1 .. e : q \in 1 .. n
      BY <1>1, <1>2
    <2>2. QED BY <1>1, <1>2, <2>1
  <1>6. e <= f
    <2> SUFFICES ASSUME f < e PROVE FALSE
      BY <1>1, <1>2, <1>4
    <2>1. f + 1 \in i + 1 .. e /\ f # Len(w)
      BY <1>1, <1>2, <1>4
    <2>2. QED BY <1>4, <1>5, <2>1
  <1>7. ASSUME e < n PROVE f = e
    <2>1. e \in i .. Len(w) /\ e + 1 \in 1 .. n /\ e # n
      BY <1>1, <1>2, <1>7
    <2>2. w[e + 1].role # "tool"
      BY <1>1, <1>2, <2>1
    <2>3. RoundEnd(w, i) = e
      BY <1>1, <1>3, <1>5, <2>1, <2>2, RoundEndWhen
    <2>4. QED BY <2>3 DEF f
  <1>8. ASSUME more = << >> \/ more[1].role # "tool" PROVE f = e
    <2>1. CASE e < n
      BY <1>7, <2>1
    <2>2. CASE e = n
      <3>1. e \in i .. Len(w)
        BY <1>1, <1>2
      <3>2. e = Len(w) \/ w[e + 1].role # "tool"
        <4>1. CASE more = << >>
          BY <1>1, <2>2, <4>1 DEF k
        <4>2. CASE more # << >> /\ more[1].role # "tool"
          <5>1. 1 \in 1 .. k
            BY <4>2 DEF k
          <5>2. w[n + 1] = more[1]
            BY <1>1, <5>1
          <5>3. QED BY <2>2, <4>2, <5>2
        <4>3. QED BY <1>8, <4>1, <4>2
      <3>3. RoundEnd(w, i) = e
        BY <1>1, <1>3, <1>5, <3>1, <3>2, RoundEndWhen
      <3>4. QED BY <3>3 DEF f
    <2>3. QED BY <1>1, <1>2, <2>1, <2>2
  <1>9. ASSUME \A j \in 1 .. k : more[j].role = "tool", e = n PROVE f = n + k
    <2>1. \A q \in i + 1 .. n + k : w[q].role = "tool"
      <3> SUFFICES ASSUME NEW q \in i + 1 .. n + k PROVE w[q].role = "tool"
        OBVIOUS
      <3>1. CASE q <= n
        BY <1>2, <1>5, <1>9, <3>1
      <3>2. CASE q > n
        <4>1. q - n \in 1 .. k /\ n + (q - n) = q
          BY <1>1, <1>2, <3>2
        <4>2. QED BY <1>1, <1>9, <4>1
      <3>3. QED BY <1>1, <1>2, <3>1, <3>2
    <2>2. n + k \in i .. Len(w)
      BY <1>1, <1>2
    <2>3. RoundEnd(w, i) = n + k
      BY <1>1, <1>3, <2>1, <2>2, RoundEndWhen
    <2>4. QED BY <2>3 DEF f
  <1>10. QED BY <1>6, <1>7, <1>8, <1>9 DEF e, f, n, k, w

(* A list without a round: what is before and what is behind it.           *)
LEMMA LeaveOutIs ==
  ASSUME NEW ms \in Seq(Message), NEW i \in 1 .. Len(ms)
  PROVE  /\ LeaveOut(ms, i) \in Seq(Message)
         /\ Len(LeaveOut(ms, i)) = (i - 1) + (Len(ms) - RoundEnd(ms, i))
         /\ \A j \in 1 .. i - 1 : LeaveOut(ms, i)[j] = ms[j]
         /\ \A j \in 1 .. Len(ms) - RoundEnd(ms, i) :
              LeaveOut(ms, i)[(i - 1) + j] = ms[RoundEnd(ms, i) + j]
  <1> DEFINE e == RoundEnd(ms, i)
             n == Len(ms)
             a == SubSeq(ms, 1, i - 1)
             b == SubSeq(ms, e + 1, n)
  <1>1. e \in i .. n /\ n \in Nat
    BY RoundEndIs
  <1> HIDE DEF e
  <1>2. a \in Seq(Message) /\ Len(a) = i - 1 /\ \A j \in 1 .. i - 1 : a[j] = ms[j]
    BY <1>1
  <1>3. /\ b \in Seq(Message) /\ Len(b) = n - e
        /\ \A j \in 1 .. n - e : b[j] = ms[e + j]
    <2>1. \A q \in e + 1 .. n : ms[q] \in Message
      BY <1>1
    <2>2. e + 1 \in Int /\ n \in Int
      BY <1>1
    <2>3. /\ b \in Seq(Message) /\ Len(b) = (IF e + 1 <= n THEN n - (e + 1) + 1 ELSE 0)
          /\ \A j \in 1 .. n - (e + 1) + 1 : b[j] = ms[(e + 1) + j - 1]
      BY <2>1, <2>2, SubSeqProperties
    <2>4. Len(b) = n - e
      BY <1>1, <2>3
    <2>5. ASSUME NEW j \in 1 .. n - e PROVE b[j] = ms[e + j]
      <3>1. j \in 1 .. n - (e + 1) + 1 /\ (e + 1) + j - 1 = e + j
        BY <1>1
      <3>2. QED BY <2>3, <3>1
    <2>6. QED BY <2>3, <2>4, <2>5
  <1>4. LeaveOut(ms, i) = a \o b
    BY DEF LeaveOut, e
  <1> HIDE DEF a, b
  <1>5. /\ a \o b \in Seq(Message) /\ Len(a \o b) = Len(a) + Len(b)
        /\ \A j \in 1 .. Len(a) : (a \o b)[j] = a[j]
        /\ \A j \in 1 .. Len(b) : (a \o b)[Len(a) + j] = b[j]
    <2>1. a \in Seq(Message) /\ b \in Seq(Message)
      BY <1>2, <1>3
    <2>2. QED BY <2>1, ConcatIs
  <1>6. QED BY <1>2, <1>3, <1>4, <1>5 DEF e

(* More messages behind a list do not change what leaving out a round      *)
(* of it does, if the round ends where it did.                             *)
LEMMA LeaveOutConcat ==
  ASSUME NEW ms \in Seq(Message), NEW more \in Seq(Message), NEW i \in 1 .. Len(ms),
         RoundEnd(ms \o more, i) = RoundEnd(ms, i)
  PROVE  LeaveOut(ms \o more, i) = LeaveOut(ms, i) \o more
  <1> DEFINE w == ms \o more
             e == RoundEnd(ms, i)
             n == Len(ms)
             k == Len(more)
             l == LeaveOut(ms, i)
             r == LeaveOut(w, i)
  <1>1. /\ w \in Seq(Message) /\ Len(w) = n + k /\ n \in Nat /\ k \in Nat
        /\ \A j \in 1 .. n : w[j] = ms[j]
        /\ \A j \in 1 .. k : w[n + j] = more[j]
    BY ConcatIs
  <1>2. e \in i .. n /\ RoundEnd(w, i) = e
    BY RoundEndIs
  <1>3. /\ l \in Seq(Message) /\ Len(l) = (i - 1) + (n - e)
        /\ \A j \in 1 .. i - 1 : l[j] = ms[j]
        /\ \A j \in 1 .. n - e : l[(i - 1) + j] = ms[e + j]
    BY LeaveOutIs
  <1> HIDE DEF w
  <1>4. i \in 1 .. Len(w)
    BY <1>1
  <1>5. /\ r \in Seq(Message) /\ Len(r) = (i - 1) + (Len(w) - e)
        /\ \A j \in 1 .. i - 1 : r[j] = w[j]
        /\ \A j \in 1 .. Len(w) - e : r[(i - 1) + j] = w[e + j]
    <2>1. /\ r \in Seq(Message) /\ Len(r) = (i - 1) + (Len(w) - RoundEnd(w, i))
          /\ \A j \in 1 .. i - 1 : r[j] = w[j]
          /\ \A j \in 1 .. Len(w) - RoundEnd(w, i) : r[(i - 1) + j] = w[RoundEnd(w, i) + j]
      BY <1>1, <1>4, LeaveOutIs, Zenon
    <2>2. QED BY <1>2, <2>1
  <1> HIDE DEF e, n, k, l, r
  <1>6. /\ l \o more \in Seq(Message) /\ Len(l \o more) = Len(l) + k
        /\ \A j \in 1 .. Len(l) : (l \o more)[j] = l[j]
        /\ \A j \in 1 .. k : (l \o more)[Len(l) + j] = more[j]
    <2>1. l \in Seq(Message)
      BY <1>3
    <2>2. QED BY <2>1, ConcatIs DEF k
  <1>7. Len(r) = Len(l \o more)
    <2>1. i \in Int /\ n \in Int /\ k \in Int /\ e \in Int
      BY <1>1, <1>2
    <2>2. Len(w) = n + k /\ Len(l) = (i - 1) + (n - e) /\ Len(r) = (i - 1) + (Len(w) - e)
          /\ Len(l \o more) = Len(l) + k
      BY <1>1, <1>3, <1>5, <1>6
    <2>3. Len(r) = (i - 1) + ((n + k) - e) /\ Len(l \o more) = ((i - 1) + (n - e)) + k
      BY <2>2
    <2>4. (i - 1) + ((n + k) - e) = ((i - 1) + (n - e)) + k
      BY <2>1
    <2>5. QED BY <2>3, <2>4
  <1>8. ASSUME NEW j \in 1 .. Len(r) PROVE r[j] = (l \o more)[j]
    <2>1. CASE j \in 1 .. i - 1
      <3>1. j \in 1 .. n /\ j \in 1 .. Len(l)
        BY <1>1, <1>2, <1>3, <2>1
      <3>2. QED BY <1>1, <1>3, <1>5, <1>6, <2>1, <3>1
    <2>2. CASE j \in i .. Len(l)
      <3>1. /\ j - (i - 1) \in 1 .. n - e /\ j - (i - 1) \in 1 .. Len(w) - e
            /\ (i - 1) + (j - (i - 1)) = j
            /\ e + (j - (i - 1)) \in 1 .. n /\ j \in 1 .. Len(l)
        BY <1>1, <1>2, <1>3, <2>2
      <3>2. r[j] = w[e + (j - (i - 1))] /\ l[j] = ms[e + (j - (i - 1))]
        BY <1>3, <1>5, <3>1
      <3>3. QED BY <1>1, <1>6, <3>1, <3>2
    <2>3. CASE j > Len(l)
      <3>1. /\ j - (i - 1) \in 1 .. Len(w) - e
            /\ (i - 1) + (j - (i - 1)) = j
            /\ j - Len(l) \in 1 .. k /\ Len(l) + (j - Len(l)) = j
            /\ e + (j - (i - 1)) = n + (j - Len(l))
        BY <1>1, <1>2, <1>3, <1>5, <1>6, <1>7, <2>3
      <3>2. r[j] = w[e + (j - (i - 1))] /\ (l \o more)[j] = more[j - Len(l)]
        BY <1>5, <1>6, <3>1
      <3>3. w[n + (j - Len(l))] = more[j - Len(l)]
        BY <1>1, <3>1
      <3>4. QED BY <3>1, <3>2, <3>3
    <2>4. j \in 1 .. i - 1 \/ j \in i .. Len(l) \/ j > Len(l)
      BY <1>1, <1>2, <1>3, <1>5
    <2>5. QED BY <2>1, <2>2, <2>3, <2>4, Zenon
  <1>9. r = l \o more
    BY <1>5, <1>6, <1>7, <1>8, SeqEqual
  <1>10. QED BY <1>9 DEF r, l, w

(* Whether a round is open depends on its calls and its results alone. *)
LEMMA ToSetIs ==
  ASSUME NEW S, NEW s \in Seq(S)
  PROVE  /\ ToSet(s) = {s[i] : i \in 1 .. Len(s)} /\ ToSet(s) \subseteq S
         /\ s # << >> <=> ToSet(s) # {}
  <1>1. DOMAIN s = 1 .. Len(s) /\ Len(s) \in Nat
    OBVIOUS
  <1>2. ToSet(s) = {s[i] : i \in 1 .. Len(s)}
    BY <1>1 DEF ToSet
  <1>3. ToSet(s) \subseteq S
    BY <1>2
  <1>4. CASE s = << >>
    <2>1. Len(s) = 0
      BY <1>4
    <2>2. QED BY <1>2, <1>3, <1>4, <2>1
  <1>5. CASE s # << >>
    <2>1. 1 \in 1 .. Len(s)
      BY <1>5
    <2>2. s[1] \in ToSet(s)
      BY <1>2, <2>1
    <2>3. QED BY <1>2, <1>3, <1>5, <2>2
  <1>6. QED BY <1>4, <1>5

(* The same of a message of the list.                                      *)
LEMMA OpenWhen ==
  ASSUME NEW ms \in Seq(Message), NEW i \in 1 .. Len(ms)
  PROVE  i \in Open(ms) <=> \E c \in ToSet(ms[i].calls) : \A q \in i + 1 .. RoundEnd(ms, i) : ms[q].call # c
  BY OpenIs

(* Two rounds with the same calls and the same results are both open       *)
(* or both closed, in whatever lists.                                      *)
LEMMA SameRound ==
  ASSUME NEW ms \in Seq(Message), NEW i \in 1 .. Len(ms),
         NEW w \in Seq(Message), NEW j \in 1 .. Len(w),
         w[j].calls = ms[i].calls,
         {w[q].call : q \in j + 1 .. RoundEnd(w, j)} = {ms[q].call : q \in i + 1 .. RoundEnd(ms, i)}
  PROVE  j \in Open(w) <=> i \in Open(ms)
  <1>1. ASSUME NEW c PROVE (\A q \in j + 1 .. RoundEnd(w, j) : w[q].call # c)
                               <=> (\A q \in i + 1 .. RoundEnd(ms, i) : ms[q].call # c)
    <2>1. (\A q \in j + 1 .. RoundEnd(w, j) : w[q].call # c)
            <=> c \notin {w[q].call : q \in j + 1 .. RoundEnd(w, j)}
      OBVIOUS
    <2>2. (\A q \in i + 1 .. RoundEnd(ms, i) : ms[q].call # c)
            <=> c \notin {ms[q].call : q \in i + 1 .. RoundEnd(ms, i)}
      OBVIOUS
    <2>3. QED BY <2>1, <2>2
  <1>2. j \in Open(w) <=> \E c \in ToSet(w[j].calls) : \A q \in j + 1 .. RoundEnd(w, j) : w[q].call # c
    BY OpenWhen
  <1>3. i \in Open(ms) <=> \E c \in ToSet(ms[i].calls) : \A q \in i + 1 .. RoundEnd(ms, i) : ms[q].call # c
    BY OpenWhen
  <1>4. QED BY <1>1, <1>2, <1>3, Zenon

(* A message that is not a result, behind a list: it closes the last       *)
(* round and opens one of its own, if it has calls.                        *)
LEMMA OtherMessage ==
  ASSUME NEW ms \in Seq(Message), NEW m \in Message, m.role # "tool", Tidy(ms),
         IsInjective(m.calls),
         \A i \in 1 .. Len(ms) : ToSet(ms[i].calls) \cap ToSet(m.calls) = {}
  PROVE  /\ Tidy(Append(ms, m))
         /\ \A i \in 1 .. Len(ms) : RoundEnd(Append(ms, m), i) = RoundEnd(ms, i)
         /\ Open(Append(ms, m)) = Open(ms) \cup (IF m.calls = << >> THEN {} ELSE {Len(ms) + 1})
         /\ InRounds(ms) => InRounds(Append(ms, m))
         /\ \A i \in 1 .. Len(ms) : LeaveOut(Append(ms, m), i) = Append(LeaveOut(ms, i), m)
  <1> DEFINE w == Append(ms, m)
             n == Len(ms)
  <1>1. /\ w \in Seq(Message) /\ Len(w) = n + 1 /\ n \in Nat
        /\ \A i \in 1 .. n : w[i] = ms[i]
        /\ w[n + 1] = m
        /\ w = ms \o <<m>>
    BY AppendIs
  <1>2. \A i \in 1 .. n : RoundEnd(w, i) = RoundEnd(ms, i)
    <2>1. <<m>> \in Seq(Message) /\ <<m>>[1].role # "tool"
      OBVIOUS
    <2> SUFFICES ASSUME NEW i \in 1 .. n PROVE RoundEnd(w, i) = RoundEnd(ms, i)
      OBVIOUS
    <2>2. RoundEnd(ms \o <<m>>, i) = RoundEnd(ms, i)
      BY <2>1, RoundEndConcat
    <2>3. QED BY <1>1, <2>2
  <1>3. \A i \in 1 .. n : LeaveOut(w, i) = Append(LeaveOut(ms, i), m)
    <2> SUFFICES ASSUME NEW i \in 1 .. n PROVE LeaveOut(w, i) = Append(LeaveOut(ms, i), m)
      OBVIOUS
    <2>1. <<m>> \in Seq(Message) /\ LeaveOut(ms, i) \in Seq(Message)
      BY LeaveOutIs
    <2>2. RoundEnd(ms \o <<m>>, i) = RoundEnd(ms, i)
      BY <1>1, <1>2
    <2>3. LeaveOut(ms \o <<m>>, i) = LeaveOut(ms, i) \o <<m>>
      BY <2>1, <2>2, LeaveOutConcat
    <2>4. Append(LeaveOut(ms, i), m) = LeaveOut(ms, i) \o <<m>>
      BY <2>1, AppendIsConcat
    <2>5. QED BY <1>1, <2>3, <2>4
  <1>4. \A i \in 1 .. n : RoundEnd(ms, i) \in i .. n
    BY RoundEndIs
  <1> HIDE DEF w, n
  <1>5. \A i \in 1 .. n : i \in Open(w) <=> i \in Open(ms)
    <2> SUFFICES ASSUME NEW i \in 1 .. n PROVE i \in Open(w) <=> i \in Open(ms)
      OBVIOUS
    <2>1. i \in 1 .. Len(w) /\ i \in 1 .. Len(ms) /\ w[i].calls = ms[i].calls
      BY <1>1 DEF n
    <2>2. \A q \in i + 1 .. RoundEnd(ms, i) : w[q] = ms[q]
      BY <1>1, <1>4
    <2>3. RoundEnd(w, i) = RoundEnd(ms, i)
      BY <1>2
    <2>4. {w[q].call : q \in i + 1 .. RoundEnd(w, i)} = {ms[q].call : q \in i + 1 .. RoundEnd(ms, i)}
      BY <2>2, <2>3
    <2>5. QED BY <1>1, <2>1, <2>4, SameRound
  <1>6. n + 1 \in Open(w) <=> m.calls # << >>
    <2>1. RoundEnd(w, n + 1) = n + 1
      <3>1. n + 1 \in 1 .. Len(w)
        BY <1>1
      <3>2. RoundEnd(w, n + 1) \in n + 1 .. Len(w)
        BY <1>1, <3>1, RoundEndIs
      <3>3. QED BY <1>1, <3>2
    <2>2. n + 1 \in 1 .. Len(w) /\ (n + 1) + 1 .. RoundEnd(w, n + 1) = {}
      BY <1>1, <2>1
    <2>3. n + 1 \in Open(w) <=> \E c \in ToSet(m.calls) : TRUE
      BY <1>1, <2>2, OpenIs
    <2>4. m.calls \in Seq(Call)
      BY MessageIs
    <2>5. m.calls # << >> <=> \E c \in ToSet(m.calls) : TRUE
      BY <2>4, ToSetIs
    <2>6. QED BY <2>3, <2>5
  <1>7. Open(w) = Open(ms) \cup (IF m.calls = << >> THEN {} ELSE {n + 1})
    <2>1. Open(ms) \subseteq 1 .. n /\ Open(w) \subseteq 1 .. Len(w)
      BY <1>1 DEF Open, n
    <2>2. 1 .. Len(w) = 1 .. n \cup {n + 1} /\ n + 1 \notin 1 .. n
      BY <1>1
    <2>3. QED BY <1>5, <1>6, <2>1, <2>2
  <1>8. DOMAIN w = 1 .. n \cup {n + 1} /\ DOMAIN ms = 1 .. n /\ n + 1 \notin 1 .. n
    BY <1>1 DEF n
  <1>9. AskedOnce(w)
    <2>1. /\ \A i \in 1 .. n : IsInjective(ms[i].calls)
          /\ \A i, j \in 1 .. n : i # j => ToSet(ms[i].calls) \cap ToSet(ms[j].calls) = {}
      BY <1>8 DEF Tidy, AskedOnce
    <2>2. ASSUME NEW i \in DOMAIN w PROVE IsInjective(w[i].calls)
      BY <1>1, <1>8, <2>1
    <2>3. ASSUME NEW i \in DOMAIN w, NEW j \in DOMAIN w, i # j
          PROVE  ToSet(w[i].calls) \cap ToSet(w[j].calls) = {}
      <3>1. CASE i \in 1 .. n /\ j \in 1 .. n
        BY <1>1, <2>1, <2>3, <3>1
      <3>2. CASE i \in 1 .. n /\ j = n + 1
        BY <1>1, <3>2 DEF n
      <3>3. CASE i = n + 1 /\ j \in 1 .. n
        BY <1>1, <3>3 DEF n
      <3>4. QED BY <1>8, <2>3, <3>1, <3>2, <3>3
    <2>4. QED BY <2>2, <2>3 DEF AskedOnce
  <1>10. \A p \in DOMAIN w : w[p].role = "tool" => p \in 1 .. n /\ ms[p] = w[p] /\ ms[p].role = "tool"
    BY <1>1, <1>8
  <1>11. AnsweredOnce(w)
    <2> SUFFICES ASSUME NEW i \in DOMAIN w, NEW j \in DOMAIN w, w[i].role = "tool", w[j] = w[i]
                 PROVE  i = j
      BY DEF AnsweredOnce
    <2>1. i \in 1 .. n /\ j \in 1 .. n /\ ms[i].role = "tool" /\ ms[j] = ms[i]
      BY <1>10
    <2>2. QED BY <1>8, <2>1 DEF Tidy, AnsweredOnce
  <1>12. Follows(w)
    <2> SUFFICES ASSUME NEW p \in DOMAIN w, w[p].role = "tool"
                 PROVE  \E j \in 1 .. p - 1 :
                          /\ w[p].call \in ToSet(w[j].calls)
                          /\ p <= RoundEnd(w, j) \/ \E h \in Open(w) : h < j
      BY DEF Follows
    <2>1. p \in 1 .. n /\ ms[p] = w[p] /\ ms[p].role = "tool"
      BY <1>10
    <2>2. PICK j \in 1 .. p - 1 :
            /\ ms[p].call \in ToSet(ms[j].calls)
            /\ p <= RoundEnd(ms, j) \/ \E h \in Open(ms) : h < j
      BY <1>8, <2>1 DEF Tidy, Follows
    <2>3. j \in 1 .. n
      BY <1>1, <2>1
    <2>4. QED BY <1>1, <1>2, <1>7, <2>1, <2>2, <2>3
  <1>13. ASSUME InRounds(ms) PROVE InRounds(w)
    <2> SUFFICES ASSUME NEW p \in DOMAIN w, w[p].role = "tool"
                 PROVE  \E j \in 1 .. p - 1 : w[p].call \in ToSet(w[j].calls) /\ p <= RoundEnd(w, j)
      BY DEF InRounds
    <2>1. p \in 1 .. n /\ ms[p] = w[p] /\ ms[p].role = "tool"
      BY <1>10
    <2>2. PICK j \in 1 .. p - 1 : ms[p].call \in ToSet(ms[j].calls) /\ p <= RoundEnd(ms, j)
      BY <1>8, <1>13, <2>1 DEF InRounds
    <2>3. j \in 1 .. n
      BY <1>1, <2>1
    <2>4. QED BY <1>1, <1>2, <2>1, <2>2, <2>3
  <1>14. QED BY <1>2, <1>3, <1>7, <1>9, <1>11, <1>12, <1>13 DEF Tidy, w, n

-----------------------------------------------------------------------------
(* The round that is worked on.                                            *)

(* The round that is worked on: nothing but its results is behind it, none *)
(* of its calls to do has a result, and it is open as long as there are    *)
(* such calls.                                                             *)
LEMMA UnderWay ==
  ASSUME NEW ms \in Seq(Message), NEW k \in 1 .. Len(ms), NEW rest, RoundAt(ms, k, rest)
  PROVE  /\ rest \in Seq(Call)
         /\ RoundEnd(ms, k) = Len(ms)
         /\ \A i \in k + 1 .. Len(ms) : ms[i].role = "tool"
         /\ \A i \in 1 .. Len(ms) : i # k /\ ToSet(ms[i].calls) # {} => i < k /\ RoundEnd(ms, i) < k
         /\ ToSet(rest) \subseteq ToSet(ms[k].calls)
         /\ Tidy(ms) => IsInjective(rest)
         /\ Tidy(ms) => \A c \in ToSet(rest) : \A p \in 1 .. Len(ms) : ms[p].call # c
         /\ Tidy(ms) => (k \in Open(ms) <=> rest # << >>)
  <1> DEFINE cs == ms[k].calls
             n  == Len(ms) - k
  <1>1. cs \in Seq(Call) /\ n \in Nat /\ k \in Nat /\ Len(ms) = k + n /\ DOMAIN ms = 1 .. Len(ms)
    BY CallsOf
  <1>2. /\ cs # << >> /\ n <= Len(cs) /\ \A j \in 1 .. n : ms[k + j] = Result(cs[j])
        /\ rest = SubSeq(cs, n + 1, Len(cs))
    BY DEF RoundAt
  <1> HIDE DEF cs, n
  <1>3. /\ rest \in Seq(Call) /\ Len(rest) = Len(cs) - n
        /\ \A i \in 1 .. Len(rest) : rest[i] = cs[n + i] /\ n + i \in 1 .. Len(cs)
    <2>1. cs \in Seq(Call) /\ n \in 0 .. Len(cs) /\ Len(cs) \in Nat
      BY <1>1, <1>2
    <2>2. /\ rest \in Seq(Call) /\ Len(rest) = Len(cs) - n
          /\ \A i \in 1 .. Len(cs) - n : rest[i] = cs[n + i]
      BY <1>2, <2>1, RestIs
    <2>3. \A i \in 1 .. Len(cs) - n : n + i \in 1 .. Len(cs)
      BY <2>1
    <2>4. QED BY <2>2, <2>3
  <1>4. \A i \in k + 1 .. Len(ms) : ms[i].role = "tool" /\ \E j \in 1 .. n : i = k + j /\ ms[i].call = cs[j]
    <2> SUFFICES ASSUME NEW i \in k + 1 .. Len(ms)
                 PROVE  ms[i].role = "tool" /\ \E j \in 1 .. n : i = k + j /\ ms[i].call = cs[j]
      OBVIOUS
    <2>1. i - k \in 1 .. n /\ k + (i - k) = i /\ i - k \in 1 .. Len(cs)
      BY <1>1, <1>2
    <2>2. ms[i] = Result(cs[i - k]) /\ cs[i - k] \in Call
      BY <1>1, <1>2, <2>1
    <2>3. QED BY <2>1, <2>2, ResultIs
  <1>5. RoundEnd(ms, k) = Len(ms)
    BY <1>1, <1>4, RoundEndWhen
  <1>6. ToSet(cs) = {cs[i] : i \in 1 .. Len(cs)} /\ ToSet(rest) = {rest[i] : i \in 1 .. Len(rest)}
    <2>1. cs \in Seq(Call) /\ rest \in Seq(Call)
      BY <1>1, <1>3
    <2>2. QED BY <2>1, ToSetIs
  <1>7. ToSet(rest) \subseteq ToSet(cs)
    BY <1>3, <1>6
  <1>8. ms[k].role # "tool"
    BY <1>2, CallsOf DEF cs
  <1>9. \A i \in 1 .. Len(ms) : i # k /\ ToSet(ms[i].calls) # {} => i < k /\ RoundEnd(ms, i) < k
    <2> SUFFICES ASSUME NEW i \in 1 .. Len(ms), i # k, ToSet(ms[i].calls) # {}
                 PROVE  i < k /\ RoundEnd(ms, i) < k
      OBVIOUS
    <2>1. i < k
      <3>1. ms[i].role # "tool"
        BY CallsOf
      <3>2. ~(i \in k + 1 .. Len(ms))
        BY <1>4, <3>1
      <3>3. QED BY <3>2
    <2>2. k \in i + 1 .. Len(ms)
      BY <2>1
    <2>3. QED BY <1>8, <2>1, <2>2, RoundsApart
  <1>10. ASSUME Tidy(ms) PROVE IsInjective(cs) /\ IsInjective(rest)
    <2>1. IsInjective(cs)
      BY <1>1, <1>10 DEF Tidy, AskedOnce, cs
    <2>2. ASSUME NEW i \in DOMAIN rest, NEW j \in DOMAIN rest, rest[i] = rest[j] PROVE i = j
      <3>1. i \in 1 .. Len(rest) /\ j \in 1 .. Len(rest)
        BY <1>3
      <3>2. cs[n + i] = cs[n + j] /\ n + i \in DOMAIN cs /\ n + j \in DOMAIN cs
        <4>1. cs[n + i] = rest[i] /\ cs[n + j] = rest[j] /\ n + i \in 1 .. Len(cs) /\ n + j \in 1 .. Len(cs)
          BY <1>3, <3>1
        <4>2. DOMAIN cs = 1 .. Len(cs)
          BY <1>1
        <4>3. QED BY <2>2, <4>1, <4>2
      <3>3. n + i = n + j
        BY <2>1, <3>2 DEF IsInjective
      <3>4. QED BY <1>1, <3>1, <3>3
    <2>3. QED BY <2>1, <2>2 DEF IsInjective
  <1>11. ASSUME Tidy(ms), NEW c \in ToSet(rest), NEW p \in 1 .. Len(ms), ms[p].call = c PROVE FALSE
    <2>1. PICK i \in 1 .. Len(rest) : c = rest[i]
      BY <1>6
    <2>2. c = cs[n + i] /\ n + i \in 1 .. Len(cs) /\ c \in Call /\ c \in ToSet(cs)
      BY <1>1, <1>3, <1>6, <2>1
    <2>3. ms[p].role = "tool"
      <3>1. ms[p] \in Message /\ c # NoCall
        BY <2>2, RunStateAssumption
      <3>2. QED BY <1>11, <3>1, MessageIs
    <2>4. PICK j \in 1 .. p - 1 : c \in ToSet(ms[j].calls)
      BY <1>1, <1>11, <2>3 DEF Tidy, Follows
    <2>5. j = k
      <3>1. j \in DOMAIN ms /\ k \in DOMAIN ms
        BY <1>1
      <3>2. QED BY <1>11, <2>2, <2>4, <3>1 DEF Tidy, AskedOnce, cs
    <2>6. p \in k + 1 .. Len(ms)
      BY <1>1, <2>4, <2>5
    <2>7. PICK q \in 1 .. n : ms[p].call = cs[q]
      BY <1>4, <2>6
    <2>8. q \in DOMAIN cs /\ n + i \in DOMAIN cs /\ cs[q] = cs[n + i]
      BY <1>1, <1>2, <1>11, <2>2, <2>7
    <2>9. q = n + i
      BY <1>10, <1>11, <2>8 DEF IsInjective
    <2>10. QED BY <1>1, <2>1, <2>9
  <1>12. ASSUME Tidy(ms) PROVE k \in Open(ms) <=> rest # << >>
    <2>1. k \in Open(ms) <=> \E c \in ToSet(cs) : \A q \in k + 1 .. Len(ms) : ms[q].call # c
      <3>1. k \in Open(ms) <=> \E c \in ToSet(cs) : \A q \in k + 1 .. RoundEnd(ms, k) : ms[q].call # c
        BY OpenIs DEF cs
      <3>2. QED BY <1>5, <3>1
    <2>2. CASE rest = << >>
      <3>1. Len(cs) = n
        <4>1. Len(rest) = 0 /\ Len(cs) \in Nat
          BY <1>1, <2>2
        <4>2. QED BY <1>1, <1>3, <4>1
      <3>2. ASSUME NEW c \in ToSet(cs) PROVE \E q \in k + 1 .. Len(ms) : ms[q].call = c
        <4>1. PICK i \in 1 .. n : c = cs[i]
          BY <1>6, <3>1
        <4>2. ms[k + i] = Result(c) /\ k + i \in k + 1 .. Len(ms) /\ c \in Call
          BY <1>1, <1>2, <3>1, <4>1
        <4>3. QED BY <4>2, ResultIs
      <3>3. QED BY <2>1, <2>2, <3>2
    <2>3. CASE rest # << >>
      <3>1. 1 \in 1 .. Len(rest)
        BY <1>3, <2>3
      <3>2. rest[1] \in ToSet(rest)
        BY <1>6, <3>1
      <3>3. rest[1] \in ToSet(cs) /\ \A q \in k + 1 .. Len(ms) : ms[q].call # rest[1]
        BY <1>1, <1>7, <1>11, <1>12, <3>2
      <3>4. QED BY <2>1, <2>3, <3>3
    <2>4. QED BY <2>2, <2>3
  <1>13. QED BY <1>3, <1>4, <1>5, <1>7, <1>9, <1>10, <1>11, <1>12 DEF cs

(* The results of the first n of the calls to do. *)
LEMMA AnswerRound ==
  ASSUME NEW ms \in Seq(Message), NEW k \in 1 .. Len(ms), NEW rest, RoundAt(ms, k, rest), Tidy(ms),
         NEW n \in 0 .. Len(rest), NEW rs, rs = [i \in 1 .. n |-> Result(rest[i])]
  PROVE  /\ rs \in Seq(Message) /\ Tidy(ms \o rs)
         /\ RoundAt(ms \o rs, k, SubSeq(rest, n + 1, Len(rest)))
         /\ \A i \in 1 .. Len(ms) : i # k /\ ToSet(ms[i].calls) # {} => RoundEnd(ms \o rs, i) = RoundEnd(ms, i)
         /\ Open(ms \o rs) = IF n = Len(rest) THEN Open(ms) \ {k} ELSE Open(ms)
         /\ InRounds(ms) => InRounds(ms \o rs)
  <1> DEFINE w == ms \o rs
             l == Len(ms)
             cs == ms[k].calls
             d == Len(ms) - k
             left == SubSeq(rest, n + 1, Len(rest))
  <1>1. /\ rest \in Seq(Call) /\ RoundEnd(ms, k) = l
        /\ \A i \in k + 1 .. l : ms[i].role = "tool"
        /\ \A i \in 1 .. l : i # k /\ ToSet(ms[i].calls) # {} => i < k /\ RoundEnd(ms, i) < k
        /\ ToSet(rest) \subseteq ToSet(cs)
        /\ IsInjective(rest)
        /\ \A c \in ToSet(rest) : \A p \in 1 .. l : ms[p].call # c
        /\ k \in Open(ms) <=> rest # << >>
    BY UnderWay
  <1>2. l \in Nat /\ k \in Nat /\ d \in Nat /\ l = k + d /\ DOMAIN ms = 1 .. l /\ k <= l
        /\ cs \in Seq(Call) /\ Len(cs) \in Nat /\ Len(rest) \in Nat /\ n \in Nat /\ n <= Len(rest)
        /\ DOMAIN rest = 1 .. Len(rest)
    <2>1. cs \in Seq(Call)
      BY CallsOf
    <2>2. QED BY <1>1, <2>1
  <1>3. /\ cs # << >> /\ d <= Len(cs) /\ \A j \in 1 .. d : ms[k + j] = Result(cs[j])
        /\ rest = SubSeq(cs, d + 1, Len(cs))
    BY DEF RoundAt
  <1> HIDE DEF cs, d, l
  <1>4. Len(rest) = Len(cs) - d /\ \A i \in 1 .. Len(rest) : rest[i] = cs[d + i] /\ d + i \in 1 .. Len(cs)
    <2>1. cs \in Seq(Call) /\ d \in 0 .. Len(cs)
      BY <1>2, <1>3
    <2>2. Len(rest) = Len(cs) - d /\ \A i \in 1 .. Len(cs) - d : rest[i] = cs[d + i]
      BY <1>3, <2>1, RestIs
    <2>3. \A i \in 1 .. Len(cs) - d : d + i \in 1 .. Len(cs)
      BY <1>2, <2>1
    <2>4. QED BY <2>2, <2>3
  <1>5. \A i \in 1 .. n : rest[i] \in Call /\ rest[i] \in ToSet(rest) /\ Result(rest[i]) \in Message
    <2>1. \A i \in 1 .. n : i \in 1 .. Len(rest) /\ rest[i] \in Call
      BY <1>1, <1>2
    <2>2. ToSet(rest) = {rest[i] : i \in 1 .. Len(rest)}
      BY <1>1, ToSetIs
    <2>3. QED BY <2>1, <2>2, ResultIs
  <1>6. rs \in Seq(Message) /\ Len(rs) = n
    BY <1>2, <1>5
  <1>7. \A i \in 1 .. n : rs[i] = Result(rest[i]) /\ rs[i].role = "tool" /\ rs[i].call = rest[i] /\ rs[i].calls = << >>
    BY <1>5, ResultIs
  <1>8. /\ w \in Seq(Message) /\ Len(w) = l + n
        /\ \A i \in 1 .. l : w[i] = ms[i]
        /\ \A i \in 1 .. n : w[l + i] = rs[i]
    <2>1. /\ w \in Seq(Message) /\ Len(w) = Len(ms) + Len(rs)
          /\ \A i \in 1 .. Len(ms) : w[i] = ms[i]
          /\ \A i \in 1 .. Len(rs) : w[Len(ms) + i] = rs[i]
      BY <1>6, ConcatIs
    <2>2. QED BY <1>6, <2>1 DEF l
  <1>9. \A i \in 1 .. l : RoundEnd(ms, i) <= RoundEnd(w, i)
                        /\ (RoundEnd(ms, i) < l => RoundEnd(w, i) = RoundEnd(ms, i))
    BY <1>6, RoundEndConcat DEF l
  <1>10. RoundEnd(w, k) = l + n
    <2>1. \A j \in 1 .. Len(rs) : rs[j].role = "tool"
      BY <1>6, <1>7
    <2>2. RoundEnd(w, k) = Len(ms) + Len(rs)
      BY <1>1, <1>6, <2>1, RoundEndConcat DEF l
    <2>3. QED BY <1>6, <2>2 DEF l
  <1> HIDE DEF w
  <1>11. \A i \in 1 .. l : i # k /\ ToSet(ms[i].calls) # {} => RoundEnd(w, i) = RoundEnd(ms, i)
    <2> SUFFICES ASSUME NEW i \in 1 .. l, i # k, ToSet(ms[i].calls) # {}
                 PROVE  RoundEnd(w, i) = RoundEnd(ms, i)
      OBVIOUS
    <2>1. RoundEnd(ms, i) \in i .. l /\ RoundEnd(ms, i) < k
      BY <1>1, RoundEndIs DEF l
    <2>2. RoundEnd(ms, i) < l
      BY <1>2, <2>1
    <2>3. QED BY <1>9, <2>2
  <1>12. \A p \in 1 .. Len(w) : p \in 1 .. l \/ \E i \in 1 .. n : p = l + i
    <2>1. \A p \in 1 .. Len(w) : p \in 1 .. l \/ (p - l \in 1 .. n /\ p = l + (p - l))
      BY <1>2, <1>8
    <2>2. QED BY <2>1
  <1>13. \A i \in 1 .. n : /\ l + i \in 1 .. Len(w) /\ w[l + i].role = "tool" /\ w[l + i].calls = << >>
                           /\ w[l + i].call = rest[i]
    BY <1>2, <1>7, <1>8
  <1>14. ToSet(<< >>) = {}
    BY DEF ToSet
  <1>15. \A i \in 1 .. Len(w) : i # k => (i \in Open(w) <=> i \in Open(ms))
    <2> SUFFICES ASSUME NEW i \in 1 .. Len(w), i # k PROVE i \in Open(w) <=> i \in Open(ms)
      OBVIOUS
    <2>1. CASE i \in 1 .. l /\ ToSet(ms[i].calls) # {}
      <3>1. w[i].calls = ms[i].calls /\ RoundEnd(w, i) = RoundEnd(ms, i) /\ RoundEnd(ms, i) \in i .. l
        BY <1>8, <1>11, <2>1, RoundEndIs DEF l
      <3>2. \A q \in i + 1 .. RoundEnd(ms, i) : w[q] = ms[q]
        BY <1>2, <1>8, <2>1, <3>1
      <3>3. {w[q].call : q \in i + 1 .. RoundEnd(w, i)} = {ms[q].call : q \in i + 1 .. RoundEnd(ms, i)}
        BY <3>1, <3>2
      <3>4. i \in 1 .. Len(ms) /\ i \in 1 .. Len(w)
        BY <2>1 DEF l
      <3>5. QED BY <1>8, <3>1, <3>3, <3>4, SameRound
    <2>2. CASE i \in 1 .. l /\ ToSet(ms[i].calls) = {}
      <3>1. w[i].calls = ms[i].calls
        BY <1>8, <2>2
      <3>2. i \notin Open(ms)
        BY <2>2, OpenIs
      <3>3. i \notin Open(w)
        BY <1>8, <2>2, <3>1, OpenIs
      <3>4. QED BY <3>2, <3>3
    <2>3. CASE i \notin 1 .. l
      <3>1. ToSet(w[i].calls) = {}
        BY <1>12, <1>13, <1>14, <2>3
      <3>2. i \notin Open(w)
        BY <1>8, <3>1, OpenIs
      <3>3. i \notin Open(ms)
        BY <2>3, OpenIs DEF l
      <3>4. QED BY <3>2, <3>3
    <2>4. QED BY <2>1, <2>2, <2>3
  <1>16. DOMAIN w = 1 .. Len(w)
    BY <1>8
  <1>17. \A i \in 1 .. Len(w) : i \in 1 .. l \/ w[i].calls = << >>
    BY <1>12, <1>13
  <1>18. AskedOnce(w)
    <2>1. \A i \in DOMAIN w : (i \in DOMAIN ms /\ w[i] = ms[i]) \/ w[i].calls = << >>
      BY <1>2, <1>8, <1>16, <1>17
    <2>2. IsInjective(<< >>)
      BY DEF IsInjective
    <2>3. QED BY <1>14, <2>1, <2>2 DEF AskedOnce, Tidy
  <1>19. AnsweredOnce(w)
    <2> SUFFICES ASSUME NEW i \in 1 .. Len(w), NEW j \in 1 .. Len(w), w[i].role = "tool", w[j] = w[i]
                 PROVE  i = j
      BY <1>16 DEF AnsweredOnce
    <2>1. CASE i \in 1 .. l /\ j \in 1 .. l
      <3>1. i \in DOMAIN ms /\ j \in DOMAIN ms /\ ms[i].role = "tool" /\ ms[j] = ms[i]
        BY <1>2, <1>8, <2>1
      <3>2. QED BY <3>1 DEF AnsweredOnce, Tidy
    <2>2. ASSUME NEW a \in 1 .. n, NEW p \in 1 .. l PROVE w[l + a] # w[p]
      <3>1. w[l + a].call = rest[a] /\ rest[a] \in ToSet(rest)
        BY <1>5, <1>13
      <3>2. ms[p].call # rest[a]
        BY <1>1, <3>1
      <3>3. w[p] = ms[p]
        BY <1>8
      <3>4. QED BY <3>1, <3>2, <3>3
    <2>3. ASSUME NEW a \in 1 .. n, NEW b \in 1 .. n, w[l + a] = w[l + b] PROVE a = b
      <3>1. a \in DOMAIN rest /\ b \in DOMAIN rest
        BY <1>2
      <3>2. rest[a] = rest[b]
        BY <1>13, <2>3
      <3>3. QED BY <1>1, <3>1, <3>2 DEF IsInjective
    <2>4. QED BY <1>12, <2>1, <2>2, <2>3
  <1>20. ASSUME NEW a \in 1 .. n
         PROVE  /\ k \in 1 .. (l + a) - 1 /\ w[l + a].call \in ToSet(w[k].calls)
                /\ l + a <= RoundEnd(w, k)
    <2>1. k \in 1 .. l /\ k \in 1 .. (l + a) - 1 /\ l + a <= l + n
      BY <1>2
    <2>2. w[k].calls = cs /\ w[l + a].call \in ToSet(cs)
      BY <1>1, <1>5, <1>8, <1>13, <2>1 DEF cs
    <2>3. QED BY <1>10, <2>1, <2>2
  <1>21. Follows(w)
    <2> SUFFICES ASSUME NEW p \in 1 .. Len(w), w[p].role = "tool"
                 PROVE  \E j \in 1 .. p - 1 :
                          /\ w[p].call \in ToSet(w[j].calls)
                          /\ p <= RoundEnd(w, j) \/ \E h \in Open(w) : h < j
      BY <1>16 DEF Follows
    <2>1. CASE p \in 1 .. l
      <3>1. ms[p] = w[p] /\ p \in DOMAIN ms
        BY <1>2, <1>8, <2>1
      <3>2. PICK j \in 1 .. p - 1 :
              /\ ms[p].call \in ToSet(ms[j].calls)
              /\ p <= RoundEnd(ms, j) \/ \E h \in Open(ms) : h < j
        BY <3>1 DEF Tidy, Follows
      <3>3. j \in 1 .. l /\ w[j] = ms[j] /\ j <= k
        <4>1. j \in 1 .. l
          BY <1>2, <2>1
        <4>2. ToSet(ms[j].calls) # {}
          BY <3>2
        <4>3. j = k \/ j < k
          BY <1>1, <4>1, <4>2
        <4>4. QED BY <1>2, <1>8, <4>1, <4>3
      <3>4. CASE p <= RoundEnd(ms, j)
        <4>1. RoundEnd(ms, j) \in j .. l /\ RoundEnd(w, j) \in j .. Len(w)
          BY <1>8, <3>3, RoundEndIs DEF l
        <4>2. p <= RoundEnd(w, j)
          BY <1>9, <2>1, <3>3, <3>4, <4>1
        <4>3. QED BY <3>1, <3>2, <3>3, <4>2
      <3>5. CASE \E h \in Open(ms) : h < j
        <4>1. PICK h \in Open(ms) : h < j
          BY <3>5
        <4>2. h \in 1 .. l /\ h \in 1 .. Len(w) /\ h # k
          <5>1. h \in 1 .. l
            BY OpenIs DEF l
          <5>2. QED BY <1>2, <1>8, <3>3, <4>1, <5>1
        <4>3. h \in Open(w)
          BY <1>15, <4>2
        <4>4. QED BY <3>1, <3>2, <3>3, <4>1, <4>3
      <3>6. QED BY <3>2, <3>4, <3>5
    <2>2. CASE \E a \in 1 .. n : p = l + a
      BY <1>20, <2>2
    <2>3. QED BY <1>12, <2>1, <2>2
  <1>22. ASSUME InRounds(ms) PROVE InRounds(w)
    <2> SUFFICES ASSUME NEW p \in 1 .. Len(w), w[p].role = "tool"
                 PROVE  \E j \in 1 .. p - 1 : w[p].call \in ToSet(w[j].calls) /\ p <= RoundEnd(w, j)
      BY <1>16 DEF InRounds
    <2>1. CASE p \in 1 .. l
      <3>1. ms[p] = w[p] /\ p \in DOMAIN ms
        BY <1>2, <1>8, <2>1
      <3>2. PICK j \in 1 .. p - 1 : ms[p].call \in ToSet(ms[j].calls) /\ p <= RoundEnd(ms, j)
        BY <1>22, <3>1 DEF InRounds
      <3>3. j \in 1 .. l
        BY <1>2, <2>1
      <3>4. RoundEnd(ms, j) \in j .. l /\ RoundEnd(w, j) \in j .. Len(w) /\ RoundEnd(ms, j) <= RoundEnd(w, j)
        BY <1>8, <1>9, <3>3, RoundEndIs DEF l
      <3>5. p <= RoundEnd(w, j)
        BY <2>1, <3>2, <3>3, <3>4
      <3>6. QED BY <1>8, <3>1, <3>2, <3>3, <3>5
    <2>2. CASE \E a \in 1 .. n : p = l + a
      BY <1>20, <2>2
    <2>3. QED BY <1>12, <2>1, <2>2
  <1>23. RoundAt(w, k, left)
    <2>1. w[k].calls = cs /\ Len(w) - k = d + n /\ d + n <= Len(cs)
      BY <1>2, <1>4, <1>8 DEF cs
    <2>2. ASSUME NEW j \in 1 .. d + n PROVE w[k + j] = Result(cs[j])
      <3>1. CASE j \in 1 .. d
        BY <1>2, <1>3, <1>8, <3>1
      <3>2. CASE j \notin 1 .. d
        <4>1. j - d \in 1 .. n /\ j - d \in 1 .. Len(rest) /\ l + (j - d) = k + j /\ d + (j - d) = j
          BY <1>2, <3>2
        <4>2. w[l + (j - d)] = Result(rest[j - d]) /\ rest[j - d] = cs[d + (j - d)]
          BY <1>4, <1>7, <1>8, <4>1
        <4>3. QED BY <4>1, <4>2
      <3>3. QED BY <3>1, <3>2
    <2>3. left = SubSeq(cs, (d + n) + 1, Len(cs))
      <3> DEFINE r == SubSeq(cs, (d + n) + 1, Len(cs))
      <3>1. cs \in Seq(Call) /\ d + n \in 0 .. Len(cs) /\ rest \in Seq(Call) /\ n \in 0 .. Len(rest)
        BY <1>1, <1>2, <2>1
      <3>2. /\ left \in Seq(Call) /\ Len(left) = Len(rest) - n
            /\ \A i \in 1 .. Len(rest) - n : left[i] = rest[n + i]
        BY <3>1, RestIs
      <3>3. /\ r \in Seq(Call) /\ Len(r) = Len(cs) - (d + n)
            /\ \A i \in 1 .. Len(cs) - (d + n) : r[i] = cs[(d + n) + i]
        BY <3>1, RestIs
      <3> HIDE DEF left, r
      <3>4. Len(rest) - n = Len(cs) - (d + n)
        BY <1>2, <1>4
      <3>5. ASSUME NEW i \in 1 .. Len(left) PROVE left[i] = r[i]
        <4>1. i \in 1 .. Len(rest) - n /\ (d + n) + i = d + (n + i) /\ n + i \in 1 .. Len(rest)
          BY <1>2, <3>2
        <4>2. left[i] = rest[n + i] /\ r[i] = cs[d + (n + i)]
          BY <3>2, <3>3, <3>4, <4>1
        <4>3. QED BY <1>4, <4>1, <4>2
      <3>6. left = r
        BY <3>2, <3>3, <3>4, <3>5, SeqEqual
      <3>7. QED BY <3>6 DEF r
    <2> HIDE DEF left
    <2>4. QED BY <1>3, <2>1, <2>2, <2>3 DEF RoundAt
  <1>24. Tidy(w)
    BY <1>18, <1>19, <1>21 DEF Tidy
  <1>25. k \in Open(w) <=> n # Len(rest)
    <2>1. k \in 1 .. Len(w)
      BY <1>2, <1>8
    <2>2. k \in Open(w) <=> left # << >>
      <3> HIDE DEF left
      <3>1. QED BY <1>8, <1>23, <1>24, <2>1, UnderWay
    <2>3. left # << >> <=> n # Len(rest)
      BY <1>1, RestIs
    <2>4. QED BY <2>2, <2>3
  <1>26. Open(w) = IF n = Len(rest) THEN Open(ms) \ {k} ELSE Open(ms)
    <2>1. Open(ms) \subseteq 1 .. Len(w) /\ Open(w) \subseteq 1 .. Len(w)
      <3>1. Open(ms) \subseteq 1 .. l
        BY OpenIs DEF l
      <3>2. Open(w) \subseteq 1 .. Len(w)
        BY <1>8, OpenIs
      <3>3. 1 .. l \subseteq 1 .. Len(w)
        BY <1>2, <1>8
      <3>4. QED BY <3>1, <3>2, <3>3
    <2>2. n # Len(rest) => k \in Open(ms)
      <3>1. Len(rest) = 0 => n = Len(rest)
        OBVIOUS
      <3>2. rest = << >> => Len(rest) = 0
        OBVIOUS
      <3>3. QED BY <1>1, <3>1, <3>2, Zenon
    <2>3. QED BY <1>15, <1>25, <2>1, <2>2
  <1>27. QED BY <1>6, <1>11, <1>22, <1>23, <1>24, <1>26 DEF w, l

-----------------------------------------------------------------------------
(* Lists and what they started with; lists without a round.                *)

(* What is true of a list of messages and of what it started with. *)
LEMMA Started ==
  ASSUME NEW ms \in Seq(Message), NEW more \in Seq(Message), Tidy(ms \o more)
  PROVE  /\ Tidy(ms)
         /\ \A i \in 1 .. Len(ms) : i \in Open(ms \o more) => i \in Open(ms)
         /\ \A i \in Open(ms) : RoundEnd(ms, i) < Len(ms) => i \in Open(ms \o more)
         /\ InRounds(ms \o more) => InRounds(ms)
         /\ OneHole(ms \o more) => OneHole(ms)
  <1> DEFINE w == ms \o more
             l == Len(ms)
  <1>1. /\ w \in Seq(Message) /\ Len(w) = l + Len(more) /\ l \in Nat /\ Len(more) \in Nat
        /\ \A i \in 1 .. l : w[i] = ms[i]
    BY ConcatIs
  <1>2. \A i \in 1 .. l : /\ RoundEnd(ms, i) <= RoundEnd(w, i)
                          /\ RoundEnd(ms, i) < l => RoundEnd(w, i) = RoundEnd(ms, i)
    BY RoundEndConcat
  <1> HIDE DEF w, l
  <1>3. DOMAIN ms = 1 .. l /\ DOMAIN w = 1 .. Len(w) /\ 1 .. l \subseteq 1 .. Len(w)
    BY <1>1 DEF l
  <1>4. \A i \in 1 .. l : RoundEnd(ms, i) \in i .. l /\ RoundEnd(w, i) \in i .. Len(w)
    BY <1>1, <1>3, RoundEndIs DEF l
  <1>5. ASSUME NEW i \in 1 .. l, i \in Open(w) PROVE i \in Open(ms)
    <2>1. PICK c \in ToSet(w[i].calls) : \A q \in i + 1 .. RoundEnd(w, i) : w[q].call # c
      <3>1. w \in Seq(Message)
        BY <1>1
      <3>2. QED BY <1>5, <3>1, OpenIs
    <2>2. \A q \in i + 1 .. RoundEnd(ms, i) : q \in i + 1 .. RoundEnd(w, i) /\ q \in 1 .. l
      <3>1. RoundEnd(ms, i) <= RoundEnd(w, i) /\ RoundEnd(ms, i) \in i .. l /\ RoundEnd(w, i) \in i .. Len(w)
        BY <1>2, <1>4
      <3>2. QED BY <1>1, <3>1
    <2>3. \A q \in i + 1 .. RoundEnd(ms, i) : ms[q].call # c
      BY <1>1, <2>1, <2>2
    <2>4. c \in ToSet(ms[i].calls)
      BY <1>1
    <2>5. QED BY <2>3, <2>4, OpenIs DEF l
  <1>6. ASSUME NEW i \in Open(ms), RoundEnd(ms, i) < l PROVE i \in Open(w)
    <2>1. i \in 1 .. l /\ i \in 1 .. Len(w) /\ i \in 1 .. Len(ms)
      BY <1>3, OpenIs DEF l
    <2>2. w[i].calls = ms[i].calls /\ RoundEnd(w, i) = RoundEnd(ms, i)
      BY <1>1, <1>2, <1>6, <2>1
    <2>3. \A q \in i + 1 .. RoundEnd(ms, i) : w[q] = ms[q]
      BY <1>1, <1>4, <2>1
    <2>4. {w[q].call : q \in i + 1 .. RoundEnd(w, i)} = {ms[q].call : q \in i + 1 .. RoundEnd(ms, i)}
      BY <2>2, <2>3
    <2>5. QED BY <1>1, <2>1, <2>2, <2>4, SameRound
  <1>7. \A j \in 1 .. l : \A p \in 1 .. l : p <= RoundEnd(w, j) => p <= RoundEnd(ms, j)
    <2> SUFFICES ASSUME NEW j \in 1 .. l, NEW p \in 1 .. l, p <= RoundEnd(w, j) PROVE p <= RoundEnd(ms, j)
      OBVIOUS
    <2>1. RoundEnd(ms, j) \in j .. l
      BY <1>4
    <2>2. RoundEnd(ms, j) < l => RoundEnd(w, j) = RoundEnd(ms, j)
      BY <1>2
    <2>3. QED BY <1>1, <2>1, <2>2
  <1>8. AskedOnce(ms)
    BY <1>1, <1>3 DEF Tidy, AskedOnce, w
  <1>9. AnsweredOnce(ms)
    BY <1>1, <1>3 DEF Tidy, AnsweredOnce, w
  <1>10. Follows(ms)
    <2> SUFFICES ASSUME NEW p \in 1 .. l, ms[p].role = "tool"
                 PROVE  \E j \in 1 .. p - 1 :
                          /\ ms[p].call \in ToSet(ms[j].calls)
                          /\ p <= RoundEnd(ms, j) \/ \E h \in Open(ms) : h < j
      BY <1>3 DEF Follows
    <2>1. w[p] = ms[p] /\ p \in DOMAIN w
      BY <1>1, <1>3
    <2>2. PICK j \in 1 .. p - 1 :
            /\ w[p].call \in ToSet(w[j].calls)
            /\ p <= RoundEnd(w, j) \/ \E h \in Open(w) : h < j
      BY <2>1 DEF Tidy, Follows, w
    <2>3. j \in 1 .. l /\ w[j] = ms[j]
      BY <1>1
    <2>4. CASE p <= RoundEnd(w, j)
      BY <1>7, <2>1, <2>2, <2>3, <2>4
    <2>5. CASE \E h \in Open(w) : h < j
      <3>1. PICK h \in Open(w) : h < j
        BY <2>5
      <3>2. h \in 1 .. Len(w)
        BY <1>1, OpenIs
      <3>3. h \in 1 .. l
        BY <1>1, <2>3, <3>1, <3>2
      <3>4. h \in Open(ms)
        BY <1>5, <3>3
      <3>5. QED BY <2>1, <2>2, <2>3, <3>1, <3>4
    <2>6. QED BY <2>2, <2>4, <2>5
  <1>11. ASSUME InRounds(w) PROVE InRounds(ms)
    <2> SUFFICES ASSUME NEW p \in 1 .. l, ms[p].role = "tool"
                 PROVE  \E j \in 1 .. p - 1 : ms[p].call \in ToSet(ms[j].calls) /\ p <= RoundEnd(ms, j)
      BY <1>3 DEF InRounds
    <2>1. w[p] = ms[p] /\ p \in DOMAIN w
      BY <1>1, <1>3
    <2>2. PICK j \in 1 .. p - 1 : w[p].call \in ToSet(w[j].calls) /\ p <= RoundEnd(w, j)
      BY <1>11, <2>1 DEF InRounds
    <2>3. j \in 1 .. l /\ w[j] = ms[j]
      BY <1>1
    <2>4. QED BY <1>7, <2>1, <2>2, <2>3
  <1>12. ASSUME OneHole(w) PROVE OneHole(ms)
    <2>1. InRounds(ms)
      BY <1>11, <1>12 DEF OneHole
    <2>2. ASSUME NEW i \in Open(ms), NEW k \in Open(ms), i < k, RoundEnd(ms, k) # l PROVE FALSE
      <3>1. i \in 1 .. l /\ k \in 1 .. l /\ k \in i + 1 .. Len(ms) /\ i \in 1 .. Len(ms) /\ k \in 1 .. Len(ms)
        <4>1. i \in 1 .. Len(ms) /\ k \in 1 .. Len(ms)
          BY OpenIs
        <4>2. QED BY <2>2, <4>1 DEF l
      <3>2. ms[k].role # "tool"
        <4>1. ToSet(ms[k].calls) # {}
          BY OpenIs
        <4>2. QED BY <3>1, <4>1, CallsOf
      <3>3. RoundEnd(ms, i) < k
        BY <3>1, <3>2, RoundsApart
      <3>4. RoundEnd(ms, i) < l /\ RoundEnd(ms, k) < l
        <4>1. RoundEnd(ms, i) \in i .. l /\ RoundEnd(ms, k) \in k .. l
          BY <1>4, <3>1
        <4>2. QED BY <1>1, <2>2, <3>1, <3>3, <4>1
      <3>5. i \in Open(w) /\ k \in Open(w)
        BY <1>6, <3>4
      <3>6. RoundEnd(w, k) = Len(w)
        BY <1>12, <2>2, <3>5 DEF OneHole
      <3>7. RoundEnd(w, k) = RoundEnd(ms, k)
        BY <1>2, <3>1, <3>4
      <3>8. QED BY <1>1, <3>4, <3>6, <3>7
    <2>3. QED BY <2>1, <2>2 DEF OneHole, l
  <1>13. Tidy(ms)
    BY <1>8, <1>9, <1>10 DEF Tidy
  <1>14. QED BY <1>5, <1>6, <1>11, <1>12, <1>13 DEF w, l

(* A sequence without repetitions is no longer than one with its members. *)
LEMMA NoLonger ==
  ASSUME NEW S, NEW s \in Seq(S), NEW t \in Seq(S), IsInjective(s), ToSet(s) \subseteq ToSet(t)
  PROVE  Len(s) <= Len(t)
  <1> DEFINE f == [i \in 1 .. Len(s) |-> CHOOSE j \in 1 .. Len(t) : t[j] = s[i]]
  <1>1. Len(s) \in Nat /\ Len(t) \in Nat /\ DOMAIN s = 1 .. Len(s)
    OBVIOUS
  <1>2. ToSet(s) = {s[i] : i \in 1 .. Len(s)} /\ ToSet(t) = {t[i] : i \in 1 .. Len(t)}
    BY ToSetIs
  <1>3. ASSUME NEW i \in 1 .. Len(s) PROVE f[i] \in 1 .. Len(t) /\ t[f[i]] = s[i]
    <2>1. \E j \in 1 .. Len(t) : t[j] = s[i]
      BY <1>2
    <2>2. QED BY <2>1
  <1>4. f \in [1 .. Len(s) -> 1 .. Len(t)]
    BY <1>3
  <1> HIDE DEF f
  <1>5. ASSUME Len(t) < Len(s) PROVE FALSE
    <2>1. /\ IsFiniteSet(1 .. Len(s)) /\ Cardinality(1 .. Len(s)) = Len(s)
          /\ IsFiniteSet(1 .. Len(t)) /\ Cardinality(1 .. Len(t)) = Len(t)
      <3>1. ASSUME NEW n \in Nat PROVE IsFiniteSet(1 .. n) /\ Cardinality(1 .. n) = n
        <4>1. 1 \in Int /\ n \in Int
          OBVIOUS
        <4>2. IsFiniteSet(1 .. n) /\ Cardinality(1 .. n) = IF 1 > n THEN 0 ELSE n - 1 + 1
          BY <4>1, FS_Interval
        <4>3. QED BY <4>2
      <3>2. QED BY <1>1, <3>1
    <2>2. PICK x, y \in 1 .. Len(s) : x # y /\ f[x] = f[y]
      BY <1>4, <1>5, <2>1, FS_PigeonHole
    <2>3. s[x] = s[y]
      BY <1>3, <2>2
    <2>4. QED BY <1>1, <2>2, <2>3 DEF IsInjective
  <1>6. QED BY <1>1, <1>5

(* With every result in its round and no open round a list is a request    *)
(* the model APIs accept.                                                  *)
LEMMA ValidWhenClosed ==
  ASSUME NEW ms \in Seq(Message), AskedOnce(ms), AnsweredOnce(ms), InRounds(ms), Open(ms) = {}
  PROVE  WellFormed(ms)
  <1>1. DOMAIN ms = 1 .. Len(ms) /\ Len(ms) \in Nat
    OBVIOUS
  <1>2. ASSUME NEW i \in 1 .. Len(ms), ms[i].calls # << >>
        PROVE  LET rs == Results(ms, i) IN
               /\ Len(rs) = Len(ms[i].calls)
               /\ {rs[j].call : j \in DOMAIN rs} = ToSet(ms[i].calls)
    <2> DEFINE e  == RoundEnd(ms, i)
               cs == ms[i].calls
               t  == [j \in 1 .. e - i |-> ms[i + j].call]
    <2>1. e \in i .. Len(ms) /\ \A q \in i + 1 .. e : ms[q].role = "tool"
      BY RoundEndIs
    <2>2. cs \in Seq(Call)
      BY CallsOf
    <2>3. \A c \in ToSet(cs) : \E q \in i + 1 .. e : ms[q].call = c
      BY NotOpen
    <2>4. /\ Len(Results(ms, i)) = e - i
          /\ {Results(ms, i)[j].call : j \in DOMAIN Results(ms, i)} = {ms[q].call : q \in i + 1 .. e}
      BY ResultsAre
    <2> HIDE DEF e, cs
    <2>5. ASSUME NEW q \in i + 1 .. e PROVE ms[q].call \in ToSet(cs) /\ q \in 1 .. Len(ms) /\ ms[q].role = "tool"
      <3>1. q \in 1 .. Len(ms) /\ ms[q].role = "tool"
        BY <2>1
      <3>2. PICK j \in 1 .. q - 1 : ms[q].call \in ToSet(ms[j].calls) /\ q <= RoundEnd(ms, j)
        BY <1>1, <3>1 DEF InRounds
      <3>3. j \in 1 .. Len(ms)
        BY <3>1
      <3>4. ms[j].role # "tool" /\ ms[i].role # "tool"
        <4>1. ToSet(ms[j].calls) # {}
          BY <3>2
        <4>2. QED BY <1>2, <3>3, <4>1, CallsOf
      <3>5. ~(j \in i + 1 .. e)
        BY <2>1, <3>4
      <3>6. ~(j < i)
        <4>1. SUFFICES ASSUME j < i PROVE FALSE
          OBVIOUS
        <4>2. i \in j + 1 .. Len(ms)
          BY <3>3, <4>1
        <4>3. RoundEnd(ms, j) < i
          BY <3>3, <3>4, <4>2, RoundsApart
        <4>4. RoundEnd(ms, j) \in j .. Len(ms)
          BY <3>3, RoundEndIs
        <4>5. QED BY <3>2, <4>3, <4>4
      <3>7. j = i
        BY <2>1, <3>1, <3>3, <3>5, <3>6
      <3>8. QED BY <3>1, <3>2, <3>7 DEF cs
    <2>6. {ms[q].call : q \in i + 1 .. e} = ToSet(cs)
      BY <2>3, <2>5
    <2>7. /\ t \in Seq(Call) /\ Len(t) = e - i /\ DOMAIN t = 1 .. e - i
          /\ \A j \in 1 .. e - i : t[j] = ms[i + j].call /\ i + j \in i + 1 .. e
      <3>1. e - i \in Nat /\ \A j \in 1 .. e - i : i + j \in i + 1 .. e
        BY <2>1
      <3>2. \A c \in ToSet(cs) : c \in Call
        BY <2>2, ToSetIs
      <3>3. \A j \in 1 .. e - i : ms[i + j].call \in Call
        BY <2>5, <3>1, <3>2
      <3>4. QED BY <3>1, <3>3
    <2> HIDE DEF t
    <2>8. IsInjective(t)
      <3> SUFFICES ASSUME NEW a \in 1 .. e - i, NEW b \in 1 .. e - i, t[a] = t[b] PROVE a = b
        BY <2>7 DEF IsInjective
      <3>1. /\ i + a \in 1 .. Len(ms) /\ i + b \in 1 .. Len(ms)
            /\ ms[i + a].role = "tool" /\ ms[i + b].role = "tool" /\ ms[i + a].call = ms[i + b].call
        BY <2>5, <2>7
      <3>2. ms[i + a] \in Message /\ ms[i + b] \in Message
        BY <3>1
      <3>3. ms[i + b] = ms[i + a]
        BY <3>1, <3>2, MessageIs
      <3>4. i + a = i + b
        BY <1>1, <3>1, <3>3 DEF AnsweredOnce
      <3>5. QED BY <2>1, <3>4
    <2>9. ToSet(t) = {ms[q].call : q \in i + 1 .. e}
      <3>1. ToSet(t) = {t[j] : j \in 1 .. e - i}
        BY <2>7 DEF ToSet
      <3>2. \A q \in i + 1 .. e : q - i \in 1 .. e - i /\ i + (q - i) = q
        BY <2>1
      <3>3. \A q \in i + 1 .. e : t[q - i] = ms[q].call
        BY <2>7, <3>2
      <3>4. QED BY <2>7, <3>1, <3>2, <3>3
    <2>10. IsInjective(cs)
      BY <1>1 DEF AskedOnce, cs
    <2>11. Len(t) <= Len(cs) /\ Len(cs) <= Len(t)
      <3>1. t \in Seq(Call) /\ cs \in Seq(Call) /\ ToSet(t) = ToSet(cs)
        BY <2>2, <2>6, <2>7, <2>9
      <3>2. QED BY <2>8, <2>10, <3>1, NoLonger
    <2>12. Len(cs) = e - i
      <3>1. Len(cs) \in Int /\ Len(t) \in Int
        BY <2>2, <2>7
      <3>2. QED BY <2>7, <2>11, <3>1
    <2>13. QED BY <2>4, <2>6, <2>12 DEF e, cs
  <1>3. ASSUME NEW i \in 1 .. Len(ms), ms[i].role = "tool"
        PROVE  \E j \in 1 .. i - 1 : ms[j].calls # << >> /\ i <= RoundEnd(ms, j)
    <2>1. PICK j \in 1 .. i - 1 : ms[i].call \in ToSet(ms[j].calls) /\ i <= RoundEnd(ms, j)
      BY <1>1, <1>3 DEF InRounds
    <2>2. ms[j].calls # << >>
      BY <2>1 DEF ToSet
    <2>3. QED BY <2>1, <2>2
  <1>4. QED BY <1>1, <1>2, <1>3 DEF WellFormed

(* Where the message at p of a list without round i was in the whole list. *)
Gap(ms, i)    == RoundEnd(ms, i) - i + 1
Was(ms, i, p) == IF p < i THEN p ELSE p + Gap(ms, i)

(* Leaving a round out does not touch the others. *)
LEMMA OthersStay ==
  ASSUME NEW ms \in Seq(Message), NEW i \in 1 .. Len(ms), ms[i].role # "tool",
         NEW p \in 1 .. Len(LeaveOut(ms, i))
  PROVE  /\ Was(ms, i, p) \in 1 .. Len(ms) /\ Was(ms, i, p) \notin i .. RoundEnd(ms, i)
         /\ LeaveOut(ms, i)[p] = ms[Was(ms, i, p)]
         /\ RoundEnd(LeaveOut(ms, i), p) =
              IF p < i THEN RoundEnd(ms, Was(ms, i, p)) ELSE RoundEnd(ms, Was(ms, i, p)) - Gap(ms, i)
         /\ p \in Open(LeaveOut(ms, i)) <=> Was(ms, i, p) \in Open(ms)
  <1> DEFINE w == LeaveOut(ms, i)
             e == RoundEnd(ms, i)
             n == Len(ms)
             d == Gap(ms, i)
             o == Was(ms, i, p)
             r == RoundEnd(ms, o)
  <1>1. w \in Seq(Message) /\ Len(w) = (i - 1) + (n - e)
    BY LeaveOutIs
  <1>2. \A j \in 1 .. i - 1 : w[j] = ms[j]
    BY LeaveOutIs
  <1>3. \A j \in 1 .. n - e : w[(i - 1) + j] = ms[e + j]
    BY LeaveOutIs
  <1>4. e \in i .. n /\ (e = n \/ ms[e + 1].role # "tool")
    BY RoundEndIs
  <1>5. /\ n \in Int /\ i \in Int /\ e \in Int /\ d \in Int /\ p \in Int
        /\ 1 <= i /\ i <= e /\ e <= n /\ d = e - i + 1 /\ 1 <= p /\ p <= n - d
    <2>1. n \in Int /\ i \in Int /\ 1 <= i /\ p \in 1 .. Len(w)
      OBVIOUS
    <2>2. e \in Int /\ i <= e /\ e <= n
      BY <1>4, <2>1
    <2>3. d = e - i + 1
      BY DEF Gap
    <2> HIDE DEF e, n, w, d
    <2>4. d \in Int /\ Len(w) = n - d
      BY <1>1, <2>1, <2>2, <2>3
    <2>5. QED BY <2>1, <2>2, <2>3, <2>4
  <1>0. o = IF p < i THEN p ELSE p + d
    BY DEF Was
  <1> HIDE DEF w, e, n, d, o, r
  <1>6. Len(w) = n - d /\ p \in 1 .. Len(w)
    BY <1>1, <1>5
  <1>7. o \in Int /\ o \in 1 .. n /\ o \notin i .. e
    BY <1>0, <1>5
  <1>8. r \in o .. n /\ (\A q \in o + 1 .. r : ms[q].role = "tool") /\ (r = n \/ ms[r + 1].role # "tool")
    BY <1>7, RoundEndIs DEF r, n
  <1>9. r \in Int /\ o <= r /\ r <= n
    BY <1>5, <1>7, <1>8
  <1>10. ASSUME NEW q \in i .. n - d PROVE q + d \in e + 1 .. n /\ w[q] = ms[q + d]
    <2>1. q - (i - 1) \in 1 .. n - e /\ (i - 1) + (q - (i - 1)) = q /\ e + (q - (i - 1)) = q + d
      BY <1>5
    <2>2. q + d \in e + 1 .. n
      BY <1>5
    <2>3. QED BY <1>3, <2>1, <2>2
  <1>11. CASE p < i
    <2>1. o = p /\ p \in 1 .. i - 1
      BY <1>0, <1>5, <1>11
    <2>2. r < i
      <3>1. o \in 1 .. Len(ms) /\ i \in o + 1 .. Len(ms)
        BY <1>5, <1>7, <2>1 DEF n
      <3>2. QED BY <3>1, RoundsApart DEF r
    <2>3. w[p] = ms[o]
      BY <1>2, <2>1
    <2>4. ASSUME NEW q \in o + 1 .. r PROVE w[q] = ms[q]
      <3>1. q \in 1 .. i - 1
        BY <1>5, <1>7, <1>9, <2>2
      <3>2. QED BY <1>2, <3>1
    <2>5. r = Len(w) \/ w[r + 1].role # "tool"
      <3>1. CASE r + 1 < i
        <4>1. r + 1 \in 1 .. i - 1 /\ r # n
          BY <1>5, <1>7, <1>9, <3>1
        <4>2. QED BY <1>2, <1>8, <4>1
      <3>2. CASE r + 1 = i /\ i <= n - d
        <4>1. i + d = e + 1 /\ e # n /\ i \in i .. n - d
          BY <1>5, <3>2
        <4>2. w[i] = ms[e + 1]
          BY <1>10, <4>1
        <4>3. QED BY <1>4, <3>2, <4>1, <4>2
      <3>3. CASE r + 1 = i /\ ~(i <= n - d)
        <4>1. r = n - d
          BY <1>5, <1>9, <2>1, <3>3
        <4>2. QED BY <1>6, <4>1
      <3>4. r + 1 < i \/ r + 1 = i
        BY <1>5, <1>9, <2>2
      <3>5. QED BY <3>1, <3>2, <3>3, <3>4
    <2>6. RoundEnd(w, p) = r
      <3>1. r \in p .. Len(w)
        <4>1. r \in p .. n - d
          BY <1>5, <1>9, <2>1, <2>2
        <4>2. QED BY <1>6, <4>1
      <3>2. \A q \in p + 1 .. r : w[q].role = "tool"
        BY <1>8, <2>1, <2>4
      <3>3. w \in Seq(Message)
        BY <1>1
      <3>4. QED BY <1>6, <2>5, <3>1, <3>2, <3>3, RoundEndWhen
    <2>7. {w[q].call : q \in p + 1 .. RoundEnd(w, p)} = {ms[q].call : q \in o + 1 .. r}
      BY <2>1, <2>4, <2>6
    <2>8. p \in Open(w) <=> o \in Open(ms)
      <3>1. o \in 1 .. Len(ms) /\ w[p].calls = ms[o].calls /\ w \in Seq(Message)
        BY <1>1, <1>7, <2>3 DEF n
      <3>2. QED BY <1>6, <2>7, <3>1, SameRound DEF r
    <2>9. QED BY <1>7, <1>11, <2>3, <2>6, <2>8 DEF w, e, n, d, o, r
  <1>12. CASE ~(p < i)
    <2>1. o = p + d /\ p \in i .. n - d
      BY <1>0, <1>5, <1>12
    <2>2. w[p] = ms[o]
      BY <1>10, <2>1
    <2>3. r - d \in p .. n - d
      BY <1>5, <1>9, <2>1
    <2>4. ASSUME NEW q \in p + 1 .. r - d PROVE q + d \in o + 1 .. r /\ w[q] = ms[q + d]
      <3>1. q + d \in o + 1 .. r /\ q \in i .. n - d
        BY <1>5, <1>9, <2>1
      <3>2. QED BY <1>10, <3>1
    <2>5. r - d = Len(w) \/ w[(r - d) + 1].role # "tool"
      <3>1. CASE r = n
        BY <1>6, <3>1
      <3>2. CASE r # n
        <4>1. (r - d) + 1 \in i .. n - d /\ ((r - d) + 1) + d = r + 1
          BY <1>5, <1>9, <2>1, <3>2
        <4>2. w[(r - d) + 1] = ms[r + 1]
          BY <1>10, <4>1
        <4>3. QED BY <1>8, <3>2, <4>2
      <3>3. QED BY <3>1, <3>2
    <2>6. RoundEnd(w, p) = r - d
      <3>1. r - d \in p .. Len(w) /\ w \in Seq(Message)
        BY <1>1, <1>6, <2>3
      <3>2. \A q \in p + 1 .. r - d : w[q].role = "tool"
        BY <1>8, <2>4
      <3>3. QED BY <1>6, <2>5, <3>1, <3>2, RoundEndWhen
    <2>7. {w[q].call : q \in p + 1 .. RoundEnd(w, p)} = {ms[q].call : q \in o + 1 .. r}
      <3>1. \A q \in o + 1 .. r : q - d \in p + 1 .. r - d /\ (q - d) + d = q
        BY <1>5, <1>9, <2>1, SMTT(40)
      <3>2. \A q \in o + 1 .. r : w[q - d] = ms[q]
        BY <2>4, <3>1
      <3>3. \A q \in p + 1 .. r - d : q + d \in o + 1 .. r /\ w[q].call = ms[q + d].call
        BY <2>4
      <3>4. \A q \in o + 1 .. r : q - d \in p + 1 .. r - d /\ w[q - d].call = ms[q].call
        BY <3>1, <3>2
      <3>5. {w[q].call : q \in p + 1 .. r - d} = {ms[q].call : q \in o + 1 .. r}
        <4> DEFINE X == {w[q].call : q \in p + 1 .. r - d}
                   Y == {ms[q].call : q \in o + 1 .. r}
        <4>1. \A q \in p + 1 .. r - d : w[q].call \in Y
          BY <3>3
        <4>2. \A q \in o + 1 .. r : ms[q].call \in X
          BY <3>4, Zenon
        <4>3. X \subseteq Y /\ Y \subseteq X
          BY <4>1, <4>2, Zenon
        <4> HIDE DEF X, Y
        <4>4. X = Y
          BY <4>3
        <4>5. QED BY <4>4 DEF X, Y
      <3>6. QED BY <2>6, <3>5
    <2>8. p \in Open(w) <=> o \in Open(ms)
      <3>1. o \in 1 .. Len(ms) /\ w[p].calls = ms[o].calls /\ w \in Seq(Message)
        BY <1>1, <1>7, <2>2 DEF n
      <3>2. QED BY <1>6, <2>7, <3>1, SameRound DEF r
    <2>9. QED BY <1>7, <1>12, <2>2, <2>6, <2>8 DEF w, e, n, d, o, r
  <1>13. QED BY <1>11, <1>12

(* Every message outside the round keeps a place, in the order they had. *)
LEMMA Places ==
  ASSUME NEW ms \in Seq(Message), NEW i \in 1 .. Len(ms), ms[i].role # "tool"
  PROVE  /\ \A p, q \in 1 .. Len(LeaveOut(ms, i)) : p < q <=> Was(ms, i, p) < Was(ms, i, q)
         /\ \A p, q \in 1 .. Len(LeaveOut(ms, i)) : p # q => Was(ms, i, p) # Was(ms, i, q)
         /\ \A q \in 1 .. Len(ms) :
              q \notin i .. RoundEnd(ms, i) => \E p \in 1 .. Len(LeaveOut(ms, i)) : Was(ms, i, p) = q
  <1> DEFINE w == LeaveOut(ms, i)
             e == RoundEnd(ms, i)
             d == Gap(ms, i)
             n == Len(ms)
             Place(p) == IF p < i THEN p ELSE p + d
  <1>1. w \in Seq(Message) /\ Len(w) = (i - 1) + (n - e) /\ e \in i .. n
    BY LeaveOutIs, RoundEndIs
  <1>2. /\ n \in Int /\ i \in Int /\ e \in Int /\ d \in Int /\ 1 <= i /\ i <= e /\ e <= n
        /\ d = e - i + 1 /\ Len(w) = n - d
    <2>1. n \in Int /\ i \in Int /\ 1 <= i
      OBVIOUS
    <2> HIDE DEF w, e, n
    <2>2. e \in Int /\ i <= e /\ e <= n
      BY <1>1, <2>1
    <2>3. d = e - i + 1
      BY DEF e, d, Gap
    <2> HIDE DEF d
    <2>4. d \in Int /\ Len(w) = n - d
      BY <1>1, <2>1, <2>2, <2>3
    <2>5. QED BY <2>1, <2>2, <2>3, <2>4
  <1>3. \A p : Was(ms, i, p) = Place(p)
    BY DEF Was
  <1> HIDE DEF w, e, d, n
  <1>4. \A p, q \in 1 .. n - d : (p < q <=> Place(p) < Place(q)) /\ (p # q => Place(p) # Place(q))
    <2> SUFFICES ASSUME NEW p \in 1 .. n - d, NEW q \in 1 .. n - d
                 PROVE  (p < q <=> Place(p) < Place(q)) /\ (p # q => Place(p) # Place(q))
      OBVIOUS
    <2>1. d \in Int /\ d >= 1 /\ p \in Int /\ q \in Int /\ i \in Int
      BY <1>2
    <2>2. QED BY <2>1
  <1>5. ASSUME NEW q \in 1 .. n, q \notin i .. e PROVE \E p \in 1 .. Len(w) : Place(p) = q
    <2>1. CASE q < i
      <3>1. q \in 1 .. n - d /\ Place(q) = q
        BY <1>2, <2>1
      <3>2. QED BY <1>2, <3>1
    <2>2. CASE q > e
      <3>1. q - d \in 1 .. n - d /\ Place(q - d) = q
        BY <1>2, <2>2
      <3>2. QED BY <1>2, <3>1
    <2>3. q < i \/ q > e
      BY <1>2, <1>5
    <2>4. QED BY <2>1, <2>2, <2>3
  <1> HIDE DEF Place
  <1>6. \A p, q \in 1 .. Len(w) : (p < q <=> Place(p) < Place(q)) /\ (p # q => Place(p) # Place(q))
    BY <1>2, <1>4
  <1>7. QED BY <1>3, <1>5, <1>6 DEF w, e, n

(* Calls and results stay unique without a round.                          *)
LEMMA LeaveOutOnce ==
  ASSUME NEW ms \in Seq(Message), NEW i \in 1 .. Len(ms), ms[i].role # "tool",
         AskedOnce(ms), AnsweredOnce(ms)
  PROVE  AskedOnce(LeaveOut(ms, i)) /\ AnsweredOnce(LeaveOut(ms, i))
  <1> DEFINE w == LeaveOut(ms, i)
             At0(p) == Was(ms, i, p)
  <1>1. w \in Seq(Message)
    BY LeaveOutIs
  <1>2. DOMAIN w = 1 .. Len(w) /\ DOMAIN ms = 1 .. Len(ms)
    BY <1>1
  <1>3. \A p \in DOMAIN w : At0(p) \in DOMAIN ms /\ w[p] = ms[At0(p)]
    <2> SUFFICES ASSUME NEW p \in 1 .. Len(w) PROVE At0(p) \in 1 .. Len(ms) /\ w[p] = ms[At0(p)]
      BY <1>2
    <2>1. QED BY OthersStay
  <1>4. \A p, q \in DOMAIN w : p # q => At0(p) # At0(q)
    BY <1>2, Places
  <1> HIDE DEF w, At0
  <1>5. AskedOnce(w)
    <2>1. /\ \A j \in DOMAIN ms : IsInjective(ms[j].calls)
          /\ \A j, q \in DOMAIN ms : j # q => ToSet(ms[j].calls) \cap ToSet(ms[q].calls) = {}
      BY DEF AskedOnce
    <2>2. ASSUME NEW p \in DOMAIN w PROVE IsInjective(w[p].calls)
      BY <1>3, <2>1
    <2>3. ASSUME NEW p \in DOMAIN w, NEW q \in DOMAIN w, p # q
          PROVE  ToSet(w[p].calls) \cap ToSet(w[q].calls) = {}
      BY <1>3, <1>4, <2>1, <2>3
    <2>4. QED BY <2>2, <2>3 DEF AskedOnce
  <1>6. AnsweredOnce(w)
    <2> SUFFICES ASSUME NEW p \in DOMAIN w, NEW q \in DOMAIN w, w[p].role = "tool", w[q] = w[p]
                 PROVE  p = q
      BY DEF AnsweredOnce
    <2>1. At0(p) = At0(q)
      BY <1>3 DEF AnsweredOnce
    <2>2. QED BY <1>4, <2>1
  <1>7. QED BY <1>5, <1>6 DEF w

(* A list whose only open round is left out. *)
LEMMA ValidWithout ==
  ASSUME NEW ms \in Seq(Message), Tidy(ms), InRounds(ms), NEW i \in Open(ms), Open(ms) \subseteq {i}
  PROVE  WellFormed(LeaveOut(ms, i))
  <1> DEFINE w == LeaveOut(ms, i)
             e == RoundEnd(ms, i)
             d == Gap(ms, i)
             Place(p) == IF p < i THEN p ELSE p + d
             n == Len(ms)
  <1>1. i \in 1 .. n /\ ms[i].role # "tool"
    <2>1. i \in 1 .. n /\ ToSet(ms[i].calls) # {}
      BY OpenIs
    <2>2. QED BY <2>1, CallsOf
  <1>2. w \in Seq(Message) /\ Len(w) = (i - 1) + (n - e)
    BY <1>1, LeaveOutIs
  <1>3. e \in i .. n /\ \A q \in i + 1 .. e : ms[q].role = "tool"
    BY <1>1, RoundEndIs
  <1>4. ASSUME NEW p \in 1 .. Len(w)
        PROVE  /\ Place(p) \in 1 .. n /\ Place(p) \notin i .. e /\ w[p] = ms[Place(p)]
               /\ RoundEnd(w, p) = IF p < i THEN RoundEnd(ms, Place(p)) ELSE RoundEnd(ms, Place(p)) - d
               /\ p \in Open(w) <=> Place(p) \in Open(ms)
    <2>1. Place(p) = Was(ms, i, p)
      BY DEF Was
    <2>2. p \in 1 .. Len(LeaveOut(ms, i))
      OBVIOUS
    <2> HIDE DEF Place
    <2>3. QED BY <1>1, <2>1, <2>2, OthersStay
  <1>5. /\ n \in Int /\ i \in Int /\ e \in Int /\ d \in Int /\ 1 <= i /\ i <= e /\ e <= n
        /\ d = e - i + 1 /\ Len(w) = n - d /\ DOMAIN ms = 1 .. n /\ DOMAIN w = 1 .. Len(w)
    <2>1. n \in Int /\ i \in Int /\ 1 <= i /\ DOMAIN ms = 1 .. n
      BY <1>1
    <2> HIDE DEF w, e, n
    <2>2. e \in Int /\ i <= e /\ e <= n
      BY <1>3, <2>1
    <2>3. d = e - i + 1
      BY DEF e, d, Gap
    <2> HIDE DEF d
    <2>4. d \in Int /\ Len(w) = n - d
      BY <1>2, <2>1, <2>2, <2>3
    <2>5. DOMAIN w = 1 .. Len(w)
      BY <1>2
    <2>6. QED BY <2>1, <2>2, <2>3, <2>4, <2>5
  <1> HIDE DEF w, e, d, n
  <1>8. ASSUME NEW q \in 1 .. n, q \notin i .. e PROVE \E p \in 1 .. Len(w) : Place(p) = q
    <2> HIDE DEF Place
    <2>1. \A p : Place(p) = Was(ms, i, p)
      BY DEF Was, Place, d
    <2>2. QED BY <1>1, <1>8, <2>1, Places DEF w, e, n
  <1>9. Open(w) = {}
    <2> SUFFICES ASSUME NEW p \in Open(w) PROVE FALSE
      OBVIOUS
    <2>1. w \in Seq(Message)
      BY <1>2
    <2>2. p \in 1 .. Len(w)
      BY <2>1, OpenIs
    <2>3. i \in i .. e
      BY <1>5
    <2> HIDE DEF Place
    <2>4. Place(p) \in Open(ms) /\ Place(p) \notin i .. e
      BY <1>4, <2>2
    <2>5. QED BY <2>3, <2>4
  <1>12. AskedOnce(w) /\ AnsweredOnce(w)
    BY <1>1, LeaveOutOnce DEF Tidy, w, n
  <1>14. InRounds(w)
    <2> SUFFICES ASSUME NEW p \in 1 .. Len(w), w[p].role = "tool"
                 PROVE  \E j \in 1 .. p - 1 : w[p].call \in ToSet(w[j].calls) /\ p <= RoundEnd(w, j)
      BY <1>5 DEF InRounds
    <2> DEFINE o == Place(p)
    <2>1. o \in 1 .. n /\ o \notin i .. e /\ w[p] = ms[o]
      BY <1>4
    <2>2. p \in Int /\ p <= n - d /\ IF p < i THEN o = p ELSE o = p + d
      BY <1>5
    <2> HIDE DEF o
    <2>3. PICK j \in 1 .. o - 1 : ms[o].call \in ToSet(ms[j].calls) /\ o <= RoundEnd(ms, j)
      BY <1>5, <2>1 DEF InRounds
    <2>4. j \in 1 .. n /\ j \in Int /\ o \in Int /\ 1 <= j /\ j < o /\ o <= n
      BY <1>5, <2>1
    <2>5. j \in 1 .. Len(ms) /\ RoundEnd(ms, j) \in j .. n /\ RoundEnd(ms, j) \in Int
      <3>1. j \in 1 .. Len(ms)
        BY <2>4 DEF n
      <3>2. RoundEnd(ms, j) \in j .. n
        BY <3>1, RoundEndIs DEF n
      <3>3. QED BY <2>4, <3>1, <3>2
    <2>6. j \notin i .. e
      <3>1. ms[j].role # "tool"
        <4>1. ToSet(ms[j].calls) # {}
          BY <2>3
        <4>2. QED BY <2>5, <4>1, CallsOf
      <3>2. j \notin i + 1 .. e
        BY <1>3, <3>1
      <3>3. j # i
        <4> SUFFICES ASSUME j = i PROVE FALSE
          OBVIOUS
        <4>1. o <= e
          BY <2>3 DEF e
        <4>2. QED BY <1>5, <2>1, <2>4, <4>1
      <3>4. QED BY <1>5, <2>4, <3>2, <3>3
    <2>7. PICK a \in 1 .. Len(w) : Place(a) = j
      BY <1>8, <2>4, <2>6
    <2>8. w[a] = ms[j] /\ RoundEnd(w, a) = IF a < i THEN RoundEnd(ms, j) ELSE RoundEnd(ms, j) - d
      BY <1>4, <2>7
    <2>9. a \in Int /\ 1 <= a /\ a <= n - d /\ IF a < i THEN j = a ELSE j = a + d
      BY <1>5, <2>7
    <2>10. a < p
      BY <1>5, <2>2, <2>4, <2>9
    <2>11. p <= RoundEnd(w, a)
      <3>1. CASE p < i
        <4>1. o = p /\ a < i
          BY <1>5, <2>2, <2>9, <2>10, <3>1
        <4>2. QED BY <2>3, <2>8, <4>1
      <3>2. CASE ~(p < i) /\ ~(a < i)
        <4>1. o = p + d /\ RoundEnd(w, a) = RoundEnd(ms, j) - d
          BY <2>2, <2>8, <3>2
        <4>2. o <= RoundEnd(ms, j)
          BY <2>3
        <4>3. QED BY <1>5, <2>2, <2>5, <4>1, <4>2
      <3>3. CASE ~(p < i) /\ a < i
        <4>1. o > e /\ j < i
          BY <1>5, <2>2, <2>9, <3>3
        <4>2. RoundEnd(ms, j) < i
          <5>1. i \in j + 1 .. Len(ms)
            BY <1>5, <2>4, <4>1 DEF n
          <5>2. QED BY <1>1, <2>5, <5>1, RoundsApart
        <4>3. o <= RoundEnd(ms, j)
          BY <2>3
        <4>4. QED BY <1>5, <2>4, <2>5, <4>1, <4>2, <4>3
      <3>4. QED BY <3>1, <3>2, <3>3
    <2>12. a \in 1 .. p - 1
      BY <2>2, <2>9, <2>10
    <2>13. w[p].call \in ToSet(w[a].calls)
      BY <2>1, <2>3, <2>8
    <2>14. QED BY <2>11, <2>12, <2>13
  <1>15. w \in Seq(Message)
    BY <1>2
  <1>16. QED BY <1>9, <1>12, <1>14, <1>15, ValidWhenClosed DEF w

-----------------------------------------------------------------------------
(* The members of a sequence that are not in a set.                        *)

(* Induction along a sequence, for a set of sequences. *)
LEMMA SeqInduction ==
  ASSUME NEW S, NEW P, << >> \in P, \A t \in Seq(S), e \in S : t \in P => Append(t, e) \in P
  PROVE  \A s \in Seq(S) : s \in P
  <1> DEFINE Q == {n \in Nat : \A s \in Seq(S) : Len(s) = n => s \in P}
  <1>1. 0 \in Q
    OBVIOUS
  <1>2. ASSUME NEW n \in Nat, n \in Q PROVE n + 1 \in Q
    <2> SUFFICES ASSUME NEW s \in Seq(S), Len(s) = n + 1 PROVE s \in P
      OBVIOUS
    <2>1. PICK t \in Seq(S), e \in S : s = Append(t, e) /\ Len(t) = n
      BY LastOff
    <2>2. QED BY <1>2, <2>1
  <1>3. \A n \in Nat : n \in Q
    <2> HIDE DEF Q
    <2>1. QED BY <1>1, <1>2, SetInduction, Zenon
  <1>4. QED BY <1>3, LenProperties

(* What Append does to a sequence's members and to its being injective. *)
LEMMA AppendSet ==
  ASSUME NEW S, NEW s \in Seq(S), NEW e \in S
  PROVE  /\ ToSet(Append(s, e)) = ToSet(s) \cup {e}
         /\ IsInjective(Append(s, e)) <=> IsInjective(s) /\ e \notin ToSet(s)
  <1> DEFINE t == Append(s, e)
  <1>1. /\ DOMAIN t = DOMAIN s \cup {Len(s) + 1} /\ Len(s) + 1 \notin DOMAIN s
        /\ \A i \in DOMAIN s : t[i] = s[i]
        /\ t[Len(s) + 1] = e
    BY AppendIs
  <1> HIDE DEF t
  <1>2. ToSet(t) = ToSet(s) \cup {e}
    BY <1>1 DEF ToSet
  <1>3. IsInjective(t) => IsInjective(s) /\ e \notin ToSet(s)
    <2>1. IsInjective(t) => IsInjective(s)
      BY <1>1 DEF IsInjective
    <2>2. IsInjective(t) => e \notin ToSet(s)
      BY <1>1 DEF IsInjective, ToSet
    <2>3. QED BY <2>1, <2>2
  <1>4. IsInjective(s) /\ e \notin ToSet(s) => IsInjective(t)
    BY <1>1 DEF IsInjective, ToSet
  <1>5. QED BY <1>2, <1>3, <1>4 DEF t

(* The laws of Without: it keeps what is not in S. *)
LEMMA WithoutEmpty == ASSUME NEW S PROVE Without(<< >>, S) = << >>
  <1>1. [i \in DOMAIN << >> |-> IF << >>[i] \in S THEN << >> ELSE <<<< >>[i]>>] = << >>
    OBVIOUS
  <1>2. QED BY <1>1, FlatEmpty DEF Without

(* Without, one member at a time.                                          *)
LEMMA WithoutAppend ==
  ASSUME NEW T, NEW S, NEW s \in Seq(T), NEW e \in T
  PROVE  Without(Append(s, e), S) = Without(s, S) \o (IF e \in S THEN << >> ELSE <<e>>)
  <1> DEFINE One(x) == IF x \in S THEN << >> ELSE <<x>>
             f(t) == [i \in DOMAIN t |-> One(t[i])]
             u == Append(s, e)
  <1>1. /\ DOMAIN u = 1 .. Len(s) + 1 /\ DOMAIN s = 1 .. Len(s) /\ Len(s) \in Nat
        /\ \A i \in 1 .. Len(s) : u[i] = s[i]
        /\ u[Len(s) + 1] = e
    BY AppendIs
  <1>2. \A x \in T : One(x) \in Seq(T)
    OBVIOUS
  <1>3. \A i \in 1 .. Len(s) : s[i] \in T
    OBVIOUS
  <1> HIDE DEF u, One
  <1>4. f(s) \in Seq(Seq(T)) /\ One(e) \in Seq(T) /\ Len(f(s)) = Len(s)
    BY <1>1, <1>2, <1>3
  <1>5. f(u) = Append(f(s), One(e))
    <2> DEFINE a == f(s)
    <2>1. /\ Append(a, One(e)) = [i \in 1 .. Len(a) + 1 |-> IF i <= Len(a) THEN a[i] ELSE One(e)]
      BY <1>4
    <2>2. \A i \in 1 .. Len(s) : a[i] = One(s[i])
      BY <1>1
    <2> HIDE DEF a
    <2>3. Len(a) = Len(s)
      BY <1>4 DEF a
    <2>4. f(u) = [i \in 1 .. Len(s) + 1 |-> IF i <= Len(s) THEN a[i] ELSE One(e)]
      BY <1>1, <2>2
    <2>5. QED BY <2>1, <2>3, <2>4 DEF a
  <1>6. FlattenSeq(f(u)) = FlattenSeq(f(s)) \o One(e)
    BY <1>4, <1>5, FlatAppend
  <1>7. QED BY <1>6 DEF Without, u, One

(* Without keeps the members that are not in S, each as often as before.   *)
LEMMA WithoutIs ==
  ASSUME NEW T, NEW S, NEW s \in Seq(T)
  PROVE  /\ Without(s, S) \in Seq(T)
         /\ ToSet(Without(s, S)) = ToSet(s) \ S
         /\ IsInjective(s) => IsInjective(Without(s, S))
  <1> DEFINE P == {t \in Seq(T) : /\ Without(t, S) \in Seq(T)
                                  /\ ToSet(Without(t, S)) = ToSet(t) \ S
                                  /\ IsInjective(t) => IsInjective(Without(t, S))}
  <1>1. << >> \in P
    <2>1. << >> \in Seq(T) /\ ToSet(<< >>) = {} /\ IsInjective(<< >>)
      BY DEF ToSet, IsInjective
    <2>2. QED BY <2>1, WithoutEmpty
  <1>2. ASSUME NEW t \in Seq(T), NEW e \in T, t \in P PROVE Append(t, e) \in P
    <2> DEFINE v == Without(t, S)
    <2>1. v \in Seq(T) /\ ToSet(v) = ToSet(t) \ S /\ (IsInjective(t) => IsInjective(v))
      BY <1>2
    <2> HIDE DEF v
    <2>2. Append(t, e) \in Seq(T)
      BY AppendIs
    <2>3. /\ ToSet(Append(t, e)) = ToSet(t) \cup {e}
          /\ IsInjective(Append(t, e)) => IsInjective(t) /\ e \notin ToSet(t)
      BY AppendSet
    <2>4. Without(Append(t, e), S) = v \o (IF e \in S THEN << >> ELSE <<e>>)
      BY WithoutAppend DEF v
    <2>5. CASE e \in S
      <3>1. Without(Append(t, e), S) = v
        BY <2>1, <2>4, <2>5, ConcatEmptySeq
      <3>2. QED BY <2>1, <2>2, <2>3, <2>5, <3>1
    <2>6. CASE e \notin S
      <3>1. Without(Append(t, e), S) = Append(v, e)
        BY <2>1, <2>4, <2>6, AppendIs
      <3>2. /\ Append(v, e) \in Seq(T) /\ ToSet(Append(v, e)) = ToSet(v) \cup {e}
            /\ IsInjective(Append(v, e)) <=> IsInjective(v) /\ e \notin ToSet(v)
        BY <2>1, AppendSet, AppendIs
      <3>3. QED BY <2>1, <2>2, <2>3, <2>6, <3>1, <3>2
    <2>7. QED BY <2>5, <2>6
  <1> HIDE DEF P
  <1>3. s \in P
    BY <1>1, <1>2, SeqInduction, Zenon
  <1>4. QED BY <1>3 DEF P

(* The same for every set that is taken away.                              *)
LEMMA WithoutLaws ==
  ASSUME NEW T
  PROVE  \A t \in Seq(T), e \in T : \A U :
           /\ Without(Append(t, e), U) = Without(t, U) \o (IF e \in U THEN << >> ELSE <<e>>)
           /\ Without(t, U) \in Seq(T) /\ ToSet(Without(t, U)) = ToSet(t) \ U
           /\ Without(t, U) \o << >> = Without(t, U)
  <1> SUFFICES ASSUME NEW t \in Seq(T), NEW e \in T, NEW U
      PROVE  /\ Without(Append(t, e), U) = Without(t, U) \o (IF e \in U THEN << >> ELSE <<e>>)
             /\ Without(t, U) \in Seq(T) /\ ToSet(Without(t, U)) = ToSet(t) \ U
             /\ Without(t, U) \o << >> = Without(t, U)
    BY Zenon
  <1>1. Without(Append(t, e), U) = Without(t, U) \o (IF e \in U THEN << >> ELSE <<e>>)
    BY WithoutAppend
  <1>2. Without(t, U) \in Seq(T) /\ ToSet(Without(t, U)) = ToSet(t) \ U
    BY WithoutIs
  <1>3. QED BY <1>1, <1>2, ConcatEmptySeq

(* One more to leave out, the first one that was kept: the tail is kept. *)
LEMMA WithoutHead ==
  ASSUME NEW T, NEW S, NEW s \in Seq(T), IsInjective(s), Without(s, S) # << >>
  PROVE  Without(s, S \cup {Head(Without(s, S))}) = Tail(Without(s, S))
  <1> DEFINE P == {t \in Seq(T) :
                     IsInjective(t) /\ Without(t, S) # << >> =>
                       Without(t, S \cup {Head(Without(t, S))}) = Tail(Without(t, S))}
  <1>1. << >> \in P
    BY WithoutEmpty
  <1>20. \A t \in Seq(T), e \in T : \A U :
           /\ Without(Append(t, e), U) = Without(t, U) \o (IF e \in U THEN << >> ELSE <<e>>)
           /\ Without(t, U) \in Seq(T) /\ ToSet(Without(t, U)) = ToSet(t) \ U
           /\ Without(t, U) \o << >> = Without(t, U)
    BY WithoutLaws, Zenon
  <1>2. ASSUME NEW t \in Seq(T), NEW e \in T, t \in P PROVE Append(t, e) \in P
    <2> DEFINE v == Without(t, S)
               w == Without(Append(t, e), S)
    <2>1. Append(t, e) \in Seq(T)
      BY AppendIs
    <2> SUFFICES ASSUME IsInjective(Append(t, e)), w # << >>
                 PROVE  Without(Append(t, e), S \cup {Head(w)}) = Tail(w)
      BY <2>1
    <2>2. IsInjective(t) /\ e \notin ToSet(t)
      BY AppendSet
    <2>3. v \in Seq(T) /\ ToSet(v) = ToSet(t) \ S /\ v \o << >> = v /\ v \o <<e>> = Append(v, e)
      <3>1. v \in Seq(T) /\ ToSet(v) = ToSet(t) \ S
        BY WithoutIs
      <3>2. QED BY <3>1, ConcatEmptySeq, AppendIs
    <2>4. w = v \o (IF e \in S THEN << >> ELSE <<e>>)
      BY WithoutAppend
    <2>6. /\ Without(Append(t, e), (S \cup {e})) =
               Without(t, (S \cup {e})) \o (IF e \in (S \cup {e}) THEN << >> ELSE <<e>>)
          /\ Without(t, (S \cup {e})) \in Seq(T) /\ ToSet(Without(t, (S \cup {e}))) = ToSet(t) \ ((S \cup {e}))
          /\ Without(t, (S \cup {e})) \o << >> = Without(t, (S \cup {e}))
      BY <1>20, Zenon
    <2>7. v # << >> => Without(t, S \cup {Head(v)}) = Tail(v)
      BY <1>2, <2>2
    <2>8. v # << >> => Head(v) \in ToSet(t) /\ Tail(v) \in Seq(T)
      <3> SUFFICES ASSUME v # << >> PROVE Head(v) \in ToSet(t) /\ Tail(v) \in Seq(T)
        OBVIOUS
      <3> HIDE DEF v
      <3>1. Head(v) = v[1] /\ 1 \in DOMAIN v /\ Tail(v) \in Seq(T)
        BY <2>3
      <3>2. QED BY <2>3, <3>1 DEF ToSet
    <2> HIDE DEF v, w
    <2>5. /\ Without(Append(t, e), (S \cup {Head(v)})) =
               Without(t, (S \cup {Head(v)})) \o (IF e \in (S \cup {Head(v)}) THEN << >> ELSE <<e>>)
          /\ Without(t, (S \cup {Head(v)})) \in Seq(T) /\ ToSet(Without(t, (S \cup {Head(v)}))) = ToSet(t) \ ((S \cup {Head(v)}))
          /\ Without(t, (S \cup {Head(v)})) \o << >> = Without(t, (S \cup {Head(v)}))
      BY <1>20, Zenon
    <2>9. CASE e \in S
      <3>1. w = v /\ v # << >>
        BY <2>3, <2>4, <2>9
      <3>2. Without(Append(t, e), S \cup {Head(v)}) = Without(t, S \cup {Head(v)})
        BY <2>5, <2>9
      <3>3. QED BY <2>7, <3>1, <3>2
    <2>10. CASE e \notin S /\ v # << >>
      <3>1. w = Append(v, e)
        BY <2>3, <2>4, <2>10
      <3>2. Head(w) = Head(v) /\ Tail(w) = Tail(v) \o <<e>>
        <4>1. v \in Seq(T) /\ e \in T /\ v # << >>
          BY <2>3, <2>10
        <4> HIDE DEF v
        <4>2. /\ DOMAIN w = 1 .. Len(v) + 1 /\ w \in Seq(T) /\ Len(w) = Len(v) + 1 /\ Len(v) \in Nat
              /\ \A q \in 1 .. Len(v) : w[q] = v[q]
              /\ w[Len(v) + 1] = e
          BY <3>1, <4>1, AppendIs
        <4>3. Len(v) >= 1 /\ Len(v) \in Nat
          BY <4>1
        <4>4. Head(w) = Head(v)
          BY <4>1, <4>2, <4>3
        <4>5. Tail(w) = Append(Tail(v), e)
          BY <3>1, <4>1, <4>3
        <4>6. Tail(v) \in Seq(T) /\ e \in T
          BY <2>8, <4>1
        <4>7. Append(Tail(v), e) = Tail(v) \o <<e>>
          BY <4>6, AppendIsConcat
        <4>8. QED BY <4>4, <4>5, <4>7
      <3>3. e \notin S \cup {Head(v)}
        BY <2>2, <2>8, <2>10
      <3>4. QED BY <2>5, <2>7, <2>10, <3>2, <3>3
    <2>11. CASE e \notin S /\ v = << >>
      <3>1. w = <<e>> /\ Head(w) = e /\ Tail(w) = << >>
        BY <2>3, <2>4, <2>11
      <3>2. Without(Append(t, e), S \cup {e}) = Without(t, S \cup {e})
        BY <2>6
      <3>3. ToSet(v) = {}
        BY <2>11 DEF ToSet
      <3>4. ToSet(Without(t, S \cup {e})) = {} /\ Without(t, S \cup {e}) \in Seq(T)
        BY <2>3, <2>6, <3>3
      <3>5. Without(t, S \cup {e}) = << >>
        BY <3>4, ToSetIs
      <3>6. QED BY <3>1, <3>2, <3>5
    <2>12. QED BY <2>9, <2>10, <2>11
  <1> HIDE DEF P
  <1>3. s \in P
    BY <1>1, <1>2, SeqInduction, Zenon
  <1>4. QED BY <1>3 DEF P

-----------------------------------------------------------------------------
(* What a restart repairs.                                                 *)

(* The members of a concatenation.                                         *)
LEMMA ConcatSet ==
  ASSUME NEW S, NEW s \in Seq(S), NEW t \in Seq(S)
  PROVE  /\ ToSet(s \o t) = ToSet(s) \cup ToSet(t)
         /\ IsInjective(s) /\ IsInjective(t) /\ ToSet(s) \cap ToSet(t) = {} => IsInjective(s \o t)
  <1> DEFINE u == s \o t
             P == {v \in Seq(S) : /\ ToSet(s \o v) = ToSet(s) \cup ToSet(v)
                                  /\ IsInjective(s) /\ IsInjective(v) /\ ToSet(s) \cap ToSet(v) = {}
                                       => IsInjective(s \o v)}
  <1>1. << >> \in P
    <2>1. s \o << >> = s /\ << >> \in Seq(S) /\ ToSet(<< >>) = {}
      BY ConcatEmptySeq DEF ToSet
    <2>2. QED BY <2>1
  <1>2. ASSUME NEW v \in Seq(S), NEW e \in S, v \in P PROVE Append(v, e) \in P
    <2> DEFINE x == s \o v
    <2>1. /\ ToSet(x) = ToSet(s) \cup ToSet(v) /\ x \in Seq(S) /\ Append(v, e) \in Seq(S)
          /\ IsInjective(s) /\ IsInjective(v) /\ ToSet(s) \cap ToSet(v) = {} => IsInjective(x)
      <3>1. x \in Seq(S) /\ Append(v, e) \in Seq(S)
        BY AppendIs, ConcatIs
      <3>2. QED BY <1>2, <3>1
    <2>2. s \o Append(v, e) = Append(x, e)
      <3>1. Append(v, e) = v \o <<e>> /\ <<e>> \in Seq(S) /\ x \in Seq(S)
        BY <2>1, AppendIsConcat
      <3>2. Append(x, e) = x \o <<e>>
        BY <3>1, AppendIsConcat
      <3>3. x \o <<e>> = s \o (v \o <<e>>)
        BY <3>1, ConcatAssociative
      <3>4. QED BY <3>1, <3>2, <3>3
    <2> HIDE DEF x
    <2>3. /\ ToSet(Append(x, e)) = ToSet(x) \cup {e}
          /\ IsInjective(Append(x, e)) <=> IsInjective(x) /\ e \notin ToSet(x)
      BY <2>1, AppendSet
    <2>4. /\ ToSet(Append(v, e)) = ToSet(v) \cup {e}
          /\ IsInjective(Append(v, e)) <=> IsInjective(v) /\ e \notin ToSet(v)
      BY AppendSet
    <2>5. ToSet(s \o Append(v, e)) = ToSet(s) \cup ToSet(Append(v, e))
      BY <2>1, <2>2, <2>3, <2>4
    <2>6. ASSUME IsInjective(s), IsInjective(Append(v, e)), ToSet(s) \cap ToSet(Append(v, e)) = {}
          PROVE  IsInjective(s \o Append(v, e))
      BY <2>1, <2>2, <2>3, <2>4, <2>6
    <2>7. QED BY <2>1, <2>5, <2>6
  <1> HIDE DEF P
  <1>3. t \in P
    BY <1>1, <1>2, SeqInduction, Zenon
  <1>4. QED BY <1>3 DEF P

(* The calls of a message list, in their order. *)
CallsIn(ms) == FlattenSeq([i \in DOMAIN ms |-> ms[i].calls])

(* The calls of one more message come at the end.                          *)
LEMMA CallsInAppend ==
  ASSUME NEW ms \in Seq(Message), NEW m \in Message
  PROVE  CallsIn(Append(ms, m)) = CallsIn(ms) \o m.calls
  <1> DEFINE f(t) == [i \in DOMAIN t |-> t[i].calls]
             u == Append(ms, m)
  <1>1. /\ DOMAIN u = 1 .. Len(ms) + 1 /\ DOMAIN ms = 1 .. Len(ms) /\ Len(ms) \in Nat
        /\ \A i \in 1 .. Len(ms) : u[i] = ms[i]
        /\ u[Len(ms) + 1] = m
    BY AppendIs
  <1>2. m.calls \in Seq(Call) /\ \A i \in 1 .. Len(ms) : ms[i].calls \in Seq(Call)
    BY MessageIs, CallsOf
  <1> HIDE DEF u
  <1>3. f(ms) \in Seq(Seq(Call)) /\ Len(f(ms)) = Len(ms)
    BY <1>1, <1>2
  <1>4. f(u) = Append(f(ms), m.calls)
    <2> DEFINE a == f(ms)
               x == m.calls
    <2>1. Append(a, x) = [i \in 1 .. Len(a) + 1 |-> IF i <= Len(a) THEN a[i] ELSE x]
      BY <1>3
    <2>2. \A i \in 1 .. Len(ms) : a[i] = ms[i].calls
      BY <1>1
    <2> HIDE DEF a
    <2>3. Len(a) = Len(ms)
      BY <1>3 DEF a
    <2>4. f(u) = [i \in 1 .. Len(ms) + 1 |-> IF i <= Len(ms) THEN a[i] ELSE x]
      BY <1>1, <2>2
    <2>5. QED BY <2>1, <2>3, <2>4 DEF a
  <1>5. FlattenSeq(f(u)) = FlattenSeq(f(ms)) \o m.calls
    BY <1>2, <1>3, <1>4, FlatAppend
  <1>6. QED BY <1>5 DEF CallsIn, u

(* CallsIn has the calls of all messages, each once if none was asked      *)
(* twice.                                                                  *)
LEMMA CallsInIs ==
  ASSUME NEW ms \in Seq(Message)
  PROVE  /\ CallsIn(ms) \in Seq(Call)
         /\ \A c : c \in ToSet(CallsIn(ms)) <=> \E i \in 1 .. Len(ms) : c \in ToSet(ms[i].calls)
         /\ AskedOnce(ms) => IsInjective(CallsIn(ms))
  <1> DEFINE P == {t \in Seq(Message) :
               /\ CallsIn(t) \in Seq(Call)
               /\ \A c : c \in ToSet(CallsIn(t)) <=> \E i \in 1 .. Len(t) : c \in ToSet(t[i].calls)
               /\ AskedOnce(t) => IsInjective(CallsIn(t))}
  <1>1. << >> \in P
    <2>1. [i \in DOMAIN << >> |-> <<>>[i].calls] = << >>
      OBVIOUS
    <2>2. CallsIn(<< >>) = << >>
      BY <2>1, FlatEmpty DEF CallsIn
    <2>3. << >> \in Seq(Message) /\ ToSet(<< >>) = {} /\ IsInjective(<< >>) /\ << >> \in Seq(Call)
          /\ 1 .. Len(<< >>) = {}
      BY DEF ToSet, IsInjective
    <2>4. QED BY <2>2, <2>3
  <1>2. ASSUME NEW t \in Seq(Message), NEW m \in Message, t \in P PROVE Append(t, m) \in P
    <2> DEFINE u == Append(t, m)
               a == CallsIn(t)
               b == m.calls
    <2>1. /\ a \in Seq(Call)
          /\ \A c : c \in ToSet(a) <=> \E i \in 1 .. Len(t) : c \in ToSet(t[i].calls)
          /\ AskedOnce(t) => IsInjective(a)
      BY <1>2
    <2>2. /\ u \in Seq(Message) /\ DOMAIN u = 1 .. Len(t) + 1 /\ DOMAIN t = 1 .. Len(t)
          /\ Len(u) = Len(t) + 1 /\ Len(t) \in Nat
          /\ \A i \in 1 .. Len(t) : u[i] = t[i]
          /\ u[Len(t) + 1] = m
      BY AppendIs
    <2>3. b \in Seq(Call)
      BY MessageIs
    <2>4. CallsIn(u) = a \o b
      BY CallsInAppend
    <2> HIDE DEF u, a, b
    <2>5. /\ ToSet(a \o b) = ToSet(a) \cup ToSet(b) /\ a \o b \in Seq(Call)
          /\ IsInjective(a) /\ IsInjective(b) /\ ToSet(a) \cap ToSet(b) = {} => IsInjective(a \o b)
      BY <2>1, <2>3, ConcatSet, ConcatIs
    <2>6. ASSUME NEW c
          PROVE  c \in ToSet(CallsIn(u)) <=> \E i \in 1 .. Len(u) : c \in ToSet(u[i].calls)
      <3>1. (\E i \in 1 .. Len(u) : c \in ToSet(u[i].calls))
              <=> (\E i \in 1 .. Len(t) : c \in ToSet(t[i].calls)) \/ c \in ToSet(b)
        <4>1. \A i : i \in 1 .. Len(u) <=> i \in 1 .. Len(t) \/ i = Len(t) + 1
          BY <2>2
        <4>2. \A i \in 1 .. Len(t) : u[i].calls = t[i].calls
          BY <2>2
        <4>3. u[Len(t) + 1].calls = b
          BY <2>2 DEF b
        <4>4. QED BY <4>1, <4>2, <4>3
      <3>2. QED BY <2>1, <2>4, <2>5, <3>1
    <2>7. ASSUME AskedOnce(u) PROVE IsInjective(CallsIn(u))
      <3>1. \A i \in 1 .. Len(t) : i \in DOMAIN u /\ i # Len(t) + 1
        BY <2>2
      <3>2. Len(t) + 1 \in DOMAIN u
        BY <2>2
      <3>3. AskedOnce(t)
        <4>1. \A i \in DOMAIN t : IsInjective(t[i].calls)
          BY <2>2, <2>7, <3>1 DEF AskedOnce
        <4>2. \A i, j \in DOMAIN t : i # j => ToSet(t[i].calls) \cap ToSet(t[j].calls) = {}
          BY <2>2, <2>7, <3>1 DEF AskedOnce
        <4>3. QED BY <4>1, <4>2 DEF AskedOnce
      <3>4. IsInjective(b)
        BY <2>2, <2>7, <3>2 DEF AskedOnce, b
      <3>5. \A i \in 1 .. Len(t) : ToSet(t[i].calls) \cap ToSet(b) = {}
        BY <2>2, <2>7, <3>1, <3>2 DEF AskedOnce, b
      <3>6. ToSet(a) \cap ToSet(b) = {}
        BY <2>1, <3>5
      <3>7. QED BY <2>1, <2>4, <2>5, <3>3, <3>4, <3>6
    <2>8. CallsIn(u) \in Seq(Call)
      BY <2>4, <2>5
    <2>9. QED BY <2>2, <2>6, <2>7, <2>8 DEF u
  <1> HIDE DEF P
  <1>3. ms \in P
    BY <1>1, <1>2, SeqInduction, Zenon
  <1>4. QED BY <1>3 DEF P

(* The repairs: a result for each call that has none, in their order. *)
LEMMA RepairsAre ==
  ASSUME NEW ms \in Seq(Message), AskedOnce(ms)
  PROVE  \E cs \in Seq(Call) :
           /\ cs = Without(CallsIn(ms), Told(ms))
           /\ Repairs(ms) = [i \in DOMAIN cs |-> Result(cs[i])]
           /\ IsInjective(cs)
           /\ \A c : c \in ToSet(cs) <=> /\ c \notin Told(ms)
                                         /\ \E i \in 1 .. Len(ms) : c \in ToSet(ms[i].calls)
  <1> DEFINE cs == Without(CallsIn(ms), Told(ms))
  <1>1. CallsIn(ms) \in Seq(Call) /\ IsInjective(CallsIn(ms))
        /\ \A c : c \in ToSet(CallsIn(ms)) <=> \E i \in 1 .. Len(ms) : c \in ToSet(ms[i].calls)
    BY CallsInIs
  <1>2. cs \in Seq(Call) /\ IsInjective(cs) /\ ToSet(cs) = ToSet(CallsIn(ms)) \ Told(ms)
    <2>1. CallsIn(ms) \in Seq(Call) /\ IsInjective(CallsIn(ms))
      BY <1>1
    <2>2. QED BY <2>1, WithoutIs
  <1>3. Repairs(ms) = [i \in DOMAIN cs |-> Result(cs[i])]
    BY DEF Repairs, CallsIn
  <1> HIDE DEF cs
  <1>4. \A c : c \in ToSet(cs) <=> /\ c \notin Told(ms)
                                   /\ \E i \in 1 .. Len(ms) : c \in ToSet(ms[i].calls)
    BY <1>1, <1>2
  <1>5. QED BY <1>2, <1>3, <1>4 DEF cs

(* The first open round: the results right behind it answer its own calls. *)
LEMMA OwnResults ==
  ASSUME NEW ms \in Seq(Message), Follows(ms),
         NEW i \in Open(ms), \A j \in Open(ms) : i <= j,
         NEW p \in i + 1 .. RoundEnd(ms, i)
  PROVE  i \in 1 .. Len(ms) /\ p \in 1 .. Len(ms) /\ ms[p].call \in ToSet(ms[i].calls)
  <1> DEFINE n == Len(ms)
             e == RoundEnd(ms, i)
  <1>1. i \in 1 .. n
    BY OpenIs
  <1>2. e \in i .. n /\ \A q \in i + 1 .. e : ms[q].role = "tool"
    BY <1>1, RoundEndIs
  <1>3. n \in Int /\ i \in Int /\ e \in Int /\ p \in Int /\ 1 <= i /\ i < p /\ p <= e /\ e <= n
    <2>1. n \in Int
      OBVIOUS
    <2> HIDE DEF n
    <2>2. QED BY <1>1, <1>2, <2>1
  <1>4. p \in 1 .. n /\ DOMAIN ms = 1 .. n
    <2>1. DOMAIN ms = 1 .. n
      OBVIOUS
    <2> HIDE DEF n, e
    <2>2. QED BY <1>3, <2>1
  <1>5. PICK j \in 1 .. p - 1 : /\ ms[p].call \in ToSet(ms[j].calls)
                                /\ p <= RoundEnd(ms, j) \/ \E h \in Open(ms) : h < j
    BY <1>2, <1>4 DEF Follows
  <1>6. j \in Int /\ 1 <= j /\ j < p
    BY <1>3
  <1>7. j \in 1 .. n /\ ms[j].role # "tool"
    <2>1. j \in 1 .. n
      <3> HIDE DEF n, e
      <3>1. QED BY <1>3, <1>6
    <2>2. ToSet(ms[j].calls) # {}
      BY <1>5
    <2>3. QED BY <2>1, <2>2, CallsOf
  <1>8. ~(j > i)
    <2> HIDE DEF n, e
    <2> SUFFICES ASSUME j > i PROVE FALSE
      OBVIOUS
    <2>1. j \in i + 1 .. e
      BY <1>3, <1>6
    <2>2. QED BY <1>2, <1>7, <2>1
  <1>9. ~(j < i)
    <2> SUFFICES ASSUME j < i PROVE FALSE
      OBVIOUS
    <2>1. ms[i].role # "tool"
      <3>1. ToSet(ms[i].calls) # {}
        BY OpenIs
      <3>2. QED BY <1>1, <3>1, CallsOf
    <2>2. i \in j + 1 .. Len(ms)
      <3>1. n \in Int /\ i <= n
        BY <1>3
      <3> HIDE DEF n
      <3>2. i \in j + 1 .. n
        BY <1>3, <1>6, <3>1
      <3>3. QED BY <3>2 DEF n
    <2>3. RoundEnd(ms, j) < i
      BY <1>7, <2>1, <2>2, RoundsApart
    <2>4. RoundEnd(ms, j) \in Int
      <3>1. RoundEnd(ms, j) \in j .. n
        BY <1>7, RoundEndIs
      <3>2. QED BY <1>3, <1>6, <3>1
    <2>5. p <= RoundEnd(ms, j)
      <3>1. \A h \in Open(ms) : ~(h < j)
        <4> SUFFICES ASSUME NEW h \in Open(ms), h < j PROVE FALSE
          OBVIOUS
        <4>1. i <= h
          OBVIOUS
        <4>2. h \in Int
          BY OpenIs
        <4> HIDE DEF n, e
        <4>3. QED BY <1>3, <1>6, <4>1, <4>2
      <3>2. QED BY <1>5, <3>1
    <2> HIDE DEF n, e
    <2>6. QED BY <1>3, <1>6, <2>3, <2>4, <2>5
  <1>10. j = i
    BY <1>3, <1>6, <1>8, <1>9
  <1>11. QED BY <1>1, <1>4, <1>5, <1>10

(* Nothing is open: there is nothing to repair. *)
LEMMA NoRepairs ==
  ASSUME NEW ms \in Seq(Message), AskedOnce(ms), Open(ms) = {}
  PROVE  /\ DropIncompleteRound(ms) = ms /\ Repairs(ms) = << >> /\ Recover(ms) = ms
         /\ \A i \in 1 .. Len(ms) : ToSet(ms[i].calls) \subseteq Told(ms)
  <1>1. ASSUME NEW i \in 1 .. Len(ms), NEW c \in ToSet(ms[i].calls) PROVE c \in Told(ms)
    <2>1. PICK q \in i + 1 .. RoundEnd(ms, i) : ms[q].call = c
      BY <1>1, NotOpen
    <2>2. RoundEnd(ms, i) \in i .. Len(ms)
      BY RoundEndIs
    <2>3. q \in DOMAIN ms
      <3>1. i \in Int /\ Len(ms) \in Int /\ 1 <= i /\ DOMAIN ms = 1 .. Len(ms)
        OBVIOUS
      <3>2. QED BY <2>2, <3>1
    <2>4. QED BY <2>1, <2>3 DEF Told
  <1>2. PICK cs \in Seq(Call) :
          /\ Repairs(ms) = [i \in DOMAIN cs |-> Result(cs[i])]
          /\ \A c : c \in ToSet(cs) <=> /\ c \notin Told(ms)
                                        /\ \E i \in 1 .. Len(ms) : c \in ToSet(ms[i].calls)
    BY RepairsAre
  <1>3. ToSet(cs) = {}
    BY <1>1, <1>2
  <1>4. cs = << >>
    BY <1>3, ToSetIs
  <1>5. Repairs(ms) = << >>
    BY <1>2, <1>4
  <1>6. DropIncompleteRound(ms) = ms
    BY DEF DropIncompleteRound
  <1>7. ms \o << >> = ms
    BY ConcatEmptySeq
  <1>8. Recover(ms) = ms
    BY <1>5, <1>6, <1>7 DEF Recover
  <1>9. QED BY <1>1, <1>5, <1>6, <1>8

(* What a restart repairs after it left the first open round i out: the    *)
(* calls of the open rounds behind it that have no result at all.          *)
LEMMA RepairsOf ==
  ASSUME NEW ms \in Seq(Message), Tidy(ms),
         NEW i \in Open(ms), \A j \in Open(ms) : i <= j
  PROVE  \E cs \in Seq(Call) :
           /\ cs = Without(CallsIn(LeaveOut(ms, i)), Told(LeaveOut(ms, i)))
           /\ Repairs(LeaveOut(ms, i)) = [x \in DOMAIN cs |-> Result(cs[x])]
           /\ IsInjective(cs)
           /\ \A c \in ToSet(cs) :
                /\ \A p \in 1 .. Len(ms) : ms[p].call # c
                /\ \E j \in Open(ms) : i < j /\ RoundEnd(ms, i) < j /\ c \in ToSet(ms[j].calls)
           /\ \A j \in Open(ms) : \A c \in ToSet(ms[j].calls) :
                i < j /\ (\A p \in 1 .. Len(ms) : ms[p].call # c) => c \in ToSet(cs)
           /\ \A p \in 1 .. Len(LeaveOut(ms, i)) :
                ToSet(LeaveOut(ms, i)[p].calls) \subseteq ToSet(cs) \cup Told(LeaveOut(ms, i))
           /\ cs # << >> => RoundEnd(ms, i) < Len(ms)
  <1> DEFINE w == LeaveOut(ms, i)
             e == RoundEnd(ms, i)
             n == Len(ms)
             Place(p) == Was(ms, i, p)
  <1>1. i \in 1 .. n /\ ms[i].role # "tool" /\ i \in Int /\ n \in Int
    <2>1. i \in 1 .. n /\ ToSet(ms[i].calls) # {}
      BY OpenIs
    <2>2. i \in Int /\ n \in Int
      BY <2>1
    <2>3. ms[i].role # "tool"
      BY <2>1, CallsOf
    <2>4. QED BY <2>1, <2>2, <2>3
  <1>2. w \in Seq(Message) /\ AskedOnce(w) /\ DOMAIN w = 1 .. Len(w)
    <2>1. w \in Seq(Message) /\ AskedOnce(w)
      BY <1>1, LeaveOutIs, LeaveOutOnce DEF Tidy
    <2>2. QED BY <2>1
  <1>3. PICK cs \in Seq(Call) :
          /\ cs = Without(CallsIn(w), Told(w))
          /\ Repairs(w) = [x \in DOMAIN cs |-> Result(cs[x])]
          /\ IsInjective(cs)
          /\ \A c : c \in ToSet(cs) <=> /\ c \notin Told(w)
                                        /\ \E p \in 1 .. Len(w) : c \in ToSet(w[p].calls)
    <2> HIDE DEF w
    <2>1. QED BY <1>2, RepairsAre
  <1>4. ASSUME NEW p \in 1 .. Len(w)
        PROVE  Place(p) \in 1 .. n /\ Place(p) \notin i .. e /\ w[p] = ms[Place(p)]
               /\ (p \in Open(w) <=> Place(p) \in Open(ms))
    BY <1>1, OthersStay
  <1>5. ASSUME NEW q \in 1 .. n, q \notin i .. e
        PROVE  \E p \in 1 .. Len(w) : Place(p) = q /\ w[p] = ms[q]
    <2>1. \E p \in 1 .. Len(w) : Place(p) = q
      BY <1>1, <1>5, Places
    <2>2. QED BY <1>4, <2>1
  <1>6. e \in Int /\ i <= e /\ e <= n
    <2>1. e \in i .. n
      BY <1>1, RoundEndIs
    <2>2. QED BY <1>1, <2>1
  <1>7. \A p \in i + 1 .. e : p \in 1 .. n /\ ms[p].call \in ToSet(ms[i].calls)
    BY OwnResults DEF Tidy
  <1> HIDE DEF w, e, n, Place
  <1>8. \A p \in 1 .. Len(w) : w[p].call \in Told(w)
    BY <1>2 DEF Told
  <1>9. ASSUME NEW j \in 1 .. n, j # i, NEW c \in ToSet(ms[j].calls), c \notin Told(w)
        PROVE  \A p \in 1 .. n : ms[p].call # c
    <2> SUFFICES ASSUME NEW p \in 1 .. n, ms[p].call = c PROVE FALSE
      OBVIOUS
    <2>1. c \in Call
      BY CallsOf DEF n
    <2>2. CASE p \notin i .. e
      BY <1>5, <1>8, <1>9, <2>2
    <2>3. CASE p = i
      <3>1. ms[i].call = NoCall
        BY <1>1, CallsOf, MessageIs DEF n
      <3>2. QED BY <2>1, <2>3, <3>1, RunStateAssumption
    <2>4. CASE p \in i + 1 .. e
      <3>1. c \in ToSet(ms[i].calls)
        BY <1>7, <2>4
      <3>2. i \in DOMAIN ms /\ j \in DOMAIN ms
        BY <1>1 DEF n
      <3>3. QED BY <1>9, <3>1, <3>2 DEF Tidy, AskedOnce
    <2>5. p \notin i .. e \/ p = i \/ p \in i + 1 .. e
      <3>1. p \in Int
        BY <1>1
      <3>2. QED BY <1>1, <1>6, <3>1
    <2>6. QED BY <2>2, <2>3, <2>4, <2>5
  <1>10. ASSUME NEW c \in ToSet(cs)
         PROVE  /\ \A p \in 1 .. n : ms[p].call # c
                /\ \E j \in Open(ms) : i < j /\ e < j /\ j <= n /\ c \in ToSet(ms[j].calls)
    <2>1. c \notin Told(w)
      BY <1>3
    <2>2. PICK p \in 1 .. Len(w) : c \in ToSet(w[p].calls)
      BY <1>3
    <2>3. PICK j \in 1 .. n : j = Place(p)
      BY <1>4
    <2>4. c \in ToSet(ms[j].calls) /\ j \notin i .. e
      BY <1>4, <2>2, <2>3
    <2>5. j # i
      BY <1>6, <2>4, <1>1
    <2>6. \A q \in 1 .. n : ms[q].call # c
      BY <1>9, <2>1, <2>4, <2>5
    <2>7. j \in Open(ms)
      <3>1. \A q \in j + 1 .. RoundEnd(ms, j) : ms[q].call # c
        <4>1. RoundEnd(ms, j) \in j .. n
          BY RoundEndIs DEF n
        <4>2. \A q \in j + 1 .. RoundEnd(ms, j) : q \in 1 .. n
          BY <1>1, <4>1
        <4>3. QED BY <2>6, <4>2
      <3>2. QED BY <2>4, <3>1, OpenIs DEF n
    <2>8. i <= j
      BY <2>7
    <2>9. j \in Int /\ j <= n
      BY <1>1
    <2>10. i < j /\ e < j
      BY <1>1, <1>6, <2>4, <2>5, <2>8, <2>9
    <2>11. QED BY <2>4, <2>6, <2>7, <2>9, <2>10
  <1>11. ASSUME NEW j \in Open(ms), NEW c, i < j, c \in ToSet(ms[j].calls),
                \A p \in 1 .. n : ms[p].call # c
         PROVE  c \in ToSet(cs)
    <2>1. j \in 1 .. n /\ ms[j].role # "tool"
      <3>1. j \in 1 .. n
        BY OpenIs DEF n
      <3>2. ToSet(ms[j].calls) # {}
        BY <1>11
      <3>3. QED BY <3>1, <3>2, CallsOf DEF n
    <2>2. j \notin i .. e
      <3>1. \A q \in i + 1 .. e : ms[q].role = "tool"
        BY <1>1, RoundEndIs DEF e, n
      <3>2. j \notin i + 1 .. e
        BY <2>1, <3>1
      <3>3. j \in Int
        BY <1>1, <2>1
      <3>4. QED BY <1>1, <1>6, <1>11, <3>2, <3>3
    <2>3. PICK p \in 1 .. Len(w) : w[p] = ms[j]
      BY <1>5, <2>1, <2>2
    <2>4. c \notin Told(w)
      <3> SUFFICES ASSUME NEW q \in DOMAIN w, w[q].call = c PROVE FALSE
        BY DEF Told
      <3>1. w[q] = ms[Place(q)] /\ Place(q) \in 1 .. n
        BY <1>2, <1>4
      <3>2. QED BY <1>11, <3>1
    <2>5. c \in ToSet(w[p].calls)
      BY <1>11, <2>3
    <2>6. QED BY <1>3, <2>4, <2>5
  <1>12. \A p \in 1 .. Len(w) : ToSet(w[p].calls) \subseteq ToSet(cs) \cup Told(w)
    BY <1>3
  <1>13. cs # << >> => e < n
    <2> SUFFICES ASSUME cs # << >> PROVE e < n
      OBVIOUS
    <2>1. PICK c : c \in ToSet(cs)
      <3>1. ToSet(cs) # {}
        BY ToSetIs
      <3>2. QED BY <3>1
    <2>2. PICK j \in Open(ms) : e < j /\ j <= n
      BY <1>10, <2>1
    <2>3. j \in Int
      BY OpenIs
    <2>4. QED BY <1>1, <1>6, <2>2, <2>3
  <1>14. \A c \in ToSet(cs) :
           /\ \A p \in 1 .. n : ms[p].call # c
           /\ \E j \in Open(ms) : i < j /\ e < j /\ c \in ToSet(ms[j].calls)
    BY <1>10
  <1>15. \A j \in Open(ms) : \A c \in ToSet(ms[j].calls) :
           i < j /\ (\A p \in 1 .. n : ms[p].call # c) => c \in ToSet(cs)
    BY <1>11
  <1>16. QED BY <1>3, <1>12, <1>13, <1>14, <1>15 DEF w, e, n

(* A restart's repairs behind the list they were made of: the first open   *)
(* round stays the first, and leaving it out gives what the restart gave.  *)
LEMMA Repaired ==
  ASSUME NEW ms \in Seq(Message), Tidy(ms), NEW i \in Open(ms), \A j \in Open(ms) : i <= j
  PROVE  LET add == Repairs(LeaveOut(ms, i))
             all == LeaveOut(ms, i) \o add IN
         /\ add \in Seq(Message) /\ \A x \in 1 .. Len(add) : add[x].role = "tool" /\ add[x].calls = << >>
         /\ Tidy(ms \o add)
         /\ i \in Open(ms \o add) /\ Open(ms \o add) \subseteq Open(ms)
         /\ RoundEnd(ms \o add, i) = RoundEnd(ms, i)
         /\ LeaveOut(ms \o add, i) = all
         /\ add # << >> => RoundEnd(ms, i) < Len(ms)
         /\ OneHole(ms) => InRounds(ms \o add) /\ Open(ms \o add) \subseteq {i}
         /\ \A p \in 1 .. Len(all) : ToSet(all[p].calls) \subseteq Told(all)
  <1> DEFINE rs == Repairs(LeaveOut(ms, i))
             w == ms \o rs
             n == Len(ms)
             kept == LeaveOut(ms, i)
  <1>1. PICK cs \in Seq(Call) :
          /\ rs = [x \in DOMAIN cs |-> Result(cs[x])]
          /\ IsInjective(cs)
          /\ \A c \in ToSet(cs) :
               /\ \A p \in 1 .. Len(ms) : ms[p].call # c
               /\ \E j \in Open(ms) : i < j /\ RoundEnd(ms, i) < j /\ c \in ToSet(ms[j].calls)
          /\ \A j \in Open(ms) : \A c \in ToSet(ms[j].calls) :
               i < j /\ (\A p \in 1 .. Len(ms) : ms[p].call # c) => c \in ToSet(cs)
          /\ \A p \in 1 .. Len(kept) : ToSet(kept[p].calls) \subseteq ToSet(cs) \cup Told(kept)
          /\ cs # << >> => RoundEnd(ms, i) < Len(ms)
    BY RepairsOf
  <1> HIDE DEF rs
  <1>2. /\ i \in 1 .. n /\ ms[i].role # "tool" /\ n \in Nat /\ DOMAIN ms = 1 .. n
        /\ DOMAIN cs = 1 .. Len(cs) /\ Len(cs) \in Nat
    <2>1. i \in 1 .. n /\ ToSet(ms[i].calls) # {}
      BY OpenIs
    <2>2. n \in Nat /\ DOMAIN ms = 1 .. n /\ DOMAIN cs = 1 .. Len(cs) /\ Len(cs) \in Nat
      OBVIOUS
    <2>3. ms[i].role # "tool"
      BY <2>1, CallsOf
    <2>4. QED BY <2>1, <2>2, <2>3
  <1>3. \A x \in 1 .. Len(cs) : cs[x] \in Call /\ cs[x] \in ToSet(cs) /\ Result(cs[x]) \in Message
    <2>1. \A x \in 1 .. Len(cs) : cs[x] \in Call /\ cs[x] \in ToSet(cs)
      BY <1>2 DEF ToSet
    <2>2. QED BY <2>1, ResultIs
  <1>4. rs \in Seq(Message) /\ Len(rs) = Len(cs)
    BY <1>1, <1>2, <1>3
  <1>5. \A x \in 1 .. Len(cs) : rs[x].role = "tool" /\ rs[x].call = cs[x] /\ rs[x].calls = << >>
    BY <1>1, <1>2, <1>3, ResultIs
  <1>6. /\ w \in Seq(Message) /\ Len(w) = n + Len(cs) /\ DOMAIN w = 1 .. Len(w)
        /\ \A q \in 1 .. n : w[q] = ms[q]
        /\ \A x \in 1 .. Len(cs) : w[n + x] = rs[x]
    <2>1. /\ w \in Seq(Message) /\ Len(w) = n + Len(rs)
          /\ \A q \in 1 .. n : w[q] = ms[q]
          /\ \A x \in 1 .. Len(rs) : w[n + x] = rs[x]
      <3>1. rs \in Seq(Message)
        BY <1>4
      <3>2. QED BY <3>1, ConcatIs
    <2>2. DOMAIN w = 1 .. Len(w)
      BY <2>1
    <2>3. QED BY <1>4, <2>1, <2>2
  <1>7. \A q \in 1 .. n : /\ RoundEnd(ms, q) <= RoundEnd(w, q)
                          /\ RoundEnd(ms, q) < n => RoundEnd(w, q) = RoundEnd(ms, q)
                          /\ RoundEnd(ms, q) = n => RoundEnd(w, q) = n + Len(cs)
    <2> SUFFICES ASSUME NEW q \in 1 .. n
                 PROVE  /\ RoundEnd(ms, q) <= RoundEnd(w, q)
                        /\ RoundEnd(ms, q) < n => RoundEnd(w, q) = RoundEnd(ms, q)
                        /\ RoundEnd(ms, q) = n => RoundEnd(w, q) = n + Len(cs)
      OBVIOUS
    <2>1. \A x \in 1 .. Len(rs) : rs[x].role = "tool"
      BY <1>4, <1>5
    <2>2. rs \in Seq(Message) /\ Len(rs) = Len(cs) /\ q \in 1 .. Len(ms)
      BY <1>4
    <2>3. /\ RoundEnd(ms, q) <= RoundEnd(ms \o rs, q)
          /\ RoundEnd(ms, q) < Len(ms) => RoundEnd(ms \o rs, q) = RoundEnd(ms, q)
      BY <2>2, RoundEndConcat
    <2>4. RoundEnd(ms, q) = Len(ms) => RoundEnd(ms \o rs, q) = Len(ms) + Len(rs)
      BY <2>1, <2>2, RoundEndConcat
    <2>5. QED BY <2>2, <2>3, <2>4
  <1>8. \A q \in 1 .. n : RoundEnd(ms, q) \in q .. n /\ RoundEnd(ms, q) \in Int /\ RoundEnd(w, q) \in Int
                          /\ RoundEnd(w, q) <= Len(w)
    <2> SUFFICES ASSUME NEW q \in 1 .. n
                 PROVE  RoundEnd(ms, q) \in q .. n /\ RoundEnd(ms, q) \in Int /\ RoundEnd(w, q) \in Int
                        /\ RoundEnd(w, q) <= Len(w)
      OBVIOUS
    <2>1. RoundEnd(ms, q) \in q .. n
      BY RoundEndIs
    <2>2. q \in 1 .. Len(w)
      <3>1. 1 .. n \subseteq 1 .. Len(w)
        <4> HIDE DEF n, w
        <4>1. QED BY <1>2, <1>6
      <3>2. QED BY <3>1
    <2> HIDE DEF w
    <2>3. w \in Seq(Message)
      BY <1>6
    <2>4. RoundEnd(w, q) \in q .. Len(w)
      BY <2>2, <2>3, RoundEndIs
    <2> HIDE DEF n
    <2>5. QED BY <1>2, <1>6, <2>1, <2>4
  <1>9. (w = ms /\ rs = << >>) \/ RoundEnd(ms, i) < n
    <2>1. CASE cs = << >>
      <3>1. rs = << >>
        BY <1>1, <2>1
      <3>2. ms \o << >> = ms
        BY ConcatEmptySeq
      <3>3. QED BY <3>1, <3>2
    <2>2. CASE cs # << >>
      BY <1>1, <2>2
    <2>3. QED BY <2>1, <2>2
  <1>10. RoundEnd(w, i) = RoundEnd(ms, i)
    BY <1>2, <1>7, <1>9
  <1>11. LeaveOut(w, i) = kept \o rs
    BY <1>2, <1>4, <1>10, LeaveOutConcat
  <1> HIDE DEF w, n, kept
  <1>12. i \in Open(w)
    <2>1. w[i].calls = ms[i].calls /\ i \in 1 .. Len(w) /\ w \in Seq(Message) /\ i \in 1 .. Len(ms)
      BY <1>2, <1>6 DEF n
    <2>2. \A q \in i + 1 .. RoundEnd(ms, i) : w[q] = ms[q]
      BY <1>2, <1>6, <1>8
    <2>3. {w[q].call : q \in i + 1 .. RoundEnd(w, i)} = {ms[q].call : q \in i + 1 .. RoundEnd(ms, i)}
      BY <1>10, <2>2
    <2>4. QED BY <2>1, <2>3, SameRound
  <1>13. ToSet(<< >>) = {} /\ IsInjective(<< >>)
    BY DEF ToSet, IsInjective
  <1>14. \A p \in 1 .. Len(w) : p \in 1 .. n \/ \E x \in 1 .. Len(cs) : p = n + x
    <2>1. \A p \in 1 .. Len(w) : p \in 1 .. n \/ (p - n \in 1 .. Len(cs) /\ p = n + (p - n))
      BY <1>2, <1>6
    <2>2. QED BY <2>1
  <1>15. \A x \in 1 .. Len(cs) : /\ n + x \in 1 .. Len(w) /\ w[n + x].role = "tool"
                                 /\ w[n + x].calls = << >> /\ w[n + x].call = cs[x]
    BY <1>2, <1>5, <1>6
  <1>16. AskedOnce(w)
    <2>1. \A p \in DOMAIN w : (p \in DOMAIN ms /\ w[p] = ms[p]) \/ w[p].calls = << >>
      BY <1>2, <1>6, <1>14, <1>15
    <2>2. QED BY <1>13, <2>1 DEF AskedOnce, Tidy
  <1>17. AnsweredOnce(w)
    <2> SUFFICES ASSUME NEW p \in 1 .. Len(w), NEW q \in 1 .. Len(w), w[p].role = "tool", w[q] = w[p]
                 PROVE  p = q
      BY <1>6 DEF AnsweredOnce
    <2>1. CASE p \in 1 .. n /\ q \in 1 .. n
      <3>1. p \in DOMAIN ms /\ q \in DOMAIN ms /\ ms[p].role = "tool" /\ ms[q] = ms[p]
        BY <1>2, <1>6, <2>1
      <3>2. QED BY <3>1 DEF AnsweredOnce, Tidy
    <2>2. ASSUME NEW x \in 1 .. Len(cs), NEW a \in 1 .. n PROVE w[n + x] # w[a]
      <3>1. ms[a].call # cs[x]
        BY <1>1, <1>3 DEF n
      <3>2. QED BY <1>6, <1>15, <3>1
    <2>3. ASSUME NEW x \in 1 .. Len(cs), NEW y \in 1 .. Len(cs), w[n + x] = w[n + y] PROVE x = y
      <3>1. cs[x] = cs[y]
        BY <1>15, <2>3
      <3>2. QED BY <1>1, <1>2, <3>1 DEF IsInjective
    <2>4. QED BY <1>14, <2>1, <2>2, <2>3
  <1>18. ASSUME NEW x \in 1 .. Len(cs)
         PROVE  \E j \in Open(ms) : j \in 1 .. n /\ i < j /\ w[n + x].call \in ToSet(w[j].calls)
    <2>1. PICK j \in Open(ms) : i < j /\ cs[x] \in ToSet(ms[j].calls)
      BY <1>1, <1>3
    <2>2. j \in 1 .. n
      BY OpenIs DEF n
    <2>3. QED BY <1>6, <1>15, <2>1, <2>2
  <1>19. Follows(w)
    <2> SUFFICES ASSUME NEW p \in 1 .. Len(w), w[p].role = "tool"
                 PROVE  \E j \in 1 .. p - 1 :
                          /\ w[p].call \in ToSet(w[j].calls)
                          /\ p <= RoundEnd(w, j) \/ \E h \in Open(w) : h < j
      BY <1>6 DEF Follows
    <2>1. CASE p \in 1 .. n
      <3>1. p \in DOMAIN ms /\ w[p] = ms[p] /\ p \in Int /\ p <= n
        BY <1>2, <1>6, <2>1
      <3>2. PICK j \in 1 .. p - 1 : /\ ms[p].call \in ToSet(ms[j].calls)
                                    /\ p <= RoundEnd(ms, j) \/ \E h \in Open(ms) : h < j
        BY <3>1 DEF Tidy, Follows
      <3>3. j \in 1 .. n /\ w[j] = ms[j] /\ j \in Int
        BY <1>2, <1>6, <3>1
      <3>4. CASE p <= RoundEnd(ms, j)
        <4>1. p <= RoundEnd(w, j)
          BY <1>7, <1>8, <3>1, <3>3, <3>4
        <4>2. QED BY <3>1, <3>2, <3>3, <4>1
      <3>5. CASE \E h \in Open(ms) : h < j
        <4>1. PICK h \in Open(ms) : h < j
          BY <3>5
        <4>2. h \in Int /\ i \in Int /\ i <= h
          BY <1>2, OpenIs
        <4>3. i < j
          BY <3>3, <4>1, <4>2
        <4>4. QED BY <1>12, <3>1, <3>2, <3>3, <4>3
      <3>6. QED BY <3>2, <3>4, <3>5
    <2>2. CASE p \notin 1 .. n
      <3>1. PICK x \in 1 .. Len(cs) : p = n + x
        BY <1>14, <2>2
      <3>2. PICK j \in Open(ms) : j \in 1 .. n /\ i < j /\ w[n + x].call \in ToSet(w[j].calls)
        BY <1>18
      <3>3. j \in 1 .. p - 1
        BY <1>2, <3>1, <3>2
      <3>4. QED BY <1>12, <3>1, <3>2, <3>3
    <2>3. QED BY <2>1, <2>2
  <1>20. Tidy(w)
    BY <1>16, <1>17, <1>19 DEF Tidy
  <1>21. Open(w) \subseteq Open(ms)
    <2> SUFFICES ASSUME NEW p \in Open(w) PROVE p \in Open(ms)
      OBVIOUS
    <2>1. p \in 1 .. Len(w) /\ ToSet(w[p].calls) # {}
      <3>1. w \in Seq(Message)
        BY <1>6
      <3>2. QED BY <3>1, OpenIs
    <2>2. p \in 1 .. Len(ms)
      BY <1>13, <1>14, <1>15, <2>1 DEF n
    <2>3. p \in Open(ms \o rs) /\ Tidy(ms \o rs)
      BY <1>20 DEF w
    <2>4. QED BY <1>4, <2>2, <2>3, Started
  <1>22. ASSUME OneHole(ms) PROVE Open(w) \subseteq {i}
    <2> SUFFICES ASSUME NEW k \in Open(w), k # i PROVE FALSE
      OBVIOUS
    <2>1. k \in Open(ms) /\ k \in 1 .. n /\ i <= k
      BY <1>21, OpenIs DEF n
    <2>2. i < k /\ k \in Int
      BY <1>2, <2>1
    <2>3. RoundEnd(ms, k) = n
      BY <1>22, <2>1, <2>2 DEF OneHole, n
    <2>4. RoundEnd(w, k) = n + Len(cs)
      BY <1>7, <2>1, <2>3
    <2>5. PICK c \in ToSet(w[k].calls) : \A q \in k + 1 .. RoundEnd(w, k) : w[q].call # c
      <3>1. w \in Seq(Message)
        BY <1>6
      <3>2. QED BY <3>1, OpenIs
    <2>6. c \in ToSet(ms[k].calls) /\ c \in Call
      <3>1. c \in ToSet(ms[k].calls)
        BY <1>6, <2>1
      <3>2. QED BY <2>1, <3>1, CallsOf DEF n
    <2>7. ASSUME NEW p \in 1 .. n, ms[p].call = c PROVE FALSE
      <3>1. ms[p].role = "tool"
        <4>1. ms[p] \in Message
          BY CallsOf DEF n
        <4>2. c # NoCall
          BY <2>6, RunStateAssumption
        <4>3. QED BY <2>7, <4>1, <4>2, MessageIs
      <3>2. PICK j \in 1 .. p - 1 : ms[p].call \in ToSet(ms[j].calls)
        BY <1>2, <1>22, <3>1 DEF OneHole, InRounds
      <3>3. j \in 1 .. n /\ j \in Int /\ j < p /\ p \in Int /\ p <= n
        BY <1>2
      <3>4. j = k
        BY <1>2, <2>1, <2>6, <2>7, <3>2, <3>3 DEF Tidy, AskedOnce
      <3>5. p \in k + 1 .. RoundEnd(w, k) /\ w[p].call = c
        <4>1. w[p] = ms[p]
          BY <1>6
        <4>2. QED BY <1>2, <2>2, <2>4, <2>7, <3>3, <3>4, <4>1
      <3>6. QED BY <2>5, <3>5
    <2>8. c \in ToSet(cs)
      <3>1. \A p \in 1 .. Len(ms) : ms[p].call # c
        BY <2>7 DEF n
      <3>2. QED BY <1>1, <2>1, <2>2, <2>6, <3>1
    <2>9. PICK x \in 1 .. Len(cs) : cs[x] = c
      BY <1>2, <2>8 DEF ToSet
    <2>10. n + x \in k + 1 .. RoundEnd(w, k) /\ w[n + x].call = c
      <3>1. k <= n
        BY <2>1
      <3>2. QED BY <1>2, <1>15, <2>2, <2>4, <2>9, <3>1
    <2>11. QED BY <2>5, <2>10
  <1>23. ASSUME OneHole(ms) PROVE InRounds(w)
    <2> SUFFICES ASSUME NEW p \in 1 .. Len(w), w[p].role = "tool"
                 PROVE  \E j \in 1 .. p - 1 : w[p].call \in ToSet(w[j].calls) /\ p <= RoundEnd(w, j)
      BY <1>6 DEF InRounds
    <2>1. CASE p \in 1 .. n
      <3>1. p \in DOMAIN ms /\ w[p] = ms[p] /\ p \in Int /\ p <= n
        BY <1>2, <1>6, <2>1
      <3>2. PICK j \in 1 .. p - 1 : ms[p].call \in ToSet(ms[j].calls) /\ p <= RoundEnd(ms, j)
        BY <1>23, <3>1 DEF OneHole, InRounds
      <3>3. j \in 1 .. n /\ w[j] = ms[j]
        BY <1>2, <1>6, <3>1
      <3>4. p <= RoundEnd(w, j)
        BY <1>7, <1>8, <3>1, <3>2, <3>3
      <3>5. QED BY <3>1, <3>2, <3>3, <3>4
    <2>2. CASE p \notin 1 .. n
      <3>1. PICK x \in 1 .. Len(cs) : p = n + x
        BY <1>14, <2>2
      <3>2. PICK j \in Open(ms) : j \in 1 .. n /\ i < j /\ w[n + x].call \in ToSet(w[j].calls)
        BY <1>18
      <3>3. RoundEnd(ms, j) = n
        BY <1>23, <3>2 DEF OneHole, n
      <3>4. RoundEnd(w, j) = n + Len(cs)
        BY <1>7, <3>2, <3>3
      <3>5. j \in 1 .. p - 1 /\ p <= RoundEnd(w, j)
        BY <1>2, <3>1, <3>2, <3>4
      <3>6. QED BY <3>1, <3>2, <3>5
    <2>3. QED BY <2>1, <2>2
  <1>24. ASSUME NEW p \in 1 .. Len(kept \o rs)
         PROVE  ToSet((kept \o rs)[p].calls) \subseteq Told(kept \o rs)
    <2> DEFINE v == kept \o rs
               m == Len(kept)
    <2>1. kept \in Seq(Message) /\ m \in Nat
      <3>1. kept \in Seq(Message)
        BY <1>2, LeaveOutIs DEF kept, n
      <3>2. QED BY <3>1
    <2>2. /\ v \in Seq(Message) /\ Len(v) = m + Len(cs) /\ DOMAIN v = 1 .. Len(v)
          /\ \A q \in 1 .. m : v[q] = kept[q]
          /\ \A x \in 1 .. Len(cs) : v[m + x] = rs[x]
      <3>1. /\ v \in Seq(Message) /\ Len(v) = m + Len(rs)
            /\ \A q \in 1 .. m : v[q] = kept[q]
            /\ \A x \in 1 .. Len(rs) : v[m + x] = rs[x]
        <4>1. rs \in Seq(Message) /\ kept \in Seq(Message)
          BY <1>4, <2>1
        <4>2. QED BY <4>1, ConcatIs
      <3>2. DOMAIN v = 1 .. Len(v)
        BY <3>1
      <3>3. QED BY <1>4, <3>1, <3>2
    <2>3. DOMAIN kept = 1 .. m
      BY <2>1
    <2> HIDE DEF v, m
    <2>4. \A q \in 1 .. m : q \in DOMAIN v
      BY <2>1, <2>2, <1>2
    <2>5. Told(kept) \subseteq Told(v)
      BY <2>2, <2>3, <2>4 DEF Told
    <2>6. ToSet(cs) \subseteq Told(v)
      <3> SUFFICES ASSUME NEW c \in ToSet(cs) PROVE c \in Told(v)
        OBVIOUS
      <3>1. PICK x \in 1 .. Len(cs) : cs[x] = c
        BY <1>2 DEF ToSet
      <3>2. m + x \in DOMAIN v /\ v[m + x].call = c
        BY <1>2, <1>5, <2>1, <2>2, <3>1
      <3>3. QED BY <3>2 DEF Told
    <2>7. CASE p \in 1 .. m
      <3>1. ToSet(kept[p].calls) \subseteq ToSet(cs) \cup Told(kept)
        BY <1>1, <2>7 DEF m
      <3>2. v[p] = kept[p]
        BY <2>2, <2>7
      <3>3. QED BY <2>5, <2>6, <3>1, <3>2 DEF v
    <2>8. CASE p \notin 1 .. m
      <3>1. p \in Int /\ 1 <= p /\ p <= m + Len(cs)
        BY <1>2, <2>1, <2>2 DEF v
      <3>2. p - m \in 1 .. Len(cs) /\ p = m + (p - m)
        BY <1>2, <2>1, <2>8, <3>1
      <3>3. PICK x \in 1 .. Len(cs) : p = m + x
        BY <3>2
      <3>4. v[p].calls = << >>
        BY <1>5, <2>2, <3>3
      <3>5. QED BY <1>13, <3>4 DEF v
    <2>9. QED BY <2>7, <2>8
  <1>25. \A x \in 1 .. Len(rs) : rs[x].role = "tool" /\ rs[x].calls = << >>
    BY <1>4, <1>5
  <1>26. rs # << >> => RoundEnd(ms, i) < Len(ms)
    BY <1>9 DEF n
  <1>27. QED BY <1>4, <1>10, <1>11, <1>12, <1>20, <1>21, <1>22, <1>23, <1>24, <1>25, <1>26 DEF w, kept, rs

(* What a restart makes of a journal, and what the journal will hold when  *)
(* the repairs are in it.                                                  *)
LEMMA Restarted ==
  ASSUME NEW ms \in Seq(Message), Tidy(ms)
  PROVE  LET add == Repairs(DropIncompleteRound(ms))
             all == ms \o add IN
         /\ add \in Seq(Message) /\ \A x \in 1 .. Len(add) : add[x].role = "tool" /\ add[x].calls = << >>
         /\ Recover(ms) \in Seq(Message)
         /\ Tidy(all) /\ Open(all) \subseteq Open(ms)
         /\ \/ Open(ms) = {} /\ add = << >> /\ all = ms /\ Recover(ms) = ms
            \/ \E i \in Open(ms) :
                 /\ \A j \in Open(ms) : i <= j
                 /\ DropIncompleteRound(ms) = LeaveOut(ms, i)
                 /\ i \in Open(all) /\ Recover(ms) = LeaveOut(all, i)
         /\ OneHole(ms) => InRounds(all) /\ \A i, k \in Open(all) : i = k
         /\ \A p \in 1 .. Len(Recover(ms)) : ToSet(Recover(ms)[p].calls) \subseteq Told(Recover(ms))
  <1> DEFINE add == Repairs(DropIncompleteRound(ms))
             all == ms \o add
             Goal == /\ add \in Seq(Message)
                     /\ \A x \in 1 .. Len(add) : add[x].role = "tool" /\ add[x].calls = << >>
                     /\ Recover(ms) \in Seq(Message)
                     /\ Tidy(all) /\ Open(all) \subseteq Open(ms)
                     /\ \/ Open(ms) = {} /\ add = << >> /\ all = ms /\ Recover(ms) = ms
                        \/ \E i \in Open(ms) :
                             /\ \A j \in Open(ms) : i <= j
                             /\ DropIncompleteRound(ms) = LeaveOut(ms, i)
                             /\ i \in Open(all) /\ Recover(ms) = LeaveOut(all, i)
                     /\ OneHole(ms) => InRounds(all) /\ \A i, k \in Open(all) : i = k
                     /\ \A p \in 1 .. Len(Recover(ms)) :
                          ToSet(Recover(ms)[p].calls) \subseteq Told(Recover(ms))
  <1>1. CASE Open(ms) = {}
    <2>1. AskedOnce(ms)
      BY DEF Tidy
    <2>2. /\ DropIncompleteRound(ms) = ms /\ Repairs(ms) = << >> /\ Recover(ms) = ms
          /\ \A i \in 1 .. Len(ms) : ToSet(ms[i].calls) \subseteq Told(ms)
      BY <1>1, <2>1, NoRepairs
    <2>3. add = << >> /\ << >> \in Seq(Message) /\ 1 .. Len(<< >>) = {}
      BY <2>2
    <2>4. ms \o << >> = ms
      BY ConcatEmptySeq
    <2>5. all = ms
      BY <2>3, <2>4
    <2>6. OneHole(ms) => InRounds(ms)
      BY DEF OneHole
    <2> HIDE DEF add, all
    <2>7. QED BY <1>1, <2>2, <2>3, <2>5, <2>6 DEF add, all
  <1>2. CASE Open(ms) # {}
    <2>1. PICK i \in Open(ms) : /\ \A j \in Open(ms) : i <= j
                                /\ DropIncompleteRound(ms) = LeaveOut(ms, i)
                                /\ i \in 1 .. Len(ms)
      BY <1>2, FirstOpen
    <2>2. \A j \in Open(ms) : i <= j
      BY <2>1
    <2> DEFINE fix == Repairs(LeaveOut(ms, i))
    <2>3. /\ fix \in Seq(Message) /\ \A x \in 1 .. Len(fix) : fix[x].role = "tool" /\ fix[x].calls = << >>
          /\ Tidy(ms \o fix)
          /\ i \in Open(ms \o fix) /\ Open(ms \o fix) \subseteq Open(ms)
          /\ RoundEnd(ms \o fix, i) = RoundEnd(ms, i)
          /\ LeaveOut(ms \o fix, i) = LeaveOut(ms, i) \o fix
          /\ OneHole(ms) => InRounds(ms \o fix) /\ Open(ms \o fix) \subseteq {i}
          /\ \A p \in 1 .. Len(LeaveOut(ms, i) \o fix) :
               ToSet((LeaveOut(ms, i) \o fix)[p].calls) \subseteq Told(LeaveOut(ms, i) \o fix)
      BY <2>2, Repaired
    <2>20. fix = add
      BY <2>1
    <2> HIDE DEF add, fix
    <2>4. /\ add \in Seq(Message) /\ \A x \in 1 .. Len(add) : add[x].role = "tool" /\ add[x].calls = << >>
          /\ Tidy(ms \o add)
          /\ i \in Open(ms \o add) /\ Open(ms \o add) \subseteq Open(ms)
          /\ RoundEnd(ms \o add, i) = RoundEnd(ms, i)
          /\ LeaveOut(ms \o add, i) = LeaveOut(ms, i) \o add
          /\ OneHole(ms) => InRounds(ms \o add) /\ Open(ms \o add) \subseteq {i}
          /\ \A p \in 1 .. Len(LeaveOut(ms, i) \o add) :
               ToSet((LeaveOut(ms, i) \o add)[p].calls) \subseteq Told(LeaveOut(ms, i) \o add)
      BY <2>3, <2>20
    <2>5. Recover(ms) = LeaveOut(ms, i) \o add
      BY <2>1 DEF Recover, add
    <2>6. Recover(ms) \in Seq(Message)
      <3>1. LeaveOut(ms, i) \in Seq(Message) /\ add \in Seq(Message)
        BY <2>1, <2>4, LeaveOutIs
      <3>2. QED BY <2>5, <3>1, ConcatIs
    <2> HIDE DEF all
    <2>7. all = ms \o add
      BY DEF all
    <2>8. OneHole(ms) => InRounds(all) /\ \A h, k \in Open(all) : h = k
      BY <2>4, <2>7
    <2>9. i \in Open(all) /\ Recover(ms) = LeaveOut(all, i) /\ Tidy(all) /\ Open(all) \subseteq Open(ms)
      BY <2>4, <2>5, <2>7
    <2>10. \A p \in 1 .. Len(Recover(ms)) : ToSet(Recover(ms)[p].calls) \subseteq Told(Recover(ms))
      BY <2>4, <2>5
    <2>11. \E h \in Open(ms) :
             /\ \A j \in Open(ms) : h <= j
             /\ DropIncompleteRound(ms) = LeaveOut(ms, h)
             /\ h \in Open(all) /\ Recover(ms) = LeaveOut(all, h)
      BY <2>1, <2>9
    <2>12. Goal
      BY <2>4, <2>6, <2>8, <2>9, <2>10, <2>11
    <2>13. QED BY <2>12 DEF add, all
  <1>3. QED BY <1>1, <1>2

(* The next repair is in the journal: the rest of them is still to come.   *)
LEMMA NextRepair ==
  ASSUME NEW ms \in Seq(Message), Tidy(ms), Repairs(DropIncompleteRound(ms)) # << >>
  PROVE  Repairs(DropIncompleteRound(Append(ms, Head(Repairs(DropIncompleteRound(ms))))))
           = Tail(Repairs(DropIncompleteRound(ms)))
  <1>1. PICK i \in Open(ms) : /\ \A j \in Open(ms) : i <= j
                              /\ DropIncompleteRound(ms) = LeaveOut(ms, i)
                              /\ i \in 1 .. Len(ms)
    <2>1. AskedOnce(ms)
      BY DEF Tidy
    <2>2. Open(ms) # {}
      BY <2>1, NoRepairs
    <2>3. QED BY <2>2, FirstOpen
  <1> DEFINE kept == LeaveOut(ms, i)
             add == Repairs(kept)
             m == Head(add)
             one == Append(ms, m)
  <1>2. \A j \in Open(ms) : i <= j
    BY <1>1
  <1>3. /\ add \in Seq(Message) /\ \A x \in 1 .. Len(add) : add[x].role = "tool" /\ add[x].calls = << >>
        /\ Tidy(ms \o add)
        /\ i \in Open(ms \o add)
        /\ add # << >> => RoundEnd(ms, i) < Len(ms)
    BY <1>2, Repaired
  <1>4. PICK cs \in Seq(Call) :
          /\ cs = Without(CallsIn(kept), Told(kept))
          /\ add = [x \in DOMAIN cs |-> Result(cs[x])]
    BY <1>2, RepairsOf
  <1>5. kept \in Seq(Message) /\ AskedOnce(kept)
    <2>1. ms[i].role # "tool"
      <3>1. ToSet(ms[i].calls) # {}
        BY OpenIs
      <3>2. QED BY <1>1, <3>1, CallsOf
    <2>2. AskedOnce(ms) /\ AnsweredOnce(ms)
      BY DEF Tidy
    <2>3. kept \in Seq(Message)
      BY <1>1, LeaveOutIs
    <2>4. AskedOnce(kept)
      BY <1>1, <2>1, <2>2, LeaveOutOnce
    <2>5. QED BY <2>3, <2>4
  <1>6. add # << >>
    BY <1>1
  <1> HIDE DEF kept, add
  <1>7. /\ Len(add) = Len(cs) /\ DOMAIN cs = 1 .. Len(cs) /\ Len(cs) \in Nat /\ Len(cs) >= 1
        /\ DOMAIN add = 1 .. Len(cs) /\ cs # << >>
    <2>1. DOMAIN cs = 1 .. Len(cs) /\ Len(cs) \in Nat
      OBVIOUS
    <2>2. DOMAIN add = 1 .. Len(add) /\ Len(add) \in Nat /\ Len(add) >= 1
      BY <1>3, <1>6
    <2>3. DOMAIN add = 1 .. Len(cs)
      BY <1>4, <2>1
    <2>4. Len(add) = Len(cs)
      <3> DEFINE a == Len(add)
                 b == Len(cs)
      <3>1. a \in Nat /\ b \in Nat /\ 1 .. a = 1 .. b /\ a >= 1
        BY <2>1, <2>2, <2>3
      <3> HIDE DEF a, b
      <3>2. a \in 1 .. b /\ b >= 1
        BY <3>1
      <3>3. b \in 1 .. a
        BY <3>1, <3>2
      <3>4. QED BY <3>1, <3>2, <3>3 DEF a, b
    <2>5. QED BY <2>1, <2>2, <2>3, <2>4
  <1>8. m = Result(cs[1]) /\ m \in Message /\ Head(cs) = cs[1] /\ cs[1] \in Call
    BY <1>3, <1>4, <1>7
  <1>9. m.role = "tool" /\ m.calls = << >> /\ m.call = cs[1]
    BY <1>8, ResultIs
  <1> HIDE DEF m
  <1>10. Tail(add) \in Seq(Message) /\ <<m>> \in Seq(Message) /\ add = <<m>> \o Tail(add)
         /\ one = ms \o <<m>>
    <2>1. add \in Seq(Message) /\ add # << >>
      BY <1>3, <1>6
    <2>2. Tail(add) \in Seq(Message) /\ add = <<m>> \o Tail(add)
      BY <2>1 DEF m
    <2>3. one = ms \o <<m>>
      BY <1>8, AppendIsConcat
    <2>4. QED BY <1>8, <2>2, <2>3
  <1>11. one \in Seq(Message) /\ one \o Tail(add) = ms \o add
    <2>1. one \in Seq(Message)
      BY <1>8, AppendIs
    <2>2. (ms \o <<m>>) \o Tail(add) = ms \o (<<m>> \o Tail(add))
      BY <1>10, ConcatAssociative
    <2>3. QED BY <1>10, <2>1, <2>2
  <1>12. Tidy(one) /\ \A k \in 1 .. Len(one) : k \in Open(ms \o add) => k \in Open(one)
    <2>1. Tidy(one \o Tail(add)) /\ one \in Seq(Message) /\ Tail(add) \in Seq(Message)
      BY <1>3, <1>10, <1>11
    <2> HIDE DEF one
    <2>2. Tidy(one) /\ \A k \in 1 .. Len(one) : k \in Open(one \o Tail(add)) => k \in Open(one)
      BY <2>1, Started
    <2>3. QED BY <1>11, <2>2
  <1>13. /\ Len(one) = Len(ms) + 1 /\ one[Len(ms) + 1] = m
         /\ \A k \in 1 .. Len(ms) : one[k] = ms[k]
    <2>1. m \in Message
      BY <1>8
    <2>2. QED BY <2>1, AppendIs
  <1>14. \A k \in Open(one) : k \in Open(ms)
    <2> SUFFICES ASSUME NEW k \in Open(one) PROVE k \in Open(ms)
      OBVIOUS
    <2>1. k \in 1 .. Len(one) /\ ToSet(one[k].calls) # {}
      <3> HIDE DEF one
      <3>1. QED BY <1>11, OpenIs
    <2>2. k \in 1 .. Len(ms) \/ k = Len(ms) + 1
      <3>1. Len(ms) \in Nat
        OBVIOUS
      <3> HIDE DEF one
      <3>2. QED BY <1>13, <2>1, <3>1
    <2>3. k # Len(ms) + 1
      <3>1. ToSet(<< >>) = {}
        BY DEF ToSet
      <3> HIDE DEF one
      <3>2. one[Len(ms) + 1].calls = << >>
        BY <1>9, <1>13, Zenon
      <3>3. QED BY <2>1, <3>1, <3>2, Zenon
    <2>4. k \in Open(ms \o <<m>>) /\ Tidy(ms \o <<m>>) /\ <<m>> \in Seq(Message)
      BY <1>10, <1>12
    <2>5. k \in 1 .. Len(ms)
      BY <2>2, <2>3
    <2>6. QED BY <2>4, <2>5, Started
  <1>15. i \in Open(one) /\ \A k \in Open(one) : i <= k
    <2>1. i \in 1 .. Len(one)
      <3>1. Len(ms) \in Nat /\ i \in 1 .. Len(ms)
        BY <1>1
      <3> HIDE DEF one
      <3>2. QED BY <1>13, <3>1
    <2>2. QED BY <1>2, <1>3, <1>12, <1>14, <2>1
  <1>16. DropIncompleteRound(one) = LeaveOut(one, i)
    <2> HIDE DEF one
    <2>1. PICK h \in Open(one) : /\ \A k \in Open(one) : h <= k
                                 /\ DropIncompleteRound(one) = LeaveOut(one, h)
                                 /\ h \in 1 .. Len(one)
      BY <1>11, <1>15, FirstOpen
    <2>2. h <= i /\ i <= h /\ h \in Int /\ i \in Int
      BY <1>1, <1>15, <2>1
    <2>3. h = i
      BY <2>2
    <2>4. QED BY <2>1, <2>3
  <1>17. LeaveOut(one, i) = Append(kept, m)
    <2>1. RoundEnd(ms, i) < Len(ms) /\ <<m>> \in Seq(Message) /\ i \in 1 .. Len(ms)
      BY <1>1, <1>3, <1>6, <1>10
    <2>2. RoundEnd(ms \o <<m>>, i) = RoundEnd(ms, i)
      BY <2>1, RoundEndConcat
    <2>3. LeaveOut(ms \o <<m>>, i) = kept \o <<m>>
      BY <2>1, <2>2, LeaveOutConcat DEF kept
    <2>4. Append(kept, m) = kept \o <<m>>
      BY <1>5, <1>8, AppendIsConcat
    <2>5. QED BY <1>10, <2>3, <2>4
  <1> DEFINE then == Append(kept, m)
  <1>18. CallsIn(then) = CallsIn(kept)
    <2>1. CallsIn(then) = CallsIn(kept) \o << >>
      <3>1. CallsIn(Append(kept, m)) = CallsIn(kept) \o m.calls
        BY <1>5, <1>8, CallsInAppend
      <3>2. QED BY <1>9, <3>1
    <2>2. CallsIn(kept) \in Seq(Call)
      BY <1>5, CallsInIs
    <2>3. QED BY <2>1, <2>2, ConcatEmptySeq
  <1>19. Told(then) = Told(kept) \cup {Head(cs)}
    <2>1. /\ DOMAIN then = DOMAIN kept \cup {Len(kept) + 1} /\ Len(kept) + 1 \notin DOMAIN kept
          /\ \A q \in DOMAIN kept : then[q] = kept[q]
          /\ then[Len(kept) + 1] = m
      BY <1>5, <1>8, AppendIs
    <2> HIDE DEF then
    <2>2. QED BY <1>8, <1>9, <2>1 DEF Told
  <1>20. Without(CallsIn(then), Told(then)) = Tail(cs)
    <2>1. CallsIn(kept) \in Seq(Call) /\ IsInjective(CallsIn(kept))
      BY <1>5, CallsInIs
    <2>2. Without(CallsIn(kept), Told(kept)) # << >>
      BY <1>4, <1>7
    <2>3. Without(CallsIn(kept), Told(kept) \cup {Head(Without(CallsIn(kept), Told(kept)))})
            = Tail(Without(CallsIn(kept), Told(kept)))
      BY <2>1, <2>2, WithoutHead
    <2>4. QED BY <1>4, <1>18, <1>19, <2>3
  <1> HIDE DEF then
  <1>21. Repairs(then) = [x \in DOMAIN Tail(cs) |-> Result(Tail(cs)[x])]
    BY <1>20 DEF Repairs, CallsIn
  <1>22. Tail(add) = [x \in DOMAIN Tail(cs) |-> Result(Tail(cs)[x])]
    <2>1. /\ Len(Tail(cs)) = Len(cs) - 1 /\ DOMAIN Tail(cs) = 1 .. Len(cs) - 1
          /\ \A x \in 1 .. Len(cs) - 1 : Tail(cs)[x] = cs[x + 1]
      BY <1>7
    <2>2. /\ DOMAIN Tail(add) = 1 .. Len(cs) - 1
          /\ \A x \in 1 .. Len(cs) - 1 : Tail(add)[x] = add[x + 1]
      BY <1>3, <1>6, <1>7
    <2>3. \A x \in 1 .. Len(cs) - 1 : x + 1 \in DOMAIN cs
      BY <1>7
    <2>4. \A x \in 1 .. Len(cs) - 1 : Tail(add)[x] = Result(Tail(cs)[x])
      BY <1>4, <2>1, <2>2, <2>3
    <2>5. Tail(add) = [x \in 1 .. Len(cs) - 1 |-> Tail(add)[x]]
      <3> DEFINE t == Tail(add)
      <3>1. t \in Seq(Message)
        BY <1>10
      <3>2. DOMAIN t = 1 .. Len(cs) - 1
        BY <2>2
      <3> HIDE DEF t
      <3>3. t = [x \in DOMAIN t |-> t[x]]
        BY <3>1
      <3>4. QED BY <3>2, <3>3 DEF t
    <2>6. QED BY <2>1, <2>4, <2>5
  <1>23. Repairs(DropIncompleteRound(one)) = Tail(add)
    BY <1>16, <1>17, <1>21, <1>22 DEF then
  <1>24. QED BY <1>1, <1>23 DEF add, kept, m

-----------------------------------------------------------------------------
(* Events and what they say.                                               *)

(* A function applied along a sequence. *)
LEMMA MapIs ==
  ASSUME NEW S, NEW T, NEW f \in [S -> T], NEW s \in Seq(S)
  PROVE  [i \in DOMAIN s |-> f[s[i]]] \in Seq(T) /\ Len([i \in DOMAIN s |-> f[s[i]]]) = Len(s)
  <1>1. DOMAIN s = 1 .. Len(s) /\ Len(s) \in Nat /\ \A i \in 1 .. Len(s) : f[s[i]] \in T
    OBVIOUS
  <1>2. QED BY <1>1

(* The same, one member at a time.                                         *)
LEMMA MapAppend ==
  ASSUME NEW S, NEW T, NEW f \in [S -> T], NEW s \in Seq(S), NEW e \in S
  PROVE  [i \in DOMAIN Append(s, e) |-> f[Append(s, e)[i]]] = Append([i \in DOMAIN s |-> f[s[i]]], f[e])
  <1> DEFINE u == Append(s, e)
             a == [i \in DOMAIN s |-> f[s[i]]]
             x == f[e]
  <1>1. /\ DOMAIN u = 1 .. Len(s) + 1 /\ DOMAIN s = 1 .. Len(s) /\ Len(s) \in Nat
        /\ \A i \in 1 .. Len(s) : u[i] = s[i]
        /\ u[Len(s) + 1] = e
    BY AppendIs
  <1>2. a \in Seq(T) /\ Len(a) = Len(s)
    BY MapIs
  <1>3. Append(a, x) = [i \in 1 .. Len(a) + 1 |-> IF i <= Len(a) THEN a[i] ELSE x]
    BY <1>2
  <1>4. \A i \in 1 .. Len(s) : a[i] = f[s[i]]
    BY <1>1
  <1> HIDE DEF u, a
  <1>5. [i \in DOMAIN u |-> f[u[i]]] = [i \in 1 .. Len(s) + 1 |-> IF i <= Len(s) THEN a[i] ELSE x]
    BY <1>1, <1>4
  <1>6. QED BY <1>2, <1>3, <1>5 DEF u, a

(* The same, from the head.                                                *)
LEMMA MapTail ==
  ASSUME NEW S, NEW T, NEW f \in [S -> T], NEW s \in Seq(S), s # << >>
  PROVE  [i \in DOMAIN s |-> f[s[i]]] = <<f[Head(s)]>> \o [i \in DOMAIN Tail(s) |-> f[Tail(s)[i]]]
  <1> DEFINE t == Tail(s)
             b == [i \in DOMAIN t |-> f[t[i]]]
             x == f[Head(s)]
             n == Len(s)
  <1>1. /\ t \in Seq(S) /\ Len(t) = n - 1 /\ n \in Nat /\ n >= 1 /\ DOMAIN s = 1 .. n
        /\ \A i \in 1 .. n - 1 : t[i] = s[i + 1]
        /\ Head(s) = s[1] /\ s[1] \in S
    OBVIOUS
  <1>2. DOMAIN t = 1 .. n - 1
    BY <1>1
  <1> HIDE DEF t, n
  <1>3. b \in Seq(T) /\ Len(b) = n - 1 /\ x \in T
    BY <1>1, MapIs
  <1>4. \A i \in 1 .. n - 1 : b[i] = f[s[i + 1]]
    BY <1>1, <1>2
  <1>5. /\ <<x>> \o b \in Seq(T) /\ Len(<<x>> \o b) = 1 + Len(b)
        /\ (<<x>> \o b)[1] = x
        /\ \A i \in 1 .. Len(b) : (<<x>> \o b)[1 + i] = b[i]
    <2>1. <<x>> \in Seq(T) /\ b \in Seq(T) /\ Len(<<x>>) = 1 /\ <<x>>[1] = x
      BY <1>3
    <2> HIDE DEF b, x
    <2>2. /\ <<x>> \o b \in Seq(T) /\ Len(<<x>> \o b) = Len(<<x>>) + Len(b)
          /\ \A i \in 1 .. Len(<<x>>) : (<<x>> \o b)[i] = <<x>>[i]
          /\ \A i \in 1 .. Len(b) : (<<x>> \o b)[Len(<<x>>) + i] = b[i]
      BY <2>1, ConcatIs
    <2>3. QED BY <2>1, <2>2
  <1> DEFINE v == <<x>> \o b
  <1> HIDE DEF b, x, v
  <1>6. v \in Seq(T) /\ DOMAIN v = 1 .. n /\ v[1] = x /\ \A i \in 1 .. n - 1 : v[1 + i] = b[i]
    <2>1. v \in Seq(T) /\ Len(v) = n
      BY <1>1, <1>3, <1>5 DEF v
    <2>2. DOMAIN v = 1 .. n
      BY <2>1
    <2>3. QED BY <1>3, <1>5, <2>1, <2>2 DEF v
  <1>7. \A i \in 1 .. n : v[i] = f[s[i]]
    <2> SUFFICES ASSUME NEW i \in 1 .. n PROVE v[i] = f[s[i]]
      OBVIOUS
    <2>1. CASE i = 1
      BY <1>1, <1>6, <2>1 DEF x
    <2>2. CASE i # 1
      <3>1. i - 1 \in 1 .. n - 1 /\ 1 + (i - 1) = i /\ (i - 1) + 1 = i
        BY <1>1, <2>2
      <3>2. v[1 + (i - 1)] = b[i - 1] /\ b[i - 1] = f[s[(i - 1) + 1]]
        BY <1>4, <1>6, <3>1 DEF b
      <3>3. QED BY <3>1, <3>2
    <2>3. QED BY <2>1, <2>2
  <1>8. v = [i \in DOMAIN v |-> v[i]]
    BY <1>6
  <1>9. v = [i \in DOMAIN s |-> f[s[i]]]
    BY <1>1, <1>6, <1>7, <1>8
  <1>10. QED BY <1>9 DEF v, b, x, t

(* The messages of an event list. *)
Said(e) == IF e.type = "message" THEN <<e.about>> ELSE << >>

(* The events and what they say.                                           *)
LEMMA EventIs ==
  /\ \A e \in Event : Said(e) \in Seq(Message)
  /\ \A m \in Message : MessageEv(m) \in Event /\ Said(MessageEv(m)) = <<m>>
                        /\ Added(m) = <<MessageEv(m)>> /\ MessageEv(m).type = "message" /\ MessageEv(m).about = m
  /\ \A c \in Call : /\ StartedEv(c) \in Event /\ Said(StartedEv(c)) = << >>
                     /\ StartedEv(c).type = "tool_started" /\ StartedEv(c).about = c
                     /\ [type |-> "tool_finished", about |-> c] \in Event
                     /\ Said([type |-> "tool_finished", about |-> c]) = << >>
  /\ \A t \in {"turn_started", "run_finished"} :
       [type |-> t, about |-> NoCall] \in Event /\ Said([type |-> t, about |-> NoCall]) = << >>
  <1>1. ASSUME NEW e \in Event PROVE Said(e) \in Seq(Message)
    <2>1. e.type = "message" => e.about \in Message
      BY DEF Event
    <2>2. QED BY <2>1 DEF Said
  <1>2. ASSUME NEW m \in Message
        PROVE  MessageEv(m) \in Event /\ Said(MessageEv(m)) = <<m>> /\ Added(m) = <<MessageEv(m)>>
               /\ MessageEv(m).type = "message" /\ MessageEv(m).about = m
    BY DEF MessageEv, Event, Said, Added
  <1>3. ASSUME NEW c \in Call
        PROVE  /\ StartedEv(c) \in Event /\ Said(StartedEv(c)) = << >>
               /\ StartedEv(c).type = "tool_started" /\ StartedEv(c).about = c
               /\ [type |-> "tool_finished", about |-> c] \in Event
               /\ Said([type |-> "tool_finished", about |-> c]) = << >>
    BY DEF StartedEv, Event, Said
  <1>4. ASSUME NEW t \in {"turn_started", "run_finished"}
        PROVE  [type |-> t, about |-> NoCall] \in Event /\ Said([type |-> t, about |-> NoCall]) = << >>
    BY DEF Event, Said
  <1>5. QED BY <1>1, <1>2, <1>3, <1>4

(* What events say is a sequence of messages.                              *)
LEMMA SaidSeq ==
  ASSUME NEW es \in Seq(Event)
  PROVE  /\ [k \in DOMAIN es |-> Said(es[k])] \in Seq(Seq(Message))
         /\ Messages(es) = FlattenSeq([k \in DOMAIN es |-> Said(es[k])])
         /\ Messages(es) \in Seq(Message)
  <1>1. DOMAIN es = 1 .. Len(es) /\ Len(es) \in Nat /\ \A k \in 1 .. Len(es) : Said(es[k]) \in Seq(Message)
    BY EventIs
  <1>2. [k \in DOMAIN es |-> Said(es[k])] \in Seq(Seq(Message))
    BY <1>1
  <1>3. Messages(es) = FlattenSeq([k \in DOMAIN es |-> Said(es[k])])
    BY DEF Messages, Said
  <1>4. QED BY <1>2, <1>3, FlatType

(* One more event.                                                         *)
LEMMA MessagesAppend ==
  ASSUME NEW es \in Seq(Event), NEW e \in Event
  PROVE  Messages(Append(es, e)) = Messages(es) \o Said(e)
  <1> DEFINE f == [x \in Event |-> Said(x)]
             g(s) == [k \in DOMAIN s |-> Said(s[k])]
             u == Append(es, e)
  <1>1. f \in [Event -> Seq(Message)]
    BY EventIs
  <1>2. u \in Seq(Event)
    BY AppendIs
  <1>3. \A s \in Seq(Event) : g(s) = [k \in DOMAIN s |-> f[s[k]]]
    OBVIOUS
  <1> HIDE DEF f
  <1>4. [k \in DOMAIN u |-> f[u[k]]] = Append([k \in DOMAIN es |-> f[es[k]]], f[e])
    BY <1>1, MapAppend
  <1>5. g(u) = Append(g(es), Said(e))
    BY <1>2, <1>3, <1>4 DEF f
  <1>6. Messages(u) = FlattenSeq(g(u)) /\ Messages(es) = FlattenSeq(g(es)) /\ g(es) \in Seq(Seq(Message))
    BY <1>2, SaidSeq
  <1>7. Said(e) \in Seq(Message)
    BY EventIs
  <1> HIDE DEF g
  <1>8. FlattenSeq(Append(g(es), Said(e))) = FlattenSeq(g(es)) \o Said(e)
    BY <1>6, <1>7, FlatAppend
  <1>9. QED BY <1>5, <1>6, <1>8

(* No events say nothing.                                                  *)
LEMMA MessagesEmpty == Messages(<< >>) = << >>
  <1>1. [k \in DOMAIN << >> |-> IF << >>[k].type = "message" THEN <<<< >>[k].about>> ELSE << >>] = << >>
    OBVIOUS
  <1>2. QED BY <1>1, FlatEmpty DEF Messages

(* One event says what it says.                                            *)
LEMMA MessagesOne ==
  ASSUME NEW e \in Event
  PROVE  Messages(<<e>>) = Said(e) /\ <<e>> \in Seq(Event)
  <1>1. Append(<< >>, e) = <<e>> /\ << >> \in Seq(Event)
    OBVIOUS
  <1>2. << >> \o Said(e) = Said(e)
    BY EventIs, ConcatEmptySeq
  <1>3. Messages(Append(<< >>, e)) = Messages(<< >>) \o Said(e)
    BY <1>1, MessagesAppend
  <1>4. Messages(<<e>>) = Said(e)
    BY <1>1, <1>2, <1>3, MessagesEmpty, Zenon
  <1>5. QED BY <1>4

(* Events after events.                                                    *)
LEMMA MessagesConcat ==
  ASSUME NEW es \in Seq(Event), NEW fs \in Seq(Event)
  PROVE  Messages(es \o fs) = Messages(es) \o Messages(fs)
  <1> DEFINE P == {gs \in Seq(Event) : Messages(es \o gs) = Messages(es) \o Messages(gs)}
  <1>1. << >> \in P
    <2>1. es \o << >> = es /\ << >> \in Seq(Event)
      BY ConcatEmptySeq
    <2>2. Messages(es) \in Seq(Message)
      BY SaidSeq
    <2>3. Messages(es) \o << >> = Messages(es)
      BY <2>2, ConcatEmptySeq
    <2>4. QED BY <2>1, <2>3, MessagesEmpty
  <1>2. ASSUME NEW gs \in Seq(Event), NEW e \in Event, gs \in P PROVE Append(gs, e) \in P
    <2>1. es \o gs \in Seq(Event) /\ Append(gs, e) \in Seq(Event) /\ <<e>> \in Seq(Event)
          /\ Append(gs, e) = gs \o <<e>>
      BY ConcatIs, AppendIs
    <2>2. es \o Append(gs, e) = Append(es \o gs, e)
      <3>1. (es \o gs) \o <<e>> = es \o (gs \o <<e>>)
        BY <2>1, ConcatAssociative
      <3>2. Append(es \o gs, e) = (es \o gs) \o <<e>>
        BY <2>1, AppendIsConcat
      <3>3. QED BY <2>1, <3>1, <3>2
    <2>3. Messages(Append(es \o gs, e)) = Messages(es \o gs) \o Said(e)
      BY <2>1, MessagesAppend
    <2>4. Messages(Append(gs, e)) = Messages(gs) \o Said(e)
      BY MessagesAppend
    <2>5. Messages(es \o gs) = Messages(es) \o Messages(gs)
      BY <1>2
    <2>6. (Messages(es) \o Messages(gs)) \o Said(e) = Messages(es) \o (Messages(gs) \o Said(e))
      <3>1. Messages(es) \in Seq(Message) /\ Messages(gs) \in Seq(Message) /\ Said(e) \in Seq(Message)
        BY SaidSeq, EventIs
      <3> DEFINE A == Messages(es)
                 B == Messages(gs)
                 C == Said(e)
      <3>2. A \in Seq(Message) /\ B \in Seq(Message) /\ C \in Seq(Message)
        BY <3>1
      <3> HIDE DEF A, B, C, P
      <3>3. (A \o B) \o C = A \o (B \o C)
        BY <3>2, ConcatAssociative, SMTT(40)
      <3>4. QED BY <3>3 DEF A, B, C
    <2>7. QED BY <2>1, <2>2, <2>3, <2>4, <2>5, <2>6
  <1> HIDE DEF P
  <1>3. fs \in P
    BY <1>1, <1>2, SeqInduction, Zenon
  <1>4. QED BY <1>3 DEF P

(* What is consumed first, and what is left.                               *)
LEMMA MessagesHead ==
  ASSUME NEW es \in Seq(Event), es # << >>
  PROVE  Messages(es) = Said(Head(es)) \o Messages(Tail(es)) /\ Head(es) \in Event /\ Tail(es) \in Seq(Event)
  <1>1. Head(es) \in Event /\ Tail(es) \in Seq(Event) /\ es = <<Head(es)>> \o Tail(es)
    OBVIOUS
  <1>2. <<Head(es)>> \in Seq(Event) /\ Messages(<<Head(es)>>) = Said(Head(es))
    BY <1>1, MessagesOne
  <1>3. Messages(<<Head(es)>> \o Tail(es)) = Messages(<<Head(es)>>) \o Messages(Tail(es))
    BY <1>1, <1>2, MessagesConcat
  <1>4. QED BY <1>1, <1>2, <1>3

(* The events of a batch's results, of its starts, and of repairs. *)
LEMMA MessagesOfResults ==
  ASSUME NEW cs \in Seq(Call)
  PROVE  /\ FlattenSeq([i \in DOMAIN cs |-> ResultEvs(cs[i])]) \in Seq(Event)
         /\ Messages(FlattenSeq([i \in DOMAIN cs |-> ResultEvs(cs[i])])) = [i \in DOMAIN cs |-> Result(cs[i])]
         /\ \A k \in DOMAIN FlattenSeq([i \in DOMAIN cs |-> ResultEvs(cs[i])]) :
              FlattenSeq([i \in DOMAIN cs |-> ResultEvs(cs[i])])[k].type \in {"tool_finished", "message"}
         /\ cs # << >> => /\ FlattenSeq([i \in DOMAIN cs |-> ResultEvs(cs[i])]) # << >>
                          /\ FlattenSeq([i \in DOMAIN cs |-> ResultEvs(cs[i])])[1].type = "tool_finished"
  <1> DEFINE f == [c \in Call |-> ResultEvs(c)]
             g == [c \in Call |-> Result(c)]
             F(s) == [i \in DOMAIN s |-> f[s[i]]]
             G(s) == [i \in DOMAIN s |-> g[s[i]]]
             Good(es) == \A k \in DOMAIN es : es[k].type \in {"tool_finished", "message"}
             P == {s \in Seq(Call) :
                     /\ FlattenSeq(F(s)) \in Seq(Event)
                     /\ Messages(FlattenSeq(F(s))) = G(s)
                     /\ Good(FlattenSeq(F(s)))
                     /\ s # << >> => FlattenSeq(F(s)) # << >> /\ FlattenSeq(F(s))[1].type = "tool_finished"}
  <1>1. ASSUME NEW c \in Call
        PROVE  /\ f[c] \in Seq(Event) /\ Messages(f[c]) = <<g[c]>> /\ Good(f[c])
               /\ Len(f[c]) = 2 /\ f[c][1].type = "tool_finished" /\ g[c] \in Message
    <2> DEFINE a == [type |-> "tool_finished", about |-> c]
               b == MessageEv(Result(c))
    <2>1. Result(c) \in Message
      BY ResultIs
    <2>2. /\ a \in Event /\ b \in Event /\ Said(a) = << >> /\ Said(b) = <<Result(c)>>
          /\ a.type = "tool_finished" /\ b.type = "message" /\ Added(Result(c)) = <<b>>
      BY <2>1, EventIs
    <2>3. f[c] = <<a>> \o <<b>>
      BY <2>2 DEF ResultEvs
    <2> HIDE DEF a, b, f
    <2>4. <<a>> \in Seq(Event) /\ <<b>> \in Seq(Event) /\ Messages(<<a>>) = << >> /\ Messages(<<b>>) = <<Result(c)>>
      BY <2>2, MessagesOne
    <2>5. Messages(f[c]) = << >> \o <<Result(c)>>
      BY <2>3, <2>4, MessagesConcat
    <2>6. <<Result(c)>> \in Seq(Message)
      BY <2>1
    <2>7. << >> \o <<Result(c)>> = <<Result(c)>>
      BY <2>6, ConcatEmptySeq
    <2>8. /\ <<a>> \o <<b>> \in Seq(Event) /\ Len(<<a>> \o <<b>>) = Len(<<a>>) + Len(<<b>>)
          /\ \A i \in 1 .. Len(<<a>>) : (<<a>> \o <<b>>)[i] = <<a>>[i]
          /\ \A i \in 1 .. Len(<<b>>) : (<<a>> \o <<b>>)[Len(<<a>>) + i] = <<b>>[i]
      BY <2>4, ConcatIs
    <2>9. f[c] \in Seq(Event) /\ Len(f[c]) = 2 /\ f[c][1] = a /\ f[c][2] = b /\ DOMAIN f[c] = 1 .. 2
      <3>1. Len(<<a>>) = 1 /\ Len(<<b>>) = 1 /\ <<a>>[1] = a /\ <<b>>[1] = b
        OBVIOUS
      <3>2. f[c] \in Seq(Event) /\ Len(f[c]) = 2 /\ f[c][1] = a /\ f[c][2] = b
        BY <2>3, <2>8, <3>1
      <3>3. QED BY <3>2
    <2>10. \A k \in 1 .. 2 : k = 1 \/ k = 2
      OBVIOUS
    <2>11. Good(f[c])
      BY <2>2, <2>9, <2>10
    <2>12. QED BY <2>1, <2>2, <2>5, <2>7, <2>9, <2>11
  <1>2. f \in [Call -> Seq(Event)] /\ g \in [Call -> Message]
    BY <1>1
  <1>3. << >> \in P
    <2>1. F(<< >>) = << >> /\ G(<< >>) = << >> /\ << >> \in Seq(Call) /\ << >> \in Seq(Event) /\ DOMAIN << >> = {}
      OBVIOUS
    <2> HIDE DEF F, G
    <2>2. QED BY <2>1, FlatEmpty, MessagesEmpty
  <1>4. ASSUME NEW s \in Seq(Call), NEW c \in Call, s \in P PROVE Append(s, c) \in P
    <2> DEFINE u == Append(s, c)
               es == FlattenSeq(F(s))
    <2>1. u \in Seq(Call)
      BY AppendIs
    <2>2. F(u) = Append(F(s), f[c]) /\ G(u) = Append(G(s), g[c])
      <3> HIDE DEF f, g
      <3>1. QED BY <1>2, MapAppend
    <2>3. F(s) \in Seq(Seq(Event)) /\ G(s) \in Seq(Message)
      <3> HIDE DEF f, g
      <3>1. f \in [Call -> Seq(Event)]
        BY <1>2
      <3>2. F(s) \in Seq(Seq(Event))
        BY <3>1, MapIs
      <3>3. g \in [Call -> Message]
        BY <1>2
      <3>4. G(s) \in Seq(Message)
        BY <3>3, MapIs
      <3>5. QED BY <3>2, <3>4, Zenon
    <2>4. /\ f[c] \in Seq(Event) /\ Messages(f[c]) = <<g[c]>> /\ Good(f[c])
          /\ Len(f[c]) = 2 /\ f[c][1].type = "tool_finished" /\ g[c] \in Message
      BY <1>1
    <2>5. /\ es \in Seq(Event) /\ Messages(es) = G(s) /\ Good(es)
          /\ s # << >> => es # << >> /\ es[1].type = "tool_finished"
      BY <1>4
    <2>6. s = << >> => es = << >>
      <3>1. F(<< >>) = << >>
        OBVIOUS
      <3> HIDE DEF F
      <3>2. QED BY <3>1, FlatEmpty
    <2> HIDE DEF f, g, F, G, u
    <2>7. FlattenSeq(F(u)) = es \o f[c]
      BY <2>2, <2>3, <2>4, FlatAppend
    <2> DEFINE w == es \o f[c]
               x == f[c]
    <2> HIDE DEF es, x
    <2>8. /\ w \in Seq(Event) /\ Len(w) = Len(es) + Len(x) /\ Len(es) \in Nat
          /\ \A i \in 1 .. Len(es) : w[i] = es[i]
          /\ \A i \in 1 .. Len(x) : w[Len(es) + i] = x[i]
      <3>1. es \in Seq(Event) /\ x \in Seq(Event)
        BY <2>4, <2>5 DEF x
      <3>2. QED BY <3>1, ConcatIs DEF x
    <2>9. Messages(w) = G(u)
      <3>1. Messages(w) = Messages(es) \o Messages(f[c])
        BY <2>4, <2>5, MessagesConcat
      <3>2. Append(G(s), g[c]) = G(s) \o <<g[c]>>
        BY <2>3, <2>4, AppendIsConcat
      <3>3. QED BY <2>2, <2>4, <2>5, <3>1, <3>2
    <2> HIDE DEF w
    <2>10. Len(x) = 2 /\ DOMAIN w = 1 .. Len(es) + 2 /\ DOMAIN es = 1 .. Len(es) /\ DOMAIN x = 1 .. 2
      <3>1. w \in Seq(Event) /\ es \in Seq(Event) /\ x \in Seq(Event) /\ Len(x) = 2
        BY <2>4, <2>5, <2>8 DEF x
      <3>2. QED BY <2>8, <3>1
    <2>11. Good(w)
      <3> SUFFICES ASSUME NEW k \in 1 .. Len(es) + 2 PROVE w[k].type \in {"tool_finished", "message"}
        BY <2>10
      <3>1. CASE k <= Len(es)
        <4>1. k \in 1 .. Len(es)
          BY <2>8, <3>1
        <4>2. QED BY <2>5, <2>8, <2>10, <4>1
      <3>2. CASE ~(k <= Len(es))
        <4>1. k - Len(es) \in 1 .. 2 /\ k = Len(es) + (k - Len(es))
          BY <2>8, <3>2
        <4>2. w[k] = x[k - Len(es)]
          BY <2>8, <2>10, <4>1
        <4>3. QED BY <2>4, <2>10, <4>1, <4>2 DEF x
      <3>3. QED BY <3>1, <3>2
    <2>12. w # << >> /\ w[1].type = "tool_finished"
      <3>1. CASE s = << >>
        <4>1. Len(es) = 0 /\ 1 \in 1 .. Len(x) /\ Len(es) + 1 = 1
          BY <2>6, <2>10, <3>1
        <4>2. w[1] = x[1]
          BY <2>8, <4>1
        <4>3. QED BY <2>4, <2>8, <2>10, <4>1, <4>2 DEF x
      <3>2. CASE s # << >>
        <4>1. es \in Seq(Event) /\ es # << >>
          BY <2>5, <3>2
        <4>2. 1 \in 1 .. Len(es)
          BY <4>1
        <4>3. QED BY <2>5, <2>8, <2>10, <3>2, <4>2
      <3>3. QED BY <3>1, <3>2
    <2>13. QED BY <2>1, <2>7, <2>8, <2>9, <2>11, <2>12 DEF w, u
  <1>5. cs \in P
    <2> HIDE DEF P
    <2>1. QED BY <1>3, <1>4, SeqInduction, Zenon
  <1>6. F(cs) = [i \in DOMAIN cs |-> ResultEvs(cs[i])] /\ G(cs) = [i \in DOMAIN cs |-> Result(cs[i])]
    OBVIOUS
  <1> HIDE DEF F, G
  <1>7. QED BY <1>5, <1>6

(* The announcements of a batch say nothing.                               *)
LEMMA MessagesOfStarts ==
  ASSUME NEW cs \in Seq(Call)
  PROVE  /\ [i \in DOMAIN cs |-> StartedEv(cs[i])] \in Seq(Event)
         /\ Messages([i \in DOMAIN cs |-> StartedEv(cs[i])]) = << >>
  <1> DEFINE f == [c \in Call |-> StartedEv(c)]
             F(s) == [i \in DOMAIN s |-> f[s[i]]]
             P == {s \in Seq(Call) : F(s) \in Seq(Event) /\ Messages(F(s)) = << >>}
  <1>1. \A c \in Call : f[c] \in Event /\ Said(f[c]) = << >>
    BY EventIs
  <1>2. f \in [Call -> Event]
    BY <1>1
  <1>3. << >> \in P
    <2>1. F(<< >>) = << >> /\ << >> \in Seq(Call) /\ << >> \in Seq(Event)
      OBVIOUS
    <2> HIDE DEF F
    <2>2. QED BY <2>1, MessagesEmpty
  <1>4. ASSUME NEW s \in Seq(Call), NEW c \in Call, s \in P PROVE Append(s, c) \in P
    <2>1. Append(s, c) \in Seq(Call)
      BY AppendIs
    <2>2. F(s) \in Seq(Event) /\ Messages(F(s)) = << >> /\ f[c] \in Event /\ Said(f[c]) = << >>
      BY <1>1, <1>4
    <2> HIDE DEF f
    <2>3. F(Append(s, c)) = Append(F(s), f[c])
      BY <1>2, MapAppend
    <2> HIDE DEF F
    <2>4. Messages(Append(F(s), f[c])) = << >> \o << >>
      BY <2>2, MessagesAppend
    <2>5. << >> \o << >> = << >>
      OBVIOUS
    <2>6. Append(F(s), f[c]) \in Seq(Event)
      BY <2>2, AppendIs
    <2>7. QED BY <2>1, <2>3, <2>4, <2>5, <2>6
  <1>5. cs \in P
    <2> HIDE DEF P
    <2>1. QED BY <1>3, <1>4, SeqInduction, Zenon
  <1>6. F(cs) = [i \in DOMAIN cs |-> StartedEv(cs[i])]
    OBVIOUS
  <1> HIDE DEF F
  <1>7. QED BY <1>5, <1>6

(* The events of a restart say its repairs.                                *)
LEMMA MessagesOfRepairs ==
  ASSUME NEW ms \in Seq(Message)
  PROVE  /\ [i \in DOMAIN ms |-> MessageEv(ms[i])] \in Seq(Event)
         /\ Messages([i \in DOMAIN ms |-> MessageEv(ms[i])]) = ms
  <1> DEFINE f == [m \in Message |-> MessageEv(m)]
             F(s) == [i \in DOMAIN s |-> f[s[i]]]
             P == {s \in Seq(Message) : F(s) \in Seq(Event) /\ Messages(F(s)) = s}
  <1>1. \A m \in Message : f[m] \in Event /\ Said(f[m]) = <<m>>
    BY EventIs
  <1>2. f \in [Message -> Event]
    BY <1>1
  <1>3. << >> \in P
    <2>1. F(<< >>) = << >> /\ << >> \in Seq(Message) /\ << >> \in Seq(Event)
      OBVIOUS
    <2> HIDE DEF F
    <2>2. QED BY <2>1, MessagesEmpty
  <1>4. ASSUME NEW s \in Seq(Message), NEW m \in Message, s \in P PROVE Append(s, m) \in P
    <2>1. Append(s, m) \in Seq(Message) /\ Append(s, m) = s \o <<m>>
      BY AppendIs
    <2>2. F(s) \in Seq(Event) /\ Messages(F(s)) = s /\ f[m] \in Event /\ Said(f[m]) = <<m>>
      BY <1>1, <1>4
    <2> HIDE DEF f
    <2>3. F(Append(s, m)) = Append(F(s), f[m])
      BY <1>2, MapAppend
    <2> HIDE DEF F
    <2>4. Messages(Append(F(s), f[m])) = s \o <<m>>
      BY <2>2, MessagesAppend
    <2>5. Append(F(s), f[m]) \in Seq(Event)
      BY <2>2, AppendIs
    <2>6. QED BY <2>1, <2>3, <2>4, <2>5
  <1>5. ms \in P
    <2> HIDE DEF P
    <2>1. QED BY <1>3, <1>4, SeqInduction, Zenon
  <1>6. F(ms) = [i \in DOMAIN ms |-> MessageEv(ms[i])]
    OBVIOUS
  <1> HIDE DEF F
  <1>7. QED BY <1>5, <1>6

-----------------------------------------------------------------------------
(* Memory and journal, of values: what the operations do to both.          *)

(* The parts of the invariant that relate memory and journal, of values:   *)
(* the phase, what is written, memory, the pending request, what is to do, *)
(* the batch, and the two counts of exceptions.                            *)
Busy(ph) == ph \in {"calls", "gather"}

StoryRound(ph, w, td, bt) ==
  IF Busy(ph)
    THEN /\ \E k \in DOMAIN w : RoundAt(w, k, td)
         /\ IF ph = "calls" THEN bt = << >> ELSE \E n \in 1 .. Len(td) : bt = SubSeq(td, 1, n)
    ELSE td = << >> /\ bt = << >>

StoryMemory(ph, w, ms, pn, dg) ==
  ph # "down" =>
    \/ /\ ms = w
       /\ dg = 0 => \A k \in Open(w) : Busy(ph) /\ RoundEnd(w, k) = Len(w)
    \/ \E i \in Open(w) :
         /\ \A k \in Open(w) : i <= k
         /\ ms = LeaveOut(w, i)
         /\ ph # "idle" \/ pn # NoMessages => RoundEnd(w, i) < Len(w)

StoryTold(ph, ms, td, dg) ==
  ph # "down" /\ dg = 0 => \A i \in DOMAIN ms : ToSet(ms[i].calls) \subseteq Told(ms) \cup ToSet(td)

StoryOpen(ph, w, tw) ==
  ~tw => /\ OneHole(w)
         /\ ph # "down" => \A i, k \in Open(w) : i < k => Busy(ph) /\ RoundEnd(w, k) = Len(w)

Story(ph, w, ms, pn, td, bt, dg, tw) ==
  /\ Tidy(w)
  /\ StoryRound(ph, w, td, bt)
  /\ StoryMemory(ph, w, ms, pn, dg)
  /\ StoryTold(ph, ms, td, dg)
  /\ StoryOpen(ph, w, tw)

(* Of the open rounds only the one that is worked on is at the end, and it *)
(* is not open when nothing is left to do.                                 *)
LEMMA OpenAtEnd ==
  ASSUME NEW w \in Seq(Message), Tidy(w), NEW ph, NEW td, NEW bt, StoryRound(ph, w, td, bt), Busy(ph)
  PROVE  \E k \in 1 .. Len(w) :
           /\ RoundAt(w, k, td) /\ td \in Seq(Call) /\ RoundEnd(w, k) = Len(w)
           /\ \A j \in Open(w) : RoundEnd(w, j) = Len(w) => j = k
           /\ td = << >> => k \notin Open(w)
           /\ \A c \in ToSet(td) : \A p \in 1 .. Len(w) : w[p].call # c
  <1>1. PICK k \in DOMAIN w : RoundAt(w, k, td)
    BY DEF StoryRound
  <1>2. k \in 1 .. Len(w) /\ Len(w) \in Nat
    OBVIOUS
  <1>3. /\ td \in Seq(Call) /\ RoundEnd(w, k) = Len(w)
        /\ \A i \in 1 .. Len(w) : i # k /\ ToSet(w[i].calls) # {} => i < k /\ RoundEnd(w, i) < k
        /\ \A c \in ToSet(td) : \A p \in 1 .. Len(w) : w[p].call # c
        /\ k \in Open(w) <=> td # << >>
    BY <1>1, <1>2, UnderWay
  <1>4. ASSUME NEW j \in Open(w), RoundEnd(w, j) = Len(w), j # k PROVE FALSE
    <2>1. j \in 1 .. Len(w) /\ ToSet(w[j].calls) # {}
      BY OpenIs
    <2>2. RoundEnd(w, j) < k
      BY <1>3, <1>4, <2>1
    <2>3. QED BY <1>2, <1>4, <2>2
  <1>5. QED BY <1>1, <1>2, <1>3, <1>4

(* When nothing is to do, no two rounds are open that ~twice excludes, and *)
(* none at all if memory is what is written.                               *)
LEMMA AllClosed ==
  ASSUME NEW w \in Seq(Message), NEW ms, NEW pn, NEW bt, NEW dg, NEW tw, NEW ph, ph # "down",
         Story(ph, w, ms, pn, << >>, bt, dg, tw)
  PROVE  /\ ~tw => \A i, k \in Open(w) : ~(i < k)
         /\ dg = 0 /\ ms = w => Open(w) = {} \/ \E i \in Open(w) : ms = LeaveOut(w, i)
         /\ \/ ms = w /\ (dg = 0 => Open(w) = {})
            \/ \E i \in Open(w) :
                 /\ \A k \in Open(w) : i <= k
                 /\ ms = LeaveOut(w, i)
                 /\ ph # "idle" \/ pn # NoMessages => RoundEnd(w, i) < Len(w)
  <1>1. ASSUME NEW j \in Open(w), RoundEnd(w, j) = Len(w), Busy(ph) PROVE FALSE
    <2>1. Tidy(w) /\ StoryRound(ph, w, << >>, bt)
      BY DEF Story
    <2>2. PICK k \in 1 .. Len(w) : /\ \A h \in Open(w) : RoundEnd(w, h) = Len(w) => h = k
                                   /\ k \notin Open(w)
      BY <1>1, <2>1, OpenAtEnd
    <2>3. QED BY <1>1, <2>2
  <1>2. ~tw => \A i, k \in Open(w) : ~(i < k)
    BY <1>1 DEF Story, StoryOpen
  <1>3. \/ ms = w /\ (dg = 0 => Open(w) = {})
        \/ \E i \in Open(w) :
             /\ \A k \in Open(w) : i <= k
             /\ ms = LeaveOut(w, i)
             /\ ph # "idle" \/ pn # NoMessages => RoundEnd(w, i) < Len(w)
    BY <1>1 DEF Story, StoryMemory
  <1>4. QED BY <1>2, <1>3

(* What one more message tells.                                            *)
LEMMA PlainTold ==
  ASSUME NEW ms \in Seq(Message), NEW m \in Message
  PROVE  Told(Append(ms, m)) = Told(ms) \cup {m.call}
  <1> DEFINE u == Append(ms, m)
  <1>1. /\ DOMAIN u = DOMAIN ms \cup {Len(ms) + 1} /\ Len(ms) + 1 \notin DOMAIN ms
        /\ \A q \in DOMAIN ms : u[q] = ms[q]
        /\ u[Len(ms) + 1] = m
    BY AppendIs
  <1> HIDE DEF u
  <1>2. QED BY <1>1 DEF Told, u

(* The run goes on or ends without a word. *)
LEMMA StoryMoves ==
  ASSUME NEW w \in Seq(Message), NEW ms, NEW pn, NEW bt, NEW dg, NEW tw,
         NEW ph, ph # "down", ph # "idle" \/ pn # NoMessages, NEW qh, ~Busy(qh), NEW qn,
         Story(ph, w, ms, pn, << >>, bt, dg, tw)
  PROVE  Story(qh, w, ms, qn, << >>, << >>, dg, tw)
  <1>1. /\ ~tw => \A i, k \in Open(w) : ~(i < k)
        /\ \/ ms = w /\ (dg = 0 => Open(w) = {})
           \/ \E i \in Open(w) :
                /\ \A k \in Open(w) : i <= k
                /\ ms = LeaveOut(w, i)
                /\ ph # "idle" \/ pn # NoMessages => RoundEnd(w, i) < Len(w)
    BY AllClosed
  <1>2. StoryRound(qh, w, << >>, << >>)
    BY DEF StoryRound
  <1>3. StoryMemory(qh, w, ms, qn, dg)
    BY <1>1 DEF StoryMemory
  <1>4. StoryTold(qh, ms, << >>, dg)
    BY DEF Story, StoryTold
  <1>5. StoryOpen(qh, w, tw)
    BY <1>1 DEF Story, StoryOpen
  <1>6. QED BY <1>2, <1>3, <1>4, <1>5 DEF Story

(* A prompt, a text or a notice: it is in memory and will be written. *)
LEMMA StoryPlain ==
  ASSUME NEW w \in Seq(Message), NEW ms \in Seq(Message), NEW pn, NEW bt, NEW dg, NEW tw,
         NEW ph, ph # "down", NEW qh, ~Busy(qh), qh # "idle", NEW qn, NEW m \in {User, Text},
         Story(ph, w, ms, pn, << >>, bt, dg, tw)
  PROVE  Story(qh, Append(w, m), Append(ms, m), qn, << >>, << >>, dg, tw)
  <1> DEFINE v == Append(w, m)
             ns == Append(ms, m)
  <1>1. /\ ~tw => \A i, k \in Open(w) : ~(i < k)
        /\ \/ ms = w /\ (dg = 0 => Open(w) = {})
           \/ \E i \in Open(w) : (\A k \in Open(w) : i <= k) /\ ms = LeaveOut(w, i)
    <2>1. /\ ~tw => \A i, k \in Open(w) : ~(i < k)
          /\ \/ ms = w /\ (dg = 0 => Open(w) = {})
             \/ \E i \in Open(w) :
                  /\ \A k \in Open(w) : i <= k
                  /\ ms = LeaveOut(w, i)
                  /\ ph # "idle" \/ pn # NoMessages => RoundEnd(w, i) < Len(w)
      BY AllClosed
    <2>2. QED BY <2>1
  <1>2. m \in Message /\ m.role # "tool" /\ m.calls = << >>
    BY PlainIs
  <1>3. IsInjective(<< >>) /\ ToSet(<< >>) = {}
    BY DEF IsInjective, ToSet
  <1>4. Tidy(w)
    BY DEF Story
  <1>5. /\ Tidy(v)
        /\ \A i \in 1 .. Len(w) : RoundEnd(v, i) = RoundEnd(w, i)
        /\ Open(v) = Open(w) \cup (IF m.calls = << >> THEN {} ELSE {Len(w) + 1})
        /\ InRounds(w) => InRounds(v)
        /\ \A i \in 1 .. Len(w) : LeaveOut(v, i) = Append(LeaveOut(w, i), m)
    <2>1. IsInjective(m.calls) /\ \A i \in 1 .. Len(w) : ToSet(w[i].calls) \cap ToSet(m.calls) = {}
      BY <1>2, <1>3
    <2>2. QED BY <1>2, <1>4, <2>1, OtherMessage
  <1>6. Open(v) = Open(w)
    BY <1>2, <1>5
  <1>7. Len(v) = Len(w) + 1 /\ v \in Seq(Message) /\ Len(w) \in Nat
    BY <1>2, AppendIs
  <1>8. \A i \in Open(w) : i \in 1 .. Len(w) /\ RoundEnd(w, i) \in Int /\ RoundEnd(w, i) <= Len(w)
    <2> SUFFICES ASSUME NEW i \in Open(w)
                 PROVE  i \in 1 .. Len(w) /\ RoundEnd(w, i) \in Int /\ RoundEnd(w, i) <= Len(w)
      OBVIOUS
    <2>1. i \in 1 .. Len(w)
      BY OpenIs
    <2>2. RoundEnd(w, i) \in i .. Len(w)
      BY <2>1, RoundEndIs
    <2>3. QED BY <2>1, <2>2
  <1> HIDE DEF v
  <1>9. StoryRound(qh, v, << >>, << >>)
    BY DEF StoryRound
  <1>10. StoryMemory(qh, v, ns, qn, dg)
    <2>1. CASE ms = w /\ (dg = 0 => Open(w) = {})
      <3>1. ns = v
        BY <2>1 DEF v
      <3>2. QED BY <1>6, <2>1, <3>1 DEF StoryMemory
    <2>2. CASE \E i \in Open(w) : (\A k \in Open(w) : i <= k) /\ ms = LeaveOut(w, i)
      <3>1. PICK i \in Open(w) : (\A k \in Open(w) : i <= k) /\ ms = LeaveOut(w, i)
        BY <2>2
      <3>2. ns = LeaveOut(v, i) /\ RoundEnd(v, i) = RoundEnd(w, i)
        BY <1>5, <1>8, <3>1
      <3>3. RoundEnd(v, i) < Len(v)
        BY <1>7, <1>8, <3>2
      <3> HIDE DEF ns
      <3>4. QED BY <1>6, <3>1, <3>2, <3>3 DEF StoryMemory
    <2>3. QED BY <1>1, <2>1, <2>2
  <1>11. StoryTold(qh, ns, << >>, dg)
    <2> SUFFICES ASSUME dg = 0, NEW i \in DOMAIN ns
                 PROVE  ToSet(ns[i].calls) \subseteq Told(ns) \cup ToSet(<< >>)
      BY DEF StoryTold
    <2>1. \A j \in DOMAIN ms : ToSet(ms[j].calls) \subseteq Told(ms) \cup ToSet(<< >>)
      BY DEF Story, StoryTold
    <2>2. Told(ns) = Told(ms) \cup {m.call}
      BY <1>2, PlainTold
    <2>3. /\ DOMAIN ns = DOMAIN ms \cup {Len(ms) + 1}
          /\ \A q \in DOMAIN ms : ns[q] = ms[q]
          /\ ns[Len(ms) + 1] = m
      BY <1>2, AppendIs
    <2> HIDE DEF ns
    <2>4. CASE i \in DOMAIN ms
      BY <2>1, <2>2, <2>3, <2>4
    <2>5. CASE i = Len(ms) + 1
      BY <1>2, <1>3, <2>3, <2>5
    <2>6. QED BY <2>3, <2>4, <2>5
  <1>12. StoryOpen(qh, v, tw)
    <2>1. ~tw => InRounds(v)
      BY <1>5 DEF Story, StoryOpen, OneHole
    <2>2. ~tw => \A i, k \in Open(v) : ~(i < k)
      BY <1>1, <1>6
    <2>3. QED BY <2>1, <2>2 DEF StoryOpen, OneHole
  <1>13. QED BY <1>5, <1>9, <1>10, <1>11, <1>12 DEF Story, v

(* A reply with tool calls opens a round. *)
LEMMA StoryCalls ==
  ASSUME NEW w \in Seq(Message), NEW ms \in Seq(Message), NEW pn, NEW bt, NEW dg, NEW tw,
         NEW ph, ph # "down", NEW qn, NEW cs \in Batches,
         \A i \in 1 .. Len(w) : ToSet(w[i].calls) \cap ToSet(cs) = {},
         Story(ph, w, ms, pn, << >>, bt, dg, tw)
  PROVE  /\ Story("calls", Append(w, ToolCalls(cs)), Append(ms, ToolCalls(cs)), qn, cs, << >>, dg, tw)
         /\ ToolCalls(cs) \in Message /\ cs \in Seq(Call)
  <1> DEFINE m == ToolCalls(cs)
             v == Append(w, m)
             ns == Append(ms, m)
             k == Len(w) + 1
  <1>1. /\ ~tw => \A i, j \in Open(w) : ~(i < j)
        /\ \/ ms = w /\ (dg = 0 => Open(w) = {})
           \/ \E i \in Open(w) : (\A j \in Open(w) : i <= j) /\ ms = LeaveOut(w, i)
    <2>1. /\ ~tw => \A i, j \in Open(w) : ~(i < j)
          /\ \/ ms = w /\ (dg = 0 => Open(w) = {})
             \/ \E i \in Open(w) :
                  /\ \A j \in Open(w) : i <= j
                  /\ ms = LeaveOut(w, i)
                  /\ ph # "idle" \/ pn # NoMessages => RoundEnd(w, i) < Len(w)
      BY AllClosed
    <2>2. QED BY <2>1
  <1>2. cs \in SeqOf(Call, MaxReply) /\ cs # << >> /\ IsInjective(cs)
    BY DEF Batches
  <1>3. cs \in Seq(Call) /\ m \in Message /\ m.role # "tool" /\ m.calls = cs
    <2>1. m \in Message
      BY <1>2 DEF Message
    <2>2. m.calls = cs /\ m.role # "tool"
      BY DEF ToolCalls
    <2>3. cs \in Seq(Call)
      BY <2>1, <2>2, MessageIs
    <2>4. QED BY <2>1, <2>2, <2>3
  <1>4. Tidy(w)
    BY DEF Story
  <1> HIDE DEF m
  <1>5. /\ Tidy(v)
        /\ \A i \in 1 .. Len(w) : RoundEnd(v, i) = RoundEnd(w, i)
        /\ Open(v) = Open(w) \cup (IF m.calls = << >> THEN {} ELSE {Len(w) + 1})
        /\ InRounds(w) => InRounds(v)
        /\ \A i \in 1 .. Len(w) : LeaveOut(v, i) = Append(LeaveOut(w, i), m)
    <2>1. IsInjective(m.calls) /\ \A i \in 1 .. Len(w) : ToSet(w[i].calls) \cap ToSet(m.calls) = {}
      BY <1>2, <1>3
    <2>2. QED BY <1>3, <1>4, <2>1, OtherMessage
  <1>6. Open(v) = Open(w) \cup {k}
    BY <1>2, <1>3, <1>5
  <1>7. Len(v) = k /\ v \in Seq(Message) /\ Len(w) \in Nat /\ v[k] = m /\ DOMAIN v = 1 .. k
    <2>1. m \in Message
      BY <1>3
    <2>2. Len(v) = k /\ v \in Seq(Message) /\ Len(w) \in Nat /\ v[k] = m
      BY <2>1, AppendIs
    <2>3. DOMAIN v = 1 .. Len(v)
      BY <2>2
    <2>4. QED BY <2>2, <2>3
  <1>8. \A i \in Open(w) : i \in 1 .. Len(w) /\ i \in Int /\ i < k /\ RoundEnd(w, i) \in Int /\ RoundEnd(w, i) <= Len(w)
    <2> SUFFICES ASSUME NEW i \in Open(w)
                 PROVE  i \in 1 .. Len(w) /\ i \in Int /\ i < k /\ RoundEnd(w, i) \in Int /\ RoundEnd(w, i) <= Len(w)
      OBVIOUS
    <2>1. i \in 1 .. Len(w)
      BY OpenIs
    <2>2. RoundEnd(w, i) \in i .. Len(w)
      BY <2>1, RoundEndIs
    <2>3. QED BY <2>1, <2>2
  <1> HIDE DEF v
  <1>9. RoundEnd(v, k) = Len(v) /\ k \in 1 .. Len(v)
    <2>1. k \in 1 .. Len(v) /\ v \in Seq(Message)
      BY <1>7
    <2>2. RoundEnd(v, k) \in k .. Len(v)
      BY <2>1, RoundEndIs
    <2>3. QED BY <1>7, <2>1, <2>2
  <1>10. StoryRound("calls", v, cs, << >>)
    <2>1. RoundAt(v, k, cs)
      <3>1. Len(v) - k = 0 /\ SubSeq(cs, 1, Len(cs)) = cs
        BY <1>3, <1>7
      <3>2. 0 <= Len(cs)
        BY <1>3
      <3>3. QED BY <1>2, <1>3, <1>7, <3>1, <3>2 DEF RoundAt
    <2>2. QED BY <1>7, <1>9, <2>1 DEF StoryRound, Busy
  <1>11. StoryMemory("calls", v, ns, qn, dg)
    <2>1. CASE ms = w /\ (dg = 0 => Open(w) = {})
      <3>1. ns = v
        BY <2>1 DEF v
      <3>2. dg = 0 => \A j \in Open(v) : Busy("calls") /\ RoundEnd(v, j) = Len(v)
        BY <1>6, <1>9, <2>1 DEF Busy
      <3>3. QED BY <3>1, <3>2 DEF StoryMemory
    <2>2. CASE \E i \in Open(w) : (\A j \in Open(w) : i <= j) /\ ms = LeaveOut(w, i)
      <3>1. PICK i \in Open(w) : (\A j \in Open(w) : i <= j) /\ ms = LeaveOut(w, i)
        BY <2>2
      <3>2. ns = LeaveOut(v, i) /\ RoundEnd(v, i) = RoundEnd(w, i)
        BY <1>5, <1>8, <3>1
      <3>3. RoundEnd(v, i) < Len(v)
        BY <1>7, <1>8, <3>2
      <3>4. i \in Open(v) /\ \A j \in Open(v) : i <= j
        <4>1. i <= k
          BY <1>7, <1>8
        <4>2. QED BY <1>6, <3>1, <4>1
      <3> HIDE DEF ns, k
      <3>5. QED BY <3>2, <3>3, <3>4 DEF StoryMemory
    <2>3. QED BY <1>1, <2>1, <2>2
  <1>12. StoryTold("calls", ns, cs, dg)
    <2> SUFFICES ASSUME dg = 0, NEW i \in DOMAIN ns
                 PROVE  ToSet(ns[i].calls) \subseteq Told(ns) \cup ToSet(cs)
      BY DEF StoryTold
    <2>1. \A j \in DOMAIN ms : ToSet(ms[j].calls) \subseteq Told(ms)
      <3>1. ToSet(<< >>) = {}
        BY DEF ToSet
      <3>2. QED BY <3>1 DEF Story, StoryTold
    <2>2. Told(ns) = Told(ms) \cup {m.call}
      BY <1>3, PlainTold
    <2>3. /\ DOMAIN ns = DOMAIN ms \cup {Len(ms) + 1}
          /\ \A q \in DOMAIN ms : ns[q] = ms[q]
          /\ ns[Len(ms) + 1] = m
      BY <1>3, AppendIs
    <2> HIDE DEF ns
    <2>4. CASE i \in DOMAIN ms
      BY <2>1, <2>2, <2>3, <2>4
    <2>5. CASE i = Len(ms) + 1
      BY <1>3, <2>3, <2>5
    <2>6. QED BY <2>3, <2>4, <2>5
  <1>13. StoryOpen("calls", v, tw)
    <2>1. ~tw => InRounds(v)
      BY <1>5 DEF Story, StoryOpen, OneHole
    <2>2. ASSUME ~tw, NEW i \in Open(v), NEW j \in Open(v), i < j PROVE RoundEnd(v, j) = Len(v)
      <3>1. j \in Open(w) => i # k /\ i \in Open(w)
        BY <1>6, <1>7, <1>8, <2>2
      <3>2. j \notin Open(w)
        BY <1>1, <2>2, <3>1
      <3>3. j = k
        BY <1>6, <3>2
      <3>4. QED BY <1>9, <3>3
    <2>3. QED BY <2>1, <2>2 DEF StoryOpen, OneHole, Busy
  <1>14. QED BY <1>3, <1>5, <1>10, <1>11, <1>12, <1>13 DEF Story, v, m

(* What more messages tell, and where a message of the longer list         *)
(* comes from.                                                             *)
LEMMA ToldConcat ==
  ASSUME NEW ms \in Seq(Message), NEW add \in Seq(Message)
  PROVE  /\ Told(ms \o add) = Told(ms) \cup Told(add)
         /\ \A p \in 1 .. Len(ms \o add) :
              \/ p \in 1 .. Len(ms) /\ (ms \o add)[p] = ms[p]
              \/ \E q \in 1 .. Len(add) : (ms \o add)[p] = add[q]
  <1> DEFINE u == ms \o add
  <1>1. /\ u \in Seq(Message) /\ Len(u) = Len(ms) + Len(add)
        /\ Len(ms) \in Nat /\ Len(add) \in Nat
        /\ \A i \in 1 .. Len(ms) : u[i] = ms[i]
        /\ \A i \in 1 .. Len(add) : u[Len(ms) + i] = add[i]
    BY ConcatIs
  <1>2. DOMAIN u = 1 .. Len(u) /\ DOMAIN ms = 1 .. Len(ms) /\ DOMAIN add = 1 .. Len(add)
    BY <1>1
  <1> HIDE DEF u
  <1>3. ASSUME NEW p \in 1 .. Len(u)
        PROVE  \/ p \in 1 .. Len(ms) /\ u[p] = ms[p]
               \/ \E q \in 1 .. Len(add) : u[p] = add[q]
    <2>1. CASE p <= Len(ms)
      <3>1. p \in 1 .. Len(ms)
        BY <1>1, <2>1
      <3>2. QED BY <1>1, <3>1
    <2>2. CASE p > Len(ms)
      <3>1. p - Len(ms) \in 1 .. Len(add) /\ Len(ms) + (p - Len(ms)) = p
        BY <1>1, <2>2
      <3>2. u[p] = add[p - Len(ms)]
        BY <1>1, <3>1
      <3>3. QED BY <3>1, <3>2
    <2>3. QED BY <1>1, <2>1, <2>2
  <1>4. Told(ms) \subseteq Told(u)
    <2> SUFFICES ASSUME NEW i \in 1 .. Len(ms) PROVE ms[i].call \in Told(u)
      BY <1>2 DEF Told
    <2>1. i \in 1 .. Len(u)
      BY <1>1
    <2>2. QED BY <1>1, <1>2, <2>1 DEF Told
  <1>5. Told(add) \subseteq Told(u)
    <2> SUFFICES ASSUME NEW i \in 1 .. Len(add) PROVE add[i].call \in Told(u)
      BY <1>2 DEF Told
    <2>1. Len(ms) + i \in 1 .. Len(u)
      BY <1>1
    <2>2. QED BY <1>1, <1>2, <2>1 DEF Told
  <1>6. Told(u) \subseteq Told(ms) \cup Told(add)
    <2> SUFFICES ASSUME NEW i \in 1 .. Len(u) PROVE u[i].call \in Told(ms) \cup Told(add)
      BY <1>2 DEF Told
    <2>1. QED BY <1>2, <1>3 DEF Told
  <1>7. QED BY <1>3, <1>4, <1>5, <1>6 DEF u

(* The next calls of the round get their results. *)
LEMMA StoryAnswer ==
  ASSUME NEW w \in Seq(Message), NEW ms \in Seq(Message), NEW pn, NEW td, NEW bt, NEW dg, NEW tw,
         NEW ph, Busy(ph), NEW qn, NEW n \in 0 .. Len(td),
         Story(ph, w, ms, pn, td, bt, dg, tw)
  PROVE  LET rs == [i \in 1 .. n |-> Result(td[i])] IN
         /\ rs \in Seq(Message)
         /\ Story("calls", w \o rs, ms \o rs, qn, SubSeq(td, n + 1, Len(td)), << >>, dg, tw)
  <1> DEFINE rs == [i \in 1 .. n |-> Result(td[i])]
             rest == SubSeq(td, n + 1, Len(td))
             v == w \o rs
             ns == ms \o rs
  <1>1. Tidy(w) /\ StoryRound(ph, w, td, bt) /\ ph # "down" /\ ph # "idle"
    BY DEF Story, Busy
  <1>2. PICK k \in 1 .. Len(w) :
           /\ RoundAt(w, k, td) /\ td \in Seq(Call) /\ RoundEnd(w, k) = Len(w)
           /\ \A j \in Open(w) : RoundEnd(w, j) = Len(w) => j = k
    BY <1>1, OpenAtEnd
  <1>3. /\ rs \in Seq(Message) /\ Tidy(v)
        /\ RoundAt(v, k, rest)
        /\ \A i \in 1 .. Len(w) : i # k /\ ToSet(w[i].calls) # {} => RoundEnd(v, i) = RoundEnd(w, i)
        /\ Open(v) = IF n = Len(td) THEN Open(w) \ {k} ELSE Open(w)
        /\ InRounds(w) => InRounds(v)
    BY <1>1, <1>2, AnswerRound
  <1>4. /\ Len(rs) = n /\ Len(td) \in Nat /\ n \in Nat
        /\ \A i \in 1 .. n : td[i] \in Call /\ rs[i] = Result(td[i]) /\ rs[i].call = td[i] /\ rs[i].calls = << >>
    <2>1. Len(td) \in Nat /\ n \in Nat
      BY <1>2
    <2>2. Len(rs) = n
      BY <1>3, <2>1
    <2>3. ASSUME NEW i \in 1 .. n
          PROVE  td[i] \in Call /\ rs[i] = Result(td[i]) /\ rs[i].call = td[i] /\ rs[i].calls = << >>
      <3>1. td[i] \in Call
        BY <1>2, <2>1
      <3>2. QED BY <3>1, ResultIs
    <2>4. QED BY <2>1, <2>2, <2>3
  <1> HIDE DEF rs
  <1>5. /\ v \in Seq(Message) /\ Len(v) = Len(w) + n /\ Len(w) \in Nat
        /\ ns \in Seq(Message)
    BY <1>3, <1>4, ConcatIs
  <1>6. \A i \in Open(w) : /\ i \in 1 .. Len(w) /\ ToSet(w[i].calls) # {}
                           /\ RoundEnd(w, i) \in Int /\ RoundEnd(w, i) <= Len(w)
    <2> SUFFICES ASSUME NEW i \in Open(w)
                 PROVE  /\ i \in 1 .. Len(w) /\ ToSet(w[i].calls) # {}
                        /\ RoundEnd(w, i) \in Int /\ RoundEnd(w, i) <= Len(w)
      OBVIOUS
    <2>1. i \in 1 .. Len(w) /\ ToSet(w[i].calls) # {}
      BY OpenIs
    <2>2. RoundEnd(w, i) \in i .. Len(w)
      BY <2>1, RoundEndIs
    <2>3. QED BY <2>1, <2>2
  <1>7. RoundEnd(v, k) = Len(v) /\ k \in 1 .. Len(v) /\ rest \in Seq(Call)
    <2>1. k \in 1 .. Len(v)
      BY <1>4, <1>5
    <2>2. v \in Seq(Message) /\ RoundAt(v, k, rest)
      BY <1>3, <1>5
    <2> HIDE DEF v, rest
    <2>3. QED BY <2>1, <2>2, UnderWay
  <1> HIDE DEF v
  <1>8. StoryRound("calls", v, rest, << >>)
    <2>1. DOMAIN v = 1 .. Len(v)
      BY <1>5
    <2>2. QED BY <1>3, <1>7, <2>1 DEF StoryRound, Busy
  <1>9. StoryMemory("calls", v, ns, qn, dg)
    <2>1. CASE ms = w /\ (dg = 0 => \A j \in Open(w) : Busy(ph) /\ RoundEnd(w, j) = Len(w))
      <3>1. ns = v
        BY <2>1 DEF v
      <3>2. dg = 0 => \A j \in Open(v) : Busy("calls") /\ RoundEnd(v, j) = Len(v)
        <4>1. dg = 0 => \A j \in Open(v) : j = k
          BY <1>2, <1>3, <2>1
        <4>2. QED BY <1>7, <4>1 DEF Busy
      <3>3. QED BY <3>1, <3>2 DEF StoryMemory
    <2>2. CASE \E i \in Open(w) : (\A j \in Open(w) : i <= j) /\ ms = LeaveOut(w, i) /\ RoundEnd(w, i) < Len(w)
      <3>1. PICK i \in Open(w) : (\A j \in Open(w) : i <= j) /\ ms = LeaveOut(w, i) /\ RoundEnd(w, i) < Len(w)
        BY <2>2
      <3>2. i # k
        BY <1>2, <1>5, <3>1
      <3>3. i \in Open(v) /\ \A j \in Open(v) : i <= j
        BY <1>3, <3>1, <3>2
      <3>4. i \in 1 .. Len(w) /\ RoundEnd(v, i) = RoundEnd(w, i)
        BY <1>3, <1>6, <3>2
      <3>5. RoundEnd(v, i) < Len(v)
        BY <1>4, <1>5, <1>6, <3>1, <3>4
      <3>6. ns = LeaveOut(v, i)
        <4>1. rs \in Seq(Message) /\ i \in 1 .. Len(w) /\ RoundEnd(w \o rs, i) = RoundEnd(w, i)
          BY <1>3, <3>4 DEF v
        <4>2. LeaveOut(w \o rs, i) = LeaveOut(w, i) \o rs
          BY <4>1, LeaveOutConcat
        <4>3. QED BY <3>1, <4>2 DEF v
      <3> HIDE DEF ns
      <3>7. QED BY <3>3, <3>5, <3>6 DEF StoryMemory
    <2>3. QED BY <1>1, <2>1, <2>2 DEF Story, StoryMemory
  <1>10. StoryTold("calls", ns, rest, dg)
    <2> SUFFICES ASSUME dg = 0, NEW p \in DOMAIN ns
                 PROVE  ToSet(ns[p].calls) \subseteq Told(ns) \cup ToSet(rest)
      BY DEF StoryTold
    <2>1. \A j \in DOMAIN ms : ToSet(ms[j].calls) \subseteq Told(ms) \cup ToSet(td)
      BY <1>1 DEF Story, StoryTold
    <2>2. /\ Told(ns) = Told(ms) \cup Told(rs)
          /\ \A q \in 1 .. Len(ns) :
              \/ q \in 1 .. Len(ms) /\ ns[q] = ms[q]
              \/ \E x \in 1 .. Len(rs) : ns[q] = rs[x]
      BY <1>3, ToldConcat
    <2>3. p \in 1 .. Len(ns) /\ DOMAIN ms = 1 .. Len(ms) /\ DOMAIN rs = 1 .. n
      BY <1>3, <1>4, <1>5
    <2>4. ToSet(td) \subseteq Told(rs) \cup ToSet(rest)
      <3> SUFFICES ASSUME NEW x \in 1 .. Len(td) PROVE td[x] \in Told(rs) \cup ToSet(rest)
        <4>1. DOMAIN td = 1 .. Len(td)
          BY <1>2
        <4>2. QED BY <4>1 DEF ToSet
      <3>1. CASE x <= n
        <4>1. x \in 1 .. n
          BY <1>4, <3>1
        <4>2. rs[x].call \in Told(rs)
          BY <2>3, <4>1 DEF Told
        <4>3. QED BY <1>4, <4>1, <4>2
      <3>2. CASE x > n
        <4>1. /\ rest \in Seq(Call) /\ Len(rest) = Len(td) - n
              /\ \A i \in 1 .. Len(td) - n : rest[i] = td[n + i]
          BY <1>2, RestIs
        <4>2. x - n \in 1 .. Len(td) - n /\ n + (x - n) = x
          BY <1>4, <3>2
        <4> HIDE DEF rest
        <4>3. rest[x - n] = td[x] /\ x - n \in DOMAIN rest
          <5>1. rest[x - n] = td[n + (x - n)]
            BY <4>1, <4>2
          <5>2. DOMAIN rest = 1 .. Len(td) - n
            BY <4>1
          <5>3. QED BY <4>2, <5>1, <5>2
        <4>4. QED BY <4>3 DEF ToSet
      <3>3. QED BY <1>4, <3>1, <3>2
    <2> HIDE DEF ns, rest
    <2>5. CASE p \in 1 .. Len(ms) /\ ns[p] = ms[p]
      BY <2>1, <2>2, <2>3, <2>4, <2>5
    <2>6. CASE \E x \in 1 .. Len(rs) : ns[p] = rs[x]
      <3>1. ns[p].calls = << >>
        BY <1>4, <2>6
      <3>2. ToSet(<< >>) = {}
        BY DEF ToSet
      <3>3. QED BY <3>1, <3>2
    <2>7. QED BY <2>2, <2>3, <2>5, <2>6
  <1>11. StoryOpen("calls", v, tw)
    <2>1. ~tw => InRounds(v)
      BY <1>3 DEF Story, StoryOpen, OneHole
    <2>2. ASSUME ~tw, NEW i \in Open(v), NEW j \in Open(v), i < j PROVE RoundEnd(v, j) = Len(v)
      <3>1. i \in Open(w) /\ j \in Open(w)
        BY <1>3
      <3>2. RoundEnd(w, j) = Len(w)
        BY <1>1, <2>2, <3>1 DEF Story, StoryOpen
      <3>3. j = k
        BY <1>2, <3>1, <3>2
      <3>4. QED BY <1>7, <3>3
    <2>3. QED BY <2>1, <2>2 DEF StoryOpen, OneHole, Busy
  <1>12. Tidy(v)
    BY <1>3 DEF v
  <1>13. Story("calls", v, ns, qn, rest, << >>, dg, tw)
    BY <1>8, <1>9, <1>10, <1>11, <1>12 DEF Story
  <1>14. QED BY <1>3, <1>13 DEF v, rs

(* A batch is a first part of what is to do, and not empty. *)
LEMMA BatchLenIs ==
  ASSUME NEW cs \in Seq(Call), cs # << >>
  PROVE  BatchLen(cs) \in 1 .. Len(cs)
  <1>1. Len(cs) \in Nat /\ Len(cs) >= 1
    BY EmptySeq
  <1>2. CASE cs[1] \notin Reads
    BY <1>1, <1>2 DEF BatchLen
  <1>3. CASE cs[1] \in Reads
    <2> DEFINE S == {n \in 1 .. Len(cs) : n = Len(cs) \/ cs[n + 1] \notin Reads}
    <2>1. S \in SUBSET Nat /\ S # {}
      <3>1. Len(cs) \in S
        BY <1>1
      <3>2. S \subseteq Nat
        BY <1>1
      <3>3. QED BY <3>1, <3>2
    <2> HIDE DEF S
    <2>2. PICK n \in S : \A x \in S : n <= x
      BY <2>1, LeastOf
    <2>3. n \in 1 .. Len(cs) /\ (n = Len(cs) \/ cs[n + 1] \notin Reads)
      BY <2>2 DEF S
    <2>4. ASSUME NEW i \in 1 .. n PROVE cs[i] \in Reads
      <3>1. CASE i = 1
        BY <1>3, <3>1
      <3>2. CASE i # 1
        <4>1. i - 1 \in 1 .. Len(cs) /\ i - 1 < n /\ (i - 1) + 1 = i /\ i - 1 # Len(cs) /\ n \in Int
          BY <1>1, <2>3, <3>2
        <4>2. i - 1 \notin S
          BY <2>2, <4>1
        <4>3. QED BY <4>1, <4>2 DEF S
      <3>3. QED BY <3>1, <3>2
    <2>5. \E m \in 1 .. Len(cs) : /\ \A i \in 1 .. m : cs[i] \in Reads
                                  /\ m = Len(cs) \/ cs[m + 1] \notin Reads
      BY <2>3, <2>4
    <2>6. BatchLen(cs) = CHOOSE m \in 1 .. Len(cs) : /\ \A i \in 1 .. m : cs[i] \in Reads
                                                     /\ m = Len(cs) \/ cs[m + 1] \notin Reads
      BY <1>3 DEF BatchLen
    <2>7. QED BY <2>5, <2>6
  <1>4. QED BY <1>2, <1>3

(* The next batch starts. *)
LEMMA StoryBatch ==
  ASSUME NEW w \in Seq(Message), NEW ms, NEW pn, NEW td, NEW bt, NEW dg, NEW tw,
         Story("calls", w, ms, pn, td, bt, dg, tw), td # << >>
  PROVE  /\ Story("gather", w, ms, pn, td, SubSeq(td, 1, BatchLen(td)), dg, tw)
         /\ SubSeq(td, 1, BatchLen(td)) \in Seq(Call) /\ ToSet(SubSeq(td, 1, BatchLen(td))) \subseteq ToSet(td)
  <1> DEFINE n == BatchLen(td)
             b == SubSeq(td, 1, n)
  <1>1. Tidy(w) /\ StoryRound("calls", w, td, bt) /\ Busy("calls")
    BY DEF Story, Busy
  <1>2. PICK k \in 1 .. Len(w) : RoundAt(w, k, td) /\ td \in Seq(Call)
    BY <1>1, OpenAtEnd
  <1>3. n \in 1 .. Len(td)
    BY <1>2, BatchLenIs
  <1> HIDE DEF n
  <1>4. StoryRound("gather", w, td, b)
    <2>1. \E x \in 1 .. Len(td) : b = SubSeq(td, 1, x)
      BY <1>3
    <2>2. k \in DOMAIN w
      OBVIOUS
    <2>3. QED BY <1>2, <2>1, <2>2 DEF StoryRound, Busy
  <1>5. Busy("gather") /\ "gather" # "down" /\ "gather" # "idle" /\ "calls" # "down" /\ "calls" # "idle"
    BY DEF Busy
  <1>6. StoryMemory("gather", w, ms, pn, dg) /\ StoryTold("gather", ms, td, dg) /\ StoryOpen("gather", w, tw)
    BY <1>1, <1>5 DEF Story, StoryMemory, StoryTold, StoryOpen
  <1>7. b \in Seq(Call) /\ ToSet(b) \subseteq ToSet(td)
    <2>1. /\ Len(td) \in Nat /\ n \in 0 .. Len(td) /\ 1 \in 1 .. Len(td) + 1
      BY <1>2, <1>3
    <2>2. b \in Seq(Call) /\ Len(b) = n /\ \A i \in 1 .. n : b[i] = td[i]
      BY <1>2, <2>1
    <2>3. DOMAIN b = 1 .. n /\ DOMAIN td = 1 .. Len(td)
      BY <1>2, <2>1, <2>2
    <2>4. ASSUME NEW i \in 1 .. n PROVE b[i] \in ToSet(td)
      <3>1. i \in 1 .. Len(td)
        BY <2>1
      <3>2. QED BY <2>2, <2>3, <3>1 DEF ToSet
    <2> HIDE DEF b
    <2>5. QED BY <2>2, <2>3, <2>4 DEF ToSet
  <1>8. QED BY <1>1, <1>4, <1>6, <1>7 DEF Story, n

(* An exception ends the run and leaves its round open. *)
LEMMA StoryRaise ==
  ASSUME NEW w \in Seq(Message), NEW ms, NEW pn, NEW td, NEW bt, NEW dg, NEW tw, NEW ph, Busy(ph),
         Story(ph, w, ms, pn, td, bt, dg, tw),
         NEW eg, eg # 0, NEW uw, uw = (tw \/ \E i, j \in Open(w) : i # j)
  PROVE  Story("ending", w, ms, pn, << >>, << >>, eg, uw)
  <1>1. ~Busy("ending") /\ "ending" # "down" /\ ph # "down" /\ ph # "idle"
    BY DEF Busy
  <1>2. StoryRound("ending", w, << >>, << >>)
    BY <1>1 DEF StoryRound
  <1>3. StoryMemory("ending", w, ms, pn, eg)
    BY <1>1 DEF Story, StoryMemory
  <1>4. StoryTold("ending", ms, << >>, eg)
    BY DEF StoryTold
  <1>5. StoryOpen("ending", w, uw)
    <2> SUFFICES ASSUME ~uw PROVE OneHole(w) /\ \A i, k \in Open(w) : ~(i < k)
      BY DEF StoryOpen
    <2>1. ~tw /\ \A i, j \in Open(w) : i = j
      OBVIOUS
    <2>2. OneHole(w)
      BY <2>1 DEF Story, StoryOpen
    <2>3. \A i \in Open(w) : i \in 1 .. Len(w)
      BY OpenIs
    <2>4. \A i \in Open(w) : ~(i < i)
      BY <2>3
    <2>5. QED BY <2>1, <2>2, <2>4
  <1>6. QED BY <1>2, <1>3, <1>4, <1>5 DEF Story

(* The process dies, and with it what is not written yet. *)
LEMMA StoryCrash ==
  ASSUME NEW w \in Seq(Message), NEW more \in Seq(Message), NEW ms, NEW pn, NEW td, NEW bt, NEW dg, NEW tw,
         NEW ph, Story(ph, w \o more, ms, pn, td, bt, dg, tw)
  PROVE  Story("down", w, << >>, NoMessages, << >>, << >>, 0, tw)
  <1>1. Tidy(w \o more) /\ (~tw => OneHole(w \o more))
    BY DEF Story, StoryOpen
  <1>2. Tidy(w) /\ (~tw => OneHole(w))
    BY <1>1, Started
  <1>3. QED BY <1>2 DEF Story, StoryRound, StoryMemory, StoryTold, StoryOpen, Busy

(* The session starts again from what is written. *)
LEMMA StoryRestart ==
  ASSUME NEW w \in Seq(Message), NEW ms, NEW td, NEW bt, NEW dg, NEW tw,
         Story("down", w, ms, NoMessages, td, bt, dg, tw)
  PROVE  /\ Repairs(DropIncompleteRound(w)) \in Seq(Message) /\ Recover(w) \in Seq(Message)
         /\ Story("idle", w \o Repairs(DropIncompleteRound(w)), Recover(w), NoMessages, td, bt, dg, tw)
  <1> DEFINE add == Repairs(DropIncompleteRound(w))
             all == w \o add
  <1>1. Tidy(w)
    BY DEF Story
  <1>2. /\ add \in Seq(Message) /\ \A x \in 1 .. Len(add) : add[x].role = "tool" /\ add[x].calls = << >>
        /\ Recover(w) \in Seq(Message)
        /\ Tidy(all) /\ Open(all) \subseteq Open(w)
        /\ \/ Open(w) = {} /\ add = << >> /\ all = w /\ Recover(w) = w
           \/ \E i \in Open(w) :
                /\ \A j \in Open(w) : i <= j
                /\ DropIncompleteRound(w) = LeaveOut(w, i)
                /\ i \in Open(all) /\ Recover(w) = LeaveOut(all, i)
        /\ OneHole(w) => InRounds(all) /\ \A i, k \in Open(all) : i = k
        /\ \A p \in 1 .. Len(Recover(w)) : ToSet(Recover(w)[p].calls) \subseteq Told(Recover(w))
    BY <1>1, Restarted
  <1>3. all \in Seq(Message)
    BY <1>2, ConcatIs
  <1>4. \A i \in Open(all) : ~(i < i)
    <2>1. \A i \in Open(all) : i \in 1 .. Len(all)
      BY <1>3, OpenIs
    <2>2. QED BY <2>1
  <1> DEFINE rs == Recover(w)
  <1> HIDE DEF add, all, rs
  <1>5. StoryRound("idle", all, td, bt)
    BY DEF Story, StoryRound, Busy
  <1>6. StoryMemory("idle", all, rs, NoMessages, dg)
    BY <1>2 DEF StoryMemory, rs
  <1>7. StoryTold("idle", rs, td, dg)
    <2>1. DOMAIN rs = 1 .. Len(rs)
      BY <1>2 DEF rs
    <2>2. QED BY <1>2, <2>1 DEF StoryTold, rs
  <1>8. StoryOpen("idle", all, tw)
    BY <1>2, <1>4 DEF Story, StoryOpen, OneHole
  <1>9. Tidy(all)
    BY <1>2
  <1>10. Story("idle", all, rs, NoMessages, td, bt, dg, tw)
    BY <1>5, <1>6, <1>7, <1>8, <1>9 DEF Story
  <1>11. QED BY <1>2, <1>10 DEF add, all, rs

(* When a run without exceptions ends, a restart has nothing to repair. *)
LEMMA StoryEnds ==
  ASSUME NEW w \in Seq(Message), NEW ms \in Seq(Message), NEW pn, NEW bt, NEW tw, NEW ph, ph # "down",
         Story(ph, w, ms, pn, << >>, bt, 0, tw)
  PROVE  Repairs(DropIncompleteRound(w)) = << >>
  <1>1. Tidy(w) /\ StoryTold(ph, ms, << >>, 0)
    BY DEF Story
  <1>2. \/ ms = w /\ Open(w) = {}
        \/ \E i \in Open(w) :
             /\ \A k \in Open(w) : i <= k
             /\ ms = LeaveOut(w, i)
    <2>1. \/ ms = w /\ (0 = 0 => Open(w) = {})
          \/ \E i \in Open(w) :
               /\ \A k \in Open(w) : i <= k
               /\ ms = LeaveOut(w, i)
               /\ ph # "idle" \/ pn # NoMessages => RoundEnd(w, i) < Len(w)
      BY AllClosed
    <2>2. QED BY <2>1
  <1>3. CASE ms = w /\ Open(w) = {}
    BY <1>1, <1>3, NoRepairs DEF Tidy
  <1>4. CASE \E i \in Open(w) : (\A k \in Open(w) : i <= k) /\ ms = LeaveOut(w, i)
    <2>1. PICK i \in Open(w) : (\A k \in Open(w) : i <= k) /\ ms = LeaveOut(w, i)
      BY <1>4
    <2>2. PICK h \in Open(w) : (\A j \in Open(w) : h <= j) /\ DropIncompleteRound(w) = LeaveOut(w, h)
      <3>1. Open(w) # {}
        BY <2>1
      <3>2. QED BY <3>1, FirstOpen
    <2>3. i \in 1 .. Len(w) /\ h \in 1 .. Len(w) /\ ToSet(w[i].calls) # {}
      BY OpenIs
    <2>4. i <= h /\ h <= i
      BY <2>1, <2>2
    <2>5. i = h
      BY <2>3, <2>4
    <2>6. DropIncompleteRound(w) = ms
      BY <2>1, <2>2, <2>5
    <2>7. w[i].role # "tool"
      BY <2>3, CallsOf
    <2>8. AskedOnce(ms)
      <3>1. AskedOnce(w) /\ AnsweredOnce(w)
        BY <1>1 DEF Tidy
      <3>2. QED BY <2>1, <2>3, <2>7, <3>1, LeaveOutOnce
    <2>9. PICK cs \in Seq(Call) :
             /\ Repairs(ms) = [x \in DOMAIN cs |-> Result(cs[x])]
             /\ \A c : c \in ToSet(cs) <=> /\ c \notin Told(ms)
                                           /\ \E p \in 1 .. Len(ms) : c \in ToSet(ms[p].calls)
      BY <2>8, RepairsAre
    <2>10. ToSet(cs) = {}
      <3>1. ToSet(<< >>) = {} /\ DOMAIN ms = 1 .. Len(ms)
        BY DEF ToSet
      <3>2. \A p \in 1 .. Len(ms) : ToSet(ms[p].calls) \subseteq Told(ms)
        BY <1>1, <3>1 DEF StoryTold
      <3>3. QED BY <2>9, <3>2
    <2>11. cs = << >>
      BY <2>10, ToSetIs
    <2>12. QED BY <2>6, <2>9, <2>11
  <1>5. QED BY <1>2, <1>3, <1>4

-----------------------------------------------------------------------------
(* The same of the state.                                                  *)

(* Call ids that are written are asked. *)
Asks(w, ids) == \A i \in DOMAIN w : ToSet(w[i].calls) \subseteq ids

StoryNow == Story(phase, Written, messages, pending, todo, batch, dangling, twice)

(* Call ids stay asked when there are more messages.                       *)
LEMMA AsksMore ==
  ASSUME NEW w \in Seq(Message), NEW add \in Seq(Message), NEW a, NEW b, a \subseteq b
  PROVE  Asks(w, a) /\ Asks(add, b) => Asks(w \o add, b)
  <1>1. /\ \A p \in 1 .. Len(w \o add) :
              \/ p \in 1 .. Len(w) /\ (w \o add)[p] = w[p]
              \/ \E q \in 1 .. Len(add) : (w \o add)[p] = add[q]
    BY ToldConcat
  <1>2. w \o add \in Seq(Message)
    BY ConcatIs
  <1> DEFINE u == w \o add
  <1> HIDE DEF u
  <1>3. DOMAIN u = 1 .. Len(u) /\ DOMAIN w = 1 .. Len(w) /\ DOMAIN add = 1 .. Len(add)
    BY <1>2 DEF u
  <1>4. QED BY <1>1, <1>3 DEF Asks, u

(* What is written is a list of messages, the journal if no event is       *)
(* under way.                                                              *)
LEMMA WrittenIs ==
  ASSUME SessionTypeOK
  PROVE  /\ Written \in Seq(Message) /\ Messages(events) \in Seq(Message)
         /\ journal \in Seq(Message) /\ messages \in Seq(Message)
         /\ events = << >> => Written = journal
  <1>1. events \in Seq(Event) /\ journal \in Seq(Message) /\ messages \in Seq(Message)
    BY DEF SessionTypeOK
  <1>2. Messages(events) \in Seq(Message)
    BY <1>1, SaidSeq
  <1>3. Written \in Seq(Message)
    BY <1>1, <1>2, ConcatIs DEF Written
  <1>4. events = << >> => Written = journal
    <2>1. SUFFICES ASSUME events = << >> PROVE Written = journal
      OBVIOUS
    <2>2. Messages(events) = << >>
      BY <2>1, MessagesEmpty
    <2>3. journal \o << >> = journal
      BY <1>1
    <2>4. QED BY <2>2, <2>3 DEF Written
  <1>5. QED BY <1>1, <1>2, <1>3, <1>4

(* The invariant by its parts: those of values, and those of the run. *)
LEMMA InvParts ==
  ASSUME SessionInv
  PROVE  /\ SessionTypeOK /\ StoryNow /\ Asks(Written, asked)
         /\ ActiveUnanswered /\ RepairsUnderWay /\ EventsInOrder /\ RunIsLive /\ RequestKept
  <1>1. Tidy(Written) /\ Asks(Written, asked)
    BY DEF SessionInv, Tidy, CallsAsked, Asks
  <1>2. StoryRound(phase, Written, todo, batch)
    BY DEF SessionInv, RoundUnderWay, StoryRound, InRound, Busy
  <1>3. StoryMemory(phase, Written, messages, pending, dangling)
    BY DEF SessionInv, MemoryIsWritten, StoryMemory, InRound, Busy
  <1>4. StoryTold(phase, messages, todo, dangling)
    BY DEF SessionInv, NothingUntold, StoryTold
  <1>5. StoryOpen(phase, Written, twice)
    BY DEF SessionInv, OneOpen, StoryOpen, InRound, Busy
  <1>6. StoryNow
    BY <1>1, <1>2, <1>3, <1>4, <1>5 DEF StoryNow, Story
  <1>7. QED BY <1>1, <1>6 DEF SessionInv

(* And back.                                                               *)
LEMMA InvOfParts ==
  ASSUME SessionTypeOK, StoryNow, Asks(Written, asked), ActiveUnanswered, RepairsUnderWay,
         EventsInOrder, RunIsLive, RequestKept
  PROVE  SessionInv
  <1>1. /\ AskedOnce(Written) /\ AnsweredOnce(Written) /\ Follows(Written) /\ CallsAsked
    BY DEF StoryNow, Story, Tidy, CallsAsked, Asks
  <1>2. RoundUnderWay
    BY DEF StoryNow, Story, RoundUnderWay, StoryRound, InRound, Busy
  <1>3. MemoryIsWritten
    BY DEF StoryNow, Story, MemoryIsWritten, StoryMemory, InRound, Busy
  <1>4. NothingUntold
    BY DEF StoryNow, Story, NothingUntold, StoryTold
  <1>5. OneOpen
    BY DEF StoryNow, Story, OneOpen, StoryOpen, InRound, Busy
  <1>6. RetrySendsCurrent
    BY DEF RequestKept, MayResend, RetrySendsCurrent, Retriable
  <1>7. OneResultPerCall
    <2>1. journal \in Seq(Message) /\ Messages(events) \in Seq(Message)
      BY WrittenIs
    <2>2. Tidy(journal \o Messages(events))
      BY DEF StoryNow, Story, Written
    <2>3. Tidy(journal)
      BY <2>1, <2>2, Started
    <2>4. QED BY <2>3 DEF Tidy, OneResultPerCall
  <1>8. QED BY <1>1, <1>2, <1>3, <1>4, <1>5, <1>6, <1>7 DEF SessionInv

(* The same of the next state. *)
LEMMA NextInv ==
  ASSUME SessionTypeOK', 
         NEW w, w = journal' \o Messages(events'),
         Story(phase', w, messages', pending', todo', batch', dangling', twice'),
         Asks(w, asked'), ActiveUnanswered', RepairsUnderWay',
         EventsInOrder', RunIsLive', RequestKept'
  PROVE  SessionInv'
  <1>1. Written' = w
    BY DEF Written
  <1>2. StoryNow'
    BY <1>1 DEF StoryNow
  <1>3. Asks(Written, asked)'
    BY <1>1
  <1>4. QED BY <1>2, <1>3, InvOfParts, PTL

(* Events in their order, of values. *)
Orderly(es, ph, bt, a) ==
  /\ ph = "down" => es = << >>
  /\ \A k \in DOMAIN es :
       /\ es[k].type = "run_finished" => ph = "ending" /\ k = Len(es)
       /\ ph = "gather" <=> es[k].type = "tool_started"
       /\ es[k].type = "tool_started" => es[k].about \in ToSet(bt)
       /\ es[k].type = "message" /\ es[k].about.role = "tool" /\ a # NoCall => es[1].type = "tool_finished"

(* Events that neither start a call nor end the run. *)
Quiet(es) ==
  \A k \in DOMAIN es :
    /\ es[k].type \in {"message", "tool_finished", "turn_started"}
    /\ es[k].type = "message" /\ es[k].about.role = "tool" => es[1].type = "tool_finished"

AllResultEvs(cs) == FlattenSeq([i \in DOMAIN cs |-> ResultEvs(cs[i])])

(* The single events of a run.                                             *)
LEMMA EndIs ==
  /\ EndEv \in Seq(Event) /\ Messages(EndEv) = << >> /\ Len(EndEv) = 1 /\ EndEv[1].type = "run_finished"
  /\ TurnEv \in Seq(Event) /\ Messages(TurnEv) = << >> /\ Quiet(TurnEv)
  /\ Quiet(<< >>) /\ << >> \in Seq(Event)
  <1>1. \A t \in {"turn_started", "run_finished"} :
          [type |-> t, about |-> NoCall] \in Event /\ Said([type |-> t, about |-> NoCall]) = << >>
    BY EventIs
  <1>2. EndEv \in Seq(Event) /\ Messages(EndEv) = << >>
    BY <1>1, MessagesOne DEF EndEv
  <1>3. TurnEv \in Seq(Event) /\ Messages(TurnEv) = << >>
    BY <1>1, MessagesOne DEF TurnEv
  <1>4. Len(EndEv) = 1 /\ EndEv[1].type = "run_finished"
    BY DEF EndEv
  <1>5. Quiet(TurnEv) /\ Quiet(<< >>)
    BY DEF Quiet, TurnEv
  <1>6. QED BY <1>2, <1>3, <1>4, <1>5

(* The event of a message.                                                 *)
LEMMA AddedIs ==
  ASSUME NEW m \in Message
  PROVE  /\ Added(m) \in Seq(Event) /\ Messages(Added(m)) = <<m>> /\ Added(m) # << >>
         /\ m.role # "tool" => Quiet(Added(m))
  <1>1. /\ MessageEv(m) \in Event /\ Said(MessageEv(m)) = <<m>> /\ Added(m) = <<MessageEv(m)>>
        /\ MessageEv(m).type = "message" /\ MessageEv(m).about = m
    BY EventIs
  <1>2. Added(m) \in Seq(Event) /\ Messages(Added(m)) = <<m>>
    BY <1>1, MessagesOne
  <1>3. m.role # "tool" => Quiet(Added(m))
    BY <1>1 DEF Quiet
  <1>4. QED BY <1>1, <1>2, <1>3

(* The events of the results of some calls.                                *)
LEMMA ResultsQuiet ==
  ASSUME NEW cs \in Seq(Call), cs # << >>
  PROVE  /\ AllResultEvs(cs) \in Seq(Event)
         /\ Messages(AllResultEvs(cs)) = [i \in DOMAIN cs |-> Result(cs[i])]
         /\ Quiet(AllResultEvs(cs)) /\ AllResultEvs(cs) # << >> /\ AllResultEvs(cs)[1].type = "tool_finished"
  <1> DEFINE es == FlattenSeq([i \in DOMAIN cs |-> ResultEvs(cs[i])])
  <1>1. /\ es \in Seq(Event)
        /\ Messages(es) = [i \in DOMAIN cs |-> Result(cs[i])]
        /\ \A k \in DOMAIN es : es[k].type \in {"tool_finished", "message"}
        /\ cs # << >> => es # << >> /\ es[1].type = "tool_finished"
    BY MessagesOfResults
  <1> HIDE DEF es
  <1>2. Quiet(es)
    BY <1>1 DEF Quiet
  <1>3. AllResultEvs(cs) = es
    BY DEF AllResultEvs, es
  <1>4. QED BY <1>1, <1>2, <1>3

(* Events without a start or an end after such events.                     *)
LEMMA QuietConcat ==
  ASSUME NEW es \in Seq(Event), NEW fs \in Seq(Event), Quiet(es), Quiet(fs),
         (es # << >> /\ es[1].type = "tool_finished") \/ (\A k \in DOMAIN fs : fs[k].about.role # "tool")
  PROVE  Quiet(es \o fs) /\ es \o fs \in Seq(Event)
  <1> DEFINE u == es \o fs
  <1>1. /\ u \in Seq(Event) /\ Len(u) = Len(es) + Len(fs) /\ Len(es) \in Nat /\ Len(fs) \in Nat
        /\ \A i \in 1 .. Len(es) : u[i] = es[i]
        /\ \A i \in 1 .. Len(fs) : u[Len(es) + i] = fs[i]
    BY ConcatIs
  <1>2. DOMAIN u = 1 .. Len(u) /\ DOMAIN es = 1 .. Len(es) /\ DOMAIN fs = 1 .. Len(fs)
    BY <1>1
  <1> HIDE DEF u
  <1>3. es # << >> => 1 \in 1 .. Len(es) /\ u[1] = es[1]
    <2> SUFFICES ASSUME es # << >> PROVE 1 \in 1 .. Len(es) /\ u[1] = es[1]
      OBVIOUS
    <2>1. Len(es) # 0
      BY EmptySeq
    <2>2. 1 \in 1 .. Len(es)
      BY <1>1, <2>1
    <2>3. QED BY <1>1, <2>2
  <1>4. Quiet(u)
    <2> SUFFICES ASSUME NEW k \in 1 .. Len(u)
                 PROVE  /\ u[k].type \in {"message", "tool_finished", "turn_started"}
                        /\ u[k].type = "message" /\ u[k].about.role = "tool" => u[1].type = "tool_finished"
      BY <1>2 DEF Quiet
    <2>1. CASE k <= Len(es)
      <3>1. k \in 1 .. Len(es) /\ es # << >>
        <4>1. k \in 1 .. Len(es)
          BY <1>1, <2>1
        <4>2. Len(es) # 0
          BY <1>1, <4>1
        <4>3. QED BY <4>1, <4>2, EmptySeq
      <3>2. u[k] = es[k]
        BY <1>1, <3>1
      <3>3. QED BY <1>2, <1>3, <3>1, <3>2 DEF Quiet
    <2>2. CASE k > Len(es)
      <3>1. k - Len(es) \in 1 .. Len(fs) /\ Len(es) + (k - Len(es)) = k
        BY <1>1, <2>2
      <3>2. u[k] = fs[k - Len(es)]
        BY <1>1, <3>1
      <3>3. /\ fs[k - Len(es)].type \in {"message", "tool_finished", "turn_started"}
            /\ \/ fs[k - Len(es)].about.role # "tool"
               \/ es # << >> /\ es[1].type = "tool_finished"
        BY <1>2, <3>1 DEF Quiet
      <3>4. QED BY <1>3, <3>2, <3>3
    <2>3. QED BY <1>1, <2>1, <2>2
  <1>5. QED BY <1>1, <1>4 DEF u

(* They are in order wherever no batch runs, also with the end of the      *)
(* run behind them.                                                        *)
LEMMA QuietOrderly ==
  ASSUME NEW es \in Seq(Event), Quiet(es), NEW bt, NEW a
  PROVE  /\ \A ph : ph \notin {"down", "gather"} => Orderly(es, ph, bt, a)
         /\ Orderly(es \o EndEv, "ending", bt, a) /\ es \o EndEv \in Seq(Event)
         /\ Messages(es \o EndEv) = Messages(es)
  <1>1. \A ph : ph \notin {"down", "gather"} => Orderly(es, ph, bt, a)
    BY DEF Quiet, Orderly
  <1> DEFINE u == es \o EndEv
  <1>2. /\ EndEv \in Seq(Event) /\ Messages(EndEv) = << >> /\ Len(EndEv) = 1 /\ EndEv[1].type = "run_finished"
    BY EndIs
  <1>3. /\ u \in Seq(Event) /\ Len(u) = Len(es) + 1 /\ Len(es) \in Nat
        /\ \A i \in 1 .. Len(es) : u[i] = es[i]
        /\ u[Len(es) + 1] = EndEv[1]
    <2>0. EndEv \in Seq(Event)
      BY <1>2
    <2>1. /\ u \in Seq(Event) /\ Len(u) = Len(es) + Len(EndEv) /\ Len(es) \in Nat /\ Len(EndEv) \in Nat
          /\ \A i \in 1 .. Len(es) : u[i] = es[i]
          /\ \A i \in 1 .. Len(EndEv) : u[Len(es) + i] = EndEv[i]
      BY <2>0, ConcatIs
    <2>2. 1 \in 1 .. Len(EndEv)
      BY <1>2
    <2>3. QED BY <1>2, <2>1, <2>2
  <1>4. Messages(u) = Messages(es)
    <2>1. Messages(u) = Messages(es) \o Messages(EndEv)
      BY <1>2, MessagesConcat
    <2>2. Messages(es) \in Seq(Message)
      BY SaidSeq
    <2>3. Messages(es) \o << >> = Messages(es)
      BY <2>2
    <2>4. QED BY <1>2, <2>1, <2>3
  <1>5. Orderly(u, "ending", bt, a)
    <2> HIDE DEF u
    <2>1. DOMAIN u = 1 .. Len(es) + 1 /\ DOMAIN es = 1 .. Len(es)
      BY <1>3
    <2> SUFFICES ASSUME NEW k \in 1 .. Len(es) + 1
                 PROVE  /\ u[k].type = "run_finished" => k = Len(u)
                        /\ u[k].type # "tool_started"
                        /\ u[k].type = "message" /\ u[k].about.role = "tool" /\ a # NoCall
                             => u[1].type = "tool_finished"
      BY <2>1 DEF Orderly
    <2>2. CASE k = Len(es) + 1
      BY <1>2, <1>3, <2>2
    <2>3. CASE k # Len(es) + 1
      <3>1. k \in 1 .. Len(es) /\ 1 \in 1 .. Len(es)
        BY <1>3, <2>3
      <3>2. u[k] = es[k] /\ u[1] = es[1]
        BY <1>3, <3>1
      <3>3. QED BY <2>1, <3>1, <3>2 DEF Quiet
    <2>4. QED BY <2>2, <2>3
  <1>6. QED BY <1>1, <1>3, <1>4, <1>5 DEF u

(* The next call to be announced is one of the batch. *)
LEMMA StartsOrderly ==
  ASSUME NEW bt \in Seq(Call), NEW a
  PROVE  LET shown == Without(bt, Hidden)
             es == [i \in DOMAIN shown |-> StartedEv(shown[i])]
         IN es \in Seq(Event) /\ Messages(es) = << >> /\ Orderly(es, "gather", bt, a)
  <1> DEFINE shown == Without(bt, Hidden)
             es == [i \in DOMAIN shown |-> StartedEv(shown[i])]
  <1>1. shown \in Seq(Call) /\ ToSet(shown) = ToSet(bt) \ Hidden
    BY WithoutIs
  <1> HIDE DEF shown
  <1>2. es \in Seq(Event) /\ Messages(es) = << >>
    BY <1>1, MessagesOfStarts
  <1>3. \A i \in DOMAIN shown : /\ es[i].type = "tool_started" /\ es[i].about = shown[i]
                                /\ shown[i] \in ToSet(bt)
    <2> SUFFICES ASSUME NEW i \in DOMAIN shown
                 PROVE  es[i].type = "tool_started" /\ es[i].about = shown[i] /\ shown[i] \in ToSet(bt)
      OBVIOUS
    <2>1. shown[i] \in ToSet(shown)
      BY DEF ToSet
    <2>2. QED BY <1>1, <2>1 DEF StartedEv
  <1>4. Orderly(es, "gather", bt, a)
    BY <1>3 DEF Orderly
  <1>5. QED BY <1>2, <1>4 DEF shown

(* The events of a restart are in order.                                   *)
LEMMA RepairsOrderly ==
  ASSUME NEW ms \in Seq(Message), NEW bt
  PROVE  LET es == [i \in DOMAIN ms |-> MessageEv(ms[i])]
         IN es \in Seq(Event) /\ Messages(es) = ms /\ Orderly(es, "idle", bt, NoCall)
  <1> DEFINE es == [i \in DOMAIN ms |-> MessageEv(ms[i])]
  <1>1. es \in Seq(Event) /\ Messages(es) = ms
    BY MessagesOfRepairs
  <1>2. \A i \in DOMAIN ms : es[i].type = "message"
    BY DEF MessageEv
  <1>3. Orderly(es, "idle", bt, NoCall)
    BY <1>2 DEF Orderly
  <1>4. QED BY <1>1, <1>3

(* EventsInOrder of values.                                                *)
LEMMA OrderIs ==
  /\ EventsInOrder <=> Orderly(events, phase, batch, runState.active)
  /\ EventsInOrder' <=> Orderly(events', phase', batch', runState'.active)
  BY DEF EventsInOrder, Orderly

(* Where the generator is suspended, everything is written. *)
LEMMA AtIs ==
  ASSUME SessionInv, events = << >>
  PROVE  /\ journal \in Seq(Message) /\ messages \in Seq(Message)
         /\ Story(phase, journal, messages, pending, todo, batch, dangling, twice)
         /\ Asks(journal, asked)
         /\ ~Busy(phase) => todo = << >> /\ batch = << >>
         /\ phase = "calls" => batch = << >>
  <1>1. SessionTypeOK /\ StoryNow /\ Asks(Written, asked)
    BY InvParts
  <1>2. Written = journal /\ journal \in Seq(Message) /\ messages \in Seq(Message)
    BY <1>1, WrittenIs
  <1>3. Story(phase, journal, messages, pending, todo, batch, dangling, twice)
    BY <1>1, <1>2 DEF StoryNow
  <1>4. StoryRound(phase, journal, todo, batch)
    BY <1>3 DEF Story
  <1>5. /\ ~Busy(phase) => todo = << >> /\ batch = << >>
        /\ phase = "calls" => batch = << >>
    BY <1>4 DEF StoryRound, Busy
  <1>6. QED BY <1>1, <1>2, <1>3, <1>5

(* Messages without calls ask nothing.                                     *)
LEMMA AsksPlain ==
  ASSUME NEW w \in Seq(Message), NEW add \in Seq(Message), NEW a, Asks(w, a),
         \A i \in 1 .. Len(add) : add[i].calls = << >>
  PROVE  Asks(w \o add, a)
  <1>1. Asks(add, a)
    <2>1. ToSet(<< >>) = {} /\ DOMAIN add = 1 .. Len(add)
      BY DEF ToSet
    <2>2. QED BY <2>1 DEF Asks
  <1>2. QED BY <1>1, AsksMore

(* A prompt, a text or a notice at a moment when nothing is to do.         *)
LEMMA Plainly ==
  ASSUME SessionInv, events = << >>, todo = << >>, phase # "down",
         NEW m \in {User, Text}, NEW qh, ~Busy(qh), qh # "idle", NEW qn
  PROVE  /\ Story(qh, journal \o <<m>>, Append(messages, m), qn, << >>, << >>, dangling, twice)
         /\ Asks(journal \o <<m>>, asked)
         /\ Append(messages, m) \in Seq(Message)
         /\ m \in Message /\ m.role # "tool" /\ m.calls = << >>
  <1>1. /\ journal \in Seq(Message) /\ messages \in Seq(Message)
        /\ Story(phase, journal, messages, pending, << >>, batch, dangling, twice)
        /\ Asks(journal, asked)
    BY AtIs
  <1>2. m \in Message /\ m.role # "tool" /\ m.calls = << >>
    BY PlainIs
  <1>3. Story(qh, Append(journal, m), Append(messages, m), qn, << >>, << >>, dangling, twice)
    BY <1>1, StoryPlain
  <1>4. Append(journal, m) = journal \o <<m>> /\ Append(messages, m) \in Seq(Message)
    BY <1>1, <1>2, AppendIs
  <1>5. Asks(journal \o <<m>>, asked)
    <2> DEFINE add == <<m>>
    <2>1. add \in Seq(Message) /\ \A i \in 1 .. Len(add) : add[i].calls = << >>
      BY <1>2
    <2> HIDE DEF add
    <2>2. Asks(journal \o add, asked)
      BY <1>1, <2>1, AsksPlain
    <2>3. QED BY <2>2 DEF add
  <1>6. QED BY <1>2, <1>3, <1>4, <1>5

(* The results of some calls are messages without calls.                   *)
LEMMA ResultsPlain ==
  ASSUME NEW cs \in Seq(Call), NEW n \in 0 .. Len(cs)
  PROVE  LET rs == [i \in 1 .. n |-> Result(cs[i])]
         IN rs \in Seq(Message) /\ Len(rs) = n /\ \A i \in 1 .. n : rs[i].calls = << >>
  <1> DEFINE rs == [i \in 1 .. n |-> Result(cs[i])]
  <1>1. Len(cs) \in Nat /\ n \in Nat
    OBVIOUS
  <1>2. ASSUME NEW i \in 1 .. n PROVE Result(cs[i]) \in Message /\ Result(cs[i]).calls = << >>
    <2>1. cs[i] \in Call
      BY <1>1
    <2>2. QED BY <2>1, ResultIs
  <1>3. rs \in Seq(Message) /\ Len(rs) = n
    BY <1>1, <1>2
  <1>4. \A i \in 1 .. n : rs[i] = Result(cs[i])
    OBVIOUS
  <1> HIDE DEF rs
  <1>5. \A i \in 1 .. n : rs[i].calls = << >>
    BY <1>2, <1>4
  <1>6. QED BY <1>3, <1>5 DEF rs

(* The first n of the calls to do get a result.                            *)
LEMMA Answering ==
  ASSUME SessionInv, events = << >>, Busy(phase), NEW qn, NEW n \in 0 .. Len(todo)
  PROVE  LET rs == [i \in 1 .. n |-> Result(todo[i])] IN
         /\ Story("calls", journal \o rs, messages \o rs, qn,
                  SubSeq(todo, n + 1, Len(todo)), << >>, dangling, twice)
         /\ Asks(journal \o rs, asked)
         /\ messages \o rs \in Seq(Message) /\ journal \o rs \in Seq(Message) /\ rs \in Seq(Message)
  <1> DEFINE rs == [i \in 1 .. n |-> Result(todo[i])]
             w == journal
  <1>1. /\ w \in Seq(Message) /\ messages \in Seq(Message)
        /\ Story(phase, w, messages, pending, todo, batch, dangling, twice)
        /\ Asks(w, asked)
    BY AtIs
  <1>2. /\ rs \in Seq(Message)
        /\ Story("calls", w \o rs, messages \o rs, qn,
                  SubSeq(todo, n + 1, Len(todo)), << >>, dangling, twice)
    BY <1>1, StoryAnswer
  <1>3. todo \in Seq(Call)
    BY InvParts DEF SessionTypeOK
  <1>4. Len(rs) = n /\ \A i \in 1 .. n : rs[i].calls = << >>
    BY <1>3, ResultsPlain
  <1> HIDE DEF rs
  <1>5. Asks(w \o rs, asked)
    BY <1>1, <1>2, <1>4, AsksPlain
  <1>6. messages \o rs \in Seq(Message) /\ w \o rs \in Seq(Message)
    BY <1>1, <1>2, ConcatIs
  <1>7. QED BY <1>2, <1>5, <1>6 DEF rs

(* All the calls to do get a result, and the run ends. *)
LEMMA AnsweringAll ==
  ASSUME SessionInv, events = << >>, Busy(phase), NEW qn
  PROVE  LET rs == [i \in DOMAIN todo |-> Result(todo[i])] IN
         /\ Story("ending", journal \o rs, messages \o rs, qn, << >>, << >>, dangling, twice)
         /\ Story("ending", (journal \o rs) \o <<Text>>, (messages \o rs) \o <<Text>>, qn,
                  << >>, << >>, dangling, twice)
         /\ Asks(journal \o rs, asked) /\ Asks((journal \o rs) \o <<Text>>, asked)
         /\ messages \o rs \in Seq(Message) /\ rs \in Seq(Message)
         /\ (messages \o rs) \o <<Text>> \in Seq(Message)
  <1> DEFINE rs == [i \in DOMAIN todo |-> Result(todo[i])]
             n == Len(todo)
             v == journal \o rs
             ns == messages \o rs
  <1>1. todo \in Seq(Call)
    BY InvParts DEF SessionTypeOK
  <1>2. n \in 0 .. Len(todo) /\ DOMAIN todo = 1 .. n /\ SubSeq(todo, n + 1, Len(todo)) = << >>
    BY <1>1
  <1>3. rs = [i \in 1 .. n |-> Result(todo[i])]
    BY <1>2
  <1>4. LET r == [i \in 1 .. n |-> Result(todo[i])] IN
        /\ Story("calls", journal \o r, messages \o r, qn,
                 SubSeq(todo, n + 1, Len(todo)), << >>, dangling, twice)
        /\ Asks(journal \o r, asked)
        /\ messages \o r \in Seq(Message) /\ journal \o r \in Seq(Message) /\ r \in Seq(Message)
    BY <1>2, Answering
  <1> HIDE DEF rs, n
  <1>5. /\ Story("calls", v, ns, qn, << >>, << >>, dangling, twice) /\ Asks(v, asked)
        /\ ns \in Seq(Message) /\ v \in Seq(Message) /\ rs \in Seq(Message)
    BY <1>2, <1>3, <1>4
  <1> HIDE DEF v, ns
  <1>6. ~Busy("ending") /\ "calls" # "down" /\ "calls" # "idle" /\ "ending" # "idle"
    BY DEF Busy
  <1>7. Story("ending", v, ns, qn, << >>, << >>, dangling, twice)
    BY <1>5, <1>6, StoryMoves
  <1>8. Story("ending", Append(v, Text), Append(ns, Text), qn, << >>, << >>, dangling, twice)
    BY <1>5, <1>6, StoryPlain
  <1>9. /\ Text \in Message /\ Text.calls = << >>
        /\ Append(v, Text) = v \o <<Text>> /\ Append(ns, Text) = ns \o <<Text>> /\ Append(ns, Text) \in Seq(Message)
    BY <1>5, PlainIs, AppendIs
  <1>10. Asks(v \o <<Text>>, asked)
    <2> DEFINE add == <<Text>>
    <2>1. add \in Seq(Message) /\ \A i \in 1 .. Len(add) : add[i].calls = << >>
      BY <1>9
    <2> HIDE DEF add
    <2>2. Asks(v \o add, asked)
      BY <1>5, <2>1, AsksPlain
    <2>3. QED BY <2>2 DEF add
  <1>11. QED BY <1>5, <1>7, <1>8, <1>9, <1>10 DEF rs, v, ns

(* run-state.json *)
LEMMA RunSteps ==
  ASSUME NEW r \in RunRecord, NEW c \in Call
  PROVE  /\ NoRun \in RunRecord /\ FreshRun \in RunRecord
         /\ \A s \in {"waiting_model", "finalizing"} :
              /\ Transition(r, s) \in RunRecord /\ Transition(r, s).active = r.active
              /\ r.status \in Live => Transition(r, s).status \in Live
              /\ r.status \notin Live => Transition(r, s) = r
              /\ r.status # "finalizing" => Transition(r, "waiting_model").status # "finalizing"
         /\ /\ ToolStarted(r, c) \in RunRecord /\ ToolStarted(r, c).active \in {r.active, c}
            /\ r.status \in Live => ToolStarted(r, c).status \in Live
            /\ r.status \notin Live => ToolStarted(r, c) = r
            /\ r.status # "finalizing" => ToolStarted(r, c).status # "finalizing"
         /\ /\ ToolFinished(r, c) \in RunRecord /\ ToolFinished(r, c).active \in {r.active, NoCall}
            /\ r.status \in Live => ToolFinished(r, c).status \in Live
            /\ r.status \notin Live => ToolFinished(r, c) = r
            /\ r.status \in Live \ {"finalizing"} => ToolFinished(r, c).active = NoCall
            /\ r.status # "finalizing" => ToolFinished(r, c).status # "finalizing"
         /\ \A s \in {"completed", "failed", "cancelled", "paused"} :
              /\ Finished(r, s) \in RunRecord
              /\ r.status \in Live => Finished(r, s).status = s /\ Finished(r, s).active = NoCall
              /\ r.status \notin Live => Finished(r, s).status = r.status
              /\ Finished(r, s).active \in {r.active, NoCall}
         /\ /\ Recovered(r) \in RunRecord /\ Recovered(r).status \notin Live
            /\ Recovered(r).active \in {r.active, NoCall}
            /\ r.status \in Live => Recovered(r).active = NoCall
  <1> USE DEF RunRecord, Live, Terminal, Allowed
  <1>1. NoRun \in RunRecord /\ FreshRun \in RunRecord
    BY DEF NoRun, FreshRun
  <1>2. \A s \in {"waiting_model", "finalizing"} :
              /\ Transition(r, s) \in RunRecord /\ Transition(r, s).active = r.active
              /\ r.status \in Live => Transition(r, s).status \in Live
              /\ r.status \notin Live => Transition(r, s) = r
              /\ r.status # "finalizing" => Transition(r, "waiting_model").status # "finalizing"
    BY DEF Transition
  <1>3. /\ ToolStarted(r, c) \in RunRecord /\ ToolStarted(r, c).active \in {r.active, c}
        /\ r.status \in Live => ToolStarted(r, c).status \in Live
        /\ r.status \notin Live => ToolStarted(r, c) = r
        /\ r.status # "finalizing" => ToolStarted(r, c).status # "finalizing"
    BY DEF ToolStarted
  <1>4. /\ ToolFinished(r, c) \in RunRecord /\ ToolFinished(r, c).active \in {r.active, NoCall}
        /\ r.status \in Live => ToolFinished(r, c).status \in Live
        /\ r.status \notin Live => ToolFinished(r, c) = r
        /\ r.status \in Live \ {"finalizing"} => ToolFinished(r, c).active = NoCall
        /\ r.status # "finalizing" => ToolFinished(r, c).status # "finalizing"
    BY DEF ToolFinished
  <1>5. \A s \in {"completed", "failed", "cancelled", "paused"} :
          /\ Finished(r, s) \in RunRecord
          /\ r.status \in Live => Finished(r, s).status = s /\ Finished(r, s).active = NoCall
          /\ r.status \notin Live => Finished(r, s).status = r.status
          /\ Finished(r, s).active \in {r.active, NoCall}
    BY DEF Finished
  <1>6. /\ Recovered(r) \in RunRecord /\ Recovered(r).status \notin Live
        /\ Recovered(r).active \in {r.active, NoCall}
        /\ r.status \in Live => Recovered(r).active = NoCall
    BY DEF Recovered
  <1>7. QED BY <1>1, <1>2, <1>3, <1>4, <1>5, <1>6

-----------------------------------------------------------------------------
(* The steps of a run.                                                     *)

(* A step of a run that writes nothing to disk. *)
LEMMA RunGoesOn ==
  ASSUME SessionInv, events = << >>, phase \notin {"down", "idle", "ending"},
         journal' = journal, runState' = runState, phase' \notin {"down", "idle"},
         SessionTypeOK',
         NEW add, Messages(events') = add,
         Story(phase', journal \o add, messages', pending', todo', batch', dangling', twice'),
         Asks(journal \o add, asked'),
         Orderly(events', phase', batch', runState.active),
         RequestKept'
  PROVE  SessionInv'
  <1>1. /\ ActiveUnanswered /\ RunIsLive
    BY InvParts
  <1>2. ActiveUnanswered'
    BY <1>1 DEF ActiveUnanswered
  <1>3. RepairsUnderWay'
    BY DEF RepairsUnderWay
  <1>4. EventsInOrder'
    BY OrderIs
  <1>5. RunIsLive'
    BY <1>1 DEF RunIsLive
  <1>6. journal' \o Messages(events') = journal \o add
    OBVIOUS
  <1>7. QED BY <1>2, <1>3, <1>4, <1>5, <1>6, NextInv

(* A step that changes nothing but the flight of calls, the token and      *)
(* the bounds.                                                             *)
LEMMA NothingMoves ==
  ASSUME SessionInv, SessionTypeOK',
         UNCHANGED <<phase, messages, pending, todo, batch, dangling, twice, journal, events, runState, stop, asked>>
  PROVE  SessionInv'
  <1>1. /\ SessionTypeOK /\ StoryNow /\ Asks(Written, asked)
        /\ ActiveUnanswered /\ RepairsUnderWay /\ EventsInOrder /\ RunIsLive /\ RequestKept
    BY InvParts
  <1>2. ActiveUnanswered'
    BY <1>1 DEF ActiveUnanswered
  <1>3. RepairsUnderWay'
    BY <1>1 DEF RepairsUnderWay
  <1>4. EventsInOrder'
    BY <1>1 DEF EventsInOrder
  <1>5. RunIsLive'
    BY <1>1 DEF RunIsLive
  <1>6. RequestKept'
    BY <1>1 DEF RequestKept, MayResend, InRound
  <1>7. Story(phase', Written, messages', pending', todo', batch', dangling', twice') /\ Asks(Written, asked')
    BY <1>1 DEF StoryNow
  <1>8. Written = journal' \o Messages(events')
    BY DEF Written
  <1>9. QED BY <1>2, <1>3, <1>4, <1>5, <1>6, <1>7, <1>8, NextInv

(* The notice of a pause, then the end of the run. *)
LEMMA PauseEvents ==
  ASSUME NEW bt, NEW a
  PROVE  /\ Added(Text) \o EndEv \in Seq(Event) /\ Messages(Added(Text) \o EndEv) = <<Text>>
         /\ Orderly(Added(Text) \o EndEv, "ending", bt, a)
  <1>1. Text \in Message /\ Text.role # "tool"
    BY PlainIs
  <1>2. Added(Text) \in Seq(Event) /\ Messages(Added(Text)) = <<Text>> /\ Quiet(Added(Text))
    BY <1>1, AddedIs
  <1>3. QED BY <1>2, QuietOrderly

(* The single events of a run are in order.                                *)
LEMMA EndEvents ==
  ASSUME NEW bt, NEW a
  PROVE  /\ EndEv \in Seq(Event) /\ Messages(EndEv) = << >>
         /\ Orderly(EndEv, "ending", bt, a)
         /\ TurnEv \in Seq(Event) /\ Messages(TurnEv) = << >>
         /\ \A ph : ph \notin {"down", "gather"} => Orderly(TurnEv, ph, bt, a) /\ Orderly(<< >>, ph, bt, a)
         /\ Messages(<< >>) = << >>
  <1>1. /\ EndEv \in Seq(Event) /\ Messages(EndEv) = << >>
        /\ TurnEv \in Seq(Event) /\ Messages(TurnEv) = << >> /\ Quiet(TurnEv)
        /\ Quiet(<< >>) /\ << >> \in Seq(Event) /\ Len(EndEv) = 1 /\ EndEv[1].type = "run_finished"
    BY EndIs
  <1>2. \A ph : ph \notin {"down", "gather"} => Orderly(TurnEv, ph, bt, a) /\ Orderly(<< >>, ph, bt, a)
    BY <1>1, QuietOrderly
  <1>3. Orderly(EndEv, "ending", bt, a)
    BY DEF EndEv, Orderly
  <1>4. QED BY <1>1, <1>2, <1>3, MessagesEmpty

(* The run goes on or ends without a word. *)
LEMMA Moving ==
  ASSUME SessionInv, events = << >>, todo = << >>, phase \notin {"down", "idle"},
         NEW qh, ~Busy(qh), NEW qn
  PROVE  /\ Story(qh, journal \o << >>, messages, qn, << >>, << >>, dangling, twice)
         /\ Asks(journal \o << >>, asked)
  <1>1. /\ journal \in Seq(Message) /\ messages \in Seq(Message)
        /\ Story(phase, journal, messages, pending, << >>, batch, dangling, twice)
        /\ Asks(journal, asked)
    BY AtIs
  <1>2. Story(qh, journal, messages, qn, << >>, << >>, dangling, twice)
    BY <1>1, StoryMoves
  <1>3. journal \o << >> = journal
    BY <1>1
  <1>4. QED BY <1>1, <1>2, <1>3

(* A pause where nothing is left to do. *)
LEMMA PauseStep ==
  ASSUME SessionInv, events = << >>, todo = << >>, batch = << >>,
         phase \notin {"down", "idle", "ending"}, Pause, pending' = pending,
         UNCHANGED <<todo, batch, cancelled, journal, runState, flight, bounds>>, netError' \in BOOLEAN
  PROVE  SessionInv'
  <1>1. phase' = "ending" /\ stop' = "budget_exhausted" /\ messages' = Append(messages, Text)
        /\ events' = Added(Text) \o EndEv
    BY DEF Pause, Stop
  <1>2. /\ Story("ending", journal \o <<Text>>, Append(messages, Text), pending, << >>, << >>, dangling, twice)
        /\ Asks(journal \o <<Text>>, asked)
        /\ Append(messages, Text) \in Seq(Message)
    <2>1. Text \in {User, Text} /\ ~Busy("ending") /\ phase # "down"
      BY DEF Busy
    <2>2. QED BY <2>1, Plainly
  <1>3. /\ events' \in Seq(Event) /\ Messages(events') = <<Text>>
        /\ Orderly(events', phase', batch', runState.active)
    BY <1>1, PauseEvents
  <1>4. SessionTypeOK'
    BY <1>1, <1>2, <1>3, InvParts DEF SessionTypeOK, Phase, bounds
  <1>5. RequestKept'
    BY <1>1 DEF RequestKept, MayResend, InRound
  <1>6. /\ Story(phase', journal \o <<Text>>, messages', pending', todo', batch', dangling', twice')
        /\ Asks(journal \o <<Text>>, asked')
    BY <1>1, <1>2 DEF bounds
  <1>7. QED BY <1>1, <1>3, <1>4, <1>5, <1>6, RunGoesOn

(* An end without a word. *)
LEMMA EndStep ==
  ASSUME SessionInv, events = << >>, todo = << >>, batch = << >>,
         phase \notin {"down", "idle", "ending"}, NEW s \in {"aborted", "error"}, Stop(s), events' = EndEv,
         s = "error" => pending \in {NoMessages, messages},
         UNCHANGED <<todo, batch, cancelled, messages, pending, journal, runState, flight, bounds>>,
         netError' \in BOOLEAN
  PROVE  SessionInv'
  <1>1. phase' = "ending" /\ stop' = s
    BY DEF Stop
  <1>2. /\ Story("ending", journal \o << >>, messages, pending, << >>, << >>, dangling, twice)
        /\ Asks(journal \o << >>, asked)
    <2>1. ~Busy("ending")
      BY DEF Busy
    <2>2. QED BY <2>1, Moving
  <1>3. /\ events' \in Seq(Event) /\ Messages(events') = << >>
        /\ Orderly(events', phase', batch', runState.active)
    BY <1>1, EndEvents
  <1>4. SessionTypeOK'
    BY <1>1, <1>3, InvParts DEF SessionTypeOK, Phase, bounds
  <1>5. RequestKept'
    BY <1>1 DEF RequestKept, MayResend, InRound
  <1>6. /\ Story(phase', journal \o << >>, messages', pending', todo', batch', dangling', twice')
        /\ Asks(journal \o << >>, asked')
    BY <1>1, <1>2 DEF bounds
  <1>7. QED BY <1>1, <1>3, <1>4, <1>5, <1>6, RunGoesOn

(* Turn keeps the invariant.                                               *)
LEMMA TurnKeeps == ASSUME SessionInv, Turn PROVE SessionInv'
  <1>1. /\ At("top")
        /\ UNCHANGED <<todo, batch, cancelled, journal, runState, netError, flight, bounds>>
    BY DEF Turn, diskVars
  <1>2. phase = "top" /\ events = << >> /\ ~Busy("top") /\ netError' \in BOOLEAN
    BY <1>1, InvParts DEF At, Busy, SessionTypeOK
  <1>3. todo = << >> /\ batch = << >>
    BY <1>2, AtIs
  <1>4. CASE Stop("aborted") /\ events' = EndEv /\ UNCHANGED memoryVars
    BY <1>1, <1>2, <1>3, <1>4, EndStep DEF memoryVars
  <1>5. CASE Pause /\ UNCHANGED pending
    BY <1>1, <1>2, <1>3, <1>5, PauseStep
  <1>6. CASE /\ phase' = "waiting"
             /\ pending' = IF pending = NoMessages THEN messages ELSE pending
             /\ events' = TurnEv
             /\ UNCHANGED <<stop, messages>>
    <2>1. pending' = messages
      BY <1>2, <1>6, InvParts DEF RequestKept, MayResend
    <2>2. /\ Story("waiting", journal \o << >>, messages, pending', << >>, << >>, dangling, twice)
          /\ Asks(journal \o << >>, asked)
      <3>1. ~Busy("waiting") /\ phase \notin {"down", "idle"}
        BY <1>2 DEF Busy
      <3>2. QED BY <1>2, <1>3, <3>1, Moving
    <2>3. /\ events' \in Seq(Event) /\ Messages(events') = << >>
          /\ Orderly(events', phase', batch', runState.active)
      BY <1>6, EndEvents
    <2>4. SessionTypeOK'
      BY <1>1, <1>6, <2>1, <2>3, InvParts DEF SessionTypeOK, Phase, bounds
    <2>5. RequestKept'
      BY <1>6, <2>1 DEF RequestKept, MayResend, InRound
    <2>6. /\ Story(phase', journal \o << >>, messages', pending', todo', batch', dangling', twice')
          /\ Asks(journal \o << >>, asked')
      BY <1>1, <1>3, <1>6, <2>2 DEF bounds
    <2>7. phase \notin {"down", "idle", "ending"} /\ phase' \notin {"down", "idle"}
      BY <1>2, <1>6
    <2>8. QED BY <1>1, <1>2, <2>3, <2>4, <2>5, <2>6, <2>7, RunGoesOn
  <1>7. QED BY <1>4, <1>5, <1>6 DEF Turn

(* The last text of a run: a final reply, or what there was of one. *)
LEMMA LastWord ==
  ASSUME SessionInv, events = << >>, todo = << >>, batch = << >>,
         phase \notin {"down", "idle", "ending"}, NEW s \in {"aborted", "completed"}, Stop(s),
         messages' = Append(messages, Text), events' = Added(Text) \o EndEv,
         pending' \in {pending, NoMessages},
         UNCHANGED <<todo, batch, cancelled, journal, runState, netError, flight, bounds>>
  PROVE  SessionInv'
  <1>1. phase' = "ending" /\ stop' = s
    BY DEF Stop
  <1>2. /\ Story("ending", journal \o <<Text>>, Append(messages, Text), pending', << >>, << >>, dangling, twice)
        /\ Asks(journal \o <<Text>>, asked)
        /\ Append(messages, Text) \in Seq(Message)
    <2>1. Text \in {User, Text} /\ ~Busy("ending") /\ phase # "down"
      BY DEF Busy
    <2>2. QED BY <2>1, Plainly
  <1>3. /\ events' \in Seq(Event) /\ Messages(events') = <<Text>>
        /\ Orderly(events', phase', batch', runState.active)
    BY <1>1, PauseEvents
  <1>4. SessionTypeOK'
    BY <1>1, <1>2, <1>3, InvParts DEF SessionTypeOK, Phase, bounds
  <1>5. RequestKept'
    BY <1>1 DEF RequestKept, MayResend, InRound
  <1>6. /\ Story(phase', journal \o <<Text>>, messages', pending', todo', batch', dangling', twice')
        /\ Asks(journal \o <<Text>>, asked')
    BY <1>1, <1>2 DEF bounds
  <1>7. QED BY <1>1, <1>3, <1>4, <1>5, <1>6, RunGoesOn

(* NoReply keeps the invariant.                                            *)
LEMMA NoReplyKeeps == ASSUME SessionInv, NoReply PROVE SessionInv'
  <1>1. /\ At("waiting")
        /\ UNCHANGED <<todo, batch, cancelled, pending, journal, runState, flight, bounds>>
    BY DEF NoReply
  <1>2. phase = "waiting" /\ events = << >> /\ ~Busy("waiting") /\ netError \in BOOLEAN
    BY <1>1, InvParts DEF At, Busy, SessionTypeOK
  <1>3. todo = << >> /\ batch = << >>
    BY <1>2, AtIs
  <1>4. CASE Pause /\ UNCHANGED netError
    BY <1>1, <1>2, <1>3, <1>4, PauseStep
  <1>5. CASE Stop("error") /\ netError' \in BOOLEAN /\ events' = EndEv /\ UNCHANGED messages
    <2>1. pending \in {NoMessages, messages}
      BY <1>2, InvParts DEF RequestKept, MayResend
    <2>2. QED BY <1>1, <1>2, <1>3, <1>5, <2>1, EndStep
  <1>6. CASE Stop("aborted") /\ messages' = Append(messages, Text) /\ events' = Added(Text) \o EndEv
             /\ UNCHANGED netError
    BY <1>1, <1>2, <1>3, <1>6, LastWord
  <1>7. CASE Stop("aborted") /\ events' = EndEv /\ UNCHANGED messages /\ UNCHANGED netError
    BY <1>1, <1>2, <1>3, <1>7, EndStep
  <1>8. QED BY <1>4, <1>5, <1>6, <1>7 DEF NoReply

(* ReplyFinal keeps the invariant.                                         *)
LEMMA ReplyFinalKeeps == ASSUME SessionInv, ReplyFinal PROVE SessionInv'
  <1>1. /\ phase = "waiting" /\ events = << >> /\ ~Busy("waiting") /\ pending' = NoMessages
        /\ messages' = Append(messages, Text) /\ events' = Added(Text) \o EndEv /\ Stop("completed")
        /\ UNCHANGED <<todo, batch, cancelled, journal, runState, netError, flight, bounds>>
    BY DEF ReplyFinal, At, Busy, diskVars
  <1>2. todo = << >> /\ batch = << >>
    BY <1>1, AtIs
  <1>3. QED BY <1>1, <1>2, LastWord

(* EndTurn keeps the invariant.                                            *)
LEMMA EndTurnKeeps == ASSUME SessionInv, EndTurn PROVE SessionInv'
  <1>1. /\ phase = "calls" /\ events = << >> /\ todo = << >> /\ netError' \in BOOLEAN
        /\ UNCHANGED <<todo, batch, cancelled, pending, journal, runState, netError, flight, bounds>>
    BY InvParts DEF EndTurn, At, diskVars, SessionTypeOK
  <1>2. batch = << >>
    BY <1>1, AtIs
  <1>3. CASE Pause
    BY <1>1, <1>2, <1>3, PauseStep
  <1>4. CASE phase' = "top" /\ UNCHANGED <<stop, messages, events>>
    <2>1. /\ Story("top", journal \o << >>, messages, pending, << >>, << >>, dangling, twice)
          /\ Asks(journal \o << >>, asked)
      <3>1. ~Busy("top") /\ phase \notin {"down", "idle"}
        BY <1>1 DEF Busy
      <3>2. QED BY <1>1, <3>1, Moving
    <2>2. Messages(events') = << >> /\ Orderly(events', phase', batch', runState.active)
      BY <1>1, <1>4, EndEvents
    <2>3. SessionTypeOK'
      BY <1>1, <1>4, InvParts DEF SessionTypeOK, Phase, bounds
    <2>4. RequestKept'
      BY <1>1, <1>4, InvParts DEF RequestKept, MayResend, InRound
    <2>5. /\ Story(phase', journal \o << >>, messages', pending', todo', batch', dangling', twice')
          /\ Asks(journal \o << >>, asked')
      BY <1>1, <1>2, <1>4, <2>1 DEF bounds
    <2>6. phase \notin {"down", "idle", "ending"} /\ phase' \notin {"down", "idle"}
      BY <1>1, <1>4
    <2>7. QED BY <1>1, <2>2, <2>3, <2>4, <2>5, <2>6, RunGoesOn
  <1>5. QED BY <1>3, <1>4 DEF EndTurn

(* ReplyCalls keeps the invariant.                                         *)
LEMMA ReplyCallsKeeps == ASSUME SessionInv, NEW cs \in Batches, ReplyCalls(cs) PROVE SessionInv'
  <1> DEFINE m == ToolCalls(cs)
  <1>1. /\ phase = "waiting" /\ events = << >> /\ ToSet(cs) \cap asked = {}
        /\ asked' = asked \cup ToSet(cs) /\ pending' = NoMessages
        /\ messages' = Append(messages, m) /\ events' = Added(m) /\ todo' = cs /\ phase' = "calls"
        /\ UNCHANGED <<stop, batch, cancelled, journal, runState, netError, flight, dangling, twice, raises>>
    BY DEF ReplyCalls, At, diskVars
  <1>2. /\ journal \in Seq(Message) /\ messages \in Seq(Message)
        /\ Story(phase, journal, messages, pending, << >>, batch, dangling, twice)
        /\ Asks(journal, asked) /\ batch = << >>
    <2>1. ~Busy(phase)
      BY <1>1 DEF Busy
    <2>2. QED BY <1>1, <2>1, AtIs
  <1>3. /\ Story("calls", Append(journal, m), Append(messages, m), NoMessages, cs, << >>, dangling, twice)
        /\ m \in Message /\ cs \in Seq(Call)
    <2>1. \A i \in 1 .. Len(journal) : ToSet(journal[i].calls) \cap ToSet(cs) = {}
      <3>1. DOMAIN journal = 1 .. Len(journal)
        BY <1>2
      <3>2. QED BY <1>1, <1>2, <3>1 DEF Asks
    <2>2. phase # "down"
      BY <1>1
    <2>3. QED BY <1>2, <2>1, <2>2, StoryCalls
  <1>4. m.role # "tool" /\ m.calls = cs
    BY DEF ToolCalls
  <1> HIDE DEF m
  <1>5. Append(journal, m) = journal \o <<m>> /\ Append(messages, m) \in Seq(Message)
    BY <1>2, <1>3, AppendIs
  <1>6. Asks(journal \o <<m>>, asked')
    <2> DEFINE add == <<m>>
    <2>1. add \in Seq(Message) /\ Asks(add, asked') /\ asked \subseteq asked'
      BY <1>1, <1>3, <1>4 DEF Asks
    <2> HIDE DEF add
    <2>2. Asks(journal \o add, asked')
      BY <1>2, <2>1, AsksMore
    <2>3. QED BY <2>2 DEF add
  <1>7. /\ events' \in Seq(Event) /\ Messages(events') = <<m>>
        /\ Orderly(events', phase', batch', runState.active)
    <2>1. Added(m) \in Seq(Event) /\ Messages(Added(m)) = <<m>> /\ Quiet(Added(m))
      BY <1>3, <1>4, AddedIs
    <2>2. Orderly(Added(m), "calls", batch', runState.active)
      BY <2>1, QuietOrderly
    <2>3. QED BY <1>1, <2>1, <2>2
  <1>8. SessionTypeOK'
    <2>1. ToSet(cs) \subseteq Call
      BY <1>3, ToSetIs
    <2>2. asked' \subseteq Call
      BY <1>1, <2>1, InvParts DEF SessionTypeOK
    <2>3. QED BY <1>1, <1>3, <1>5, <1>7, <2>2, InvParts DEF SessionTypeOK, Phase
  <1>9. RequestKept'
    BY <1>1 DEF RequestKept, MayResend
  <1>10. Story(phase', journal \o <<m>>, messages', pending', todo', batch', dangling', twice')
    BY <1>1, <1>2, <1>3, <1>5
  <1>11. phase \notin {"down", "idle", "ending"} /\ phase' \notin {"down", "idle"}
    BY <1>1
  <1>12. QED BY <1>1, <1>6, <1>7, <1>8, <1>9, <1>10, <1>11, RunGoesOn

(* The types at the end of a round.                                        *)
LEMMA EndTypes ==
  ASSUME SessionTypeOK, phase' = "ending", stop' \in {"aborted", "budget_exhausted"},
         messages' \in Seq(Message), events' \in Seq(Event), todo' = << >>, batch' = << >>,
         cancelled' \in BOOLEAN, flight' \in [Call -> {"none", "queued", "running", "stopped", "done"}],
         UNCHANGED <<pending, journal, runState, netError, asked, dangling, twice, raises>>
  PROVE  SessionTypeOK'
  BY DEF SessionTypeOK, Phase

(* What is left of the round gets results, and the run ends. *)
LEMMA EndOfRound ==
  ASSUME SessionInv, events = << >>, Busy(phase), todo # << >>,
         NEW s \in {"aborted", "budget_exhausted"}, Stop(s), NEW said \in {<< >>, <<Text>>},
         messages' = (messages \o [i \in DOMAIN todo |-> Result(todo[i])]) \o said,
         events' = (IF said = << >> THEN AllResultEvs(todo) ELSE AllResultEvs(todo) \o Added(Text)) \o EndEv,
         todo' = << >>, batch' = << >>, cancelled' \in BOOLEAN,
         flight' \in [Call -> {"none", "queued", "running", "stopped", "done"}],
         UNCHANGED <<pending, journal, runState, netError, asked, dangling, twice, raises>>
  PROVE  SessionInv'
  <1> DEFINE rs == [i \in DOMAIN todo |-> Result(todo[i])]
  <1>1. phase' = "ending" /\ stop' = s
    BY DEF Stop
  <1>2. /\ Story("ending", journal \o rs, messages \o rs, pending, << >>, << >>, dangling, twice)
        /\ Story("ending", (journal \o rs) \o <<Text>>, (messages \o rs) \o <<Text>>, pending,
                 << >>, << >>, dangling, twice)
        /\ Asks(journal \o rs, asked) /\ Asks((journal \o rs) \o <<Text>>, asked)
        /\ messages \o rs \in Seq(Message) /\ rs \in Seq(Message)
        /\ (messages \o rs) \o <<Text>> \in Seq(Message)
    BY AnsweringAll
  <1>3. todo \in Seq(Call) /\ journal \in Seq(Message) /\ Text \in Message /\ Text.role # "tool"
    BY InvParts, PlainIs DEF SessionTypeOK
  <1>4. /\ AllResultEvs(todo) \in Seq(Event) /\ Messages(AllResultEvs(todo)) = rs
        /\ Quiet(AllResultEvs(todo)) /\ AllResultEvs(todo) # << >>
        /\ AllResultEvs(todo)[1].type = "tool_finished"
    BY <1>3, ResultsQuiet
  <1> HIDE DEF rs
  <1>5. CASE said = << >>
    <2>1. /\ events' \in Seq(Event) /\ Messages(events') = rs
          /\ Orderly(events', phase', batch', runState.active)
      BY <1>1, <1>4, <1>5, QuietOrderly
    <2>2. messages' = messages \o rs
      <3>1. (messages \o rs) \o << >> = messages \o rs
        BY <1>2
      <3>2. QED BY <1>5, <3>1 DEF rs
    <2>3. SessionTypeOK'
      <3>1. SessionTypeOK /\ messages' \in Seq(Message)
        BY <1>2, <2>2, InvParts
      <3>2. QED BY <1>1, <2>1, <3>1, EndTypes
    <2>4. RequestKept'
      BY <1>1 DEF RequestKept, MayResend, InRound
    <2>5. /\ Story(phase', journal \o rs, messages', pending', todo', batch', dangling', twice')
          /\ Asks(journal \o rs, asked')
      BY <1>1, <1>2, <2>2
    <2>6. phase \notin {"down", "idle", "ending"} /\ phase' \notin {"down", "idle"}
      BY <1>1 DEF Busy
    <2>7. QED BY <2>1, <2>3, <2>4, <2>5, <2>6, RunGoesOn
  <1>6. CASE said = <<Text>>
    <2>1. Added(Text) \in Seq(Event) /\ Messages(Added(Text)) = <<Text>> /\ Quiet(Added(Text))
      BY <1>3, AddedIs
    <2>2. \A k \in DOMAIN Added(Text) : Added(Text)[k].about.role # "tool"
      BY <1>3 DEF Added, MessageEv
    <2> DEFINE es == AllResultEvs(todo) \o Added(Text)
    <2>3. es \in Seq(Event) /\ Quiet(es)
      BY <1>4, <2>1, <2>2, QuietConcat
    <2>4. Messages(es) = rs \o <<Text>>
      BY <1>4, <2>1, MessagesConcat
    <2>5. events' = es \o EndEv
      BY <1>6
    <2> HIDE DEF es
    <2>6. /\ events' \in Seq(Event) /\ Messages(events') = rs \o <<Text>>
          /\ Orderly(events', phase', batch', runState.active)
      BY <1>1, <2>3, <2>4, <2>5, QuietOrderly
    <2>7. messages' = (messages \o rs) \o <<Text>>
      BY <1>6 DEF rs
    <2>8. SessionTypeOK'
      <3>1. SessionTypeOK /\ messages' \in Seq(Message)
        BY <1>2, <2>7, InvParts
      <3>2. QED BY <1>1, <2>6, <3>1, EndTypes
    <2>9. RequestKept'
      BY <1>1 DEF RequestKept, MayResend, InRound
    <2>10. journal \o (rs \o <<Text>>) = (journal \o rs) \o <<Text>>
      BY <1>2, <1>3
    <2>11. /\ Story(phase', journal \o (rs \o <<Text>>), messages', pending', todo', batch', dangling', twice')
           /\ Asks(journal \o (rs \o <<Text>>), asked')
      BY <1>1, <1>2, <2>7, <2>10
    <2>12. phase \notin {"down", "idle", "ending"} /\ phase' \notin {"down", "idle"}
      BY <1>1 DEF Busy
    <2>13. QED BY <2>6, <2>8, <2>9, <2>11, <2>12, RunGoesOn
  <1>7. QED BY <1>5, <1>6

(* The batch is a first part of what is to do. *)
LEMMA BatchIs ==
  ASSUME SessionInv, phase = "gather"
  PROVE  /\ todo \in Seq(Call) /\ todo # << >> /\ batch \in Seq(Call)
         /\ \E n \in 1 .. Len(todo) : /\ batch = SubSeq(todo, 1, n) /\ Len(batch) = n /\ n \in 0 .. Len(todo)
                                      /\ DOMAIN batch = 1 .. n
                                      /\ \A i \in 1 .. n : batch[i] = todo[i]
         /\ ToSet(batch) \subseteq ToSet(todo) /\ batch # << >>
  <1>1. todo \in Seq(Call) /\ StoryNow /\ Written \in Seq(Message)
    BY InvParts, WrittenIs DEF SessionTypeOK
  <1>2. PICK n \in 1 .. Len(todo) : batch = SubSeq(todo, 1, n)
    BY <1>1 DEF StoryNow, Story, StoryRound, Busy
  <1>3. Len(todo) \in Nat /\ n \in 0 .. Len(todo) /\ 1 \in 1 .. Len(todo) + 1 /\ n # 0 /\ Len(todo) # 0
    BY <1>1, <1>2
  <1>4. todo # << >>
    BY <1>3
  <1>5. batch \in Seq(Call) /\ Len(batch) = n /\ \A i \in 1 .. n : batch[i] = todo[i]
    BY <1>1, <1>2, <1>3
  <1>6. DOMAIN batch = 1 .. n /\ DOMAIN todo = 1 .. Len(todo) /\ batch # << >>
    BY <1>1, <1>3, <1>5
  <1>7. ToSet(batch) \subseteq ToSet(todo)
    <2>1. \A i \in 1 .. n : i \in 1 .. Len(todo)
      BY <1>3
    <2>2. QED BY <1>5, <1>6, <2>1 DEF ToSet
  <1>8. QED BY <1>1, <1>2, <1>3, <1>4, <1>5, <1>6, <1>7

(* StartBatch keeps the invariant.                                         *)
LEMMA StartBatchKeeps == ASSUME SessionInv, StartBatch PROVE SessionInv'
  <1>1. /\ phase = "calls" /\ events = << >> /\ todo # << >> /\ Busy(phase)
        /\ UNCHANGED <<cancelled, pending, journal, runState, netError, asked, dangling, twice, raises>>
    BY DEF StartBatch, At, Busy, diskVars, bounds
  <1>2. /\ journal \in Seq(Message) /\ messages \in Seq(Message) /\ batch = << >>
        /\ Story("calls", journal, messages, pending, todo, batch, dangling, twice) /\ Asks(journal, asked)
    BY <1>1, AtIs
  <1>3. /\ cancelled \in BOOLEAN /\ flight \in [Call -> {"none", "queued", "running", "stopped", "done"}]
        /\ todo \in Seq(Call)
    BY InvParts DEF SessionTypeOK
  <1>4. CASE /\ Answer(todo, EndEv) /\ Stop("aborted") /\ todo' = << >> /\ UNCHANGED <<batch, flight>>
    <2>1. /\ messages' = messages \o [i \in DOMAIN todo |-> Result(todo[i])]
          /\ events' = AllResultEvs(todo) \o EndEv
      BY <1>4 DEF Answer, AllResultEvs
    <2>2. messages \o [i \in DOMAIN todo |-> Result(todo[i])] \in Seq(Message)
      BY <1>1, AnsweringAll
    <2>3. messages' = (messages \o [i \in DOMAIN todo |-> Result(todo[i])]) \o << >>
      BY <2>1, <2>2
    <2>4. << >> \in {<< >>, <<Text>>} /\ "aborted" \in {"aborted", "budget_exhausted"}
      OBVIOUS
    <2>5. QED BY <1>1, <1>2, <1>3, <1>4, <2>1, <2>3, <2>4, EndOfRound
  <1>5. CASE LET b == SubSeq(todo, 1, BatchLen(todo))
                 shown == Without(b, Hidden) IN
             /\ batch' = b
             /\ flight' = [c \in Call |-> IF c \in ToSet(b) THEN "queued" ELSE flight[c]]
             /\ events' = [i \in DOMAIN shown |-> StartedEv(shown[i])]
             /\ phase' = "gather"
             /\ UNCHANGED <<stop, messages, todo>>
    <2> DEFINE b == SubSeq(todo, 1, BatchLen(todo))
    <2>1. Story("gather", journal, messages, pending, todo, b, dangling, twice) /\ b \in Seq(Call)
      BY <1>1, <1>2, StoryBatch
    <2> HIDE DEF b
    <2>2. /\ batch' = b /\ phase' = "gather" /\ UNCHANGED <<stop, messages, todo>>
          /\ flight' \in [Call -> {"none", "queued", "running", "stopped", "done"}]
      BY <1>3, <1>5 DEF b
    <2>3. events' \in Seq(Event) /\ Messages(events') = << >> /\ Orderly(events', phase', batch', runState.active)
      <3>1. LET shown == Without(b, Hidden)
                es == [i \in DOMAIN shown |-> StartedEv(shown[i])]
            IN es \in Seq(Event) /\ Messages(es) = << >> /\ Orderly(es, "gather", b, runState.active)
        BY <2>1, StartsOrderly
      <3>2. LET shown == Without(b, Hidden) IN events' = [i \in DOMAIN shown |-> StartedEv(shown[i])]
        BY <1>5 DEF b
      <3>3. QED BY <2>2, <3>1, <3>2
    <2>4. SessionTypeOK'
      BY <1>1, <2>1, <2>2, <2>3, InvParts DEF SessionTypeOK, Phase
    <2>5. RequestKept'
      BY <1>1, <2>2, InvParts DEF RequestKept, MayResend, InRound
    <2>6. journal \o << >> = journal
      BY <1>2
    <2>7. /\ Story(phase', journal \o << >>, messages', pending', todo', batch', dangling', twice')
          /\ Asks(journal \o << >>, asked')
      BY <1>1, <1>2, <2>1, <2>2, <2>6
    <2>8. phase \notin {"down", "idle", "ending"} /\ phase' \notin {"down", "idle"}
      BY <1>1, <2>2
    <2>9. QED BY <1>1, <2>3, <2>4, <2>5, <2>7, <2>8, RunGoesOn
  <1>6. QED BY <1>4, <1>5 DEF StartBatch

(* Begin, Finish and Unwind keep the invariant.                            *)
LEMMA CallKeeps == ASSUME SessionInv, NEW c \in Call, Begin(c) \/ Finish(c) \/ Unwind(c) PROVE SessionInv'
  <1>1. UNCHANGED <<loopVars, memoryVars, diskVars, events, bounds>>
    BY DEF Begin, Finish, Unwind
  <1>2. flight' \in [Call -> {"none", "queued", "running", "stopped", "done"}]
    BY InvParts DEF Begin, Finish, Unwind, SessionTypeOK
  <1>3. SessionTypeOK'
    BY <1>1, <1>2, InvParts DEF SessionTypeOK, loopVars, memoryVars, diskVars, bounds
  <1>4. QED BY <1>1, <1>3, NothingMoves DEF loopVars, memoryVars, diskVars, bounds

(* BatchDone keeps the invariant.                                          *)
LEMMA BatchDoneKeeps == ASSUME SessionInv, BatchDone PROVE SessionInv'
  <1>1. /\ phase = "gather" /\ events = << >> /\ Busy(phase) /\ Answer(batch, << >>)
        /\ todo' = SubSeq(todo, Len(batch) + 1, Len(todo)) /\ batch' = << >> /\ Settled({}) /\ phase' = "calls"
        /\ UNCHANGED <<stop, cancelled, pending, journal, runState, netError, asked, dangling, twice, raises>>
    BY DEF BatchDone, At, Busy, diskVars, bounds
  <1>2. /\ todo \in Seq(Call) /\ batch \in Seq(Call) /\ batch # << >>
        /\ \E n \in 1 .. Len(todo) : /\ batch = SubSeq(todo, 1, n) /\ Len(batch) = n /\ n \in 0 .. Len(todo)
                                     /\ DOMAIN batch = 1 .. n
                                     /\ \A i \in 1 .. n : batch[i] = todo[i]
    BY <1>1, BatchIs
  <1>3. PICK n \in 0 .. Len(todo) : /\ batch = SubSeq(todo, 1, n) /\ Len(batch) = n
                                    /\ DOMAIN batch = 1 .. n
                                    /\ \A i \in 1 .. n : batch[i] = todo[i]
    BY <1>2
  <1> DEFINE rs == [i \in 1 .. n |-> Result(todo[i])]
  <1>4. /\ Story("calls", journal \o rs, messages \o rs, pending, SubSeq(todo, n + 1, Len(todo)), << >>,
                 dangling, twice)
        /\ Asks(journal \o rs, asked) /\ messages \o rs \in Seq(Message)
    BY <1>1, Answering
  <1>5. [i \in DOMAIN batch |-> Result(batch[i])] = rs
    BY <1>3
  <1> HIDE DEF rs
  <1>6. /\ AllResultEvs(batch) \in Seq(Event) /\ Messages(AllResultEvs(batch)) = rs
        /\ Quiet(AllResultEvs(batch))
    BY <1>2, <1>5, ResultsQuiet
  <1>7. events' = AllResultEvs(batch)
    <2>1. events' = AllResultEvs(batch) \o << >>
      BY <1>1 DEF Answer, AllResultEvs
    <2>2. QED BY <1>6, <2>1
  <1>8. messages' = messages \o rs
    BY <1>1, <1>5 DEF Answer
  <1>9. events' \in Seq(Event) /\ Messages(events') = rs /\ Orderly(events', phase', batch', runState.active)
    <2>1. phase' \notin {"down", "gather"}
      BY <1>1
    <2>2. QED BY <1>6, <1>7, <2>1, QuietOrderly
  <1>10. SessionTypeOK'
    <2>1. flight' \in [Call -> {"none", "queued", "running", "stopped", "done"}]
      BY <1>1, InvParts DEF Settled, SessionTypeOK
    <2>2. todo' \in Seq(Call)
      BY <1>1, <1>2, <1>3, RestIs
    <2>3. QED BY <1>1, <1>4, <1>8, <1>9, <2>1, <2>2, InvParts DEF SessionTypeOK, Phase
  <1>11. RequestKept'
    BY <1>1, InvParts DEF RequestKept, MayResend, InRound
  <1>12. /\ Story(phase', journal \o rs, messages', pending', todo', batch', dangling', twice')
         /\ Asks(journal \o rs, asked')
    BY <1>1, <1>3, <1>4, <1>8
  <1>13. phase \notin {"down", "idle", "ending"} /\ phase' \notin {"down", "idle"}
    BY <1>1
  <1>14. QED BY <1>1, <1>9, <1>10, <1>11, <1>12, <1>13, RunGoesOn

(* BatchCancelled keeps the invariant.                                     *)
LEMMA BatchCancelledKeeps == ASSUME SessionInv, BatchCancelled PROVE SessionInv'
  <1>1. /\ phase = "gather" /\ events = << >> /\ Busy(phase) /\ Answer(todo, EndEv) /\ Stop("aborted")
        /\ todo' = << >> /\ batch' = << >>
        /\ UNCHANGED <<cancelled, pending, journal, runState, netError, asked, dangling, twice, raises>>
    BY DEF BatchCancelled, At, Busy, diskVars, bounds
  <1>2. todo # << >>
    BY <1>1, BatchIs
  <1>3. cancelled' \in BOOLEAN /\ flight' \in [Call -> {"none", "queued", "running", "stopped", "done"}]
    BY InvParts DEF BatchCancelled, Settled, SessionTypeOK
  <1>4. /\ messages' = messages \o [i \in DOMAIN todo |-> Result(todo[i])]
        /\ events' = AllResultEvs(todo) \o EndEv
    BY <1>1 DEF Answer, AllResultEvs
  <1>5. messages \o [i \in DOMAIN todo |-> Result(todo[i])] \in Seq(Message)
    BY <1>1, AnsweringAll
  <1>6. messages' = (messages \o [i \in DOMAIN todo |-> Result(todo[i])]) \o << >>
    BY <1>4, <1>5
  <1>7. << >> \in {<< >>, <<Text>>} /\ "aborted" \in {"aborted", "budget_exhausted"}
    OBVIOUS
  <1>8. QED BY <1>1, <1>2, <1>3, <1>4, <1>6, <1>7, EndOfRound

(* BatchTimeout keeps the invariant.                                       *)
LEMMA BatchTimeoutKeeps == ASSUME SessionInv, BatchTimeout PROVE SessionInv'
  <1>1. /\ phase = "gather" /\ events = << >> /\ Busy(phase) /\ Stop("budget_exhausted")
        /\ todo' = << >> /\ batch' = << >> /\ cancelled' \in BOOLEAN /\ Settled({})
        /\ UNCHANGED <<pending, journal, runState, netError, asked, dangling, twice, raises>>
    BY DEF BatchTimeout, At, Busy, diskVars, bounds
  <1>2. todo # << >> /\ <<Text>> # << >>
    BY <1>1, BatchIs
  <1>3. flight' \in [Call -> {"none", "queued", "running", "stopped", "done"}]
    BY <1>1, InvParts DEF Settled, SessionTypeOK
  <1>4. /\ messages' = (messages \o [i \in DOMAIN todo |-> Result(todo[i])]) \o <<Text>>
        /\ events' = (AllResultEvs(todo) \o Added(Text)) \o EndEv
    BY DEF BatchTimeout, AllResultEvs
  <1>5. <<Text>> \in {<< >>, <<Text>>} /\ "budget_exhausted" \in {"aborted", "budget_exhausted"}
    OBVIOUS
  <1>6. QED BY <1>1, <1>2, <1>3, <1>4, <1>5, EndOfRound

(* BatchRaises keeps the invariant.                                        *)
LEMMA BatchRaisesKeeps == ASSUME SessionInv, BatchRaises PROVE SessionInv'
  <1>1. /\ phase = "gather" /\ events = << >> /\ Busy(phase) /\ raises < MaxRaises
        /\ raises' = raises + 1 /\ dangling' = dangling + 1
        /\ twice' = (twice \/ \E i, j \in Open(journal) : i # j)
        /\ netError' \in BOOLEAN /\ events' = EndEv /\ phase' = "ending" /\ stop' = "error"
        /\ todo' = << >> /\ batch' = << >>
        /\ UNCHANGED <<messages, cancelled, pending, journal, runState, asked>>
    BY DEF BatchRaises, At, Busy, Stop
  <1>2. /\ journal \in Seq(Message) /\ messages \in Seq(Message)
        /\ Story(phase, journal, messages, pending, todo, batch, dangling, twice) /\ Asks(journal, asked)
    BY <1>1, AtIs
  <1>3. dangling \in Nat /\ raises \in Nat /\ MaxRaises \in Nat /\ dangling <= raises /\ twice \in BOOLEAN
    BY InvParts, SessionAssumption DEF SessionTypeOK
  <1>4. /\ dangling' \in 0 .. raises' /\ raises' \in 0 .. MaxRaises /\ dangling' # 0 /\ twice' \in BOOLEAN
    BY <1>1, <1>3
  <1>5. Story("ending", journal, messages, pending, << >>, << >>, dangling', twice')
    BY <1>1, <1>2, <1>4, StoryRaise
  <1>6. events' \in Seq(Event) /\ Messages(events') = << >> /\ Orderly(events', phase', batch', runState.active)
    BY <1>1, EndEvents
  <1>7. flight' \in [Call -> {"none", "queued", "running", "stopped", "done"}]
    BY InvParts DEF BatchRaises, SessionTypeOK
  <1>8. SessionTypeOK'
    BY <1>1, <1>4, <1>6, <1>7, InvParts DEF SessionTypeOK, Phase
  <1>9. RequestKept'
    BY <1>1, InvParts DEF RequestKept, MayResend, InRound
  <1>10. journal \o << >> = journal
    BY <1>2
  <1>11. /\ Story(phase', journal \o << >>, messages', pending', todo', batch', dangling', twice')
         /\ Asks(journal \o << >>, asked')
    BY <1>1, <1>2, <1>5, <1>10
  <1>12. phase \notin {"down", "idle", "ending"} /\ phase' \notin {"down", "idle"}
    BY <1>1
  <1>13. QED BY <1>1, <1>6, <1>8, <1>9, <1>11, <1>12, RunGoesOn

-----------------------------------------------------------------------------
(* Prompts, restarts and the consumer.                                     *)

(* Prompt keeps the invariant.                                             *)
LEMMA PromptKeeps == ASSUME SessionInv, Prompt PROVE SessionInv'
  <1>1. /\ phase = "idle" /\ events = << >> /\ ~Busy(phase)
        /\ runState' = FreshRun /\ netError' = FALSE /\ pending' = NoMessages
        /\ messages' = Append(messages, User) /\ events' = Added(User) /\ phase' = "top"
        /\ UNCHANGED <<stop, todo, batch, cancelled, journal, flight, asked, dangling, twice, raises>>
    BY DEF Prompt, At, Busy
  <1>2. todo = << >> /\ batch = << >>
    BY <1>1, AtIs
  <1>3. /\ Story("top", journal \o <<User>>, Append(messages, User), NoMessages, << >>, << >>, dangling, twice)
        /\ Asks(journal \o <<User>>, asked)
        /\ Append(messages, User) \in Seq(Message)
        /\ User \in Message /\ User.role # "tool"
    <2>1. User \in {User, Text} /\ ~Busy("top") /\ phase # "down" /\ "top" # "idle"
      BY <1>1 DEF Busy
    <2>2. QED BY <1>1, <1>2, <2>1, Plainly
  <1>4. /\ events' \in Seq(Event) /\ Messages(events') = <<User>>
        /\ Orderly(events', phase', batch', runState'.active)
    <2>1. Added(User) \in Seq(Event) /\ Messages(Added(User)) = <<User>> /\ Quiet(Added(User))
      BY <1>3, AddedIs
    <2>2. Orderly(Added(User), "top", batch', runState'.active)
      BY <2>1, QuietOrderly
    <2>3. QED BY <1>1, <2>1, <2>2
  <1>5. FreshRun \in RunRecord /\ FreshRun.active = NoCall /\ FreshRun.status = "running"
    BY DEF FreshRun, RunRecord, Live
  <1>6. SessionTypeOK'
    BY <1>1, <1>3, <1>4, <1>5, InvParts DEF SessionTypeOK, Phase
  <1>7. ActiveUnanswered' /\ RepairsUnderWay' /\ RunIsLive' /\ RequestKept'
    BY <1>1, <1>5 DEF ActiveUnanswered, RepairsUnderWay, RunIsLive, RequestKept, MayResend, InRound, Live
  <1>8. EventsInOrder'
    BY <1>4, OrderIs
  <1>9. /\ Story(phase', journal \o <<User>>, messages', pending', todo', batch', dangling', twice')
        /\ Asks(journal \o <<User>>, asked') /\ journal \o <<User>> = journal' \o Messages(events')
    BY <1>1, <1>2, <1>3, <1>4
  <1>10. QED BY <1>6, <1>7, <1>8, <1>9, NextInv

(* Retry keeps the invariant.                                              *)
LEMMA RetryKeeps == ASSUME SessionInv, Retry PROVE SessionInv'
  <1>1. /\ phase = "idle" /\ events = << >> /\ ~Busy(phase) /\ Retriable
        /\ runState' = FreshRun /\ netError' = FALSE /\ phase' = "top"
        /\ UNCHANGED <<messages, pending, events, stop, todo, batch, cancelled, journal, flight,
                       asked, dangling, twice, raises>>
    BY DEF Retry, At, Busy, memoryVars
  <1>2. todo = << >> /\ batch = << >>
    BY <1>1, AtIs
  <1>3. /\ journal \in Seq(Message) /\ messages \in Seq(Message)
        /\ Story(phase, journal, messages, pending, << >>, batch, dangling, twice)
        /\ Asks(journal, asked)
    BY <1>1, <1>2, AtIs
  <1>4. Story("top", journal, messages, pending, << >>, << >>, dangling, twice)
    <2>1. ~Busy("top") /\ phase # "down" /\ pending # NoMessages
      BY <1>1 DEF Busy, Retriable
    <2>2. QED BY <1>3, <2>1, StoryMoves
  <1>5. /\ Messages(events') = << >> /\ Orderly(events', phase', batch', runState'.active)
    BY <1>1, EndEvents
  <1>6. FreshRun \in RunRecord /\ FreshRun.active = NoCall /\ FreshRun.status = "running"
    BY DEF FreshRun, RunRecord, Live
  <1>7. SessionTypeOK'
    BY <1>1, <1>6, InvParts DEF SessionTypeOK, Phase
  <1>8. ActiveUnanswered' /\ RepairsUnderWay' /\ RunIsLive'
    BY <1>1, <1>6 DEF ActiveUnanswered, RepairsUnderWay, RunIsLive, Live
  <1>9. RequestKept'
    <2>1. RequestKept
      BY InvParts
    <2>2. QED BY <1>1, <2>1 DEF RequestKept, MayResend, InRound, Retriable
  <1>10. EventsInOrder'
    BY <1>5, OrderIs
  <1>11. /\ Story(phase', journal, messages', pending', todo', batch', dangling', twice')
         /\ Asks(journal, asked') /\ journal = journal' \o Messages(events')
    <2>1. journal \o << >> = journal
      BY <1>3
    <2>2. QED BY <1>1, <1>2, <1>3, <1>4, <1>5, <2>1
  <1>12. QED BY <1>7, <1>8, <1>9, <1>10, <1>11, NextInv

(* Cancel keeps the invariant.                                             *)
LEMMA CancelKeeps == ASSUME SessionInv, Cancel PROVE SessionInv'
  <1>1. UNCHANGED <<phase, stop, todo, batch, memoryVars, diskVars, events, flight, bounds>> /\ cancelled' = TRUE
    BY DEF Cancel
  <1>2. SessionTypeOK'
    BY <1>1, InvParts DEF SessionTypeOK, memoryVars, diskVars, bounds
  <1>3. QED BY <1>1, <1>2, NothingMoves DEF memoryVars, diskVars, bounds

(* Close keeps the invariant.                                              *)
LEMMA CloseKeeps == ASSUME SessionInv, Close PROVE SessionInv'
  <1>1. /\ phase = "ending" /\ events = << >> /\ ~Busy(phase) /\ phase # "down"
        /\ runState' = Finished(runState, TerminalStatus) /\ phase' = "idle" /\ cancelled' = FALSE /\ stop' = "none"
        /\ UNCHANGED <<todo, batch, messages, pending, journal, netError, events, flight,
                       asked, dangling, twice, raises>>
    BY DEF Close, At, Busy, memoryVars, bounds
  <1>2. /\ todo = << >> /\ batch = << >>
        /\ journal \in Seq(Message) /\ messages \in Seq(Message)
        /\ Story(phase, journal, messages, pending, << >>, batch, dangling, twice)
        /\ Asks(journal, asked)
    BY <1>1, AtIs
  <1>3. Story("idle", journal, messages, pending, << >>, << >>, dangling, twice)
    <2>1. ~Busy("idle") /\ phase # "idle"
      BY <1>1 DEF Busy
    <2>2. QED BY <1>1, <1>2, <2>1, StoryMoves
  <1>4. TerminalStatus \in {"completed", "failed", "cancelled", "paused"}
        /\ (TerminalStatus = "failed" => stop = "error")
    BY DEF TerminalStatus
  <1>5. /\ runState \in RunRecord /\ runState.status \in Live /\ SessionTypeOK /\ RequestKept /\ RunIsLive
        /\ ActiveUnanswered
    BY <1>1, InvParts DEF RunIsLive, SessionTypeOK
  <1>6. /\ runState' \in RunRecord /\ runState'.status = TerminalStatus /\ runState'.active = NoCall
    <2>1. \A s \in {"completed", "failed", "cancelled", "paused"} :
              /\ Finished(runState, s) \in RunRecord
              /\ runState.status \in Live => Finished(runState, s).status = s /\ Finished(runState, s).active = NoCall
      BY <1>5 DEF Finished, RunRecord, Live, Terminal, Allowed
    <2>2. QED BY <1>1, <1>4, <1>5, <2>1
  <1>7. SessionTypeOK'
    BY <1>1, <1>5, <1>6 DEF SessionTypeOK, Phase
  <1>8. ActiveUnanswered' /\ RunIsLive'
    BY <1>1, <1>4, <1>6 DEF ActiveUnanswered, RunIsLive, Live
  <1>9. RequestKept'
    BY <1>1, <1>4, <1>5, <1>6 DEF RequestKept, MayResend, InRound
  <1>10. RepairsUnderWay'
    <2> SUFFICES ASSUME dangling = 0 PROVE Messages(events') = Repairs(DropIncompleteRound(journal))
      BY <1>1 DEF RepairsUnderWay
    <2>1. Story(phase, journal, messages, pending, << >>, batch, 0, twice)
      BY <1>2
    <2>2. Repairs(DropIncompleteRound(journal)) = << >>
      BY <1>1, <1>2, <2>1, StoryEnds
    <2>3. QED BY <1>1, <2>2, MessagesEmpty
  <1>11. EventsInOrder' /\ Messages(events') = << >>
    <2>1. Messages(events') = << >> /\ Orderly(events', phase', batch', runState'.active)
      BY <1>1, EndEvents
    <2>2. QED BY <2>1, OrderIs
  <1>12. /\ Story(phase', journal, messages', pending', todo', batch', dangling', twice')
         /\ Asks(journal, asked') /\ journal = journal' \o Messages(events')
    <2>1. journal \o << >> = journal
      BY <1>2
    <2>2. QED BY <1>1, <1>2, <1>3, <1>11, <2>1
  <1>13. QED BY <1>7, <1>8, <1>9, <1>10, <1>11, <1>12, NextInv

(* Crash keeps the invariant.                                              *)
LEMMA CrashKeeps == ASSUME SessionInv, Crash PROVE SessionInv'
  <1>1. /\ phase # "down" /\ phase' = "down" /\ stop' = "none" /\ cancelled' = FALSE
        /\ todo' = << >> /\ batch' = << >> /\ events' = << >> /\ messages' = << >> /\ pending' = NoMessages
        /\ flight' = [c \in Call |-> "none"] /\ dangling' = 0
        /\ UNCHANGED <<journal, netError, asked, twice, raises>>
        /\ runState' = runState \/ runState' = Finished(runState, "cancelled")
    BY DEF Crash
  <1>2. /\ SessionTypeOK /\ StoryNow /\ Asks(Written, asked) /\ ActiveUnanswered /\ RunIsLive
        /\ runState \in RunRecord /\ raises \in 0 .. MaxRaises /\ MaxRaises \in Nat
    BY InvParts, SessionAssumption DEF SessionTypeOK
  <1>3. journal \in Seq(Message) /\ Messages(events) \in Seq(Message)
    BY <1>2, WrittenIs
  <1>4. Story("down", journal, << >>, NoMessages, << >>, << >>, 0, twice)
    <2>1. Story(phase, journal \o Messages(events), messages, pending, todo, batch, dangling, twice)
      BY <1>2 DEF StoryNow, Written
    <2>2. QED BY <1>3, <2>1, StoryCrash
  <1>5. Asks(journal, asked)
    <2>1. /\ Len(journal) \in Nat /\ Len(Written) = Len(journal) + Len(Messages(events)) /\ Len(Messages(events)) \in Nat
          /\ \A i \in 1 .. Len(journal) : Written[i] = journal[i]
      BY <1>3, ConcatIs DEF Written
    <2>2. DOMAIN journal = 1 .. Len(journal) /\ DOMAIN Written = 1 .. Len(Written)
      BY <1>2, <1>3, WrittenIs
    <2>3. \A i \in DOMAIN journal : i \in DOMAIN Written
      BY <2>1, <2>2
    <2>4. QED BY <1>2, <2>1, <2>2, <2>3 DEF Asks
  <1>6. /\ runState' \in RunRecord /\ runState'.active \in {runState.active, NoCall}
        /\ runState'.active # NoCall => runState'.status \in Live
    <2>1. /\ Finished(runState, "cancelled") \in RunRecord
          /\ runState.status \in Live => Finished(runState, "cancelled").active = NoCall
          /\ Finished(runState, "cancelled").active \in {runState.active, NoCall}
      BY <1>2 DEF Finished, RunRecord, Live, Terminal, Allowed
    <2>2. QED BY <1>1, <1>2, <2>1 DEF RunIsLive
  <1>7. SessionTypeOK'
    <2>1. << >> \in Seq(Message) /\ << >> \in Seq(Event) /\ << >> \in Seq(Call) /\ 0 \in 0 .. raises
      BY <1>2
    <2>2. QED BY <1>1, <1>2, <1>6, <2>1 DEF SessionTypeOK, Phase
  <1>8. ActiveUnanswered'
    BY <1>1, <1>2, <1>6 DEF ActiveUnanswered
  <1>9. RunIsLive' /\ RepairsUnderWay' /\ RequestKept'
    BY <1>1, <1>6 DEF RunIsLive, RepairsUnderWay, RequestKept, MayResend, InRound
  <1>10. EventsInOrder'
    BY <1>1 DEF EventsInOrder
  <1>11. journal = journal' \o Messages(events')
    <2>1. journal \o << >> = journal
      BY <1>3
    <2>2. QED BY <1>1, <2>1, MessagesEmpty
  <1>12. Story(phase', journal, messages', pending', todo', batch', dangling', twice') /\ Asks(journal, asked')
    BY <1>1, <1>4, <1>5
  <1>13. QED BY <1>7, <1>8, <1>9, <1>10, <1>11, <1>12, NextInv

(* Restart keeps the invariant.                                            *)
LEMMA RestartKeeps == ASSUME SessionInv, Restart PROVE SessionInv'
  <1> DEFINE add == Repairs(DropIncompleteRound(journal))
  <1>1. /\ phase = "down" /\ phase' = "idle" /\ runState' = Recovered(runState) /\ messages' = Recover(journal)
        /\ events' = [i \in DOMAIN add |-> MessageEv(add[i])] /\ ~Busy(phase)
        /\ UNCHANGED <<stop, todo, batch, cancelled, pending, journal, netError, flight,
                       asked, dangling, twice, raises>>
    BY DEF Restart, bounds, Busy
  <1>2. /\ SessionTypeOK /\ ActiveUnanswered /\ RunIsLive /\ RequestKept
        /\ runState \in RunRecord /\ events = << >> /\ pending = NoMessages
    BY <1>1, InvParts DEF SessionTypeOK, EventsInOrder, RequestKept
  <1>3. /\ journal \in Seq(Message)
        /\ Story("down", journal, messages, NoMessages, todo, batch, dangling, twice) /\ Asks(journal, asked)
    BY <1>1, <1>2, AtIs
  <1>4. /\ add \in Seq(Message) /\ Recover(journal) \in Seq(Message)
        /\ Story("idle", journal \o add, Recover(journal), NoMessages, todo, batch, dangling, twice)
    BY <1>3, StoryRestart
  <1>5. \A x \in 1 .. Len(add) : add[x].calls = << >>
    <2>1. Tidy(journal)
      BY <1>3 DEF Story
    <2>2. QED BY <1>3, <2>1, Restarted
  <1> HIDE DEF add
  <1>6. Asks(journal \o add, asked)
    BY <1>3, <1>4, <1>5, AsksPlain
  <1>7. /\ runState' \in RunRecord /\ runState'.status \notin Live /\ runState'.active = NoCall
    <2>1. /\ Recovered(runState) \in RunRecord /\ Recovered(runState).status \notin Live
          /\ Recovered(runState).active \in {runState.active, NoCall}
          /\ runState.status \in Live => Recovered(runState).active = NoCall
      BY <1>2 DEF Recovered, RunRecord, Live, Terminal
    <2>2. runState.status \notin Live => Recovered(runState).active = NoCall
      BY <1>2, <2>1 DEF RunIsLive
    <2>3. QED BY <1>1, <2>1, <2>2
  <1>8. events' \in Seq(Event) /\ Messages(events') = add /\ Orderly(events', "idle", batch', NoCall)
    BY <1>1, <1>4, RepairsOrderly
  <1>9. SessionTypeOK'
    BY <1>1, <1>2, <1>4, <1>7, <1>8 DEF SessionTypeOK, Phase
  <1>10. ActiveUnanswered' /\ RequestKept'
    BY <1>1, <1>2, <1>7 DEF ActiveUnanswered, RequestKept
  <1>11. RunIsLive'
    BY <1>1, <1>7 DEF RunIsLive, Live
  <1>12. RepairsUnderWay'
    BY <1>1, <1>8 DEF RepairsUnderWay, add
  <1>13. EventsInOrder'
    BY <1>1, <1>7, <1>8, OrderIs
  <1>14. /\ Story(phase', journal \o add, messages', pending', todo', batch', dangling', twice')
         /\ Asks(journal \o add, asked') /\ journal \o add = journal' \o Messages(events')
    BY <1>1, <1>2, <1>4, <1>6, <1>8
  <1>15. QED BY <1>9, <1>10, <1>11, <1>12, <1>13, <1>14, NextInv

(* The run state after an event. *)
LEMMA ConsumeRun ==
  ASSUME SessionInv, Consume
  PROVE  LET e == Head(events) IN
         /\ e \in Event /\ runState' \in RunRecord
         /\ runState.status \in Live => runState'.status \in Live
         /\ runState.status \notin Live => runState' = runState
         /\ e.type # "run_finished" /\ runState.status # "finalizing" => runState'.status # "finalizing"
         /\ e.type \notin {"tool_started", "tool_finished"} => runState'.active = runState.active
         /\ e.type = "tool_started" => e.about \in Call /\ runState'.active \in {runState.active, e.about}
         /\ e.type = "tool_finished" =>
              /\ runState'.active \in {runState.active, NoCall}
              /\ runState.status \in Live \ {"finalizing"} => runState'.active = NoCall
         /\ e.type = "message" => e.about \in Message /\ runState' = runState
  <1> DEFINE e == Head(events)
  <1>1. /\ events # << >> /\ events \in Seq(Event) /\ runState \in RunRecord
    BY InvParts DEF Consume, SessionTypeOK
  <1>2. e \in Event
    BY <1>1, MessagesHead
  <1>3. runState' = CASE e.type = "turn_started"  -> Transition(runState, "waiting_model")
            [] e.type = "tool_started"  -> ToolStarted(runState, e.about)
            [] e.type = "tool_finished" -> ToolFinished(runState, e.about)
            [] e.type = "run_finished"  -> Transition(runState, "finalizing")
            [] OTHER                    -> runState
    BY DEF Consume
  <1> HIDE DEF e
  <1>4. /\ e.type \in {"message", "tool_started", "tool_finished", "turn_started", "run_finished"}
        /\ e.type = "message" => e.about \in Message
        /\ e.type \in {"tool_started", "tool_finished"} => e.about \in Call
    BY <1>2 DEF Event
  <1>5. CASE e.type = "message"
    BY <1>1, <1>2, <1>3, <1>4, <1>5 DEF e
  <1>6. CASE e.type \in {"turn_started", "run_finished"}
    <2>1. \A s \in {"waiting_model", "finalizing"} :
            /\ Transition(runState, s) \in RunRecord /\ Transition(runState, s).active = runState.active
            /\ runState.status \in Live => Transition(runState, s).status \in Live
            /\ runState.status \notin Live => Transition(runState, s) = runState
            /\ runState.status # "finalizing" => Transition(runState, "waiting_model").status # "finalizing"
      BY <1>1 DEF RunRecord, Live, Terminal, Allowed, Transition
    <2>2. QED BY <1>2, <1>3, <1>6, <2>1 DEF e
  <1>7. CASE e.type = "tool_started"
    <2>1. /\ ToolStarted(runState, e.about) \in RunRecord
          /\ ToolStarted(runState, e.about).active \in {runState.active, e.about}
          /\ runState.status \in Live => ToolStarted(runState, e.about).status \in Live
          /\ runState.status \notin Live => ToolStarted(runState, e.about) = runState
          /\ runState.status # "finalizing" => ToolStarted(runState, e.about).status # "finalizing"
      <3>1. runState \in RunRecord /\ e.about \in Call
        BY <1>1, <1>4, <1>7
      <3>2. QED BY <3>1, RunSteps
    <2>2. QED BY <1>2, <1>3, <1>4, <1>7, <2>1 DEF e
  <1>8. CASE e.type = "tool_finished"
    <2>1. /\ ToolFinished(runState, e.about) \in RunRecord
          /\ ToolFinished(runState, e.about).active \in {runState.active, NoCall}
          /\ runState.status \in Live => ToolFinished(runState, e.about).status \in Live
          /\ runState.status \notin Live => ToolFinished(runState, e.about) = runState
          /\ runState.status \in Live \ {"finalizing"} => ToolFinished(runState, e.about).active = NoCall
          /\ runState.status # "finalizing" => ToolFinished(runState, e.about).status # "finalizing"
      <3>1. runState \in RunRecord /\ e.about \in Call
        BY <1>1, <1>4, <1>8
      <3>2. QED BY <3>1, RunSteps
    <2>2. QED BY <1>2, <1>3, <1>8, <2>1 DEF e
  <1>9. QED BY <1>4, <1>5, <1>6, <1>7, <1>8

(* Consume keeps the invariant.                                            *)
LEMMA ConsumeKeeps == ASSUME SessionInv, Consume PROVE SessionInv'
  <1> DEFINE e == Head(events)
  <1>1. /\ events # << >> /\ phase # "down" /\ events' = Tail(events)
        /\ journal' = IF e.type = "message" THEN Append(journal, e.about) ELSE journal
        /\ UNCHANGED <<phase, stop, todo, batch, cancelled, messages, pending, netError, flight,
                       asked, dangling, twice, raises>>
    BY DEF Consume, loopVars, memoryVars, bounds
  <1>2. /\ SessionTypeOK /\ StoryNow /\ Asks(Written, asked)
        /\ ActiveUnanswered /\ RepairsUnderWay /\ EventsInOrder /\ RunIsLive /\ RequestKept
    BY InvParts
  <1>3. /\ e \in Event /\ runState' \in RunRecord
        /\ runState.status \in Live => runState'.status \in Live
        /\ runState.status \notin Live => runState' = runState
        /\ e.type # "run_finished" /\ runState.status # "finalizing" => runState'.status # "finalizing"
        /\ e.type \notin {"tool_started", "tool_finished"} => runState'.active = runState.active
        /\ e.type = "tool_started" => e.about \in Call /\ runState'.active \in {runState.active, e.about}
        /\ e.type = "tool_finished" =>
             /\ runState'.active \in {runState.active, NoCall}
             /\ runState.status \in Live \ {"finalizing"} => runState'.active = NoCall
        /\ e.type = "message" => e.about \in Message /\ runState' = runState
    BY ConsumeRun
  <1>4. /\ events \in Seq(Event) /\ journal \in Seq(Message) /\ runState \in RunRecord
        /\ Written \in Seq(Message) /\ Messages(events) \in Seq(Message)
    BY <1>2, WrittenIs DEF SessionTypeOK
  <1>5. /\ Len(events) \in Nat /\ Len(events) >= 1 /\ DOMAIN events = 1 .. Len(events)
        /\ Len(events') = Len(events) - 1 /\ DOMAIN events' = 1 .. Len(events) - 1
        /\ \A k \in 1 .. Len(events) - 1 : k + 1 \in 1 .. Len(events) /\ events'[k] = events[k + 1]
        /\ events[1] = e /\ events' \in Seq(Event)
    <2>1. Len(events) \in Nat /\ DOMAIN events = 1 .. Len(events) /\ Len(events) # 0
      BY <1>1, <1>4, EmptySeq
    <2>2. /\ events' \in Seq(Event) /\ Len(events') = Len(events) - 1
          /\ \A k \in 1 .. Len(events) - 1 : events'[k] = events[k + 1]
      BY <1>1, <1>4, HeadTailProperties
    <2>3. DOMAIN events' = 1 .. Len(events) - 1
      BY <2>2
    <2>4. events[1] = e
      BY <1>1, <1>4, HeadTailProperties
    <2>5. QED BY <2>1, <2>2, <2>3, <2>4
  <1> HIDE DEF e
  <1>6. /\ Messages(events) = Said(e) \o Messages(events') /\ Messages(events') \in Seq(Message)
    <2>1. Messages(events) = Said(e) \o Messages(Tail(events))
      BY <1>1, <1>4, MessagesHead DEF e
    <2>2. QED BY <1>1, <1>5, <2>1, SaidSeq
  <1>7. Written = journal' \o Messages(events')
    <2>1. CASE e.type = "message"
      <3>1. Said(e) = <<e.about>> /\ e.about \in Message /\ journal' = journal \o <<e.about>>
        <4>1. e.about \in Message
          BY <1>3, <2>1
        <4>2. Append(journal, e.about) = journal \o <<e.about>>
          BY <1>4, <4>1, AppendIs
        <4>3. QED BY <1>1, <2>1, <4>1, <4>2 DEF Said
      <3>2. (journal \o <<e.about>>) \o Messages(events') = journal \o (<<e.about>> \o Messages(events'))
        BY <1>4, <1>6, <3>1
      <3>3. QED BY <1>6, <3>1, <3>2 DEF Written
    <2>2. CASE e.type # "message"
      <3>1. << >> \o Messages(events') = Messages(events') /\ Said(e) = << >>
        BY <1>6, <2>2 DEF Said
      <3>2. QED BY <1>1, <1>6, <2>2, <3>1 DEF Written
    <2>3. QED BY <2>1, <2>2
  <1>8. SessionTypeOK'
    <2>1. journal' \in Seq(Message)
      BY <1>1, <1>3, <1>4, AppendIs
    <2>2. QED BY <1>1, <1>2, <1>3, <1>5, <2>1 DEF SessionTypeOK
  <1>9. EventsInOrder'
    <2>1. Orderly(events, phase, batch, runState.active)
      BY <1>2, OrderIs
    <2>2. SUFFICES ASSUME NEW k \in 1 .. Len(events) - 1
          PROVE  /\ events'[k].type = "run_finished" => phase = "ending" /\ k = Len(events')
                 /\ phase = "gather" <=> events'[k].type = "tool_started"
                 /\ events'[k].type = "tool_started" => events'[k].about \in ToSet(batch)
                 /\ ~(events'[k].type = "message" /\ events'[k].about.role = "tool" /\ runState'.active # NoCall)
      BY <1>1, <1>5, OrderIs DEF Orderly
    <2>3. k + 1 \in DOMAIN events /\ events'[k] = events[k + 1]
      BY <1>5, <2>2
    <2>4. events[k + 1].type = "run_finished" => k = Len(events')
      <3>1. events[k + 1].type = "run_finished" => k + 1 = Len(events)
        BY <2>1, <2>3 DEF Orderly
      <3>2. Len(events) \in Nat /\ Len(events') = Len(events) - 1
        BY <1>5
      <3>3. k + 1 = Len(events) => k = Len(events) - 1
        BY <3>2
      <3>4. QED BY <3>1, <3>2, <3>3
    <2>5. ASSUME events[k + 1].type = "message", events[k + 1].about.role = "tool", runState'.active # NoCall
          PROVE  FALSE
      <3>1. phase # "gather"
        BY <2>1, <2>3, <2>5 DEF Orderly
      <3>2. 1 \in DOMAIN events
        BY <1>5
      <3>3. e.type # "tool_started"
        BY <1>5, <2>1, <3>1, <3>2 DEF Orderly
      <3>4. runState.active # NoCall
        BY <1>3, <2>5, <3>3
      <3>5. e.type = "tool_finished"
        BY <1>5, <2>1, <2>3, <2>5, <3>4 DEF Orderly
      <3>6. runState.status \in Live \ {"finalizing"}
        BY <1>1, <1>2, <3>4 DEF RunIsLive
      <3>7. QED BY <1>3, <2>5, <3>5, <3>6
    <2>6. QED BY <2>1, <2>3, <2>4, <2>5 DEF Orderly
  <1>10. RunIsLive'
    <2>1. phase' \notin {"down", "idle"} => runState'.status \in Live
      BY <1>1, <1>2, <1>3 DEF RunIsLive
    <2>2. runState'.status = "finalizing" => phase' = "ending" /\ events' = << >>
      <3> SUFFICES ASSUME runState'.status = "finalizing" PROVE phase' = "ending" /\ events' = << >>
        OBVIOUS
      <3>1. e.type = "run_finished"
        BY <1>1, <1>2, <1>3 DEF RunIsLive
      <3>2. phase = "ending" /\ 1 = Len(events)
        <4>1. 1 \in DOMAIN events
          BY <1>5
        <4>2. QED BY <1>2, <1>5, <3>1, <4>1 DEF EventsInOrder
      <3>3. Len(events') = 0
        <4>1. Len(events') = Len(events) - 1
          BY <1>5
        <4>2. QED BY <3>2, <4>1
      <3>4. events' = << >>
        BY <1>5, <3>3, EmptySeq
      <3>5. QED BY <1>1, <3>2, <3>4
    <2>3. runState'.active # NoCall => runState'.status \in Live
      BY <1>2, <1>3 DEF RunIsLive, ToolStarted, Live
    <2>4. phase' = "idle" => runState'.status \notin Live
      BY <1>1, <1>2, <1>3 DEF RunIsLive
    <2>5. QED BY <2>1, <2>2, <2>3, <2>4 DEF RunIsLive
  <1>11. RequestKept'
    <2>1. phase = "idle" => runState' = runState
      BY <1>2, <1>3 DEF RunIsLive
    <2>2. QED BY <1>1, <1>2, <2>1 DEF RequestKept, MayResend, InRound
  <1>12. ActiveUnanswered'
    <2> SUFFICES ASSUME runState'.active # NoCall PROVE runState'.active \notin Told(journal')
      BY DEF ActiveUnanswered
    <2>1. 1 \in DOMAIN events /\ Orderly(events, phase, batch, runState.active)
      BY <1>2, <1>5, OrderIs
    <2>2. CASE e.type = "tool_started"
      <3>1. phase = "gather" /\ e.about \in ToSet(batch) /\ journal' = journal
        BY <1>1, <1>5, <2>1, <2>2 DEF Orderly
      <3>2. e.about \in ToSet(todo)
        BY <3>1, BatchIs
      <3>3. \A p \in 1 .. Len(Written) : Written[p].call # e.about
        <4>1. Tidy(Written) /\ StoryRound(phase, Written, todo, batch) /\ Busy(phase)
          BY <1>2, <3>1 DEF StoryNow, Story, Busy
        <4>2. \A c \in ToSet(todo) : \A p \in 1 .. Len(Written) : Written[p].call # c
          BY <1>4, <4>1, OpenAtEnd
        <4>3. QED BY <3>2, <4>2
      <3>4. e.about \notin Told(journal)
        <4>1. Told(Written) = Told(journal) \cup Told(Messages(events))
          BY <1>4, ToldConcat DEF Written
        <4>2. DOMAIN Written = 1 .. Len(Written)
          BY <1>4
        <4>3. e.about \notin Told(Written)
          BY <3>3, <4>2 DEF Told
        <4>4. QED BY <4>1, <4>3
      <3>5. QED BY <1>2, <1>3, <2>2, <3>1, <3>4 DEF ActiveUnanswered
    <2>3. CASE e.type = "message"
      <3>1. runState'.active = runState.active /\ e.about \in Message
        BY <1>3, <2>3
      <3>2. Told(journal') = Told(journal) \cup {e.about.call}
        BY <1>1, <1>4, <2>3, <3>1, PlainTold
      <3>3. e.about.role # "tool"
        BY <1>5, <2>1, <2>3, <3>1 DEF Orderly
      <3>4. e.about.call = NoCall
        BY <3>1, <3>3, MessageIs
      <3>5. QED BY <1>2, <3>1, <3>2, <3>4 DEF ActiveUnanswered
    <2>4. CASE e.type \notin {"tool_started", "message"}
      <3>1. runState'.active \in {runState.active, NoCall} /\ journal' = journal
        BY <1>1, <1>3, <2>4
      <3>2. QED BY <1>2, <3>1 DEF ActiveUnanswered
    <2>5. QED BY <2>2, <2>3, <2>4
  <1>13. RepairsUnderWay'
    <2> SUFFICES ASSUME phase = "idle", dangling = 0
                 PROVE  Messages(events') = Repairs(DropIncompleteRound(journal'))
      BY <1>1 DEF RepairsUnderWay
    <2>1. Messages(events) = Repairs(DropIncompleteRound(journal))
      BY <1>2 DEF RepairsUnderWay
    <2>2. CASE e.type = "message"
      <3>1. Messages(events) = <<e.about>> \o Messages(events') /\ e.about \in Message
        BY <1>3, <1>6, <2>2 DEF Said
      <3>2. /\ Messages(events) # << >> /\ Head(Messages(events)) = e.about
            /\ Tail(Messages(events)) = Messages(events')
        BY <1>6, <3>1
      <3>3. Tidy(journal)
        <4>1. Tidy(journal \o Messages(events))
          BY <1>2 DEF StoryNow, Story, Written
        <4>2. QED BY <1>4, <4>1, Started
      <3> DEFINE R == Repairs(DropIncompleteRound(journal))
      <3>4. R # << >> /\ Head(R) = e.about /\ Tail(R) = Messages(events')
        BY <2>1, <3>2
      <3>5. Repairs(DropIncompleteRound(Append(journal, Head(R)))) = Tail(R)
        BY <1>4, <3>3, <3>4, NextRepair
      <3>6. journal' = Append(journal, Head(R))
        BY <1>1, <2>2, <3>4
      <3> HIDE DEF R
      <3>7. QED BY <3>4, <3>5, <3>6
    <2>3. CASE e.type # "message"
      <3>1. << >> \o Messages(events') = Messages(events') /\ Said(e) = << >> /\ journal' = journal
        BY <1>1, <1>6, <2>3 DEF Said
      <3>2. QED BY <1>6, <2>1, <3>1
    <2>4. QED BY <2>2, <2>3
  <1>14. Story(phase', Written, messages', pending', todo', batch', dangling', twice') /\ Asks(Written, asked')
    BY <1>1, <1>2 DEF StoryNow
  <1>15. QED BY <1>7, <1>8, <1>9, <1>10, <1>11, <1>12, <1>13, <1>14, NextInv

-----------------------------------------------------------------------------
(* The theorems about the session.                                         *)

(* The invariant holds at the start.                                       *)
LEMMA SessionStarts == Init => SessionInv
  <1> SUFFICES ASSUME Init PROVE SessionInv
    OBVIOUS
  <1>1. /\ phase = "idle" /\ stop = "none" /\ todo = << >> /\ batch = << >> /\ cancelled = FALSE
        /\ messages = << >> /\ pending = NoMessages /\ journal = << >> /\ runState = NoRun /\ netError = FALSE
        /\ events = << >> /\ asked = {} /\ dangling = 0 /\ twice = FALSE /\ raises = 0
        /\ flight = [c \in Call |-> "none"]
    BY DEF Init
  <1>2. NoRun \in RunRecord /\ NoRun.active = NoCall /\ NoRun.status = "absent"
    BY DEF NoRun, RunRecord
  <1>3. MaxRaises \in Nat
    BY SessionAssumption
  <1>4. SessionTypeOK
    <2>1. << >> \in Seq(Message) /\ << >> \in Seq(Event) /\ << >> \in Seq(Call)
      OBVIOUS
    <2>2. 0 \in 0 .. 0 /\ 0 \in 0 .. MaxRaises
      BY <1>3
    <2>3. QED BY <1>1, <1>2, <2>1, <2>2 DEF SessionTypeOK, Phase
  <1>5. Written = << >>
    BY <1>1, <1>4, WrittenIs
  <1> DEFINE e == << >>
  <1>6. DOMAIN e = {} /\ Open(e) = {} /\ e \in Seq(Message)
    BY DEF Open
  <1>7. Tidy(e) /\ OneHole(e)
    BY <1>6 DEF Tidy, AskedOnce, AnsweredOnce, Follows, OneHole, InRounds
  <1> HIDE DEF e
  <1>8. Story("idle", e, e, NoMessages, << >>, << >>, 0, FALSE)
    BY <1>6, <1>7 DEF Story, StoryRound, StoryMemory, StoryTold, StoryOpen, Busy
  <1>9. StoryNow /\ Asks(Written, asked)
    BY <1>1, <1>5, <1>6, <1>8 DEF StoryNow, Asks, e
  <1>10. RepairsUnderWay
    <2>1. Repairs(DropIncompleteRound(e)) = << >>
      BY <1>6, <1>7, NoRepairs DEF Tidy
    <2>2. QED BY <1>1, <2>1, MessagesEmpty DEF RepairsUnderWay, e
  <1>11. ActiveUnanswered /\ EventsInOrder /\ RunIsLive /\ RequestKept
    BY <1>1, <1>2 DEF ActiveUnanswered, EventsInOrder, RunIsLive, RequestKept, MayResend, InRound, Live
  <1>12. QED BY <1>4, <1>9, <1>10, <1>11, InvOfParts

(* Every step keeps it.                                                    *)
LEMMA SessionKeeps == SessionInv /\ [Next]_vars => SessionInv'
  <1> SUFFICES ASSUME SessionInv, [Next]_vars PROVE SessionInv'
    OBVIOUS
  <1>1. CASE Prompt
    BY <1>1, PromptKeeps
  <1>2. CASE Retry
    BY <1>2, RetryKeeps
  <1>3. CASE Turn
    BY <1>3, TurnKeeps
  <1>4. CASE NoReply
    BY <1>4, NoReplyKeeps
  <1>5. CASE ReplyFinal
    BY <1>5, ReplyFinalKeeps
  <1>6. CASE \E cs \in Batches : ReplyCalls(cs)
    BY <1>6, ReplyCallsKeeps
  <1>7. CASE StartBatch
    BY <1>7, StartBatchKeeps
  <1>8. CASE ToolStep \/ CallStep
    BY <1>8, CallKeeps DEF ToolStep, CallStep
  <1>9. CASE BatchDone
    BY <1>9, BatchDoneKeeps
  <1>10. CASE BatchCancelled
    BY <1>10, BatchCancelledKeeps
  <1>11. CASE BatchTimeout
    BY <1>11, BatchTimeoutKeeps
  <1>12. CASE BatchRaises
    BY <1>12, BatchRaisesKeeps
  <1>13. CASE EndTurn
    BY <1>13, EndTurnKeeps
  <1>14. CASE Consume
    BY <1>14, ConsumeKeeps
  <1>15. CASE Close
    BY <1>15, CloseKeeps
  <1>16. CASE Cancel
    BY <1>16, CancelKeeps
  <1>17. CASE Crash
    BY <1>17, CrashKeeps
  <1>18. CASE Restart
    BY <1>18, RestartKeeps
  <1>19. CASE UNCHANGED vars
    <2>1. SessionTypeOK'
      BY <1>19, InvParts DEF SessionTypeOK, vars, loopVars, memoryVars, diskVars, bounds
    <2>2. QED BY <1>19, <2>1, NothingMoves DEF vars, loopVars, memoryVars, diskVars, bounds
  <1>20. QED
    BY <1>1, <1>2, <1>3, <1>4, <1>5, <1>6, <1>7, <1>8, <1>9, <1>10, <1>11, <1>12, <1>13, <1>14,
       <1>15, <1>16, <1>17, <1>18, <1>19 DEF Next, LoopStep

(* The invariant holds throughout, for any calls and bounds: each call     *)
(* has one result, run-state.json names no call that was answered, the     *)
(* request kept for retry_network is current, and memory and journal tell  *)
(* the same story at every step of the loop, the consumer and a restart.   *)
THEOREM SessionInvariant == Spec => []SessionInv
  <1>1. QED BY SessionStarts, SessionKeeps, PTL DEF Spec

(* A request is the written conversation, every round of it closed, or     *)
(* that without its only open round.                                       *)
LEMMA ValidMemory ==
  ASSUME SessionInv PROVE RequestStaysWellFormed
  <1> SUFFICES ASSUME phase = "waiting", dangling = 0, ~twice PROVE WellFormed(messages)
    BY DEF RequestStaysWellFormed
  <1>1. SessionTypeOK /\ StoryNow /\ Written \in Seq(Message)
    BY InvParts, WrittenIs
  <1> DEFINE w == Written
  <1>2. Story(phase, w, messages, pending, todo, batch, dangling, twice) /\ w \in Seq(Message)
    BY <1>1 DEF StoryNow
  <1> HIDE DEF w
  <1>3. todo = << >> /\ phase # "down"
    BY <1>2 DEF Story, StoryRound, Busy
  <1>4. /\ ~twice => \A i, k \in Open(w) : ~(i < k)
        /\ \/ messages = w /\ (dangling = 0 => Open(w) = {})
           \/ \E i \in Open(w) :
                /\ \A k \in Open(w) : i <= k
                /\ messages = LeaveOut(w, i)
                /\ phase # "idle" \/ pending # NoMessages => RoundEnd(w, i) < Len(w)
    BY <1>2, <1>3, AllClosed
  <1>5. Tidy(w) /\ InRounds(w) /\ AskedOnce(w) /\ AnsweredOnce(w)
    BY <1>2 DEF Story, StoryOpen, OneHole, Tidy
  <1>6. CASE messages = w /\ Open(w) = {}
    BY <1>2, <1>5, <1>6, ValidWhenClosed
  <1>7. CASE \E i \in Open(w) : (\A k \in Open(w) : i <= k) /\ messages = LeaveOut(w, i)
    <2>1. PICK i \in Open(w) : (\A k \in Open(w) : i <= k) /\ messages = LeaveOut(w, i)
      BY <1>7
    <2>2. Open(w) \subseteq {i}
      <3> SUFFICES ASSUME NEW k \in Open(w) PROVE k = i
        OBVIOUS
      <3>1. i \in 1 .. Len(w) /\ k \in 1 .. Len(w)
        BY <1>2, OpenIs
      <3>2. i <= k /\ ~(i < k)
        BY <1>4, <2>1
      <3>3. QED BY <3>1, <3>2
    <2>3. WellFormed(LeaveOut(w, i))
      BY <1>2, <1>5, <2>2, ValidWithout
    <2>4. QED BY <2>1, <2>3
  <1>8. QED BY <1>4, <1>6, <1>7

(* A restart leaves out the only open round.                               *)
LEMMA ValidJournal ==
  ASSUME SessionInv PROVE JournalRecoverable
  <1> SUFFICES ASSUME ~twice PROVE WellFormed(Recover(journal))
    BY DEF JournalRecoverable
  <1>1. /\ SessionTypeOK /\ StoryNow /\ journal \in Seq(Message) /\ Messages(events) \in Seq(Message)
    BY InvParts, WrittenIs
  <1> DEFINE w == journal
             add == Repairs(DropIncompleteRound(w))
             all == w \o add
  <1>2. Tidy(w) /\ OneHole(w)
    <2>1. Tidy(w \o Messages(events)) /\ OneHole(w \o Messages(events))
      BY <1>1 DEF StoryNow, Story, StoryOpen, Written
    <2>2. QED BY <1>1, <2>1, Started
  <1>3. /\ add \in Seq(Message)
        /\ Tidy(all)
        /\ \/ Open(w) = {} /\ all = w /\ Recover(w) = w
           \/ \E i \in Open(w) : i \in Open(all) /\ Recover(w) = LeaveOut(all, i)
        /\ InRounds(all) /\ \A i, k \in Open(all) : i = k
    BY <1>1, <1>2, Restarted
  <1>4. all \in Seq(Message)
    BY <1>1, <1>3, ConcatIs
  <1> HIDE DEF add, all
  <1>5. CASE Open(w) = {} /\ all = w /\ Recover(w) = w
    <2>1. AskedOnce(w) /\ AnsweredOnce(w) /\ InRounds(w)
      BY <1>2 DEF Tidy, OneHole
    <2>2. QED BY <1>1, <1>5, <2>1, ValidWhenClosed
  <1>6. CASE \E i \in Open(w) : i \in Open(all) /\ Recover(w) = LeaveOut(all, i)
    <2>1. PICK i \in Open(all) : Recover(w) = LeaveOut(all, i)
      BY <1>6
    <2>2. Open(all) \subseteq {i}
      BY <1>3
    <2>3. WellFormed(LeaveOut(all, i))
      BY <1>3, <1>4, <2>2, ValidWithout
    <2>4. QED BY <2>1, <2>3
  <1>7. QED BY <1>3, <1>5, <1>6

(* The round memory lacks is the one a restart would drop.                 *)
LEMMA SameMemory ==
  ASSUME SessionInv PROVE RestartTransparent
  <1> SUFFICES ASSUME phase = "idle", dangling = 0 PROVE messages = Recover(journal)
    BY DEF RestartTransparent
  <1>1. /\ SessionTypeOK /\ StoryNow /\ RepairsUnderWay
        /\ journal \in Seq(Message) /\ Messages(events) \in Seq(Message) /\ Written \in Seq(Message)
    BY InvParts, WrittenIs
  <1> DEFINE w == journal
             add == Repairs(DropIncompleteRound(w))
             all == w \o add
  <1>2. Written = all
    BY <1>1 DEF RepairsUnderWay, Written
  <1>3. Tidy(w)
    <2>1. Tidy(w \o Messages(events))
      BY <1>1 DEF StoryNow, Story, Written
    <2>2. QED BY <1>1, <2>1, Started
  <1>4. /\ Open(all) \subseteq Open(w)
        /\ \/ Open(w) = {} /\ all = w /\ Recover(w) = w
           \/ \E i \in Open(w) :
                (\A j \in Open(w) : i <= j) /\ i \in Open(all) /\ Recover(w) = LeaveOut(all, i)
    BY <1>1, <1>3, Restarted
  <1> HIDE DEF add, all
  <1>5. \/ messages = all /\ Open(all) = {}
        \/ \E i \in Open(all) : (\A k \in Open(all) : i <= k) /\ messages = LeaveOut(all, i)
    <2>1. StoryMemory(phase, Written, messages, pending, dangling)
      BY <1>1 DEF StoryNow, Story
    <2>2. QED BY <1>2, <2>1 DEF StoryMemory, Busy
  <1>6. CASE messages = all /\ Open(all) = {}
    BY <1>4, <1>6
  <1>7. CASE \E i \in Open(all) : (\A k \in Open(all) : i <= k) /\ messages = LeaveOut(all, i)
    <2>1. PICK i \in Open(all) : (\A k \in Open(all) : i <= k) /\ messages = LeaveOut(all, i)
      BY <1>7
    <2>2. PICK h \in Open(w) : (\A j \in Open(w) : h <= j) /\ h \in Open(all) /\ Recover(w) = LeaveOut(all, h)
      BY <1>4, <2>1
    <2>3. i \in 1 .. Len(all) /\ h \in 1 .. Len(all)
      BY <1>1, <1>2, <2>1, <2>2, OpenIs
    <2>4. i <= h /\ h <= i
      BY <1>4, <2>1, <2>2
    <2>5. i = h
      BY <2>3, <2>4
    <2>6. QED BY <2>1, <2>2, <2>5
  <1>8. QED BY <1>5, <1>6, <1>7

(* Every request is a conversation the chat APIs accept, after any         *)
(* cancellations, pauses, deaths and restarts, as long as no exception of  *)
(* the executor has ended a run since the last start, or left a second     *)
(* open round in the journal before.                                       *)
THEOREM RequestsStayValid == Spec => []RequestStaysWellFormed
  <1>1. QED BY SessionInvariant, ValidMemory, PTL

(* Whatever the moment the process dies, a restart makes such a            *)
(* conversation of the journal, with the same exception.                   *)
THEOREM JournalStaysRecoverable == Spec => []JournalRecoverable
  <1>1. QED BY SessionInvariant, ValidJournal, PTL

(* Between runs memory is what a restart would make of the journal.        *)
THEOREM RestartIsTransparent == Spec => []RestartTransparent
  <1>1. QED BY SessionInvariant, SameMemory, PTL
=============================================================================
