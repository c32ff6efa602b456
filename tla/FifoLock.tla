------------------------------ MODULE FifoLock ------------------------------
(***************************************************************************)
(* What the keyed locks promise: every key has one fair lock that is       *)
(* always there.  Nothing is said of how locks are made or dropped.        *)
(* KeyedLock implements it.                                                *)
(***************************************************************************)
EXTENDS SequencesExt

CONSTANTS Task, Key, NoTask

VARIABLES
  holder,   \* who is inside, per key
  line      \* who waits, per key, first come first

Init ==
  /\ holder = [k \in Key |-> NoTask]
  /\ line = [k \in Key |-> << >>]

(* A newcomer takes a lock that is free and that nobody waits for. *)
Request(t, k) ==
  \/ /\ holder[k] = NoTask /\ line[k] = << >>
     /\ holder' = [holder EXCEPT ![k] = t]
     /\ UNCHANGED line
  \/ /\ holder[k] # NoTask \/ line[k] # << >>
     /\ line' = [line EXCEPT ![k] = Append(@, t)]
     /\ UNCHANGED holder

Grant(k) ==
  /\ holder[k] = NoTask /\ line[k] # << >>
  /\ holder' = [holder EXCEPT ![k] = Head(line[k])]
  /\ line' = [line EXCEPT ![k] = Tail(@)]

Release(k) ==
  /\ holder[k] # NoTask
  /\ holder' = [holder EXCEPT ![k] = NoTask]
  /\ UNCHANGED line

GiveUp(k) ==
  /\ \E i \in DOMAIN line[k] : line' = [line EXCEPT ![k] = RemoveAt(@, i)]
  /\ UNCHANGED holder

(* Locks live as long as the process: the next one finds all of them free. *)
Restart ==
  /\ holder' = [k \in Key |-> NoTask]
  /\ line' = [k \in Key |-> << >>]

Next ==
  \/ \E k \in Key :
       (\E t \in Task : Request(t, k)) \/ Grant(k) \/ Release(k) \/ GiveUp(k)
  \/ Restart

Spec == Init /\ [][Next]_<<holder, line>>
=============================================================================
