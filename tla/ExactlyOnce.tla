----------------------------- MODULE ExactlyOnce -----------------------------
(***************************************************************************)
(* What a program promises that reads records, answers them and notes how  *)
(* far it has read, all in transactions: in one step it moves on over some *)
(* records of some partitions and answers those among them that it does    *)
(* not leave out.  Nobody ever sees an answer without the offset behind    *)
(* its record or the offset without the answer, and so no record is        *)
(* answered twice.                                                         *)
(***************************************************************************)
EXTENDS Integers

CONSTANTS Partitions, Offsets

VARIABLES done,           \* how far the records of each partition are dealt with
          replies         \* how often each record has been answered
vars == <<done, replies>>

Init == /\ done = [p \in Partitions |-> 0]
        /\ replies = [p \in Partitions |-> [o \in Offsets |-> 0]]

\* The records from a to b, b excluded.
Span(a, b) == a..(b - 1)

Advance(to, answered) ==
  /\ \A p \in Partitions : to[p] >= done[p] /\ answered[p] \subseteq Span(done[p], to[p])
  /\ done' = to
  /\ replies' = [p \in Partitions |-> [o \in Offsets |->
                   IF o \in answered[p] THEN replies[p][o] + 1 ELSE replies[p][o]]]

Next == \E to \in [Partitions -> Offsets], answered \in [Partitions -> SUBSET Offsets] :
          Advance(to, answered)

Spec == Init /\ [][Next]_vars
=============================================================================
