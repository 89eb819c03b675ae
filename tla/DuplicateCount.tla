--------------------------- MODULE DuplicateCount ---------------------------
(***************************************************************************)
(* SnowflakeIdGenerator.main: the parallel stream that counts repeated     *)
(* identifiers.  A worker of the stream looks an identifier up with        *)
(* computeIfPresent, which is atomic, and then puts it with putIfAbsent,   *)
(* which is atomic too; the pair is not.                                   *)
(***************************************************************************)
EXTENDS Integers, FiniteSets

CONSTANTS Futures,     \* the submitted calls of nextId()
          Ids,         \* identifiers they may answer with
          Workers      \* threads of the common pool that run the stream

ASSUME StreamAssumption == IsFiniteSet(Futures) /\ Workers \in Nat \ {0}

VARIABLES idOf,        \* the answer of each future
          id2Count,    \* 0: the key is absent
          counter,
          stage        \* how far the stream is with each future

streamVars == <<idOf, id2Count, counter, stage>>

StreamInit == /\ idOf \in [Futures -> Ids]
        /\ id2Count = [i \in Ids |-> 0]
        /\ counter = 0
        /\ stage = [f \in Futures |-> "queued"]

Running == {f \in Futures : stage[f] \in {"get", "put"}}

Take(f) == /\ stage[f] = "queued"
           /\ Cardinality(Running) < Workers
           /\ stage' = [stage EXCEPT ![f] = "get"]
           /\ UNCHANGED <<idOf, id2Count, counter>>

\* Mutant: only the first repeat of an identifier is counted.
CountFirst(f) ==
  LET i == idOf[f]
  IN /\ stage[f] = "get"
     /\ stage' = [stage EXCEPT ![f] = "put"]
     /\ counter' = IF id2Count[i] = 1 THEN counter + 1 ELSE counter
     /\ id2Count' = IF id2Count[i] > 0 THEN [id2Count EXCEPT ![i] = @ + 1] ELSE id2Count
     /\ UNCHANGED idOf

\* id2Count.computeIfPresent(id, ..): only a key that is there is counted.
ComputeIfPresent(f) ==
  LET i == idOf[f]
      present == id2Count[i] > 0
  IN /\ stage[f] = "get"
     /\ stage' = [stage EXCEPT ![f] = "put"]
     /\ counter' = IF present THEN counter + 1 ELSE counter
     /\ id2Count' = IF present THEN [id2Count EXCEPT ![i] = @ + 1] ELSE id2Count
     /\ UNCHANGED idOf

\* Mutant: the key is counted once more when it was there already.
PutCounts(f) == /\ stage[f] = "put"
                /\ stage' = [stage EXCEPT ![f] = "done"]
                /\ id2Count' = [id2Count EXCEPT ![idOf[f]] = IF @ = 0 THEN 1 ELSE @]
                /\ counter' = IF id2Count[idOf[f]] > 0 THEN counter + 1 ELSE counter
                /\ UNCHANGED idOf

PutIfAbsent(f) == /\ stage[f] = "put"
                  /\ stage' = [stage EXCEPT ![f] = "done"]
                  /\ id2Count' = [id2Count EXCEPT ![idOf[f]] = IF @ = 0 THEN 1 ELSE @]
                  /\ UNCHANGED <<idOf, counter>>

StreamNext == \E f \in Futures : Take(f) \/ ComputeIfPresent(f) \/ PutIfAbsent(f)

StreamSpec == StreamInit /\ [][StreamNext]_streamVars
-----------------------------------------------------------------------------
Looked == {f \in Futures : stage[f] \in {"put", "done"}}
Answers(S) == {idOf[f] : f \in S}
Repeats(S) == Cardinality(S) - Cardinality(Answers(S))

\* The total that main prints never exceeds the number of repeated identifiers
\* among the futures looked at.
NeverOverCounts == counter <= Repeats(Looked)

\* It may miss some: workers that look the same new identifier up at once.  Each
\* identifier is missed by at most as many workers as there are besides the one
\* that puts it, so that one worker alone counts exactly.
MissesBounded ==
  counter >= Repeats(Looked) - (Workers - 1) * Cardinality(Answers(Looked))
=============================================================================
