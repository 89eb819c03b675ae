------------------------ MODULE KafkaTransactionProofs ------------------------
(***************************************************************************)
(* KafkaTransaction for any number of programs, partitions, records and    *)
(* restarts: its types, what a committed offset says of the records below  *)
(* it, and that it implements ExactlyOnce.                                 *)
(***************************************************************************)
EXTENDS KafkaTransaction, TLAPS

Reading == {"begin", "batch", "offsets"}

\* The batch in hand lies between next and position.
Windows ==
  \A c \in Programs, p \in Partitions :
    /\ next[c][p] <= position[c][p]
    /\ next[c][p] = None => position[c][p] = None
    /\ pc[c] = "init" => next[c][p] = None
    /\ pc[c] \in Reading => currentOffsets[c][p] <= next[c][p]

LEMMA TypeInit == Init => TypeOK
<1> SUFFICES ASSUME Init PROVE TypeOK
  OBVIOUS
<1>1. 0 \in Offsets /\ 0 \in 0..StopAfter /\ 0 \in 0..MaxRestarts /\ 0 \in 0..MaxRefusals
  BY BoundsAssumption DEF Offsets
<1>2. NoOffsets \in OffsetMap /\ NoRecords \in RecordSets
  BY DEF NoOffsets, OffsetMap, NoRecords, RecordSets
<1>3. [o \in Offsets |-> 0] \in [Offsets -> 0..2]
  OBVIOUS
<1>4. hasty \in BOOLEAN /\ replies \in [Partitions -> [Offsets -> 0..2]]
  BY <1>3 DEF Init
<1>5. unfenced \subseteq Programs /\ decided \subseteq Programs
  BY DEF Init
<1> QED BY <1>1, <1>2, <1>4, <1>5 DEF Init, TypeOK

\* Steps that only move a program on.
LEMMA TypeMove ==
  ASSUME TypeOK, NEW c \in Programs,
         BeginTransaction(c) \/ OffsetsRefused(c) \/ SendFails(c) \/ CommitTransaction(c)
         \/ Stop(c)
  PROVE  TypeOK'
  BY BoundsAssumption DEF TypeOK, BeginTransaction, OffsetsRefused, SendFails,
     CommitTransaction, Stop, Goto, broker, transaction, client, history

LEMMA TypeBroker ==
  ASSUME TypeOK, NEW c \in Programs, InitTransactions(c) \/ TimeOut(c) \/ SendOffsets(c)
  PROVE  TypeOK'
<1>1. NoOffsets \in OffsetMap /\ NoRecords \in RecordSets
  BY DEF NoOffsets, OffsetMap, NoRecords, RecordSets
<1>2. CASE InitTransactions(c)
  BY <1>1, <1>2 DEF TypeOK, InitTransactions, Goto, broker, client, history
<1>3. CASE TimeOut(c)
  BY <1>1, <1>3 DEF TypeOK, TimeOut, Drop, broker, client, history
<1>4. CASE SendOffsets(c)
  BY <1>4 DEF TypeOK, SendOffsets, Goto, broker, client, history
<1> QED BY <1>2, <1>3, <1>4

LEMMA TypeAssigned ==
  ASSUME TypeOK, NEW c \in Programs, NEW S \in SUBSET Partitions, Assigned(c, S)
  PROVE  TypeOK'
<1> DEFINE start == [p \in Partitions |-> IF p \in S THEN Start(p) ELSE None]
<1>1. start \in OffsetMap
  BY DEF TypeOK, OffsetMap, Start
<1>2. hasty' \in BOOLEAN
  BY Zenon DEF Assigned
<1>3. passedOver' \in RecordSets
  <2> SUFFICES ASSUME NEW p \in Partitions
               PROVE  Below(logEnd[p]) \subseteq Offsets
    BY DEF TypeOK, RecordSets, Assigned
  <2>1. logEnd[p] \in 0..MaxLog
    BY DEF TypeOK, Offsets
  <2> QED BY <2>1, BoundsAssumption DEF Below, Offsets
<1>4. /\ position' = [position EXCEPT ![c] = start]
      /\ next' = [next EXCEPT ![c] = start]
      /\ pc' = [pc EXCEPT ![c] = "poll"]
      /\ UNCHANGED <<logEnd, committed, replies, decided, unfenced, sent, unsent, offered,
                     currentOffsets, empty, restarts, refusals, missed>>
  BY DEF Assigned, Goto, broker, transaction
<1> HIDE DEF start
<1> QED BY <1>1, <1>2, <1>3, <1>4 DEF TypeOK

LEMMA TypePoll ==
  ASSUME TypeOK, NEW c \in Programs, NEW n \in [Partitions -> 0..MaxPoll], Poll(c, n)
  PROVE  TypeOK'
<1> DEFINE reached == [p \in Partitions |-> position[c][p] + n[p]]
<1>1. reached \in OffsetMap
  <2> SUFFICES ASSUME NEW p \in Partitions
               PROVE  position[c][p] + n[p] \in Offsets \cup {None}
    BY DEF OffsetMap
  <2>1. position[c][p] \in Offsets \cup {None} /\ n[p] \in Nat /\ logEnd[p] \in Offsets
    BY BoundsAssumption DEF TypeOK, OffsetMap
  <2>2. n[p] > 0 => position[c][p] # None /\ position[c][p] + n[p] <= logEnd[p]
    BY DEF Poll
  <2> QED BY <2>1, <2>2, BoundsAssumption DEF Offsets, None
<1>2. /\ position' = [position EXCEPT ![c] = reached]
      /\ currentOffsets' = [currentOffsets EXCEPT ![c] = NoOffsets]
      /\ pc' = [pc EXCEPT ![c] = "begin"]
      /\ empty' = [empty EXCEPT ![c] = 0]
      /\ UNCHANGED <<logEnd, committed, replies, decided, unfenced, sent, unsent, offered,
                     next, restarts, refusals, passedOver, missed, hasty>>
  BY DEF TypeOK, OffsetMap, Poll, Goto, broker, transaction, history
<1>3. NoOffsets \in OffsetMap /\ 0 \in 0..StopAfter
  BY BoundsAssumption DEF NoOffsets, OffsetMap
<1> HIDE DEF reached
<1> QED BY <1>1, <1>2, <1>3 DEF TypeOK

LEMMA TypePollEmpty ==
  ASSUME TypeOK, NEW c \in Programs, PollEmpty(c)
  PROVE  TypeOK'
<1>1. NoOffsets \in OffsetMap
  BY DEF NoOffsets, OffsetMap
<1> QED BY <1>1, BoundsAssumption DEF TypeOK, PollEmpty, Goto, broker, transaction, history

LEMMA TypeRestart ==
  ASSUME TypeOK, NEW c \in Programs, Restart(c)
  PROVE  TypeOK'
<1>1. NoOffsets \in OffsetMap /\ 0 \in 0..StopAfter
  BY BoundsAssumption DEF NoOffsets, OffsetMap
<1> QED BY <1>1, BoundsAssumption DEF TypeOK, Restart, broker, transaction, history

\* The record that is sent is one of the log.
LEMMA SentRecord ==
  ASSUME TypeOK, Windows, NEW c \in Programs, NEW p \in Partitions, Note(c, p)
  PROVE  /\ next[c][p] \in Offsets /\ After(next[c][p]) \in Offsets
         /\ After(next[c][p]) = next[c][p] + 1
<1>1. next[c][p] \in Offsets \cup {None} /\ position[c][p] \in Offsets \cup {None}
  BY DEF TypeOK, OffsetMap
<1>2. next[c][p] < position[c][p] /\ (next[c][p] = None => position[c][p] = None)
  BY DEF Note, Windows
<1> QED BY <1>1, <1>2, BoundsAssumption DEF Offsets, None, After

LEMMA TypeSend ==
  ASSUME TypeOK, Windows, NEW c \in Programs, NEW p \in Partitions,
         Send(c, p) \/ SendRefused(c, p)
  PROVE  TypeOK'
<1>1. /\ next[c][p] \in Offsets /\ After(next[c][p]) \in Offsets
      /\ After(next[c][p]) = next[c][p] + 1
  BY SentRecord DEF Send, SendRefused
<1>2. /\ pc' = [pc EXCEPT ![c] = "offsets"]
      /\ next' = [next EXCEPT ![c][p] = @ + 1]
      /\ currentOffsets' = [currentOffsets EXCEPT ![c][p] = After(next[c][p])]
      /\ UNCHANGED <<logEnd, committed, replies, decided, unfenced, offered, position,
                     empty, restarts, passedOver, missed, hasty>>
  BY DEF Send, SendRefused, Note, Goto, broker, history
<1>3. next' \in [Programs -> OffsetMap] /\ currentOffsets' \in [Programs -> OffsetMap]
  BY <1>1, <1>2 DEF TypeOK, OffsetMap
<1>4. sent' \in [Programs -> RecordSets] /\ unsent' \in [Programs -> RecordSets]
  <2>1. /\ [sent EXCEPT ![c][p] = @ \cup {next[c][p]}] \in [Programs -> RecordSets]
        /\ [unsent EXCEPT ![c][p] = @ \cup {next[c][p]}] \in [Programs -> RecordSets]
    BY <1>1 DEF TypeOK, RecordSets
  <2> QED BY <2>1 DEF TypeOK, Send, SendRefused
<1>5. refusals' \in 0..MaxRefusals
  BY BoundsAssumption DEF TypeOK, Send, SendRefused
<1> QED BY <1>2, <1>3, <1>4, <1>5 DEF TypeOK

LEMMA TypeComplete ==
  ASSUME TypeOK, NEW c \in Programs, Complete(c)
  PROVE  TypeOK'
<1>1. NoOffsets \in OffsetMap /\ NoRecords \in RecordSets
  BY DEF NoOffsets, OffsetMap, NoRecords, RecordSets
<1>2. committed' \in OffsetMap
  BY DEF TypeOK, Complete, Merge, OffsetMap
<1>3. replies' \in [Partitions -> [Offsets -> 0..2]]
  BY DEF TypeOK, Complete
<1>4. /\ sent' = [sent EXCEPT ![c] = NoRecords]
      /\ unsent' = [unsent EXCEPT ![c] = NoRecords]
      /\ offered' = [offered EXCEPT ![c] = NoOffsets]
      /\ decided' = decided \ {c}
      /\ UNCHANGED <<logEnd, unfenced, pc, position, next, currentOffsets, empty,
                     restarts, refusals, passedOver, hasty>>
  BY DEF Complete, Drop, client
<1>5. missed' \in RecordSets
  BY DEF TypeOK, Complete, RecordSets
<1> QED BY <1>1, <1>2, <1>3, <1>4, <1>5 DEF TypeOK

LEMMA TypeAbort ==
  ASSUME TypeOK, Windows, NEW c \in Programs, AbortTransaction(c)
  PROVE  TypeOK'
<1>1. NoOffsets \in OffsetMap /\ NoRecords \in RecordSets
  BY DEF NoOffsets, OffsetMap, NoRecords, RecordSets
<1>2. CASE c \notin unfenced
  BY <1>2 DEF TypeOK, AbortTransaction, Goto, broker, transaction, client, history
<1>3. CASE c \in unfenced
  <2>1. passedOver' \in RecordSets
    <3>1. ASSUME NEW p \in Partitions, next[c][p] # None
          PROVE  next[c][p]..(position[c][p] - 1) \subseteq Offsets
      <4>1. next[c][p] \in Offsets /\ position[c][p] \in Offsets \cup {None}
        BY <3>1 DEF TypeOK, OffsetMap
      <4> QED BY <4>1, BoundsAssumption DEF Offsets, None
    <3>2. \A p \in Partitions : /\ passedOver[p] \subseteq Offsets
                               /\ sent[c][p] \subseteq Offsets
                               /\ unsent[c][p] \subseteq Offsets
      BY DEF TypeOK, RecordSets
    <3>3. passedOver' = [p \in Partitions |->
                           passedOver[p] \cup sent[c][p] \cup unsent[c][p]
                             \cup (IF next[c][p] = None THEN {}
                                   ELSE next[c][p]..(position[c][p] - 1))]
      BY <1>3 DEF AbortTransaction
    <3> QED BY <3>1, <3>2, <3>3 DEF RecordSets
  <2>2. /\ pc' = [pc EXCEPT ![c] = "poll"]
        /\ next' = [next EXCEPT ![c] = position[c]]
        /\ sent' = [sent EXCEPT ![c] = NoRecords]
        /\ unsent' = [unsent EXCEPT ![c] = NoRecords]
        /\ offered' = [offered EXCEPT ![c] = NoOffsets]
        /\ UNCHANGED <<logEnd, committed, replies, decided, unfenced, position,
                       currentOffsets, empty, restarts, refusals, missed, hasty>>
    BY <1>3 DEF AbortTransaction, Goto, Drop, broker
  <2> QED BY <1>1, <2>1, <2>2 DEF TypeOK
<1> QED BY <1>2, <1>3

LEMMA TypeStep ==
  ASSUME TypeOK, Windows, [Next]_vars
  PROVE  TypeOK'
<1>1. CASE UNCHANGED vars
  BY <1>1 DEF TypeOK, vars, broker, transaction, client, history
<1>2. ASSUME NEW p \in Partitions, Produce(p)
      PROVE  TypeOK'
  BY <1>2, BoundsAssumption DEF TypeOK, Produce, Offsets, broker, transaction, client,
     history
<1>3. ASSUME NEW c \in Programs, Step(c)
      PROVE  TypeOK'
  BY <1>3, TypeMove, TypeBroker, TypeAssigned, TypePoll, TypePollEmpty, TypeRestart,
     TypeSend, TypeComplete, TypeAbort DEF Step
<1> QED BY <1>1, <1>2, <1>3 DEF Next
-----------------------------------------------------------------------------
Covered(p) == Answered(p) \cup passedOver[p] \cup missed[p]
InHand(c, p) == sent[c][p] \cup unsent[c][p]

\* Below what a listened-to program reads next, and below what any transaction will
\* commit, every record has been dealt with, or is by that transaction: it will be
\* answered, or missed, with it.
ReadCovered ==
  \A c \in unfenced, p \in Partitions :
    Below(next[c][p]) \subseteq Covered(p) \cup InHand(c, p)
OfferCovered ==
  \A c \in Programs, p \in Partitions :
    Below(offered[c][p]) \subseteq Covered(p) \cup InHand(c, p)

LossInv == TypeOK /\ Windows /\ ReadCovered /\ OfferCovered /\ LossExplained

LEMMA LossInit == Init => LossInv
<1> SUFFICES ASSUME Init PROVE LossInv
  OBVIOUS
<1>1. TypeOK
  BY TypeInit
<1>2. \A c \in Programs, p \in Partitions :
         /\ next[c][p] = None /\ position[c][p] = None /\ currentOffsets[c][p] = None
         /\ offered[c][p] = None /\ committed[p] = None
  BY DEF Init, NoOffsets
<1>3. Windows
  BY <1>2 DEF Windows, None
<1>4. Below(None) = {}
  BY DEF Below, None
<1>5. ReadCovered /\ OfferCovered
  BY <1>2, <1>4 DEF ReadCovered, OfferCovered, Init
<1>6. LossExplained
  BY <1>4 DEF LossExplained, Init, NoOffsets
<1> QED BY <1>1, <1>3, <1>5, <1>6 DEF LossInv

LEMMA OffsetInt ==
  ASSUME NEW o \in Offsets \cup {None}
  PROVE  o \in Int /\ o >= -1 /\ (o # None => o >= 0 /\ o <= MaxLog /\ o \in Offsets)
BY BoundsAssumption DEF Offsets, None

\* Steps that keep the batch, the log and the replies as they are and move the
\* program on; a program that is no longer listened to may be among them.
Quiet(c, to) ==
  /\ pc' = [pc EXCEPT ![c] = to]
  /\ to # "init"
  /\ to \in Reading => pc[c] \in Reading
  /\ unfenced' \subseteq unfenced
  /\ UNCHANGED <<committed, replies, sent, unsent, next, position, currentOffsets,
                 passedOver, missed>>
  /\ offered' = offered

LEMMA LossQuiet ==
  ASSUME LossInv, TypeOK', NEW c \in Programs, NEW to, Quiet(c, to)
  PROVE  LossInv'
<1>1. Windows'
  BY DEF LossInv, TypeOK, Windows, Quiet
<1>2. ReadCovered' /\ OfferCovered' /\ LossExplained'
  BY Zenon DEF LossInv, ReadCovered, OfferCovered, LossExplained, Covered, InHand,
     Answered, Quiet
<1> QED BY <1>1, <1>2 DEF LossInv

LEMMA QuietSteps ==
  ASSUME NEW c \in Programs,
         BeginTransaction(c) \/ OffsetsRefused(c) \/ SendFails(c) \/ CommitTransaction(c)
         \/ Stop(c)
  PROVE  \E to : Quiet(c, to)
<1>1. CASE BeginTransaction(c)
  BY <1>1 DEF Quiet, BeginTransaction, Goto, Reading, broker, transaction, client, history
<1>2. CASE OffsetsRefused(c)
  BY <1>2 DEF Quiet, OffsetsRefused, Goto, Reading, broker, transaction, client, history
<1>3. CASE SendFails(c)
  BY <1>3 DEF Quiet, SendFails, Goto, Reading, broker, transaction, client, history
<1>4. CASE CommitTransaction(c)
  BY <1>4 DEF Quiet, CommitTransaction, Goto, Reading, broker, transaction, client, history
<1>5. CASE Stop(c)
  BY <1>5 DEF Quiet, Stop, Goto, Reading, broker, transaction, client, history
<1> QED BY <1>1, <1>2, <1>3, <1>4, <1>5

LEMMA NothingBelowNone == Below(None) = {}
BY DEF Below, None

LEMMA LossInitTransactions ==
  ASSUME LossInv, TypeOK', NEW c \in Programs, InitTransactions(c)
  PROVE  LossInv'
<1>1. /\ pc[c] = "init" /\ pc' = [pc EXCEPT ![c] = "poll"] /\ unfenced' = {c}
      /\ sent' = [d \in Programs |-> NoRecords]
      /\ offered' = [d \in Programs |-> NoOffsets]
      /\ UNCHANGED <<committed, replies, next, position, currentOffsets, passedOver,
                     missed>>
  BY DEF InitTransactions, Goto, broker, client, history
<1>2. Windows'
  BY <1>1 DEF LossInv, TypeOK, Windows, Reading
<1>3. ReadCovered'
  BY <1>1, NothingBelowNone DEF LossInv, Windows, ReadCovered
<1>4. OfferCovered'
  BY <1>1, NothingBelowNone DEF OfferCovered, NoOffsets
<1>5. LossExplained'
  BY <1>1 DEF LossInv, LossExplained, Answered
<1> QED BY <1>2, <1>3, <1>4, <1>5 DEF LossInv

LEMMA LossAssigned ==
  ASSUME LossInv, TypeOK', NEW c \in Programs, NEW S \in SUBSET Partitions, Assigned(c, S)
  PROVE  LossInv'
<1> DEFINE start == [p \in Partitions |-> IF p \in S THEN Start(p) ELSE None]
<1>1. /\ pc[c] = "poll" /\ pc' = [pc EXCEPT ![c] = "poll"]
      /\ position' = [position EXCEPT ![c] = start]
      /\ next' = [next EXCEPT ![c] = start]
      /\ UNCHANGED <<committed, replies, unfenced, sent, unsent, offered, currentOffsets,
                     logEnd, missed>>
  BY DEF Assigned, Goto, broker, transaction
<1>2. \A p \in Partitions :
        /\ Covered(p) \subseteq Covered(p)'
        /\ p \in S /\ committed[p] = None => Below(logEnd[p]) \subseteq Covered(p)'
  BY <1>1 DEF Assigned, Covered, Answered
<1>3. next' \in [Programs -> OffsetMap]
  BY DEF TypeOK
<1>4. Windows'
  <2> SUFFICES ASSUME NEW d \in Programs, NEW p \in Partitions
               PROVE  /\ next'[d][p] <= position'[d][p]
                      /\ next'[d][p] = None => position'[d][p] = None
                      /\ pc'[d] = "init" => next'[d][p] = None
                      /\ pc'[d] \in Reading => currentOffsets'[d][p] <= next'[d][p]
    BY DEF Windows
  <2>1. CASE d = c
    <3>1. next'[d] = position'[d] /\ pc'[d] = "poll"
      BY <1>1, <2>1 DEF LossInv, TypeOK
    <3>2. next'[d][p] \in Offsets \cup {None}
      BY <1>3 DEF OffsetMap
    <3> QED BY <3>1, <3>2, OffsetInt DEF Reading
  <2>2. CASE d # c
    BY <1>1, <2>2 DEF LossInv, TypeOK, Windows
  <2> QED BY <2>1, <2>2
<1>5. ReadCovered'
  <2> SUFFICES ASSUME NEW d \in unfenced, NEW p \in Partitions
               PROVE  Below(next'[d][p]) \subseteq Covered(p)' \cup InHand(d, p)'
    BY <1>1 DEF ReadCovered
  <2>1. CASE d = c
    <3>1. next'[d][p] = IF p \in S THEN Start(p) ELSE None
      BY <1>1, <2>1 DEF LossInv, TypeOK
    <3>2. CASE p \notin S
      BY <3>1, <3>2, NothingBelowNone
    <3>3. CASE p \in S /\ committed[p] = None
      BY <3>1, <3>3, <1>2 DEF Start
    <3>4. CASE p \in S /\ committed[p] # None
      BY <3>1, <3>4, <1>2 DEF Start, LossInv, LossExplained, Covered
    <3> QED BY <3>2, <3>3, <3>4
  <2>2. CASE d # c
    <3>1. next'[d] = next[d]
      BY <1>1, <2>2 DEF LossInv, TypeOK
    <3> QED BY <3>1, <1>1, <1>2 DEF LossInv, ReadCovered, InHand
  <2> QED BY <2>1, <2>2
<1>6. OfferCovered'
  BY <1>1, <1>2 DEF LossInv, OfferCovered, InHand
<1>7. LossExplained'
  BY <1>1, <1>2 DEF LossInv, LossExplained, Covered
<1> QED BY <1>4, <1>5, <1>6, <1>7 DEF LossInv

LEMMA LossPoll ==
  ASSUME LossInv, TypeOK', NEW c \in Programs, NEW n \in [Partitions -> 0..MaxPoll], Poll(c, n)
  PROVE  LossInv'
<1>1. /\ pc' = [pc EXCEPT ![c] = "begin"]
      /\ position' = [position EXCEPT ![c] = [p \in Partitions |-> position[c][p] + n[p]]]
      /\ currentOffsets' = [currentOffsets EXCEPT ![c] = NoOffsets]
      /\ UNCHANGED <<committed, replies, unfenced, sent, unsent, offered, next,
                     passedOver, missed>>
  BY DEF LossInv, TypeOK, Poll, Goto, broker, transaction, history
<1>2. Windows'
  <2> SUFFICES ASSUME NEW d \in Programs, NEW p \in Partitions
               PROVE  /\ next[d][p] <= position'[d][p]
                      /\ next[d][p] = None => position'[d][p] = None
                      /\ pc'[d] = "init" => next[d][p] = None
                      /\ pc'[d] \in Reading => currentOffsets'[d][p] <= next[d][p]
    BY <1>1 DEF Windows
  <2>1. /\ next[d][p] \in Offsets \cup {None} /\ position[d][p] \in Offsets \cup {None}
        /\ n[p] \in Nat
    BY BoundsAssumption DEF LossInv, TypeOK, OffsetMap
  <2>2. /\ next[d][p] <= position[d][p]
        /\ next[d][p] = None => position[d][p] = None
    BY DEF LossInv, Windows
  <2>3. CASE d = c
    <3>1. /\ pc'[d] = "begin" /\ currentOffsets'[d][p] = None
          /\ position'[d][p] = position[d][p] + n[p]
      BY <1>1, <2>3 DEF LossInv, TypeOK, NoOffsets
    <3>2. n[p] > 0 => position[d][p] # None
      BY <2>3 DEF Poll
    <3> QED BY <2>1, <2>2, <3>1, <3>2, OffsetInt DEF None
  <2>4. CASE d # c
    BY <1>1, <2>4 DEF LossInv, TypeOK, Windows
  <2> QED BY <2>3, <2>4
<1>3. ReadCovered' /\ OfferCovered' /\ LossExplained'
  BY <1>1, Zenon DEF LossInv, ReadCovered, OfferCovered, LossExplained, Covered, InHand,
     Answered
<1> QED BY <1>2, <1>3 DEF LossInv

LEMMA LossPollEmpty ==
  ASSUME LossInv, TypeOK', NEW c \in Programs, PollEmpty(c)
  PROVE  LossInv'
<1>1. /\ pc' = [pc EXCEPT ![c] = "poll"] /\ pc[c] = "poll"
      /\ currentOffsets' = [currentOffsets EXCEPT ![c] = NoOffsets]
      /\ UNCHANGED <<committed, replies, unfenced, sent, unsent, offered, next, position,
                     passedOver, missed>>
  BY DEF PollEmpty, Goto, broker, transaction, history
<1>2. Windows'
  BY <1>1 DEF LossInv, TypeOK, Windows, Reading
<1>3. ReadCovered' /\ OfferCovered' /\ LossExplained'
  BY <1>1, Zenon DEF LossInv, ReadCovered, OfferCovered, LossExplained, Covered, InHand,
     Answered
<1> QED BY <1>2, <1>3 DEF LossInv

LEMMA LossRestart ==
  ASSUME LossInv, TypeOK', NEW c \in Programs, Restart(c)
  PROVE  LossInv'
<1>1. /\ pc' = [pc EXCEPT ![c] = "init"]
      /\ position' = [position EXCEPT ![c] = NoOffsets]
      /\ next' = [next EXCEPT ![c] = NoOffsets]
      /\ currentOffsets' = [currentOffsets EXCEPT ![c] = NoOffsets]
      /\ UNCHANGED <<committed, replies, unfenced, sent, unsent, offered, passedOver,
                     missed>>
  BY DEF Restart, broker, transaction, history
<1>2. Windows'
  BY <1>1 DEF LossInv, TypeOK, Windows, Reading, NoOffsets, None
<1>3. ReadCovered'
  BY <1>1, NothingBelowNone DEF LossInv, TypeOK, ReadCovered, Covered, InHand, Answered,
     NoOffsets
<1>4. OfferCovered' /\ LossExplained'
  BY <1>1, Zenon DEF LossInv, OfferCovered, LossExplained, Covered, InHand, Answered
<1> QED BY <1>2, <1>3, <1>4 DEF LossInv

\* The record at hand is sent or refused, and the next one is the one behind it.
LEMMA Noted ==
  ASSUME TypeOK, Windows, NEW c \in Programs, NEW q \in Partitions,
         Send(c, q) \/ SendRefused(c, q)
  PROVE  /\ next[c][q] \in Offsets /\ next[c][q] < position[c][q]
         /\ pc[c] = "batch" /\ pc' = [pc EXCEPT ![c] = "offsets"]
         /\ next' = [next EXCEPT ![c][q] = next[c][q] + 1]
         /\ currentOffsets' = [currentOffsets EXCEPT ![c][q] = next[c][q] + 1]
         /\ UNCHANGED <<committed, replies, decided, unfenced, offered, position,
                        passedOver, missed, hasty>>
<1>1. Note(c, q)
  BY DEF Send, SendRefused
<1>2. next[c][q] \in Offsets /\ After(next[c][q]) = next[c][q] + 1
  BY <1>1, SentRecord
<1> QED BY <1>1, <1>2 DEF TypeOK, OffsetMap, Note, Goto, broker, history

LEMMA TakenInHand ==
  ASSUME TypeOK, NEW c \in Programs, NEW q \in Partitions,
         Send(c, q) \/ SendRefused(c, q), NEW d \in Programs, NEW p \in Partitions
  PROVE  InHand(d, p)' = IF d = c /\ p = q /\ c \in unfenced
                         THEN InHand(d, p) \cup {next[d][p]} ELSE InHand(d, p)
<1>1. CASE UNCHANGED <<sent, unsent>> /\ c \notin unfenced
  BY <1>1 DEF InHand
<1>2. CASE /\ c \in unfenced
           /\ sent' = [sent EXCEPT ![c][q] = @ \cup {next[c][q]}] /\ unsent' = unsent
  <2>1. sent'[d][p] = IF d = c /\ p = q THEN sent[d][p] \cup {next[d][p]} ELSE sent[d][p]
    BY <1>2 DEF TypeOK, RecordSets
  <2> QED BY <1>2, <2>1 DEF InHand
<1>3. CASE /\ c \in unfenced
           /\ unsent' = [unsent EXCEPT ![c][q] = @ \cup {next[c][q]}] /\ sent' = sent
  <2>1. unsent'[d][p] = IF d = c /\ p = q THEN unsent[d][p] \cup {next[d][p]}
                        ELSE unsent[d][p]
    BY <1>3 DEF TypeOK, RecordSets
  <2> QED BY <1>3, <2>1 DEF InHand
<1> QED BY <1>1, <1>2, <1>3 DEF Send, SendRefused

LEMMA LossSend ==
  ASSUME LossInv, TypeOK', NEW c \in Programs, NEW q \in Partitions,
         Send(c, q) \/ SendRefused(c, q)
  PROVE  LossInv'
<1>1. TypeOK /\ Windows
  BY DEF LossInv
<1>2. /\ next[c][q] \in Offsets /\ pc[c] = "batch" /\ next[c][q] < position[c][q]
      /\ pc' = [pc EXCEPT ![c] = "offsets"]
      /\ next' = [next EXCEPT ![c][q] = next[c][q] + 1]
      /\ currentOffsets' = [currentOffsets EXCEPT ![c][q] = next[c][q] + 1]
      /\ UNCHANGED <<committed, replies, unfenced, offered, position, passedOver, missed>>
  BY <1>1, Noted
<1>3. \A d \in Programs, p \in Partitions :
        /\ next'[d][p] = IF d = c /\ p = q THEN next[d][p] + 1 ELSE next[d][p]
        /\ currentOffsets'[d][p] = IF d = c /\ p = q THEN next[d][p] + 1
                                   ELSE currentOffsets[d][p]
        /\ InHand(d, p)' = IF d = c /\ p = q /\ c \in unfenced
                           THEN InHand(d, p) \cup {next[d][p]} ELSE InHand(d, p)
  <2> SUFFICES ASSUME NEW d \in Programs, NEW p \in Partitions
               PROVE  /\ next'[d][p] = IF d = c /\ p = q THEN next[d][p] + 1 ELSE next[d][p]
                      /\ currentOffsets'[d][p] = IF d = c /\ p = q THEN next[d][p] + 1
                                                 ELSE currentOffsets[d][p]
    BY <1>1, TakenInHand
  <2> QED BY <1>2 DEF LossInv, TypeOK, OffsetMap
<1>4. Windows'
  <2> SUFFICES ASSUME NEW d \in Programs, NEW p \in Partitions
               PROVE  /\ next'[d][p] <= position[d][p]
                      /\ next'[d][p] = None => position[d][p] = None
                      /\ pc'[d] = "init" => next'[d][p] = None
                      /\ pc'[d] \in Reading => currentOffsets'[d][p] <= next'[d][p]
    BY <1>2 DEF Windows
  <2>1. /\ next[d][p] \in Offsets \cup {None} /\ position[d][p] \in Offsets \cup {None}
        /\ currentOffsets[d][p] \in Offsets \cup {None}
    BY DEF LossInv, TypeOK, OffsetMap
  <2>2. /\ next[d][p] <= position[d][p]
        /\ next[d][p] = None => position[d][p] = None
        /\ pc[d] = "init" => next[d][p] = None
        /\ pc[d] \in Reading => currentOffsets[d][p] <= next[d][p]
    BY DEF LossInv, Windows
  <2>3. CASE d = c /\ p = q
    <3>1. next'[d][p] = next[d][p] + 1 /\ currentOffsets'[d][p] = next[d][p] + 1
      BY <1>3, <2>3
    <3>2. pc'[d] = "offsets"
      BY <1>2, <2>3 DEF LossInv, TypeOK
    <3>3. next[d][p] \in Nat /\ position[d][p] \in Int /\ next[d][p] < position[d][p]
      BY <1>2, <2>1, <2>3, OffsetInt, BoundsAssumption DEF Offsets
    <3> QED BY <3>1, <3>2, <3>3 DEF None
  <2>4. CASE d # c \/ p # q
    BY <1>2, <1>3, <2>2, <2>4 DEF Reading, LossInv, TypeOK
  <2> QED BY <2>3, <2>4
<1>5. ReadCovered'
  <2> SUFFICES ASSUME NEW d \in unfenced, NEW p \in Partitions
               PROVE  Below(next'[d][p]) \subseteq Covered(p)' \cup InHand(d, p)'
    BY <1>2 DEF ReadCovered
  <2>1. Below(next[d][p]) \subseteq Covered(p) \cup InHand(d, p) /\ Covered(p)' = Covered(p)
    BY <1>2 DEF LossInv, ReadCovered, Covered, Answered
  <2>2. CASE d = c /\ p = q
    <3>1. Below(next[d][p] + 1) \subseteq Below(next[d][p]) \cup {next[d][p]}
      BY <1>2, <2>2, BoundsAssumption DEF Below, Offsets
    <3>2. next'[d][p] = next[d][p] + 1 /\ InHand(d, p)' = InHand(d, p) \cup {next[d][p]}
      BY <1>2, <1>3, <2>2 DEF LossInv, TypeOK
    <3> QED BY <2>1, <3>1, <3>2
  <2>3. CASE d # c \/ p # q
    BY <1>3, <2>1, <2>3 DEF LossInv, TypeOK
  <2> QED BY <2>2, <2>3
<1>6. OfferCovered'
  BY <1>2, <1>3 DEF LossInv, OfferCovered, Covered, Answered
<1>7. LossExplained'
  BY <1>2, Zenon DEF LossInv, LossExplained, Answered
<1> QED BY <1>4, <1>5, <1>6, <1>7 DEF LossInv

LEMMA LossSendOffsets ==
  ASSUME LossInv, TypeOK', NEW c \in Programs, SendOffsets(c)
  PROVE  LossInv'
<1>1. /\ pc[c] = "offsets" /\ c \in unfenced
      /\ pc' = [pc EXCEPT ![c] = "batch"]
      /\ offered' = [offered EXCEPT ![c] = currentOffsets[c]]
      /\ UNCHANGED <<committed, replies, unfenced, sent, unsent, next, position,
                     currentOffsets,
                     passedOver, missed>>
  BY DEF SendOffsets, Goto, broker, client, history
<1>2. Windows'
  BY <1>1 DEF LossInv, TypeOK, Windows, Reading
<1>3. ReadCovered' /\ LossExplained'
  BY <1>1, Zenon DEF LossInv, ReadCovered, LossExplained, Covered, InHand, Answered
<1>4. OfferCovered'
  <2> SUFFICES ASSUME NEW d \in Programs, NEW p \in Partitions
               PROVE  Below(offered'[d][p]) \subseteq Covered(p) \cup InHand(d, p)
    BY <1>1 DEF OfferCovered, Covered, InHand, Answered
  <2>1. CASE d = c
    <3>1. offered'[d][p] = currentOffsets[d][p] /\ currentOffsets[d][p] <= next[d][p]
      BY <1>1, <2>1 DEF LossInv, TypeOK, Windows, Reading
    <3>2. currentOffsets[d][p] \in Offsets \cup {None} /\ next[d][p] \in Offsets \cup {None}
      BY DEF LossInv, TypeOK, OffsetMap
    <3>3. Below(currentOffsets[d][p]) \subseteq Below(next[d][p])
      BY <3>1, <3>2, OffsetInt DEF Below
    <3> QED BY <1>1, <2>1, <3>1, <3>3 DEF LossInv, ReadCovered
  <2>2. CASE d # c
    BY <1>1, <2>2 DEF LossInv, TypeOK, OfferCovered
  <2> QED BY <2>1, <2>2
<1> QED BY <1>2, <1>3, <1>4 DEF LossInv

LEMMA LossComplete ==
  ASSUME LossInv, TypeOK', NEW c \in Programs, Complete(c)
  PROVE  LossInv'
<1>1. /\ committed' = Merge(committed, offered[c])
      /\ sent' = [sent EXCEPT ![c] = NoRecords]
      /\ unsent' = [unsent EXCEPT ![c] = NoRecords]
      /\ offered' = [offered EXCEPT ![c] = NoOffsets]
      /\ UNCHANGED <<unfenced, pc, next, position, currentOffsets, passedOver>>
  BY DEF Complete, Drop, client, history
<1>2. \A p \in Partitions : missed'[p] = missed[p] \cup unsent[c][p]
  BY DEF Complete
<1>3. \A p \in Partitions, o \in Offsets :
        replies'[p][o] = IF o \in sent[c][p] /\ replies[p][o] < 2
                         THEN replies[p][o] + 1 ELSE replies[p][o]
  BY DEF Complete
<1>4. \A p \in Partitions : Covered(p) \cup InHand(c, p) \subseteq Covered(p)'
  <2> SUFFICES ASSUME NEW p \in Partitions
               PROVE  Answered(p) \cup sent[c][p] \subseteq Answered(p)'
    BY <1>1, <1>2 DEF Covered, InHand
  <2>1. sent[c][p] \subseteq Offsets
    BY DEF LossInv, TypeOK, RecordSets
  <2>2. \A o \in Offsets : replies[p][o] \in 0..2
    BY DEF LossInv, TypeOK
  <2> QED BY <1>3, <2>1, <2>2 DEF Answered
<1>5. Windows'
  BY <1>1 DEF LossInv, Windows
<1>6. ReadCovered' /\ OfferCovered'
  <2>1. \A d \in Programs, p \in Partitions :
          /\ Covered(p) \cup InHand(d, p) \subseteq Covered(p)' \cup InHand(d, p)'
          /\ offered'[d][p] \in {None, offered[d][p]}
    BY <1>1, <1>4 DEF LossInv, TypeOK, NoOffsets, InHand
  <2>2. ReadCovered'
    BY <1>1, <2>1 DEF LossInv, TypeOK, ReadCovered
  <2>3. OfferCovered'
    BY <1>1, <2>1, NothingBelowNone DEF LossInv, OfferCovered
  <2> QED BY <2>2, <2>3
<1>7. LossExplained'
  <2> SUFFICES ASSUME NEW p \in Partitions PROVE Below(committed'[p]) \subseteq Covered(p)'
    BY DEF LossExplained, Covered
  <2>1. committed'[p] \in {committed[p], offered[c][p]}
    BY <1>1 DEF Merge
  <2> QED BY <1>4, <2>1 DEF LossInv, LossExplained, OfferCovered, Covered
<1> QED BY <1>5, <1>6, <1>7 DEF LossInv

LEMMA LossAbort ==
  ASSUME LossInv, TypeOK', NEW c \in Programs, AbortTransaction(c), c \in unfenced
  PROVE  LossInv'
<1>1. /\ pc' = [pc EXCEPT ![c] = "poll"]
      /\ next' = [next EXCEPT ![c] = position[c]]
      /\ sent' = [sent EXCEPT ![c] = NoRecords]
      /\ unsent' = [unsent EXCEPT ![c] = NoRecords]
      /\ offered' = [offered EXCEPT ![c] = NoOffsets]
      /\ UNCHANGED <<committed, replies, unfenced, position, currentOffsets, missed>>
  BY DEF AbortTransaction, Goto, Drop, broker
<1>2. \A p \in Partitions :
        passedOver'[p] = passedOver[p] \cup sent[c][p] \cup unsent[c][p]
                           \cup (IF next[c][p] = None THEN {}
                                 ELSE next[c][p]..(position[c][p] - 1))
  BY DEF AbortTransaction
<1>3. \A p \in Partitions : Covered(p) \cup InHand(c, p) \subseteq Covered(p)'
  BY <1>1, <1>2 DEF Covered, InHand, Answered
<1>4. \A p \in Partitions : Below(position[c][p]) \subseteq Covered(p)'
  <2> SUFFICES ASSUME NEW p \in Partitions, NEW o \in Below(position[c][p])
               PROVE  o \in Covered(p)'
    OBVIOUS
  <2>1. next[c][p] \in Offsets \cup {None} /\ position[c][p] \in Offsets \cup {None}
    BY DEF LossInv, TypeOK, OffsetMap
  <2>2. next[c][p] = None => position[c][p] = None
    BY DEF LossInv, Windows
  <2>3. next[c][p] # None
    BY <2>2, NothingBelowNone
  <2>4. o \in Below(next[c][p]) \/ o \in next[c][p]..(position[c][p] - 1)
    BY <2>1, <2>3, OffsetInt DEF Below
  <2>5. CASE o \in Below(next[c][p])
    BY <1>3, <2>5 DEF LossInv, ReadCovered
  <2>6. CASE o \in next[c][p]..(position[c][p] - 1)
    BY <1>2, <2>3, <2>6 DEF Covered
  <2> QED BY <2>4, <2>5, <2>6
<1>5. Windows'
  <2>1. \A d \in Programs, p \in Partitions : position[d][p] \in Int
    BY OffsetInt DEF LossInv, TypeOK, OffsetMap
  <2> QED BY <1>1, <2>1 DEF LossInv, TypeOK, Windows, Reading
<1>6. \A d \in Programs, p \in Partitions :
        Covered(p) \cup InHand(d, p) \subseteq Covered(p)' \cup InHand(d, p)'
  BY <1>1, <1>3 DEF LossInv, TypeOK, InHand
<1>7. ReadCovered'
  <2> SUFFICES ASSUME NEW d \in unfenced, NEW p \in Partitions
               PROVE  Below(next'[d][p]) \subseteq Covered(p)' \cup InHand(d, p)'
    BY <1>1 DEF ReadCovered
  <2>1. CASE d = c
    BY <1>1, <1>4, <2>1 DEF LossInv, TypeOK
  <2>2. CASE d # c
    <3>1. next'[d] = next[d] /\ d \in Programs
      BY <1>1, <2>2 DEF LossInv, TypeOK
    <3> QED BY <1>6, <3>1 DEF LossInv, ReadCovered
  <2> QED BY <2>1, <2>2
<1>8. OfferCovered'
  <2>1. \A d \in Programs, p \in Partitions : offered'[d][p] \in {None, offered[d][p]}
    BY <1>1 DEF LossInv, TypeOK, NoOffsets
  <2> QED BY <1>6, <2>1, NothingBelowNone DEF LossInv, OfferCovered
<1>9. LossExplained'
  BY <1>1, <1>3 DEF LossInv, LossExplained, Covered
<1> QED BY <1>5, <1>7, <1>8, <1>9 DEF LossInv

LEMMA LossTimeOut ==
  ASSUME LossInv, TypeOK', NEW c \in Programs, TimeOut(c)
  PROVE  LossInv'
<1>1. /\ unfenced' = unfenced \ {c}
      /\ sent' = [sent EXCEPT ![c] = NoRecords]
      /\ unsent' = [unsent EXCEPT ![c] = NoRecords]
      /\ offered' = [offered EXCEPT ![c] = NoOffsets]
      /\ UNCHANGED <<committed, replies, pc, next, position, currentOffsets, passedOver,
                     missed>>
  BY DEF TimeOut, Drop, broker, client, history
<1>2. Windows' /\ LossExplained'
  BY <1>1 DEF LossInv, Windows, LossExplained, Answered
<1>3. ReadCovered' /\ OfferCovered'
  BY <1>1, NothingBelowNone DEF LossInv, TypeOK, ReadCovered, OfferCovered, Covered, InHand,
     Answered, NoOffsets
<1> QED BY <1>2, <1>3 DEF LossInv

LEMMA LossStep ==
  ASSUME LossInv, [Next]_vars
  PROVE  LossInv'
<1>1. TypeOK'
  BY TypeStep DEF LossInv
<1>2. CASE UNCHANGED vars
  BY <1>1, <1>2, Zenon DEF LossInv, Windows, ReadCovered, OfferCovered, LossExplained,
     Covered, InHand, Answered, vars, broker, transaction, client, history
<1>3. ASSUME NEW p \in Partitions, Produce(p)
      PROVE  LossInv'
  BY <1>1, <1>3, Zenon DEF LossInv, Windows, ReadCovered, OfferCovered, LossExplained,
     Covered, InHand, Answered, Produce, broker, transaction, client, history
<1>4. ASSUME NEW c \in Programs, Step(c)
      PROVE  LossInv'
  <2>1. CASE BeginTransaction(c) \/ OffsetsRefused(c) \/ SendFails(c)
             \/ CommitTransaction(c) \/ Stop(c)
    BY <1>1, <2>1, QuietSteps, LossQuiet
  <2>2. CASE AbortTransaction(c) /\ c \notin unfenced
    <3>1. Quiet(c, "closed")
      BY <2>2 DEF Quiet, AbortTransaction, Goto, Reading, broker, transaction, client,
         history
    <3> QED BY <1>1, <3>1, LossQuiet
  <2> QED BY <1>1, <1>4, <2>1, <2>2, LossInitTransactions, LossAssigned, LossPoll,
             LossPollEmpty, LossRestart, LossSend, LossSendOffsets, LossComplete,
             LossAbort, LossTimeOut DEF Step
<1> QED BY <1>2, <1>3, <1>4 DEF Next

\* Types of the specification, for all constants.
THEOREM TypeCorrect == Spec => []TypeOK
<1>1. LossInv => TypeOK
  BY DEF LossInv
<1> QED BY <1>1, LossInit, LossStep, PTL DEF Spec

\* No record below a committed offset is without its reply, but for those of aborted
\* batches, those the reset to "latest" passed over and those whose reply send did not
\* take, which nobody asks its Future, however often programs are fenced in the middle
\* of a batch, die and are started again.
THEOREM LossExplainedHolds == Spec => []LossExplained
<1>1. LossInv => LossExplained
  BY DEF LossInv
<1> QED BY <1>1, LossInit, LossStep, PTL DEF Spec
-----------------------------------------------------------------------------
\* Only one program is listened to, and only it has a transaction.
OneProducer ==
  /\ \A c, d \in unfenced : c = d
  /\ decided \subseteq unfenced
  /\ \A c \in Programs \ unfenced : sent[c] = NoRecords /\ offered[c] = NoOffsets

\* Between two batches there is no transaction but one that is being completed.
Between ==
  \A c \in Programs :
    /\ pc[c] \in {"poll", "begin"} /\ c \notin decided =>
         sent[c] = NoRecords /\ offered[c] = NoOffsets
    /\ pc[c] = "begin" => currentOffsets[c] = NoOffsets
    /\ pc[c] \in {"batch", "offsets"} => c \notin decided

Done(p) == IF committed[p] = None THEN 0 ELSE committed[p]

\* A transaction in the making reaches from the committed offsets to the record that
\* is read next, one that is decided to the offsets it holds.
Extent(c, p) ==
  /\ \A o \in sent[c][p] : o >= Done(p)
  /\ offered[c][p] # None => offered[c][p] >= Done(p)
  /\ pc[c] = "batch" \/ c \in decided => \A o \in sent[c][p] : o < offered[c][p]
  /\ pc[c] \in {"batch", "offsets"} => \A o \in sent[c][p] : o < currentOffsets[c][p]
  /\ c \in unfenced /\ pc[c] \in {"batch", "offsets"} /\ currentOffsets[c][p] # None
       => currentOffsets[c][p] >= Done(p)
  /\ c \in unfenced /\ pc[c] \notin {"init", "closed"} /\ next[c][p] # None
       => next[c][p] >= Done(p) /\ next[c][p] >= offered[c][p]

Fresh == \A p \in Partitions : \A o \in Offsets : o >= Done(p) => replies[p][o] = 0
Extents == Fresh /\ \A c \in Programs, p \in Partitions : Extent(c, p)

OnceInv == LossInv /\ OneProducer /\ Between /\ (~hasty => Extents)

LEMMA OnceInit == Init => OnceInv
<1> SUFFICES ASSUME Init PROVE OnceInv
  OBVIOUS
<1>1. LossInv
  BY LossInit
<1>2. OneProducer /\ Between
  BY DEF Init, OneProducer, Between
<1>3. Extents
  BY DEF Init, Extents, Fresh, Extent, NoRecords, NoOffsets
<1> QED BY <1>1, <1>2, <1>3 DEF OnceInv

LEMMA Ranges ==
  ASSUME TypeOK, NEW c \in Programs, NEW p \in Partitions
  PROVE  /\ next[c][p] \in Int /\ position[c][p] \in Int
         /\ currentOffsets[c][p] \in Int /\ offered[c][p] \in Int
         /\ offered[c][p] # None => offered[c][p] >= 0
         /\ offered[c][p] >= -1
         /\ sent[c][p] \subseteq Offsets /\ Offsets \subseteq Nat
         /\ Done(p) \in Nat
         /\ committed[p] # None => committed[p] \in Nat
<1>1. Offsets \subseteq Nat
  BY BoundsAssumption DEF Offsets
<1>2. sent[c][p] \subseteq Offsets
  BY DEF TypeOK, RecordSets
<1>3. /\ next[c][p] \in Offsets \cup {None} /\ position[c][p] \in Offsets \cup {None}
      /\ currentOffsets[c][p] \in Offsets \cup {None}
      /\ offered[c][p] \in Offsets \cup {None} /\ committed[p] \in Offsets \cup {None}
  BY DEF TypeOK, OffsetMap
<1> QED BY <1>1, <1>2, <1>3, OffsetInt DEF Done

\* What a step leaves alone.
Untouched(d) ==
  /\ pc'[d] = pc[d] /\ next'[d] = next[d] /\ currentOffsets'[d] = currentOffsets[d]
  /\ sent'[d] = sent[d] /\ offered'[d] = offered[d]
  /\ d \in unfenced' => d \in unfenced
  /\ d \in decided' => d \in decided

LEMMA ExtentUntouched ==
  ASSUME NEW d \in Programs, NEW p \in Partitions, Extent(d, p), Untouched(d),
         committed' = committed
  PROVE  Extent(d, p)'
BY DEF Extent, Untouched, Done

\* A program without a transaction.
LEMMA ExtentEmpty ==
  ASSUME TypeOK', NEW d \in Programs, NEW p \in Partitions,
         sent'[d] = NoRecords, offered'[d] = NoOffsets,
         d \in unfenced' => pc'[d] \in {"init", "closed", "poll", "begin", "abort"},
         d \in unfenced' /\ pc'[d] \notin {"init", "closed"} /\ next'[d][p] # None
           => next'[d][p] >= Done(p)'
  PROVE  Extent(d, p)'
<1>1. sent'[d][p] = {} /\ offered'[d][p] = None
  BY DEF NoRecords, NoOffsets
<1>2. /\ next'[d][p] \in Offsets \cup {None} /\ committed'[p] \in Offsets \cup {None}
      /\ Offsets \subseteq Nat
  BY BoundsAssumption DEF TypeOK, OffsetMap, Offsets
<1>3. Done(p)' \in Nat /\ next'[d][p] \in Int
  <2>1. /\ next'[d][p] \in Nat \/ next'[d][p] = -1
        /\ committed'[p] \in Nat \/ committed'[p] = None
    BY <1>2 DEF None
  <2>2. Done(p)' \in Nat
    BY <2>1, Zenon DEF Done
  <2> QED BY <2>1, <2>2
<1>4. pc'[d] \in {"batch", "offsets"} => d \notin unfenced'
  OBVIOUS
<1>5. d \in unfenced' /\ pc'[d] \notin {"init", "closed"} /\ next'[d][p] # None
        => next'[d][p] >= Done(p)' /\ next'[d][p] >= offered'[d][p]
  BY <1>1, <1>3 DEF None
<1> QED BY <1>1, <1>4, <1>5 DEF Extent

\* Steps that change neither the broker's offsets and replies nor who is listened to
\* need to be looked at for the program that takes them only.
Local(c) ==
  /\ UNCHANGED <<committed, replies, unfenced, hasty>>
  /\ \A d \in Programs \ {c} : Untouched(d) /\ (d \in decided <=> d \in decided')

LEMMA ExtentsLocal ==
  ASSUME OnceInv, NEW c \in Programs, Local(c),
         Extents => \A p \in Partitions : Extent(c, p)'
  PROVE  ~hasty' => Extents'
<1> SUFFICES ASSUME ~hasty PROVE Extents'
  BY DEF Local
<1>1. Extents /\ committed' = committed /\ replies' = replies
  BY DEF OnceInv, Local
<1>2. Fresh'
  BY <1>1 DEF Extents, Fresh, Done
<1>3. ASSUME NEW d \in Programs, NEW p \in Partitions, d # c
      PROVE  Extent(d, p)'
  BY <1>1, <1>3, ExtentUntouched DEF Extents, Local
<1> QED BY <1>1, <1>2, <1>3 DEF Extents

LEMMA OnceMove ==
  ASSUME OnceInv, LossInv', NEW c \in Programs,
         BeginTransaction(c) \/ OffsetsRefused(c) \/ SendFails(c) \/ CommitTransaction(c)
         \/ Stop(c) \/ (AbortTransaction(c) /\ c \notin unfenced)
  PROVE  OnceInv'
<1>1. /\ UNCHANGED <<committed, replies, unfenced, hasty, sent, offered, next,
                     currentOffsets>>
      /\ \/ BeginTransaction(c) /\ pc[c] = "begin" /\ c \notin decided
            /\ pc' = [pc EXCEPT ![c] = "batch"] /\ decided' = decided
         \/ CommitTransaction(c) /\ pc[c] = "batch" /\ c \in unfenced
            /\ pc' = [pc EXCEPT ![c] = "poll"] /\ decided' = decided \cup {c}
         \/ /\ pc[c] \in {"poll", "batch", "offsets", "abort"}
            /\ \/ pc' = [pc EXCEPT ![c] = "closed"]
               \/ pc' = [pc EXCEPT ![c] = "abort"] /\ pc[c] # "poll"
            /\ decided' = decided
  BY DEF BeginTransaction, OffsetsRefused, SendFails, CommitTransaction, Stop,
     AbortTransaction, Goto, broker, transaction, client, history
<1>2. pc \in [Programs -> {"init", "poll", "begin", "batch", "offsets", "abort", "closed"}]
  BY DEF OnceInv, LossInv, TypeOK
<1>3. OneProducer'
  BY <1>1 DEF OnceInv, OneProducer
<1>4. Between'
  BY <1>1, <1>2 DEF OnceInv, Between
<1>5. Local(c)
  BY <1>1, <1>2 DEF Local, Untouched
<1>6. ASSUME Extents, NEW p \in Partitions PROVE Extent(c, p)'
  <2>1. Extent(c, p)
    BY <1>6 DEF Extents
  <2>2. Done(p)' = Done(p)
    BY <1>1 DEF Done
  <2>3. CASE pc[c] = "begin" /\ c \notin decided /\ pc' = [pc EXCEPT ![c] = "batch"]
             /\ decided' = decided
    <3>1. sent[c][p] = {} /\ offered[c][p] = None /\ currentOffsets[c][p] = None
      BY <2>3 DEF OnceInv, Between, NoRecords, NoOffsets
    <3> QED BY <1>1, <1>2, <2>1, <2>2, <2>3, <3>1 DEF Extent
  <2>4. CASE pc[c] = "batch" /\ pc' = [pc EXCEPT ![c] = "poll"]
             /\ decided' = decided \cup {c}
    BY <1>1, <1>2, <2>1, <2>2, <2>4 DEF Extent
  <2>5. CASE /\ pc[c] \in {"poll", "batch", "offsets", "abort"}
             /\ pc' = [pc EXCEPT ![c] = "closed"] \/ pc' = [pc EXCEPT ![c] = "abort"]
             /\ decided' = decided
    BY <1>1, <1>2, <2>1, <2>2, <2>5 DEF Extent
  <2> QED BY <1>1, <2>3, <2>4, <2>5
<1>7. ~hasty' => Extents'
  BY <1>5, <1>6, ExtentsLocal
<1> QED BY <1>3, <1>4, <1>7 DEF OnceInv

LEMMA OncePoll ==
  ASSUME OnceInv, LossInv', NEW c \in Programs,
         PollEmpty(c) \/ \E n \in [Partitions -> 0..MaxPoll] : Poll(c, n)
  PROVE  OnceInv'
<1>1. /\ UNCHANGED <<committed, replies, unfenced, hasty, sent, offered, next, decided>>
      /\ currentOffsets' = [currentOffsets EXCEPT ![c] = NoOffsets]
      /\ pc[c] = "poll"
      /\ pc' = [pc EXCEPT ![c] = "poll"] \/ pc' = [pc EXCEPT ![c] = "begin"]
  BY DEF PollEmpty, Poll, Goto, broker, transaction, history
<1>2. /\ pc \in [Programs -> {"init", "poll", "begin", "batch", "offsets", "abort", "closed"}]
      /\ currentOffsets \in [Programs -> OffsetMap]
  BY DEF OnceInv, LossInv, TypeOK
<1>3. OneProducer'
  BY <1>1 DEF OnceInv, OneProducer
<1>4. Between'
  BY <1>1, <1>2 DEF OnceInv, Between
<1>5. Local(c)
  BY <1>1, <1>2 DEF Local, Untouched
<1>6. ASSUME Extents, NEW p \in Partitions PROVE Extent(c, p)'
  <2>1. Extent(c, p)
    BY <1>6 DEF Extents
  <2> QED BY <1>1, <1>2, <2>1 DEF Extent, Done
<1>7. ~hasty' => Extents'
  BY <1>5, <1>6, ExtentsLocal
<1> QED BY <1>3, <1>4, <1>7 DEF OnceInv

LEMMA OnceRestart ==
  ASSUME OnceInv, LossInv', NEW c \in Programs, Restart(c)
  PROVE  OnceInv'
<1>1. /\ UNCHANGED <<committed, replies, unfenced, hasty, sent, offered, decided>>
      /\ currentOffsets' = [currentOffsets EXCEPT ![c] = NoOffsets]
      /\ next' = [next EXCEPT ![c] = NoOffsets]
      /\ pc' = [pc EXCEPT ![c] = "init"]
  BY DEF Restart, broker, transaction, history
<1>2. /\ pc \in [Programs -> {"init", "poll", "begin", "batch", "offsets", "abort", "closed"}]
      /\ currentOffsets \in [Programs -> OffsetMap] /\ next \in [Programs -> OffsetMap]
  BY DEF OnceInv, LossInv, TypeOK
<1>3. OneProducer'
  BY <1>1 DEF OnceInv, OneProducer
<1>4. Between'
  BY <1>1, <1>2 DEF OnceInv, Between
<1>5. Local(c)
  BY <1>1, <1>2 DEF Local, Untouched
<1>6. ASSUME Extents, NEW p \in Partitions PROVE Extent(c, p)'
  <2>1. Extent(c, p)
    BY <1>6 DEF Extents
  <2> QED BY <1>1, <1>2, <2>1 DEF Extent, Done
<1>7. ~hasty' => Extents'
  BY <1>5, <1>6, ExtentsLocal
<1> QED BY <1>3, <1>4, <1>7 DEF OnceInv

LEMMA OnceAssigned ==
  ASSUME OnceInv, LossInv', NEW c \in Programs, NEW S \in SUBSET Partitions, Assigned(c, S)
  PROVE  OnceInv'
<1> DEFINE start == [p \in Partitions |-> IF p \in S THEN Start(p) ELSE None]
<1>1. /\ UNCHANGED <<committed, replies, unfenced, sent, offered, decided, currentOffsets>>
      /\ next' = [next EXCEPT ![c] = start]
      /\ pc[c] = "poll" /\ pc' = [pc EXCEPT ![c] = "poll"]
  BY DEF Assigned, Goto, broker, transaction
<1>2. /\ pc \in [Programs -> {"init", "poll", "begin", "batch", "offsets", "abort", "closed"}]
      /\ next \in [Programs -> OffsetMap] /\ TypeOK /\ TypeOK'
  BY DEF OnceInv, LossInv, TypeOK
<1>3. OneProducer'
  BY <1>1 DEF OnceInv, OneProducer
<1>4. Between'
  BY <1>1, <1>2 DEF OnceInv, Between
<1>5. SUFFICES ASSUME ~hasty' PROVE Extents'
  BY <1>3, <1>4 DEF OnceInv
<1>6. ~hasty /\ \A d \in decided : \A p \in S : offered[d][p] = None
  BY <1>5, Zenon DEF Assigned
<1>7. Extents
  BY <1>6 DEF OnceInv
<1>8. Fresh'
  BY <1>1, <1>7 DEF Extents, Fresh, Done
<1>9. ASSUME NEW d \in Programs, NEW p \in Partitions PROVE Extent(d, p)'
  <2>1. Extent(d, p)
    BY <1>7 DEF Extents
  <2>2. CASE d # c
    BY <1>1, <1>2, <2>1, <2>2, ExtentUntouched DEF Untouched
  <2>3. CASE d = c
    <3>1. next'[d][p] = IF p \in S THEN Start(p) ELSE None
      BY <1>1, <1>2, <2>3
    <3>2. p \in S => offered[d][p] = None
      <4>1. CASE d \in decided
        BY <1>6, <4>1
      <4>2. CASE d \notin decided
        BY <1>1, <2>3, <4>2 DEF OnceInv, Between, NoOffsets
      <4> QED BY <4>1, <4>2
    <3>3. logEnd[p] \in Nat /\ Done(p) \in Nat
      BY <1>2, Ranges, BoundsAssumption DEF TypeOK, Offsets
    <3>4. p \in S => Start(p) >= Done(p) /\ Start(p) >= offered[d][p]
      BY <3>2, <3>3 DEF Start, Done, None
    <3>5. Done(p)' = Done(p) /\ pc'[d] = "poll"
      BY <1>1, <1>2, <2>3 DEF Done
    <3> QED BY <1>1, <2>1, <3>1, <3>4, <3>5 DEF Extent
  <2> QED BY <2>2, <2>3
<1> QED BY <1>8, <1>9 DEF Extents

LEMMA OnceSend ==
  ASSUME OnceInv, LossInv', NEW c \in Programs, NEW q \in Partitions,
         Send(c, q) \/ SendRefused(c, q)
  PROVE  OnceInv'
<1>1. /\ TypeOK /\ Windows
      /\ pc \in [Programs -> {"init", "poll", "begin", "batch", "offsets", "abort", "closed"}]
      /\ next \in [Programs -> OffsetMap] /\ currentOffsets \in [Programs -> OffsetMap]
      /\ sent \in [Programs -> RecordSets]
  BY DEF OnceInv, LossInv, TypeOK
<1>2. /\ next[c][q] \in Offsets
      /\ pc[c] = "batch" /\ pc' = [pc EXCEPT ![c] = "offsets"]
      /\ next' = [next EXCEPT ![c][q] = next[c][q] + 1]
      /\ currentOffsets' = [currentOffsets EXCEPT ![c][q] = next[c][q] + 1]
      /\ UNCHANGED <<committed, replies, decided, unfenced, offered, hasty>>
  BY <1>1, Noted
<1>3. \/ c \in unfenced /\ sent' = [sent EXCEPT ![c][q] = @ \cup {next[c][q]}]
      \/ sent' = sent
  BY DEF Send, SendRefused
<1>4. sent' \in [Programs -> RecordSets] /\ \A d \in Programs \ {c} : sent'[d] = sent[d]
  BY <1>1, <1>3 DEF LossInv, TypeOK
<1>5. c \notin unfenced => sent' = sent
  BY <1>3
<1>6. OneProducer'
  BY <1>2, <1>4, <1>5 DEF OnceInv, OneProducer
<1>7. Between'
  <2>1. c \notin decided
    BY <1>2 DEF OnceInv, Between
  <2>2. \A d \in Programs \ {c} : /\ sent'[d] = sent[d] /\ pc'[d] = pc[d]
                                  /\ currentOffsets'[d] = currentOffsets[d]
    BY <1>1, <1>2, <1>4
  <2>3. pc'[c] = "offsets"
    BY <1>1, <1>2
  <2> QED BY <1>2, <2>1, <2>2, <2>3 DEF OnceInv, Between
<1>8. Local(c)
  BY <1>1, <1>2, <1>4 DEF Local, Untouched
<1>9. ASSUME Extents, NEW p \in Partitions PROVE Extent(c, p)'
  <2>1. Extent(c, p)
    BY <1>9 DEF Extents
  <2>2. pc'[c] = "offsets" /\ Done(p)' = Done(p) /\ c \notin decided
    BY <1>1, <1>2 DEF Done, OnceInv, Between
  <2>3. CASE p # q
    <3>1. next'[c][p] = next[c][p] /\ currentOffsets'[c][p] = currentOffsets[c][p]
      BY <1>1, <1>2, <2>3 DEF OffsetMap
    <3>2. sent'[c][p] = sent[c][p]
      BY <1>1, <1>3, <2>3 DEF RecordSets
    <3> QED BY <1>2, <2>1, <2>2, <3>1, <3>2 DEF Extent
  <2>4. CASE p = q
    <3>1. /\ next'[c][p] = next[c][p] + 1 /\ currentOffsets'[c][p] = next[c][p] + 1
      BY <1>1, <1>2, <2>4 DEF OffsetMap
    <3>2. sent'[c][p] \subseteq sent[c][p] \cup {next[c][p]}
      BY <1>1, <1>3, <2>4 DEF RecordSets
    <3>3. c \notin unfenced => sent'[c][p] = {}
      BY <1>5 DEF OnceInv, OneProducer, NoRecords
    <3>4. /\ next[c][p] \in Nat /\ currentOffsets[c][p] \in Int /\ offered[c][p] \in Int
          /\ Done(p) \in Nat /\ sent[c][p] \subseteq Nat
      BY <1>1, <1>2, <2>4, Ranges
    <3>5. currentOffsets[c][p] <= next[c][p]
      BY <1>2, <2>4 DEF OnceInv, LossInv, Windows, Reading
    <3>6. c \in unfenced => next[c][p] >= Done(p) /\ next[c][p] >= offered[c][p]
      BY <1>2, <2>1, <3>4 DEF Extent, None
    <3>7. \A o \in sent[c][p] : o >= Done(p) /\ o < currentOffsets[c][p]
      BY <1>2, <2>1 DEF Extent
    <3>8. \A o \in sent'[c][p] : o >= Done(p) /\ o < next[c][p] + 1
      BY <3>2, <3>3, <3>4, <3>5, <3>6, <3>7
    <3>9. c \in unfenced => /\ next[c][p] + 1 >= Done(p)
                            /\ next[c][p] + 1 >= offered[c][p]
      BY <3>4, <3>6
    <3> QED BY <1>2, <2>1, <2>2, <3>1, <3>8, <3>9 DEF Extent
  <2> QED BY <2>3, <2>4
<1>10. ~hasty' => Extents'
  BY <1>8, <1>9, ExtentsLocal
<1> QED BY <1>6, <1>7, <1>10 DEF OnceInv

LEMMA OnceSendOffsets ==
  ASSUME OnceInv, LossInv', NEW c \in Programs, SendOffsets(c)
  PROVE  OnceInv'
<1>1. /\ pc[c] = "offsets" /\ c \in unfenced /\ pc' = [pc EXCEPT ![c] = "batch"]
      /\ offered' = [offered EXCEPT ![c] = currentOffsets[c]]
      /\ UNCHANGED <<committed, replies, decided, unfenced, sent, next, currentOffsets,
                     hasty>>
  BY DEF SendOffsets, Goto, broker, client, history
<1>2. /\ pc \in [Programs -> {"init", "poll", "begin", "batch", "offsets", "abort", "closed"}]
      /\ offered \in [Programs -> OffsetMap] /\ TypeOK
  BY DEF OnceInv, LossInv, TypeOK
<1>3. OneProducer'
  BY <1>1, <1>2 DEF OnceInv, OneProducer
<1>4. Between'
  BY <1>1, <1>2 DEF OnceInv, Between
<1>5. Local(c)
  BY <1>1, <1>2 DEF Local, Untouched
<1>6. ASSUME Extents, NEW p \in Partitions PROVE Extent(c, p)'
  <2>1. Extent(c, p)
    BY <1>6 DEF Extents
  <2>2. offered'[c][p] = currentOffsets[c][p] /\ pc'[c] = "batch" /\ Done(p)' = Done(p)
    BY <1>1, <1>2 DEF Done
  <2>3. currentOffsets[c][p] <= next[c][p] /\ c \notin decided
    BY <1>1 DEF OnceInv, LossInv, Windows, Reading, Between
  <2>4. next[c][p] \in Int /\ currentOffsets[c][p] \in Int
    BY <1>2, Ranges
  <2> QED BY <1>1, <2>1, <2>2, <2>3, <2>4 DEF Extent
<1>7. ~hasty' => Extents'
  BY <1>5, <1>6, ExtentsLocal
<1> QED BY <1>3, <1>4, <1>7 DEF OnceInv

LEMMA OnceInitTransactions ==
  ASSUME OnceInv, LossInv', NEW c \in Programs, InitTransactions(c)
  PROVE  OnceInv'
<1>1. /\ pc[c] = "init" /\ pc' = [pc EXCEPT ![c] = "poll"] /\ unfenced' = {c}
      /\ sent' = [d \in Programs |-> NoRecords]
      /\ offered' = [d \in Programs |-> NoOffsets]
      /\ decided = {}
      /\ UNCHANGED <<committed, replies, decided, next, position, currentOffsets, hasty>>
  BY DEF InitTransactions, Goto, broker, client, history
<1>2. /\ pc \in [Programs -> {"init", "poll", "begin", "batch", "offsets", "abort", "closed"}]
      /\ TypeOK'
  BY DEF OnceInv, LossInv, TypeOK
<1>3. OneProducer'
  BY <1>1 DEF OneProducer
<1>4. Between'
  BY <1>1, <1>2 DEF OnceInv, Between
<1>5. SUFFICES ASSUME ~hasty' PROVE Extents'
  BY <1>3, <1>4 DEF OnceInv
<1>6. Fresh'
  BY <1>1, <1>5 DEF OnceInv, Extents, Fresh, Done
<1>7. ASSUME NEW d \in Programs, NEW p \in Partitions PROVE Extent(d, p)'
  <2>1. d \in unfenced' => pc'[d] = "poll" /\ next'[d][p] = None
    BY <1>1, <1>2 DEF OnceInv, LossInv, Windows
  <2>2. CASE d = c
    BY <1>1, <1>2, <2>1, <2>2, ExtentEmpty
  <2>3. CASE d # c
    BY <1>1, <1>2, <2>3, ExtentEmpty
  <2> QED BY <2>2, <2>3
<1> QED BY <1>6, <1>7 DEF Extents

LEMMA OnceAbort ==
  ASSUME OnceInv, LossInv', NEW c \in Programs, AbortTransaction(c), c \in unfenced
  PROVE  OnceInv'
<1>1. /\ pc[c] = "abort" /\ pc' = [pc EXCEPT ![c] = "poll"]
      /\ next' = [next EXCEPT ![c] = position[c]]
      /\ sent' = [sent EXCEPT ![c] = NoRecords]
      /\ offered' = [offered EXCEPT ![c] = NoOffsets]
      /\ UNCHANGED <<committed, replies, decided, unfenced, currentOffsets, hasty>>
  BY DEF AbortTransaction, Goto, Drop, broker
<1>2. /\ pc \in [Programs -> {"init", "poll", "begin", "batch", "offsets", "abort", "closed"}]
      /\ next \in [Programs -> OffsetMap] /\ sent \in [Programs -> RecordSets]
      /\ offered \in [Programs -> OffsetMap] /\ TypeOK /\ TypeOK'
  BY DEF OnceInv, LossInv, TypeOK
<1>3. OneProducer'
  BY <1>1, <1>2 DEF OnceInv, OneProducer
<1>4. Between'
  BY <1>1, <1>2 DEF OnceInv, Between
<1>5. Local(c)
  BY <1>1, <1>2 DEF Local, Untouched
<1>6. ASSUME Extents, NEW p \in Partitions PROVE Extent(c, p)'
  <2>1. Extent(c, p)
    BY <1>6 DEF Extents
  <2>2. /\ pc'[c] = "poll" /\ next'[c][p] = position[c][p] /\ Done(p)' = Done(p)
        /\ sent'[c] = NoRecords /\ offered'[c] = NoOffsets
    BY <1>1, <1>2 DEF Done
  <2>3. /\ next[c][p] <= position[c][p]
        /\ next[c][p] = None => position[c][p] = None
    BY DEF OnceInv, LossInv, Windows
  <2>4. next[c][p] \in Int /\ position[c][p] \in Int /\ Done(p) \in Nat
    BY <1>2, Ranges
  <2>5. next[c][p] # None => next[c][p] >= Done(p)
    BY <1>1, <2>1 DEF Extent
  <2>6. position[c][p] # None => position[c][p] >= Done(p)
    BY <2>3, <2>4, <2>5
  <2> QED BY <1>2, <2>2, <2>6, ExtentEmpty
<1>7. ~hasty' => Extents'
  BY <1>5, <1>6, ExtentsLocal
<1> QED BY <1>3, <1>4, <1>7 DEF OnceInv

LEMMA OnceTimeOut ==
  ASSUME OnceInv, LossInv', NEW c \in Programs, TimeOut(c)
  PROVE  OnceInv'
<1>1. /\ c \notin decided /\ unfenced' = unfenced \ {c}
      /\ sent' = [sent EXCEPT ![c] = NoRecords]
      /\ offered' = [offered EXCEPT ![c] = NoOffsets]
      /\ UNCHANGED <<committed, replies, decided, pc, next, currentOffsets, hasty>>
  BY DEF TimeOut, Drop, broker, client, history
<1>2. /\ sent \in [Programs -> RecordSets] /\ offered \in [Programs -> OffsetMap] /\ TypeOK'
  BY DEF OnceInv, LossInv, TypeOK
<1>3. OneProducer'
  BY <1>1, <1>2 DEF OnceInv, OneProducer
<1>4. Between'
  BY <1>1, <1>2 DEF OnceInv, Between
<1>5. SUFFICES ASSUME ~hasty' PROVE Extents'
  BY <1>3, <1>4 DEF OnceInv
<1>6. Extents
  BY <1>1, <1>5 DEF OnceInv
<1>7. Fresh'
  BY <1>1, <1>6 DEF Extents, Fresh, Done
<1>8. ASSUME NEW d \in Programs, NEW p \in Partitions PROVE Extent(d, p)'
  <2>1. CASE d = c
    BY <1>1, <1>2, <2>1, ExtentEmpty
  <2>2. CASE d # c
    BY <1>1, <1>2, <1>6, <2>2, ExtentUntouched DEF Untouched, Extents
  <2> QED BY <2>1, <2>2
<1> QED BY <1>7, <1>8 DEF Extents

\* What a completed transaction does to the offsets and the replies.
LEMMA Completion ==
  ASSUME OnceInv, Extents, NEW c \in Programs, Complete(c), NEW p \in Partitions
  PROVE  /\ Done(p)' = IF offered[c][p] = None THEN Done(p) ELSE offered[c][p]
         /\ Done(p)' >= Done(p)
         /\ \A o \in sent[c][p] : o >= Done(p) /\ o < Done(p)'
         /\ \A o \in Offsets : replies'[p][o] = IF o \in sent[c][p] THEN replies[p][o] + 1
                                                ELSE replies[p][o]
<1>1. /\ c \in decided /\ committed'[p] = IF offered[c][p] = None THEN committed[p]
                                                                  ELSE offered[c][p]
  BY DEF Complete, Merge
<1>2. Extent(c, p) /\ \A o \in Offsets : o >= Done(p) => replies[p][o] = 0
  BY DEF Extents, Fresh
<1>3. /\ offered[c][p] \in Int /\ Done(p) \in Nat /\ sent[c][p] \subseteq Offsets
      /\ Offsets \subseteq Nat /\ offered[c][p] >= -1
      /\ offered[c][p] # None => offered[c][p] >= 0
  BY Ranges DEF OnceInv, LossInv
<1>4. Done(p)' = IF offered[c][p] = None THEN Done(p) ELSE offered[c][p]
  BY <1>1 DEF Done
<1>5. \A o \in sent[c][p] : o >= Done(p) /\ o < offered[c][p]
  BY <1>1, <1>2 DEF Extent
<1>6. offered[c][p] = None => sent[c][p] = {}
  <2> SUFFICES ASSUME offered[c][p] = None, NEW o \in sent[c][p] PROVE FALSE
    OBVIOUS
  <2>1. o \in Nat /\ o < offered[c][p]
    BY <1>3, <1>5
  <2> QED BY <2>1 DEF None
<1>7. Done(p)' >= Done(p)
  BY <1>2, <1>3, <1>4 DEF Extent
<1>8. \A o \in Offsets : replies'[p][o] = IF o \in sent[c][p] /\ replies[p][o] < 2
                                          THEN replies[p][o] + 1 ELSE replies[p][o]
  BY DEF Complete
<1>9. \A o \in sent[c][p] : o \in Offsets /\ replies[p][o] = 0
  BY <1>2, <1>3, <1>5
<1> QED BY <1>4, <1>5, <1>6, <1>7, <1>8, <1>9

LEMMA OnceComplete ==
  ASSUME OnceInv, LossInv', NEW c \in Programs, Complete(c)
  PROVE  OnceInv'
<1>1. /\ c \in decided /\ decided' = decided \ {c}
      /\ sent' = [sent EXCEPT ![c] = NoRecords]
      /\ offered' = [offered EXCEPT ![c] = NoOffsets]
      /\ UNCHANGED <<unfenced, pc, next, currentOffsets, hasty>>
  BY DEF Complete, Drop, client, history
<1>2. /\ sent \in [Programs -> RecordSets] /\ offered \in [Programs -> OffsetMap]
      /\ TypeOK /\ TypeOK'
      /\ pc \in [Programs -> {"init", "poll", "begin", "batch", "offsets", "abort", "closed"}]
  BY DEF OnceInv, LossInv, TypeOK
<1>3. OneProducer'
  BY <1>1, <1>2 DEF OnceInv, OneProducer
<1>4. Between'
  BY <1>1, <1>2 DEF OnceInv, Between
<1>5. SUFFICES ASSUME ~hasty' PROVE Extents'
  BY <1>3, <1>4 DEF OnceInv
<1>6. Extents
  BY <1>1, <1>5 DEF OnceInv
<1>7. Fresh'
  <2> SUFFICES ASSUME NEW p \in Partitions, NEW o \in Offsets, o >= Done(p)'
               PROVE  replies'[p][o] = 0
    BY DEF Fresh
  <2>1. /\ Done(p)' >= Done(p)
        /\ Done(p)' = IF offered[c][p] = None THEN Done(p) ELSE offered[c][p]
        /\ \A r \in sent[c][p] : r >= Done(p) /\ r < Done(p)'
        /\ replies'[p][o] = IF o \in sent[c][p] THEN replies[p][o] + 1 ELSE replies[p][o]
    BY <1>6, Completion
  <2>2. /\ o \in Nat /\ Done(p) \in Nat /\ offered[c][p] \in Int
    BY <1>2, Ranges
  <2>3. Done(p)' \in Int
    BY <2>1, <2>2
  <2>4. o \notin sent[c][p] /\ o >= Done(p)
    BY <2>1, <2>2, <2>3
  <2> QED BY <1>6, <2>1, <2>4 DEF Extents, Fresh
<1>8. ASSUME NEW d \in Programs, NEW p \in Partitions PROVE Extent(d, p)'
  <2>1. sent'[d] = NoRecords /\ offered'[d] = NoOffsets
    BY <1>1, <1>2 DEF OnceInv, OneProducer
  <2>2. d \in unfenced' => d = c
    BY <1>1 DEF OnceInv, OneProducer
  <2>3. d = c => pc'[d] \in {"init", "closed", "poll", "begin", "abort"}
    BY <1>1, <1>2 DEF OnceInv, Between
  <2>4. ASSUME d \in unfenced', pc'[d] \notin {"init", "closed"}, next'[d][p] # None
        PROVE  next'[d][p] >= Done(p)'
    <3>1. next[c][p] >= Done(p) /\ next[c][p] >= offered[c][p]
      BY <1>1, <1>6, <2>2, <2>4 DEF Extents, Extent
    <3>2. Done(p)' = IF offered[c][p] = None THEN Done(p) ELSE offered[c][p]
      BY <1>6, Completion
    <3> QED BY <1>1, <2>2, <2>4, <3>1, <3>2
  <2> QED BY <1>2, <2>1, <2>2, <2>3, <2>4, ExtentEmpty
<1> QED BY <1>7, <1>8 DEF Extents

LEMMA OnceStep ==
  ASSUME OnceInv, [Next]_vars
  PROVE  OnceInv'
<1>1. LossInv'
  BY LossStep DEF OnceInv
<1>2. CASE UNCHANGED vars \/ \E p \in Partitions : Produce(p)
  <2>1. UNCHANGED <<committed, replies, unfenced, sent, offered, decided, pc, next,
                    currentOffsets, hasty>>
    BY <1>2 DEF vars, Produce, broker, transaction, client, history
  <2>2. OneProducer' /\ Between'
    BY <2>1 DEF OnceInv, OneProducer, Between
  <2>3. ~hasty' => Extents'
    BY <2>1 DEF OnceInv, Extents, Fresh, Extent, Done
  <2> QED BY <1>1, <2>2, <2>3 DEF OnceInv
<1>3. ASSUME NEW c \in Programs, Step(c)
      PROVE  OnceInv'
  BY <1>1, <1>3, OnceMove, OncePoll, OnceRestart, OnceAssigned, OnceSend, OnceSendOffsets,
     OnceInitTransactions, OnceAbort, OnceTimeOut, OnceComplete DEF Step
<1> QED BY <1>2, <1>3 DEF Next

\* Every step but a completion leaves offsets and replies alone.
LEMMA Invisible ==
  ASSUME NEW c \in Programs, Step(c), ~Complete(c)
  PROVE  UNCHANGED <<committed, replies>>
BY DEF Step, InitTransactions, Assigned, Poll, PollEmpty, BeginTransaction, Send,
   SendRefused, Note, SendOffsets, OffsetsRefused, SendFails, CommitTransaction,
   AbortTransaction, TimeOut, Stop, Restart, broker

LEMMA CompleteAdvances ==
  ASSUME OnceInv, OnceInv', ~hasty, NEW c \in Programs, Complete(c)
  PROVE  Once!Next
<1> DEFINE to == [p \in Partitions |-> Done(p)']
           answered == sent[c]
<1>1. Extents /\ TypeOK
  BY DEF OnceInv, LossInv
<1>2. \A p \in Partitions :
        /\ Done(p)' >= Done(p)
        /\ \A o \in sent[c][p] : o >= Done(p) /\ o < Done(p)'
        /\ \A o \in Offsets : replies'[p][o] = IF o \in sent[c][p] THEN replies[p][o] + 1
                                               ELSE replies[p][o]
  BY <1>1, Completion
<1>3. to \in [Partitions -> Offsets]
  <2>1. \A p \in Partitions : committed'[p] \in Offsets \cup {None}
    BY DEF OnceInv, LossInv, TypeOK, OffsetMap
  <2>2. 0 \in Offsets
    BY BoundsAssumption DEF Offsets
  <2> QED BY <2>1, <2>2 DEF Done
<1>4. answered \in [Partitions -> SUBSET Offsets]
  BY <1>1 DEF TypeOK, RecordSets
<1>5. \A p \in Partitions : answered[p] \subseteq Once!Span(Done(p), to[p])
  <2> SUFFICES ASSUME NEW p \in Partitions, NEW o \in answered[p]
               PROVE  o \in Done(p)..(to[p] - 1)
    BY DEF Once!Span
  <2>1. o \in Nat /\ Done(p) \in Nat
    BY <1>1, Ranges
  <2>2. to[p] \in Nat /\ o >= Done(p) /\ o < to[p]
    BY <1>2, <1>3, BoundsAssumption DEF Offsets
  <2> QED BY <2>1, <2>2
<1>6. replies' = [p \in Partitions |-> [o \in Offsets |->
                    IF o \in answered[p] THEN replies[p][o] + 1 ELSE replies[p][o]]]
  <2>1. replies' \in [Partitions -> [Offsets -> 0..2]]
    BY DEF OnceInv, LossInv, TypeOK
  <2> QED BY <1>2, <2>1
<1> DEFINE done == [p \in Partitions |-> IF committed[p] = None THEN 0 ELSE committed[p]]
<1>7. /\ \A p \in Partitions :
            to[p] >= done[p] /\ answered[p] \subseteq Once!Span(done[p], to[p])
      /\ done' = to
  BY <1>2, <1>5 DEF Done
<1> HIDE DEF to, answered
<1> QED BY <1>3, <1>4, <1>6, <1>7 DEF Once!Next, Once!Advance

\* Offsets and replies become visible in one step, over records that were not answered
\* before, for any number of programs that fence each other, die and come back, until
\* some poll starts at an offset that a decided transaction is about to replace.
THEOREM ImplementsExactlyOnce == Spec => RepliesOnce
<1>1. Init => Once!Init
  BY DEF Init, NoOffsets, Once!Init
<1>2. OnceInv /\ OnceInv' /\ [Next]_vars => [Once!Next \/ hasty']_(Once!vars)
  <2> SUFFICES ASSUME OnceInv, OnceInv', [Next]_vars, ~hasty'
               PROVE  Once!Next \/ UNCHANGED Once!vars
    OBVIOUS
  <2>1. CASE UNCHANGED <<committed, replies>>
    BY <2>1 DEF Once!vars
  <2>2. ASSUME NEW c \in Programs, Complete(c) PROVE Once!Next
    <3>1. ~hasty
      BY <2>2 DEF Complete, history
    <3> QED BY <2>2, <3>1, CompleteAdvances
  <2>3. UNCHANGED vars \/ (\E p \in Partitions : Produce(p)) => UNCHANGED <<committed,
                                                                            replies>>
    BY DEF vars, Produce, broker
  <2> QED BY <2>1, <2>2, <2>3, Invisible DEF Next
<1> QED BY <1>1, <1>2, OnceInit, OnceStep, PTL DEF Spec, RepliesOnce
=============================================================================
