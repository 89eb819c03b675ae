--------------------------- MODULE KafkaTransaction ---------------------------
(***************************************************************************)
(* SimpleTransaction of kafka-simple-demo: read a batch, send a reply to   *)
(* each record and commit the replies together with the offsets in one     *)
(* transaction.  The program has one fixed transactional id, so that a     *)
(* second copy of it, or the same started again, fences the one before.    *)
(*                                                                         *)
(* The group of consumers is left open: a poll may assign a program any    *)
(* partitions, also some that another one still reads.  Offsets sent to a  *)
(* transaction are not refused for an old generation of the group (clients *)
(* and brokers before 2.5), and asking for the committed offsets does not  *)
(* wait for a transaction that is being completed.                         *)
(***************************************************************************)
EXTENDS Integers

CONSTANTS Programs,     \* copies of the program
          Partitions,   \* of the topic they read
          StopAfter,    \* stopAfterCountEmpty()
          MaxPoll,      \* MAX_POLL_RECORDS_CONFIG
          MaxLog,       \* bound: records in a partition
          MaxRestarts,  \* bound: programs that die or end and are started again
          MaxRefusals   \* bound: offsets and replies that are refused

ASSUME BoundsAssumption ==
  /\ StopAfter \in Nat /\ MaxPoll \in Nat /\ MaxLog \in Nat
  /\ MaxRestarts \in Nat /\ MaxRefusals \in Nat

None == -1              \* no offset
Offsets == 0..MaxLog
OffsetMap == [Partitions -> Offsets \cup {None}]
RecordSets == [Partitions -> SUBSET Offsets]
NoOffsets == [p \in Partitions |-> None]
NoRecords == [p \in Partitions |-> {}]
Below(o) == 0..(o - 1)

VARIABLES logEnd,         \* the offset of the next record of each partition
          committed,      \* the group's committed offsets
          replies,        \* committed replies to each record, counted up to two
          unfenced,       \* programs whose producer the coordinator listens to
          sent,           \* the replies in each program's open transaction,
          offered,        \* the offsets,
          unsent,         \* and history: the records whose reply send did not take
          decided,        \* programs whose transaction is being completed
          pc,
          position,       \* up to where poll has read the assigned partitions
          next,           \* the next record of the batch to look at
          currentOffsets,
          empty,          \* emptyCount
          restarts, refusals,
          passedOver,     \* history: records of an aborted batch, or before "latest"
          missed,         \* history: unsent, and the transaction was committed
          hasty           \* history: an offset was read while it was being replaced

broker == <<committed, replies, decided>>
transaction == <<sent, offered, unsent>>
client == <<position, next, currentOffsets, empty>>
history == <<passedOver, missed, hasty>>
vars == <<logEnd, broker, unfenced, transaction, pc, client, restarts, refusals, history>>

Init == /\ logEnd = [p \in Partitions |-> 0]
        /\ committed = NoOffsets
        /\ replies = [p \in Partitions |-> [o \in Offsets |-> 0]]
        /\ unfenced = {}
        /\ sent = [c \in Programs |-> NoRecords]
        /\ offered = [c \in Programs |-> NoOffsets]
        /\ unsent = [c \in Programs |-> NoRecords]
        /\ decided = {}
        /\ pc = [c \in Programs |-> "init"]
        /\ position = [c \in Programs |-> NoOffsets]
        /\ next = [c \in Programs |-> NoOffsets]
        /\ currentOffsets = [c \in Programs |-> NoOffsets]
        /\ empty = [c \in Programs |-> 0]
        /\ restarts = 0
        /\ refusals = 0
        /\ passedOver = NoRecords
        /\ missed = NoRecords
        /\ hasty = FALSE

Goto(c, from, to) == pc[c] = from /\ pc' = [pc EXCEPT ![c] = to]
Drop(c) == /\ sent' = [sent EXCEPT ![c] = NoRecords]
           /\ offered' = [offered EXCEPT ![c] = NoOffsets]
           /\ unsent' = [unsent EXCEPT ![c] = NoRecords]
-----------------------------------------------------------------------------
\* The producer of the records that are read.
Produce(p) ==
  /\ logEnd[p] < MaxLog
  /\ logEnd' = [logEnd EXCEPT ![p] = @ + 1]
  /\ UNCHANGED <<broker, unfenced, transaction, pc, client, restarts, refusals, history>>

\* Mutant: a transactional id for each copy of the program.
InitOwnId(c) ==
  /\ Goto(c, "init", "poll")
  /\ c \notin decided
  /\ unfenced' = unfenced \cup {c}
  /\ Drop(c)
  /\ UNCHANGED <<logEnd, broker, client, restarts, refusals, history>>

\* initTransactions: waits until a transaction that was decided is completed,
\* aborts one that is open and fences whoever had the transactional id.
InitTransactions(c) ==
  /\ Goto(c, "init", "poll")
  /\ decided = {}
  /\ unfenced' = {c}
  /\ sent' = [d \in Programs |-> NoRecords]
  /\ offered' = [d \in Programs |-> NoOffsets]
  /\ unsent' = [d \in Programs |-> NoRecords]
  /\ UNCHANGED <<logEnd, broker, client, restarts, refusals, history>>

\* poll joins the group again and starts at the committed offsets, or at the end of
\* the log where there is none: AUTO_OFFSET_RESET_CONFIG is "latest".
Start(p) == IF committed[p] = None THEN logEnd[p] ELSE committed[p]

Assigned(c, S) ==
  LET start == [p \in Partitions |-> IF p \in S THEN Start(p) ELSE None]
  IN /\ Goto(c, "poll", "poll")
     /\ position' = [position EXCEPT ![c] = start]
     /\ next' = [next EXCEPT ![c] = start]
     /\ passedOver' = [p \in Partitions |->
                         passedOver[p] \cup (IF p \in S /\ committed[p] = None
                                             THEN Below(logEnd[p]) ELSE {})]
     /\ hasty' = (hasty \/ \E d \in decided : \E p \in S : offered[d][p] # None)
     /\ UNCHANGED <<logEnd, broker, unfenced, transaction, currentOffsets, empty,
                    restarts, refusals, missed>>

\* currentOffsets.clear(), and poll answers with the next n[p] records.
Poll(c, n) ==
  /\ Goto(c, "poll", "begin")
  /\ empty[c] < StopAfter
  /\ \E p \in Partitions : n[p] > 0
  /\ \A p \in Partitions :
       n[p] > 0 => position[c][p] # None /\ position[c][p] + n[p] <= logEnd[p]
  /\ position' = [position EXCEPT ![c] = [p \in Partitions |-> @[p] + n[p]]]
  /\ currentOffsets' = [currentOffsets EXCEPT ![c] = NoOffsets]
  /\ empty' = [empty EXCEPT ![c] = 0]
  /\ UNCHANGED <<logEnd, broker, unfenced, transaction, next, restarts, refusals, history>>

PollEmpty(c) ==
  /\ Goto(c, "poll", "poll")
  /\ empty[c] < StopAfter
  /\ empty' = [empty EXCEPT ![c] = @ + 1]
  /\ currentOffsets' = [currentOffsets EXCEPT ![c] = NoOffsets]
  /\ UNCHANGED <<logEnd, broker, unfenced, transaction, position, next, restarts,
                 refusals, history>>

\* beginTransaction.  What is sent then waits for the transaction before.
BeginTransaction(c) ==
  /\ Goto(c, "begin", "batch")
  /\ c \notin decided
  /\ UNCHANGED <<logEnd, broker, unfenced, transaction, client, restarts, refusals,
                 history>>

\* Mutant: one is added to an offset that is that of the next record already.
OneTooMany(o) == o + 2

\* cr.offset()+1
After(o) == o + 1

\* The next record of the batch: its offset is noted, once send has returned.
Note(c, p) ==
  /\ Goto(c, "batch", "offsets")
  /\ next[c][p] < position[c][p]
  /\ currentOffsets' = [currentOffsets EXCEPT ![c][p] = After(next[c][p])]
  /\ next' = [next EXCEPT ![c][p] = @ + 1]
  /\ UNCHANGED <<logEnd, broker, unfenced, offered, position, empty, restarts, history>>

\* send takes the reply, which counts unless the program is fenced.
Send(c, p) ==
  /\ Note(c, p)
  /\ sent' = IF c \in unfenced
             THEN [sent EXCEPT ![c][p] = @ \cup {next[c][p]}] ELSE sent
  /\ UNCHANGED <<unsent, refusals>>

\* send does not take it: there are no metadata or no buffer in time, the topic may not
\* be written to, the record is too large.  It says so only in the Future, which the
\* program drops, and the transaction goes on.
SendRefused(c, p) ==
  /\ c \in unfenced
  /\ Note(c, p)
  /\ unsent' = [unsent EXCEPT ![c][p] = @ \cup {next[c][p]}]
  /\ refusals < MaxRefusals
  /\ refusals' = refusals + 1
  /\ UNCHANGED sent

Merge(old, new) == [p \in Partitions |-> IF new[p] = None THEN old[p] ELSE new[p]]

\* Mutant: the consumer commits the offsets, outside the transaction.
CommitOutside(c) ==
  /\ Goto(c, "offsets", "batch")
  /\ committed' = Merge(committed, currentOffsets[c])
  /\ UNCHANGED <<logEnd, replies, decided, unfenced, transaction, client, restarts,
                 refusals, history>>

\* sendOffsetsToTransaction, with all the offsets noted since the batch began.
SendOffsets(c) ==
  /\ Goto(c, "offsets", "batch")
  /\ c \in unfenced
  /\ offered' = [offered EXCEPT ![c] = currentOffsets[c]]
  /\ UNCHANGED <<logEnd, broker, unfenced, sent, unsent, client, restarts, refusals,
                 history>>

\* It throws: the producer is fenced, or the group may not be written to.
OffsetsRefused(c) ==
  /\ Goto(c, "offsets", "abort")
  /\ IF c \in unfenced
     THEN refusals < MaxRefusals /\ refusals' = refusals + 1
     ELSE UNCHANGED refusals
  /\ UNCHANGED <<logEnd, broker, unfenced, transaction, client, restarts, history>>

\* A reply that send took could not be delivered: the next transactional call throws
\* a KafkaException, which nobody catches.  The transaction is left open.  Whoever is
\* fenced delivers nothing.
SendFails(c) ==
  /\ c \in unfenced => sent[c] # NoRecords
  /\ \/ Goto(c, "offsets", "closed")
     \/ Goto(c, "batch", "closed") /\ currentOffsets[c] # NoOffsets
  /\ UNCHANGED <<logEnd, broker, unfenced, transaction, client, restarts, refusals,
                 history>>

BatchDone(c) == next[c] = position[c]

\* commitTransaction answers when the coordinator has decided.
CommitTransaction(c) ==
  /\ BatchDone(c)
  /\ IF c \in unfenced
     THEN Goto(c, "batch", "poll") /\ decided' = decided \cup {c}
     ELSE Goto(c, "batch", "abort") /\ UNCHANGED decided
  /\ UNCHANGED <<logEnd, committed, replies, unfenced, transaction, client, restarts,
                 refusals, history>>

\* The offsets and the replies of a decided transaction become visible.  There is no
\* reply to a record that send did not take.
Complete(c) ==
  /\ c \in decided
  /\ decided' = decided \ {c}
  /\ committed' = Merge(committed, offered[c])
  /\ replies' = [p \in Partitions |-> [o \in Offsets |->
                   IF o \in sent[c][p] /\ replies[p][o] < 2
                   THEN replies[p][o] + 1 ELSE replies[p][o]]]
  /\ missed' = [p \in Partitions |-> missed[p] \cup unsent[c][p]]
  /\ Drop(c)
  /\ UNCHANGED <<logEnd, unfenced, pc, client, restarts, refusals, passedOver, hasty>>

\* The catch block.  The program goes on behind the batch whose replies it has
\* dropped, unless it is fenced: abortTransaction throws as well, and that is the end.
AbortTransaction(c) ==
  \/ /\ c \in unfenced
     /\ Goto(c, "abort", "poll")
     /\ passedOver' = [p \in Partitions |->
                         passedOver[p] \cup sent[c][p] \cup unsent[c][p]
                           \cup (IF next[c][p] = None THEN {}
                                 ELSE next[c][p]..(position[c][p] - 1))]
     /\ next' = [next EXCEPT ![c] = position[c]]
     /\ Drop(c)
     /\ UNCHANGED <<logEnd, broker, unfenced, position, currentOffsets, empty, restarts,
                    refusals, missed, hasty>>
  \/ /\ c \notin unfenced
     /\ Goto(c, "abort", "closed")
     /\ UNCHANGED <<logEnd, broker, unfenced, transaction, client, restarts, refusals,
                    history>>

\* The end of the loop after emptyCount empty polls.
Stop(c) ==
  /\ Goto(c, "poll", "closed")
  /\ empty[c] = StopAfter
  /\ UNCHANGED <<logEnd, broker, unfenced, transaction, client, restarts, refusals,
                 history>>

\* The coordinator aborts a transaction that has been open too long and fences its
\* producer.
TimeOut(c) ==
  /\ c \notin decided
  /\ sent[c] # NoRecords \/ offered[c] # NoOffsets
  /\ unfenced' = unfenced \ {c}
  /\ Drop(c)
  /\ UNCHANGED <<logEnd, broker, pc, client, restarts, refusals, history>>

\* The program dies, or has ended, and is started again.
Restart(c) ==
  /\ restarts < MaxRestarts
  /\ restarts' = restarts + 1
  /\ pc' = [pc EXCEPT ![c] = "init"]
  /\ position' = [position EXCEPT ![c] = NoOffsets]
  /\ next' = [next EXCEPT ![c] = NoOffsets]
  /\ currentOffsets' = [currentOffsets EXCEPT ![c] = NoOffsets]
  /\ empty' = [empty EXCEPT ![c] = 0]
  /\ UNCHANGED <<logEnd, broker, unfenced, transaction, refusals, history>>
-----------------------------------------------------------------------------
Step(c) == \/ InitTransactions(c)
           \/ \E S \in SUBSET Partitions : Assigned(c, S)
           \/ \E n \in [Partitions -> 0..MaxPoll] : Poll(c, n)
           \/ PollEmpty(c)
           \/ BeginTransaction(c)
           \/ \E p \in Partitions : Send(c, p) \/ SendRefused(c, p)
           \/ SendOffsets(c) \/ OffsetsRefused(c) \/ SendFails(c)
           \/ CommitTransaction(c) \/ AbortTransaction(c)
           \/ Complete(c) \/ TimeOut(c)
           \/ Stop(c) \/ Restart(c)

Next == \/ \E c \in Programs : Step(c)
        \/ \E p \in Partitions : Produce(p)

Spec == Init /\ [][Next]_vars
-----------------------------------------------------------------------------
TypeOK == /\ logEnd \in [Partitions -> Offsets]
          /\ committed \in OffsetMap
          /\ replies \in [Partitions -> [Offsets -> 0..2]]
          /\ unfenced \subseteq Programs
          /\ sent \in [Programs -> RecordSets]
          /\ offered \in [Programs -> OffsetMap]
          /\ unsent \in [Programs -> RecordSets]
          /\ decided \subseteq Programs
          /\ pc \in [Programs -> {"init", "poll", "begin", "batch", "offsets", "abort",
                                  "closed"}]
          /\ position \in [Programs -> OffsetMap]
          /\ next \in [Programs -> OffsetMap]
          /\ currentOffsets \in [Programs -> OffsetMap]
          /\ empty \in [Programs -> 0..StopAfter]
          /\ restarts \in 0..MaxRestarts
          /\ refusals \in 0..MaxRefusals
          /\ passedOver \in RecordSets
          /\ missed \in RecordSets
          /\ hasty \in BOOLEAN

Answered(p) == {o \in Offsets : replies[p][o] > 0}

\* Whoever dies, is fenced in the middle of a batch or loses its partitions: a record
\* below a committed offset has its reply, unless the program aborted its batch and
\* went on behind it, the reset to "latest" passed over it, or its transaction was
\* committed although send had not taken the reply.
LossExplained ==
  \A p \in Partitions :
    Below(committed[p]) \subseteq Answered(p) \cup passedOver[p] \cup missed[p]

Once == INSTANCE ExactlyOnce WITH
          done <- [p \in Partitions |-> IF committed[p] = None THEN 0 ELSE committed[p]]

\* Replies and offsets become visible together and no record is answered twice, as
\* long as poll has not started at an offset that a decided transaction was about to
\* replace.
RepliesOnce == Once!Init /\ [][Once!Next \/ hasty']_(Once!vars)
=============================================================================
