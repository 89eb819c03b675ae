---------------------------- MODULE KafkaOffsets ----------------------------
(***************************************************************************)
(* The consumers of kafka-simple-demo.  Five programs read one topic in    *)
(* one group and differ in how they commit what they have read:            *)
(*                                                                         *)
(*   auto         SimpleConsumer: the client commits now and then in poll  *)
(*   sync         SimpleConsumerCommitSync: commitSync() after each batch  *)
(*   async        SimpleConsumerCommitAsync: commitAsync() after each      *)
(*                batch, commitSync() at the end                           *)
(*   syncOffset   SimpleConsumerCommitSyncOffset: commitSync(offsets)      *)
(*                after each record                                        *)
(*   asyncOffset  SimpleConsumerCommitAsyncOffset: commitAsync(offsets)    *)
(*                after each record, commitSync(offsets) at the end        *)
(*                                                                         *)
(* The group coordinator accepts a commit from a member of its current     *)
(* generation, for any partition.  A consumer it has dropped notices only  *)
(* when it next asks, and reads on until then.                             *)
(***************************************************************************)
EXTENDS Integers, Sequences, FiniteSets, Functions

CONSTANTS Consumers, Partitions,
          Lineups,      \* which program each consumer runs
          StopAfter,    \* stopAfterCountEmpty()
          MaxPoll,      \* MAX_POLL_RECORDS_CONFIG
          MaxLog,       \* bound: records in a partition
          MaxGen,       \* bound: generations of the group
          MaxCrashes,   \* bound: consumers that die and are started again
          MaxInFlight   \* bound: unanswered commitAsync calls of a consumer

Kinds == {"auto", "sync", "async", "syncOffset", "asyncOffset"}
ASSUME LineupsAssumption == Lineups \subseteq [Consumers -> Kinds]
ASSUME BoundsAssumption ==
  /\ StopAfter \in Nat /\ MaxPoll \in Nat /\ MaxLog \in Nat
  /\ MaxGen \in Nat /\ MaxCrashes \in Nat /\ MaxInFlight \in Nat

None == -1              \* no offset
Offsets == 0..MaxLog
OffsetMap == [Partitions -> Offsets \cup {None}]
NoOffsets == [p \in Partitions |-> None]
Below(o) == 0..(o - 1)

VARIABLES logEnd,         \* the offset of the next record of each partition
          committed,      \* the group's committed offsets
          gen,            \* its generation
          kind,           \* the program each consumer runs
          pc,
          memberGen,      \* the generation a consumer believes in; 0: none
          owned,          \* the partitions assigned to it
          position,       \* up to where poll has read them
          next,           \* the next record of the batch to look at
          currentOffsets,
          inflight,       \* its commitAsync calls on their way
          empty,          \* emptyCount
          crashes,
          processed,      \* history: records some consumer has looked at
          skipped         \* history: records the reset to "latest" passed over

group == <<committed, gen>>
client == <<memberGen, owned, position, next, currentOffsets, empty>>
history == <<processed, skipped>>
vars == <<logEnd, group, kind, pc, client, inflight, crashes, history>>

Init == /\ logEnd = [p \in Partitions |-> 0]
        /\ committed = NoOffsets
        /\ gen = 0
        /\ kind \in Lineups
        /\ pc = [c \in Consumers |-> "poll"]
        /\ memberGen = [c \in Consumers |-> 0]
        /\ owned = [c \in Consumers |-> {}]
        /\ position = [c \in Consumers |-> NoOffsets]
        /\ next = [c \in Consumers |-> NoOffsets]
        /\ currentOffsets = [c \in Consumers |-> NoOffsets]
        /\ inflight = [c \in Consumers |-> <<>>]
        /\ empty = [c \in Consumers |-> 0]
        /\ crashes = 0
        /\ processed = [p \in Partitions |-> {}]
        /\ skipped = [p \in Partitions |-> {}]

Goto(c, from, to) == pc[c] = from /\ pc' = [pc EXCEPT ![c] = to]
-----------------------------------------------------------------------------
\* The coordinator's answer to a commit of generation g.
Commit(g, offsets) ==
  committed' = IF g = gen
               THEN [p \in Partitions |-> IF offsets[p] = None THEN committed[p]
                                                               ELSE offsets[p]]
               ELSE committed

\* commitAsync.
Send(c, offsets) == /\ Len(inflight[c]) < MaxInFlight
                    /\ inflight' = [inflight EXCEPT ![c] =
                                      Append(@, [gen |-> memberGen[c], offsets |-> offsets])]

Pop(c) == inflight[c] # <<>> /\ inflight' = [inflight EXCEPT ![c] = Tail(@)]

\* An asynchronous commit arrives, or is lost and not retried.
Deliver(c) == /\ Pop(c)
              /\ Commit(Head(inflight[c]).gen, Head(inflight[c]).offsets)
              /\ UNCHANGED <<logEnd, gen, kind, pc, client, crashes, history>>

Lose(c) == /\ Pop(c)
           /\ UNCHANGED <<logEnd, group, kind, pc, client, crashes, history>>

\* commitSync: it waits for the asynchronous commits before it.
CommitSync(c, offsets) == inflight[c] = <<>> /\ Commit(memberGen[c], offsets)

\* The producer.
Produce(p) == /\ logEnd[p] < MaxLog
              /\ logEnd' = [logEnd EXCEPT ![p] = @ + 1]
              /\ UNCHANGED <<group, kind, pc, client, inflight, crashes, history>>

\* The consumers that are in poll, or some of them, form the next generation.
\* Who is not among them has left or is dropped.
Rebalance(joined, owner) ==
  /\ gen < MaxGen
  /\ \A c \in joined : pc[c] = "poll"
  /\ gen' = gen + 1
  /\ memberGen' = [c \in Consumers |-> IF c \in joined THEN gen + 1 ELSE memberGen[c]]
  /\ owned' = [c \in Consumers |-> IF c \in joined
                                   THEN {p \in Partitions : owner[p] = c} ELSE owned[c]]
  /\ pc' = [c \in Consumers |-> IF c \in joined THEN "assigned" ELSE pc[c]]
  /\ position' = [c \in Consumers |-> IF c \in joined THEN NoOffsets ELSE position[c]]
  /\ next' = [c \in Consumers |-> IF c \in joined THEN NoOffsets ELSE next[c]]
  /\ UNCHANGED <<logEnd, committed, kind, currentOffsets, inflight, empty, crashes,
                 history>>
-----------------------------------------------------------------------------
\* onPartitionsAssigned.  An exception of commitSync is logged by the client.
OnPartitionsAssigned(c) ==
  /\ Goto(c, "assigned", "fetch")
  /\ IF kind[c] \in {"syncOffset", "asyncOffset"}
     THEN CommitSync(c, currentOffsets[c])
     ELSE UNCHANGED committed
  /\ UNCHANGED <<logEnd, gen, kind, client, inflight, crashes, history>>

\* poll asks for the committed offsets; AUTO_OFFSET_RESET_CONFIG is "latest".
FetchPositions(c) ==
  LET start == [p \in Partitions |-> IF p \notin owned[c] THEN None
                                     ELSE IF committed[p] = None THEN logEnd[p]
                                     ELSE committed[p]]
  IN /\ Goto(c, "fetch", "poll")
     /\ position' = [position EXCEPT ![c] = start]
     /\ next' = [next EXCEPT ![c] = start]
     /\ skipped' = [p \in Partitions |->
                      IF p \in owned[c] /\ committed[p] = None
                      THEN skipped[p] \cup Below(logEnd[p]) ELSE skipped[p]]
     /\ UNCHANGED <<logEnd, group, kind, memberGen, owned, currentOffsets, inflight,
                    empty, crashes, processed>>

Running(c) == memberGen[c] # 0 /\ empty[c] < StopAfter

\* poll answers with the next n[p] records of each partition.
Poll(c, n) == /\ Goto(c, "poll", "batch")
              /\ Running(c)
              /\ FoldFunction(+, 0, n) \in 1..MaxPoll
              /\ \A p \in Partitions :
                   n[p] > 0 => p \in owned[c] /\ position[c][p] + n[p] <= logEnd[p]
              /\ position' = [position EXCEPT ![c] = [p \in Partitions |-> @[p] + n[p]]]
              /\ empty' = [empty EXCEPT ![c] = 0]
              /\ UNCHANGED <<logEnd, group, kind, memberGen, owned, next,
                             currentOffsets, inflight, crashes, history>>

PollEmpty(c) == /\ pc[c] = "poll"
                /\ Running(c)
                /\ empty' = [empty EXCEPT ![c] = @ + 1]
                /\ UNCHANGED <<logEnd, group, kind, pc, memberGen, owned, position,
                               next, currentOffsets, inflight, crashes, history>>

\* Mutant: the client commits the batch that it is about to hand out.
AutoCommitEarly(c) == /\ pc[c] \in {"poll", "batch"}
                      /\ kind[c] = "auto"
                      /\ memberGen[c] # 0
                      /\ Send(c, position[c])
                      /\ UNCHANGED <<logEnd, group, kind, pc, client, crashes, history>>

\* ENABLE_AUTO_COMMIT_CONFIG: poll commits what earlier polls have answered, now
\* and then and before it joins the group again.
AutoCommit(c) == /\ pc[c] = "poll"
                 /\ kind[c] = "auto"
                 /\ memberGen[c] # 0
                 /\ Send(c, position[c])
                 /\ UNCHANGED <<logEnd, group, kind, pc, client, crashes, history>>

\* Mutant: one is added to an offset that is that of the next record already.
OneTooMany(o) == o + 2

\* cr.offset() + 1
After(o) == o + 1

\* The loop over the batch: a record is looked at and its offset noted.
Process(c, p) ==
  LET noted == kind[c] \in {"syncOffset", "asyncOffset"}
  IN /\ Goto(c, "batch", IF noted THEN "commit" ELSE "batch")
     /\ next[c][p] < position[c][p]
     /\ processed' = [processed EXCEPT ![p] = @ \cup {next[c][p]}]
     /\ next' = [next EXCEPT ![c][p] = @ + 1]
     /\ currentOffsets' = IF noted
                          THEN [currentOffsets EXCEPT ![c][p] = After(next[c][p])]
                          ELSE currentOffsets
     /\ UNCHANGED <<logEnd, group, kind, memberGen, owned, position, inflight, empty,
                    crashes, skipped>>

\* The commit in the loop: i is never incremented, so that it follows each record.
CommitRecordAsync(c) == /\ kind[c] = "asyncOffset"
                        /\ Goto(c, "commit", "batch")
                        /\ Send(c, currentOffsets[c])
                        /\ UNCHANGED <<logEnd, group, kind, client, crashes, history>>

\* A CommitFailedException leaves the loop of this program.
CommitRecordSync(c) ==
  /\ kind[c] = "syncOffset"
  /\ Goto(c, "commit", IF memberGen[c] = gen THEN "batch" ELSE "close")
  /\ CommitSync(c, currentOffsets[c])
  /\ UNCHANGED <<logEnd, gen, kind, client, inflight, crashes, history>>

BatchDone(c) == next[c] = position[c]

\* The end of a batch.  A CommitFailedException is caught.
EndBatchSync(c) == /\ kind[c] = "sync"
                   /\ BatchDone(c)
                   /\ Goto(c, "batch", "poll")
                   /\ CommitSync(c, position[c])
                   /\ UNCHANGED <<logEnd, gen, kind, client, inflight, crashes, history>>

EndBatchAsync(c) == /\ kind[c] = "async"
                    /\ BatchDone(c)
                    /\ Goto(c, "batch", "poll")
                    /\ Send(c, position[c])
                    /\ UNCHANGED <<logEnd, group, kind, client, crashes, history>>

\* Mutant: the offsets are not cleared after the batch.
EndBatchKeep(c) == /\ kind[c] \in {"auto", "syncOffset", "asyncOffset"}
                   /\ BatchDone(c)
                   /\ Goto(c, "batch", "poll")
                   /\ UNCHANGED <<logEnd, group, kind, client, inflight, crashes, history>>

\* currentOffsets.clear() of SimpleConsumerCommitSyncOffset; the others do nothing.
EndBatch(c) == /\ kind[c] \in {"auto", "syncOffset", "asyncOffset"}
               /\ BatchDone(c)
               /\ Goto(c, "batch", "poll")
               /\ currentOffsets' = IF kind[c] = "syncOffset"
                                    THEN [currentOffsets EXCEPT ![c] = NoOffsets]
                                    ELSE currentOffsets
               /\ UNCHANGED <<logEnd, group, kind, memberGen, owned, position, next,
                              inflight, empty, crashes, history>>

Stop(c) == /\ Goto(c, "poll", "close")
           /\ empty[c] = StopAfter
           /\ UNCHANGED <<logEnd, group, kind, client, inflight, crashes, history>>

\* What the finally block commits, and close() of a client that commits by itself.
FinalOffsets(c) == CASE kind[c] \in {"auto", "async"} -> position[c]
                     [] kind[c] = "asyncOffset" -> currentOffsets[c]
                     [] OTHER -> NoOffsets

\* Mutant: close() without the final commit.
CloseAtOnce(c) == /\ Goto(c, "close", "closed")
                  /\ UNCHANGED <<logEnd, group, kind, client, inflight, crashes, history>>

Close(c) == /\ Goto(c, "close", "closed")
            /\ CommitSync(c, FinalOffsets(c))
            /\ UNCHANGED <<logEnd, gen, kind, client, inflight, crashes, history>>

\* The process dies and is started again: it has to join the group anew.
Crash(c) == /\ crashes < MaxCrashes
            /\ pc[c] # "closed"
            /\ crashes' = crashes + 1
            /\ pc' = [pc EXCEPT ![c] = "poll"]
            /\ memberGen' = [memberGen EXCEPT ![c] = 0]
            /\ owned' = [owned EXCEPT ![c] = {}]
            /\ position' = [position EXCEPT ![c] = NoOffsets]
            /\ next' = [next EXCEPT ![c] = NoOffsets]
            /\ currentOffsets' = [currentOffsets EXCEPT ![c] = NoOffsets]
            /\ empty' = [empty EXCEPT ![c] = 0]
            /\ UNCHANGED <<logEnd, group, kind, inflight, history>>
-----------------------------------------------------------------------------
Step(c) == \/ Deliver(c) \/ Lose(c)
           \/ OnPartitionsAssigned(c) \/ FetchPositions(c)
           \/ PollEmpty(c) \/ AutoCommit(c)
           \/ \E n \in [Partitions -> 0..MaxPoll] : Poll(c, n)
           \/ \E p \in Partitions : Process(c, p)
           \/ CommitRecordAsync(c) \/ CommitRecordSync(c)
           \/ EndBatchSync(c) \/ EndBatchAsync(c) \/ EndBatch(c)
           \/ Stop(c) \/ Close(c) \/ Crash(c)

Next == \/ \E c \in Consumers : Step(c)
        \/ \E p \in Partitions : Produce(p)
        \/ \E joined \in SUBSET Consumers \ {{}} :
             \E owner \in [Partitions -> joined] : Rebalance(joined, owner)

Spec == Init /\ [][Next]_vars
-----------------------------------------------------------------------------
TypeOK == /\ logEnd \in [Partitions -> Offsets]
          /\ committed \in OffsetMap
          /\ gen \in 0..MaxGen
          /\ kind \in [Consumers -> Kinds]
          /\ pc \in [Consumers -> {"poll", "assigned", "fetch", "batch", "commit",
                                   "close", "closed"}]
          /\ memberGen \in [Consumers -> 0..MaxGen]
          /\ owned \in [Consumers -> SUBSET Partitions]
          /\ position \in [Consumers -> OffsetMap]
          /\ next \in [Consumers -> OffsetMap]
          /\ currentOffsets \in [Consumers -> OffsetMap]
          /\ inflight \in [Consumers -> Seq([gen : 0..MaxGen, offsets : OffsetMap])]
          /\ empty \in [Consumers -> 0..StopAfter]
          /\ crashes \in 0..MaxCrashes
          /\ processed \in [Partitions -> SUBSET Below(MaxLog)]
          /\ skipped \in [Partitions -> SUBSET Below(MaxLog)]

\* Whoever crashes, is dropped, reads on without knowing it or answers late: an
\* offset is committed only after the records before it were looked at, but for
\* those that the reset to "latest" passed over.
NothingSkipped ==
  \A p \in Partitions : Below(committed[p]) \subseteq processed[p] \cup skipped[p]

\* "NO RETRY for the possibility of the bigger offset had commited": a committed
\* offset is not replaced by a smaller one.
NeverRegresses == [][\A p \in Partitions : committed'[p] >= committed[p]]_vars

\* The programs that commit what they have just read, and nothing they have kept.
Forgetful == \A c \in Consumers : kind[c] # "asyncOffset"

\* In a group of those a committed offset never falls, however partitions change
\* hands and whatever commits are late or lost.
OffsetsGrow ==
  [][Forgetful => \A p \in Partitions : committed'[p] >= committed[p]]_vars

\* And a consumer that ends its loop as a member of the group leaves nothing it has
\* read uncommitted, although asynchronous commits may have been lost.
Ends(c) == pc[c] = "close" /\ pc'[c] = "closed" /\ memberGen[c] = gen
EndsCommitted ==
  [][\A c \in Consumers : Forgetful /\ Ends(c) =>
       \A p \in owned[c] :
         \/ committed'[p] = position[c][p]
         \/ committed'[p] = None /\ Below(position[c][p]) \subseteq skipped[p]]_vars
=============================================================================
