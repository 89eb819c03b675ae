-------------------------- MODULE KafkaOffsetsProofs --------------------------
(***************************************************************************)
(* KafkaOffsets for any consumers, partitions, line-ups and bounds: its    *)
(* types, what a committed offset says of the records below it, that       *)
(* committed offsets do not fall, and what is committed at the end.        *)
(***************************************************************************)
EXTENDS KafkaOffsets, SequenceTheorems, TLAPS

Commits == [gen : 0..MaxGen, offsets : OffsetMap]
Labels == {"poll", "assigned", "fetch", "batch", "commit", "close", "closed"}

\* The batch in hand lies between next and position, and both are offsets or neither.
Windows == \A c \in Consumers, p \in Partitions :
  /\ next[c][p] <= position[c][p]
  /\ next[c][p] = None => position[c][p] = None

\* Consumers read what they own, from the moment they have asked where to begin.
Reads == \A c \in Consumers, p \in Partitions :
  /\ next[c][p] # None => p \in owned[c]
  /\ pc[c] \in {"assigned", "fetch"} => next[c][p] = None
  /\ p \in owned[c] /\ pc[c] \notin {"assigned", "fetch"} => next[c][p] # None
  /\ memberGen[c] = 0 => p \notin owned[c]

\* Offsets that are noted, sent or committed have only records below them that were
\* looked at or passed over.
Done(p) == processed[p] \cup skipped[p]
Covered(o) == \A p \in Partitions : Below(o[p]) \subseteq Done(p)
Places(c) == 1..Len(inflight[c])
Sent(c, k) == inflight[c][k]

\* A batch is over when a consumer polls again, or ends: its loop is only left earlier
\* when a commit has been refused.
Over == \A c \in Consumers :
  pc[c] \notin {"batch", "commit"} /\ (kind[c] # "syncOffset" \/ memberGen[c] = gen) =>
    next[c] = position[c]

\* Nobody is ahead of the coordinator's generation, and only members have batches and
\* commits.
Gens == \A c \in Consumers :
  /\ memberGen[c] <= gen
  /\ pc[c] \in {"batch", "commit"} => memberGen[c] # 0
  /\ \A k \in Places(c) : Sent(c, k).gen <= gen /\ Sent(c, k).gen # 0

NextCovered == \A c \in Consumers : Covered(next[c])
NotedCovered == \A c \in Consumers : Covered(currentOffsets[c])
SentCovered == \A c \in Consumers : \A k \in Places(c) : Covered(Sent(c, k).offsets)

CoverInv == /\ TypeOK /\ Windows /\ Reads /\ Over /\ Gens
            /\ NextCovered /\ NotedCovered /\ SentCovered /\ Covered(committed)

\* What syncOffset has noted belongs to the batch in hand.
Notes == \A c \in Consumers, p \in Partitions : kind[c] = "syncOffset" =>
  /\ pc[c] \in {"batch", "commit"} => currentOffsets[c][p] \in {None, next[c][p]}
  /\ pc[c] \in {"poll", "assigned", "fetch"} => currentOffsets[c][p] = None

\* The commits of c that the coordinator would accept.
Current(c, k) == k \in Places(c) /\ Sent(c, k).gen = gen

\* In one generation a partition is committed by one consumer only.
Claims(c, p) == \/ memberGen[c] = gen /\ p \in owned[c]
                \/ \E k \in Places(c) : Current(c, k) /\ Sent(c, k).offsets[p] # None
Exclusive == \A c, d \in Consumers, p \in Partitions : Claims(c, p) /\ Claims(d, p) => c = d

\* Its commits are on their way in the order of their offsets, between what is
\* committed and what it reads next.
Sorted == \A c \in Consumers, p \in Partitions : \A j, k \in Places(c) :
  Current(c, j) /\ Current(c, k) /\ j <= k =>
    Sent(c, j).offsets[p] <= Sent(c, k).offsets[p]
SentAhead == \A c \in Consumers, p \in Partitions : \A k \in Places(c) :
  Current(c, k) /\ Sent(c, k).offsets[p] # None => committed[p] <= Sent(c, k).offsets[p]
NextAhead == \A c \in Consumers, p \in Partitions : memberGen[c] = gen =>
  /\ next[c][p] # None => committed[p] <= next[c][p]
  /\ \A k \in Places(c) : Current(c, k) => Sent(c, k).offsets[p] <= next[c][p]
Joining == \A c \in Consumers : memberGen[c] = gen /\ pc[c] \in {"assigned", "fetch"} =>
  \A k \in Places(c) : ~Current(c, k)

\* Two programs commit with commitSync only, and leave nothing behind.
Synchronous(c) == kind[c] \in {"sync", "syncOffset"}
Settling(c, p) == /\ memberGen[c] = gen /\ p \in owned[c]
                  /\ \/ kind[c] = "sync" /\ pc[c] \in {"poll", "close"}
                     \/ kind[c] = "syncOffset" /\ pc[c] \in {"poll", "batch", "close"}
                     \/ /\ kind[c] = "syncOffset" /\ pc[c] = "commit"
                        /\ currentOffsets[c][p] = None
UpToDate(o, p) == \/ committed[p] = o
                  \/ committed[p] = None /\ Below(o) \subseteq skipped[p]
Settled == \A c \in Consumers :
  /\ Synchronous(c) => inflight[c] = <<>>
  /\ \A p \in Partitions : Settling(c, p) => UpToDate(next[c][p], p)

OrderInv == /\ Notes /\ Exclusive /\ Joining
            /\ Sorted /\ SentAhead /\ NextAhead /\ Settled
-----------------------------------------------------------------------------
\* The first values are of their types.
LEMMA BasicTypes == /\ NoOffsets \in OffsetMap
                    /\ 0 \in Offsets /\ 0 \in 0..MaxGen /\ 0 \in 0..StopAfter
                    /\ 0 \in 0..MaxCrashes
                    /\ Offsets \subseteq Nat
  BY BoundsAssumption DEF NoOffsets, OffsetMap, Offsets, None

LEMMA TypeInit == Init => TypeOK
<1> SUFFICES ASSUME Init PROVE TypeOK
  OBVIOUS
<1>1. kind \in [Consumers -> Kinds]
  BY LineupsAssumption DEF Init
<1>2. inflight \in [Consumers -> Seq(Commits)]
  BY DEF Init
<1> QED BY BasicTypes, <1>1, <1>2 DEF Init, TypeOK, Commits, Labels

\* What the coordinator makes of a commit.
LEMMA CommitType ==
  ASSUME TypeOK, NEW g, NEW o \in OffsetMap, Commit(g, o)
  PROVE  committed' \in OffsetMap
  BY DEF Commit, TypeOK, OffsetMap

\* The queue of the asynchronous commits.
LEMMA SendType ==
  ASSUME TypeOK, NEW c \in Consumers, NEW o \in OffsetMap, Send(c, o)
  PROVE  inflight' \in [Consumers -> Seq(Commits)]
<1> DEFINE e == [gen |-> memberGen[c], offsets |-> o]
<1>1. e \in Commits
  BY DEF TypeOK, Commits
<1>2. inflight \in [Consumers -> Seq(Commits)]
  BY DEF TypeOK, Commits
<1>3. inflight' = [inflight EXCEPT ![c] = Append(@, e)]
  BY DEF Send
<1> HIDE DEF e
<1> QED BY <1>1, <1>2, <1>3

\* A commit sent is the last of its queue, and the others stay in their places.
LEMMA SendQueue ==
  ASSUME TypeOK, NEW c \in Consumers, NEW o \in OffsetMap, Send(c, o)
  PROVE  /\ Len(inflight[c]) \in Nat
         /\ Places(c)' = Places(c) \cup {Len(inflight[c]) + 1}
         /\ \A k \in Places(c) : Sent(c, k)' = Sent(c, k)
         /\ inflight'[c][Len(inflight[c]) + 1] = [gen |-> memberGen[c], offsets |-> o]
         /\ \A d \in Consumers \ {c} : inflight'[d] = inflight[d]
<1> DEFINE e == [gen |-> memberGen[c], offsets |-> o]
<1>1. e \in Commits
  BY DEF TypeOK, Commits
<1>2. inflight \in [Consumers -> Seq(Commits)]
  BY DEF TypeOK, Commits
<1>3. inflight' = [inflight EXCEPT ![c] = Append(@, e)]
  BY DEF Send
<1> HIDE DEF e
<1>4. inflight'[c] = Append(inflight[c], e) /\ inflight[c] \in Seq(Commits)
  BY <1>2, <1>3
<1>5. Len(inflight'[c]) = Len(inflight[c]) + 1 /\ Len(inflight[c]) \in Nat
  BY <1>1, <1>4
<1>6. \A k \in 1..Len(inflight[c]) : inflight'[c][k] = inflight[c][k]
  BY <1>1, <1>4
<1>7. inflight'[c][Len(inflight[c]) + 1] = e
  BY <1>1, <1>4
<1>8. \A d \in Consumers \ {c} : inflight'[d] = inflight[d]
  BY <1>2, <1>3
<1>9. 1..(Len(inflight[c]) + 1) = 1..Len(inflight[c]) \cup {Len(inflight[c]) + 1}
  BY <1>5
<1>10. Places(c)' = Places(c) \cup {Len(inflight[c]) + 1}
  BY <1>5, <1>9 DEF Places
<1> QED BY <1>5, <1>6, <1>7, <1>8, <1>10 DEF Places, Sent, e

\* A commit that arrives or is lost is the first; the others move up.
LEMMA PopQueue ==
  ASSUME TypeOK, NEW c \in Consumers, Pop(c)
  PROVE  /\ inflight' \in [Consumers -> Seq(Commits)]
         /\ 1 \in Places(c) /\ Head(inflight[c]) = Sent(c, 1)
         /\ \A k \in Places(c)' : k + 1 \in Places(c) /\ Sent(c, k)' = Sent(c, k + 1)
         /\ \A d \in Consumers \ {c} : inflight'[d] = inflight[d]
<1>1. inflight \in [Consumers -> Seq(Commits)]
  BY DEF TypeOK, Commits
<1>2. inflight[c] # <<>> /\ inflight' = [inflight EXCEPT ![c] = Tail(@)]
  BY DEF Pop
<1>3. inflight[c] \in Seq(Commits) /\ inflight'[c] = Tail(inflight[c])
  BY <1>1, <1>2
<1>4. Len(inflight[c]) \in Nat \ {0} /\ Head(inflight[c]) = inflight[c][1]
  BY <1>2, <1>3, EmptySeq
<1>5. inflight'[c] \in Seq(Commits) /\ Len(inflight'[c]) = Len(inflight[c]) - 1
  BY <1>2, <1>3, HeadTailProperties
<1>6. \A k \in 1..Len(inflight'[c]) : inflight'[c][k] = inflight[c][k + 1]
  BY <1>2, <1>3, HeadTailProperties
<1>7. \A d \in Consumers \ {c} : inflight'[d] = inflight[d]
  BY <1>1, <1>2
<1>8. inflight' \in [Consumers -> Seq(Commits)]
  BY <1>1, <1>2, <1>5
<1>9. \A k \in 1..Len(inflight'[c]) : k + 1 \in 1..Len(inflight[c])
  BY <1>4, <1>5
<1>10. 1 \in 1..Len(inflight[c])
  BY <1>4
<1> QED BY <1>4, <1>6, <1>9, <1>7, <1>8, <1>10 DEF Places, Sent

\* The queues hold commits.
LEMMA SentType ==
  ASSUME TypeOK, NEW c \in Consumers, NEW k \in Places(c)
  PROVE  Sent(c, k).gen \in 0..MaxGen /\ Sent(c, k).offsets \in OffsetMap
<1>1. inflight[c] \in Seq(Commits)
  BY DEF TypeOK, Commits
<1>2. inflight[c][k] \in Commits
  BY <1>1 DEF Places
<1> QED BY <1>2 DEF Sent, Commits

\* Poll, without the condition on the size of the batch.
LEMMA PollMoves ==
  ASSUME TypeOK, NEW c \in Consumers, NEW n \in [Partitions -> 0..MaxPoll], Poll(c, n)
  PROVE  /\ pc[c] = "poll" /\ pc' = [pc EXCEPT ![c] = "batch"]
         /\ position' = [position EXCEPT ![c] = [p \in Partitions |-> @[p] + n[p]]]
         /\ \A p \in Partitions :
              n[p] > 0 => p \in owned[c] /\ position[c][p] + n[p] <= logEnd[p]
         /\ empty' = [empty EXCEPT ![c] = 0]
         /\ UNCHANGED <<logEnd, committed, gen, kind, memberGen, owned, next,
                        currentOffsets, inflight, crashes, processed, skipped>>
  BY DEF Poll, Goto, group, history

\* Records stay looked at or passed over.
Keeps == \A p \in Partitions : /\ processed[p] \subseteq processed'[p]
                               /\ skipped[p] \subseteq skipped'[p]

\* What was covered stays so.
LEMMA Kept ==
  ASSUME Keeps, NEW o \in OffsetMap, Covered(o)
  PROVE  Covered(o)'
  BY DEF Keeps, Covered, Done

\* The queue of a consumer that neither sends nor has a commit answered.
LEMMA KeptQueues ==
  ASSUME TypeOK, Keeps, Gens, SentCovered, gen \in Nat, gen' \in Nat, gen <= gen',
         NEW c \in Consumers, inflight'[c] = inflight[c]
  PROVE  \A k \in Places(c)' : /\ Sent(c, k)'.gen <= gen' /\ Sent(c, k)'.gen # 0
                                 /\ Covered(Sent(c, k).offsets)'
<1> SUFFICES ASSUME NEW k \in Places(c)
             PROVE  /\ Sent(c, k)'.gen <= gen' /\ Sent(c, k)'.gen # 0
                    /\ Covered(Sent(c, k).offsets)'
  BY DEF Places
<1>1. Sent(c, k)' = Sent(c, k)
  BY DEF Sent
<1>2. Sent(c, k).gen \in 0..MaxGen /\ Sent(c, k).offsets \in OffsetMap
  BY SentType
<1>3. Sent(c, k).gen <= gen /\ Sent(c, k).gen # 0 /\ Covered(Sent(c, k).offsets)
  BY DEF Gens, SentCovered
<1>4. Covered(Sent(c, k).offsets)'
  BY <1>1, <1>2, <1>3 DEF Covered, Keeps, Done
<1> QED BY <1>1, <1>2, <1>3, <1>4

\* A commit that arrives was covered when it was sent.
LEMMA CoverPop ==
  ASSUME CoverInv, NEW c \in Consumers, Deliver(c) \/ Lose(c)
  PROVE  CoverInv'
<1>1. TypeOK /\ Windows /\ Reads /\ Over /\ Gens /\ NextCovered /\ NotedCovered
      /\ SentCovered /\ Covered(committed)
  BY DEF CoverInv
<1>2. Pop(c) /\ UNCHANGED <<logEnd, gen, kind, pc, memberGen, owned, position, next,
                            currentOffsets, empty, crashes, processed, skipped>>
  BY DEF Deliver, Lose, group, client, history
<1>3. /\ inflight' \in [Consumers -> Seq(Commits)]
      /\ 1 \in Places(c) /\ Head(inflight[c]) = Sent(c, 1)
      /\ \A k \in Places(c)' : k + 1 \in Places(c) /\ Sent(c, k)' = Sent(c, k + 1)
      /\ \A d \in Consumers \ {c} : inflight'[d] = inflight[d]
  BY <1>1, <1>2, PopQueue
<1>4. committed' \in OffsetMap /\ Covered(committed)'
  <2>1. CASE Deliver(c)
    <3>1. Sent(c, 1).offsets \in OffsetMap /\ Covered(Sent(c, 1).offsets)
      BY <1>1, <1>3, SentType DEF SentCovered
    <3>2. Commit(Sent(c, 1).gen, Sent(c, 1).offsets)
      BY <1>3, <2>1 DEF Deliver
    <3>3. committed' \in OffsetMap
      BY <1>1, <3>1, <3>2, CommitType
    <3> QED BY <1>1, <1>2, <3>1, <3>2, <3>3 DEF Commit, Covered, Done
  <2>2. CASE Lose(c)
    BY <1>1, <1>2, <2>2 DEF Lose, group, Covered, Done, TypeOK
  <2> QED BY <2>1, <2>2
<1>5. TypeOK'
  BY <1>1, <1>2, <1>3, <1>4 DEF TypeOK, Commits
<1>6. Windows' /\ Reads' /\ Over' /\ NextCovered' /\ NotedCovered'
  BY <1>1, <1>2 DEF Windows, Reads, Over, NextCovered, NotedCovered, Covered, Done
<1>7. \A d \in Consumers : \A k \in Places(d)' :
        /\ Sent(d, k)'.gen <= gen' /\ Sent(d, k)'.gen # 0
        /\ Covered(Sent(d, k).offsets)'
  <2> SUFFICES ASSUME NEW d \in Consumers, NEW k \in Places(d)'
               PROVE  /\ Sent(d, k)'.gen <= gen' /\ Sent(d, k)'.gen # 0
                      /\ Covered(Sent(d, k).offsets)'
    OBVIOUS
  <2>1. PICK j \in Places(d) : Sent(d, k)' = Sent(d, j)
    BY <1>3 DEF Sent, Places
  <2> QED BY <1>1, <1>2, <2>1 DEF Gens, SentCovered, Covered, Done
<1>8. Gens' /\ SentCovered'
  BY <1>1, <1>2, <1>7 DEF Gens, SentCovered
<1> QED BY <1>4, <1>5, <1>6, <1>8 DEF CoverInv

\* The queue grows by a covered commit.
LEMMA CoverSend ==
  ASSUME CoverInv, NEW c \in Consumers, NEW o \in OffsetMap, Covered(o), Send(c, o),
         UNCHANGED <<logEnd, committed, gen, kind, memberGen, owned, position, next,
                     currentOffsets, empty, crashes, processed, skipped>>,
         pc' \in [Consumers -> Labels], Reads', Over', memberGen[c] # 0,
         \A d \in Consumers : pc'[d] \in {"batch", "commit"} => memberGen[d] # 0
  PROVE  CoverInv'
<1>1. TypeOK /\ Windows /\ Gens /\ NextCovered /\ NotedCovered /\ SentCovered
      /\ Covered(committed)
  BY DEF CoverInv
<1>2. inflight' \in [Consumers -> Seq(Commits)]
  BY <1>1, SendType
<1>3. TypeOK'
  BY <1>1, <1>2 DEF TypeOK, Commits, Labels
<1>4. Windows' /\ NextCovered' /\ NotedCovered' /\ Covered(committed)'
  BY <1>1 DEF Windows, NextCovered, NotedCovered, Covered, Done
<1>5. \A d \in Consumers : \A k \in Places(d)' :
        /\ Sent(d, k)'.gen <= gen' /\ Sent(d, k)'.gen # 0
        /\ Covered(Sent(d, k).offsets)'
  <2> SUFFICES ASSUME NEW d \in Consumers, NEW k \in Places(d)'
               PROVE  /\ Sent(d, k)'.gen <= gen' /\ Sent(d, k)'.gen # 0
                      /\ Covered(Sent(d, k).offsets)'
    OBVIOUS
  <2>1. CASE d = c /\ k = Len(inflight[c]) + 1
    <3>1. Sent(d, k)' = [gen |-> memberGen[c], offsets |-> o]
      BY <1>1, <2>1, SendQueue DEF Sent
    <3> QED BY <1>1, <3>1 DEF Gens, Covered, Done
  <2>2. CASE ~(d = c /\ k = Len(inflight[c]) + 1)
    <3>1. /\ Places(c)' = Places(c) \cup {Len(inflight[c]) + 1}
          /\ \A i \in Places(c) : Sent(c, i)' = Sent(c, i)
          /\ \A e \in Consumers \ {c} : inflight'[e] = inflight[e]
      BY <1>1, SendQueue
    <3>2. d = c => k \in Places(d) /\ Sent(d, k)' = Sent(d, k)
      BY <2>2, <3>1
    <3>3. d # c => k \in Places(d) /\ Sent(d, k)' = Sent(d, k)
      BY <3>1 DEF Sent, Places
    <3>4. k \in Places(d) /\ Sent(d, k)' = Sent(d, k)
      BY <3>2, <3>3
    <3> QED BY <1>1, <3>4 DEF Gens, SentCovered, Covered, Done
  <2> QED BY <2>1, <2>2
<1>6. Gens' /\ SentCovered'
  BY <1>1, <1>5 DEF Gens, SentCovered
<1> QED BY <1>3, <1>4, <1>6 DEF CoverInv

\* A commitSync of covered offsets.
LEMMA CoverCommit ==
  ASSUME CoverInv, NEW c \in Consumers, NEW o \in OffsetMap, Covered(o),
         Commit(memberGen[c], o) \/ UNCHANGED committed,
         UNCHANGED <<logEnd, gen, kind, memberGen, owned, position, next,
                     currentOffsets, inflight, empty, crashes, processed, skipped>>,
         pc' \in [Consumers -> Labels], Reads', Over',
         \A d \in Consumers : pc'[d] \in {"batch", "commit"} => memberGen[d] # 0
  PROVE  CoverInv'
<1>1. TypeOK /\ Windows /\ Gens /\ NextCovered /\ NotedCovered /\ SentCovered
      /\ Covered(committed)
  BY DEF CoverInv
<1>2. committed' \in OffsetMap
  BY <1>1, CommitType DEF TypeOK
<1>3. TypeOK'
  BY <1>1, <1>2 DEF TypeOK, Labels
<1>4. Covered(committed)'
  BY <1>1 DEF Commit, Covered, Done
<1>5. Windows' /\ NextCovered' /\ NotedCovered' /\ Gens' /\ SentCovered'
  BY <1>1 DEF Windows, NextCovered, NotedCovered, Gens, SentCovered, Covered, Done,
              Places, Sent
<1> QED BY <1>3, <1>4, <1>5 DEF CoverInv

\* What commitAsync sends is the end of a batch that is over, or what has been noted.
LEMMA CoverSendSteps ==
  ASSUME CoverInv, NEW c \in Consumers,
         AutoCommit(c) \/ CommitRecordAsync(c) \/ EndBatchAsync(c)
  PROVE  CoverInv'
<1>1. TypeOK /\ Windows /\ Reads /\ Over /\ Gens /\ NextCovered /\ NotedCovered
  BY DEF CoverInv
<1>2. /\ UNCHANGED <<logEnd, committed, gen, kind, memberGen, owned, position, next,
                     currentOffsets, empty, crashes, processed, skipped>>
      /\ next[c] \in OffsetMap /\ position[c] \in OffsetMap
      /\ currentOffsets[c] \in OffsetMap
  BY <1>1 DEF AutoCommit, CommitRecordAsync, EndBatchAsync, group, client, history, TypeOK
<1>3. CASE AutoCommit(c)
  <2>1. next[c] = position[c] /\ Send(c, position[c]) /\ UNCHANGED pc /\ memberGen[c] # 0
    BY <1>1, <1>3 DEF AutoCommit, Over
  <2>2. Reads' /\ Over' /\ Covered(position[c]) /\ pc' \in [Consumers -> Labels]
    BY <1>1, <1>2, <2>1 DEF Reads, Over, NextCovered, TypeOK, Labels
  <2>3. \A d \in Consumers : pc'[d] \in {"batch", "commit"} => memberGen[d] # 0
    BY <1>1, <2>1 DEF Gens, TypeOK
  <2> QED BY <1>1, <1>2, <2>1, <2>2, <2>3, CoverSend
<1>4. CASE CommitRecordAsync(c)
  <2>1. Send(c, currentOffsets[c]) /\ pc[c] = "commit" /\ pc' = [pc EXCEPT ![c] = "batch"]
    BY <1>4 DEF CommitRecordAsync, Goto
  <2>2. Reads' /\ Over' /\ Covered(currentOffsets[c]) /\ pc' \in [Consumers -> Labels]
    BY <1>1, <1>2, <2>1 DEF Reads, Over, NotedCovered, TypeOK, Labels
  <2>3. \A d \in Consumers : pc'[d] \in {"batch", "commit"} => memberGen[d] # 0
    BY <1>1, <2>1 DEF Gens, TypeOK
  <2>4. memberGen[c] # 0
    BY <1>1, <2>1 DEF Gens
  <2> QED BY <1>1, <1>2, <2>1, <2>2, <2>3, <2>4, CoverSend
<1>5. CASE EndBatchAsync(c)
  <2>1. /\ Send(c, position[c]) /\ next[c] = position[c]
        /\ pc[c] = "batch" /\ pc' = [pc EXCEPT ![c] = "poll"]
    BY <1>5 DEF EndBatchAsync, Goto, BatchDone
  <2>2. Reads' /\ Over' /\ Covered(position[c]) /\ pc' \in [Consumers -> Labels]
    BY <1>1, <1>2, <2>1 DEF Reads, Over, NextCovered, TypeOK, Labels
  <2>3. \A d \in Consumers : pc'[d] \in {"batch", "commit"} => memberGen[d] # 0
    BY <1>1, <2>1 DEF Gens, TypeOK
  <2>4. memberGen[c] # 0
    BY <1>1, <2>1 DEF Gens
  <2> QED BY <1>1, <1>2, <2>1, <2>2, <2>3, <2>4, CoverSend
<1> QED BY <1>3, <1>4, <1>5

\* And so is what commitSync commits.
LEMMA CoverCommitSteps ==
  ASSUME CoverInv, NEW c \in Consumers,
         \/ OnPartitionsAssigned(c) \/ CommitRecordSync(c)
         \/ EndBatchSync(c) \/ Close(c)
  PROVE  CoverInv'
<1>1. TypeOK /\ Windows /\ Reads /\ Over /\ Gens /\ NextCovered /\ NotedCovered
  BY DEF CoverInv
<1>2. /\ UNCHANGED <<logEnd, gen, kind, memberGen, owned, position, next,
                     currentOffsets, inflight, empty, crashes, processed, skipped>>
      /\ next[c] \in OffsetMap /\ position[c] \in OffsetMap
      /\ currentOffsets[c] \in OffsetMap
  BY <1>1 DEF OnPartitionsAssigned, CommitRecordSync, EndBatchSync, Close, client,
              history, TypeOK
<1>3. CASE OnPartitionsAssigned(c)
  <2>1. /\ Commit(memberGen[c], currentOffsets[c]) \/ UNCHANGED committed
        /\ pc[c] = "assigned" /\ pc' = [pc EXCEPT ![c] = "fetch"]
    BY <1>3 DEF OnPartitionsAssigned, Goto, CommitSync
  <2>2. Reads' /\ Over' /\ Covered(currentOffsets[c]) /\ pc' \in [Consumers -> Labels]
    BY <1>1, <1>2, <2>1 DEF Reads, Over, NotedCovered, TypeOK, Labels
  <2>3. \A d \in Consumers : pc'[d] \in {"batch", "commit"} => memberGen[d] # 0
    BY <1>1, <2>1 DEF Gens, TypeOK
  <2> QED BY <1>1, <1>2, <2>1, <2>2, <2>3, CoverCommit
<1>4. CASE CommitRecordSync(c)
  <2>1. /\ Commit(memberGen[c], currentOffsets[c]) /\ kind[c] = "syncOffset"
        /\ pc[c] = "commit"
        /\ pc' = [pc EXCEPT ![c] = IF memberGen[c] = gen THEN "batch" ELSE "close"]
    BY <1>4 DEF CommitRecordSync, Goto, CommitSync
  <2>2. pc' \in [Consumers -> Labels]
    BY <1>1, <2>1 DEF TypeOK, Labels
  <2>3. Reads' /\ Over' /\ Covered(currentOffsets[c])
    BY <1>1, <1>2, <2>1 DEF Reads, Over, NotedCovered, TypeOK
  <2>4. \A d \in Consumers : pc'[d] \in {"batch", "commit"} => memberGen[d] # 0
    BY <1>1, <2>1 DEF Gens, TypeOK
  <2> QED BY <1>1, <1>2, <2>1, <2>2, <2>3, <2>4, CoverCommit
<1>5. CASE EndBatchSync(c)
  <2>1. /\ Commit(memberGen[c], position[c]) /\ next[c] = position[c]
        /\ pc[c] = "batch" /\ pc' = [pc EXCEPT ![c] = "poll"]
    BY <1>5 DEF EndBatchSync, Goto, BatchDone, CommitSync
  <2>2. Reads' /\ Over' /\ Covered(position[c]) /\ pc' \in [Consumers -> Labels]
    BY <1>1, <1>2, <2>1 DEF Reads, Over, NextCovered, TypeOK, Labels
  <2>3. \A d \in Consumers : pc'[d] \in {"batch", "commit"} => memberGen[d] # 0
    BY <1>1, <2>1 DEF Gens, TypeOK
  <2> QED BY <1>1, <1>2, <2>1, <2>2, <2>3, CoverCommit
<1>6. CASE Close(c)
  <2>1. /\ Commit(memberGen[c], FinalOffsets(c))
        /\ pc[c] = "close" /\ pc' = [pc EXCEPT ![c] = "closed"]
    BY <1>6 DEF Close, Goto, CommitSync
  <2>2. Reads' /\ Over' /\ pc' \in [Consumers -> Labels]
    BY <1>1, <1>2, <2>1 DEF Reads, Over, TypeOK, Labels
  <2>3. NoOffsets \in OffsetMap /\ Covered(NoOffsets)
    BY BasicTypes DEF Covered, NoOffsets, Below, None
  <2>4. kind[c] # "syncOffset" => next[c] = position[c]
    BY <1>1, <2>1 DEF Over
  <2>5. FinalOffsets(c) \in OffsetMap /\ Covered(FinalOffsets(c))
    BY <1>1, <1>2, <2>3, <2>4 DEF FinalOffsets, NextCovered, NotedCovered
  <2>6. \A d \in Consumers : pc'[d] \in {"batch", "commit"} => memberGen[d] # 0
    BY <1>1, <2>1 DEF Gens, TypeOK
  <2> QED BY <1>1, <1>2, <2>1, <2>2, <2>5, <2>6, CoverCommit
<1> QED BY <1>3, <1>4, <1>5, <1>6

\* Where reading begins: at the committed offset, or past what the reset leaves out.
LEMMA CoverFetch ==
  ASSUME CoverInv, NEW c \in Consumers, FetchPositions(c)
  PROVE  CoverInv'
<1>1. TypeOK /\ Windows /\ Reads /\ Over /\ Gens /\ NextCovered /\ NotedCovered
      /\ SentCovered /\ Covered(committed)
  BY DEF CoverInv
<1> DEFINE start == [p \in Partitions |-> IF p \notin owned[c] THEN None
                                          ELSE IF committed[p] = None THEN logEnd[p]
                                          ELSE committed[p]]
<1>2. /\ pc[c] = "fetch" /\ pc' = [pc EXCEPT ![c] = "poll"]
      /\ position' = [position EXCEPT ![c] = start]
      /\ next' = [next EXCEPT ![c] = start]
      /\ skipped' = [p \in Partitions |->
                       IF p \in owned[c] /\ committed[p] = None
                       THEN skipped[p] \cup Below(logEnd[p]) ELSE skipped[p]]
      /\ UNCHANGED <<logEnd, committed, gen, kind, memberGen, owned, currentOffsets,
                     inflight, empty, crashes, processed>>
  BY DEF FetchPositions, Goto, group
<1>3. start \in OffsetMap /\ \A p \in owned[c] : start[p] # None
  BY <1>1 DEF TypeOK, OffsetMap, Offsets, None
<1>4. TypeOK'
  <2>1. skipped' \in [Partitions -> SUBSET Below(MaxLog)]
    BY <1>1, <1>2, BoundsAssumption DEF TypeOK, Below, Offsets
  <2>2. pc' \in [Consumers -> Labels]
    BY <1>1, <1>2 DEF TypeOK, Labels
  <2> QED BY <1>1, <1>2, <1>3, <2>1, <2>2 DEF TypeOK, Labels
<1>5. Keeps
  BY <1>1, <1>2 DEF Keeps, TypeOK
<1>6. \A p \in Partitions : Below(start[p]) \subseteq Done(p)'
  BY <1>1, <1>2 DEF TypeOK, Covered, Done, Below, None
<1>7. Windows' /\ Over'
  BY <1>1, <1>2, <1>3 DEF Windows, Over, TypeOK, OffsetMap, Offsets, None
<1>8. Reads'
  BY <1>1, <1>2, <1>3 DEF Reads, TypeOK
<1>9. NextCovered' /\ NotedCovered' /\ Covered(committed)'
  BY <1>1, <1>2, <1>5, <1>6 DEF NextCovered, NotedCovered, Covered, Keeps, Done, TypeOK
<1>10. Gens' /\ SentCovered'
  <2>1. gen \in Nat /\ gen' = gen
    BY <1>1, <1>2 DEF TypeOK
  <2> QED BY <1>1, <1>2, <1>5, <2>1, KeptQueues DEF Gens, SentCovered
<1> QED BY <1>4, <1>7, <1>8, <1>9, <1>10 DEF CoverInv

\* The batch grows at its far end.
LEMMA CoverPoll ==
  ASSUME CoverInv, NEW c \in Consumers, NEW n \in [Partitions -> 0..MaxPoll], Poll(c, n)
  PROVE  CoverInv'
<1>1. TypeOK /\ Windows /\ Reads /\ Over /\ Gens /\ NextCovered /\ NotedCovered
      /\ SentCovered /\ Covered(committed)
  BY DEF CoverInv
<1> DEFINE read == [p \in Partitions |-> position[c][p] + n[p]]
<1>2. /\ pc[c] = "poll" /\ pc' = [pc EXCEPT ![c] = "batch"]
      /\ position' = [position EXCEPT ![c] = read]
      /\ \A p \in Partitions :
           n[p] > 0 => p \in owned[c] /\ position[c][p] + n[p] <= logEnd[p]
      /\ empty' = [empty EXCEPT ![c] = 0]
      /\ UNCHANGED <<logEnd, committed, gen, kind, memberGen, owned, next,
                     currentOffsets, inflight, crashes, processed, skipped>>
  BY <1>1, PollMoves DEF TypeOK
<1>3. memberGen[c] # 0
  BY DEF Poll, Running
<1>4. /\ position[c] \in OffsetMap /\ next[c] \in OffsetMap
      /\ \A p \in Partitions : n[p] \in Nat
  BY <1>1 DEF TypeOK
<1>5. /\ read \in OffsetMap
      /\ \A p \in Partitions : /\ position[c][p] <= read[p]
                               /\ p \notin owned[c] => read[p] = position[c][p]
  <2> SUFFICES ASSUME NEW p \in Partitions
               PROVE  /\ read[p] \in Offsets \cup {None}
                      /\ position[c][p] <= read[p]
                      /\ p \notin owned[c] => read[p] = position[c][p]
    BY DEF OffsetMap
  <2>1. position[c][p] \in Offsets \cup {None} /\ n[p] \in Nat /\ logEnd[p] \in Offsets
    BY <1>1, <1>4 DEF OffsetMap, TypeOK
  <2>2. CASE n[p] = 0
    BY <2>1, <2>2, BoundsAssumption DEF Offsets, None
  <2>3. CASE n[p] > 0
    BY <1>2, <2>1, <2>3, BoundsAssumption DEF Offsets, None
  <2> QED BY <2>1, <2>2, <2>3
<1> HIDE DEF read
<1>6. TypeOK'
  <2>1. pc' \in [Consumers -> Labels]
    BY <1>1, <1>2 DEF TypeOK, Labels
  <2> QED BY <1>1, <1>2, <1>5, <2>1, BasicTypes DEF TypeOK, Labels
<1>7. Windows'
  <2> SUFFICES ASSUME NEW d \in Consumers, NEW p \in Partitions
               PROVE  /\ next[d][p] <= position'[d][p]
                      /\ next[d][p] = None => position'[d][p] = None
    BY <1>2 DEF Windows
  <2>1. CASE d = c
    <3>1. /\ position'[d][p] = read[p] /\ position[c][p] <= read[p]
          /\ position[c][p] \in Int /\ next[c][p] \in Int /\ read[p] \in Int
      BY <1>1, <1>2, <1>4, <1>5, <2>1, BoundsAssumption DEF TypeOK, OffsetMap, Offsets, None
    <3>2. next[c][p] = None => p \notin owned[c]
      BY <1>1, <1>2 DEF Reads
    <3> QED BY <1>1, <1>5, <2>1, <3>1, <3>2 DEF Windows
  <2>2. CASE d # c
    BY <1>1, <1>2, <2>2 DEF Windows, TypeOK
  <2> QED BY <2>1, <2>2
<1>8. Reads' /\ Over'
  BY <1>1, <1>2 DEF Reads, Over, TypeOK
<1>9. NextCovered' /\ NotedCovered' /\ Covered(committed)' /\ SentCovered'
  BY <1>1, <1>2 DEF NextCovered, NotedCovered, Covered, Done, SentCovered, Places, Sent
<1>10. Gens'
  BY <1>1, <1>2, <1>3 DEF Gens, Places, Sent, TypeOK
<1> QED BY <1>6, <1>7, <1>8, <1>9, <1>10 DEF CoverInv

\* The offset that is noted is the next one: the record below it has been looked at.
LEMMA CoverProcess ==
  ASSUME CoverInv, NEW c \in Consumers, NEW p \in Partitions, Process(c, p)
  PROVE  CoverInv'
<1>1. TypeOK /\ Windows /\ Reads /\ Over /\ Gens /\ NextCovered /\ NotedCovered
      /\ SentCovered /\ Covered(committed)
  BY DEF CoverInv
<1> DEFINE x == next[c][p]
           noted == kind[c] \in {"syncOffset", "asyncOffset"}
<1>2. /\ pc[c] = "batch" /\ pc' = [pc EXCEPT ![c] = IF noted THEN "commit" ELSE "batch"]
      /\ x < position[c][p]
      /\ processed' = [processed EXCEPT ![p] = @ \cup {x}]
      /\ next' = [next EXCEPT ![c][p] = x + 1]
      /\ currentOffsets' = IF noted THEN [currentOffsets EXCEPT ![c][p] = x + 1]
                           ELSE currentOffsets
      /\ UNCHANGED <<logEnd, committed, gen, kind, memberGen, owned, position, inflight,
                     empty, crashes, skipped>>
  BY DEF Process, Goto, group, After
<1>3. /\ x \in Offsets /\ x + 1 \in Offsets /\ x \in Below(MaxLog)
      /\ position[c][p] \in Offsets
  <2>1. x \in Offsets \cup {None} /\ position[c][p] \in Offsets \cup {None}
    BY <1>1 DEF TypeOK, OffsetMap
  <2>2. x = None => position[c][p] = None
    BY <1>1 DEF Windows
  <2> QED BY <1>2, <2>1, <2>2, BoundsAssumption DEF Offsets, None, Below
<1>4. Below(x) \subseteq Done(p) /\ Below(x + 1) \subseteq Done(p)'
  BY <1>1, <1>2, <1>3 DEF NextCovered, Covered, Done, Below, TypeOK, Offsets
<1> HIDE DEF x, noted
<1>5. TypeOK'
  <2>1. pc' \in [Consumers -> Labels]
    BY <1>1, <1>2 DEF TypeOK, Labels
  <2>2. processed' \in [Partitions -> SUBSET Below(MaxLog)]
    BY <1>1, <1>2, <1>3 DEF TypeOK
  <2>3. next' \in [Consumers -> OffsetMap] /\ currentOffsets' \in [Consumers -> OffsetMap]
    BY <1>1, <1>2, <1>3 DEF TypeOK, OffsetMap
  <2> QED BY <1>1, <1>2, <2>1, <2>2, <2>3 DEF TypeOK, Labels
<1>6. Keeps
  BY <1>1, <1>2 DEF Keeps, TypeOK
<1>7. /\ \A d \in Consumers : d # c => /\ next'[d] = next[d]
                                      /\ currentOffsets'[d] = currentOffsets[d]
      /\ \A q \in Partitions : q # p => /\ next'[c][q] = next[c][q]
                                       /\ currentOffsets'[c][q] = currentOffsets[c][q]
      /\ next'[c][p] = x + 1
      /\ currentOffsets'[c][p] \in {x + 1, currentOffsets[c][p]}
  BY <1>1, <1>2 DEF TypeOK, OffsetMap
<1>8. Windows'
  <2> SUFFICES ASSUME NEW d \in Consumers, NEW q \in Partitions
               PROVE  /\ next'[d][q] <= position[d][q]
                      /\ next'[d][q] = None => position[d][q] = None
    BY <1>2 DEF Windows
  <2>1. CASE d = c /\ q = p
    BY <1>2, <1>3, <1>7, <2>1 DEF Offsets, None
  <2>2. CASE ~(d = c /\ q = p)
    <3>1. next'[d][q] = next[d][q]
      BY <1>7, <2>2
    <3> QED BY <1>1, <3>1 DEF Windows
  <2> QED BY <2>1, <2>2
<1>9. Reads'
  <2> SUFFICES ASSUME NEW d \in Consumers, NEW q \in Partitions
               PROVE  /\ next'[d][q] # None => q \in owned[d]
                      /\ pc'[d] \in {"assigned", "fetch"} => next'[d][q] = None
                      /\ q \in owned[d] /\ pc'[d] \notin {"assigned", "fetch"} =>
                           next'[d][q] # None
                      /\ memberGen[d] = 0 => q \notin owned[d]
    BY <1>2 DEF Reads
  <2>1. pc'[d] \in {"assigned", "fetch"} <=> pc[d] \in {"assigned", "fetch"}
    BY <1>1, <1>2 DEF TypeOK
  <2>2. next'[d][q] # None <=> next[d][q] # None
    <3>1. CASE d = c /\ q = p
      BY <1>3, <1>7, <3>1 DEF Offsets, None, x
    <3>2. CASE ~(d = c /\ q = p)
      BY <1>7, <3>2
    <3> QED BY <3>1, <3>2
  <2> QED BY <1>1, <2>1, <2>2 DEF Reads
<1>10. Over'
  BY <1>1, <1>2, <1>7 DEF Over, TypeOK
<1>11. NextCovered' /\ NotedCovered' /\ Covered(committed)'
  <2>1. \A q \in Partitions : Done(q) \subseteq Done(q)'
    BY <1>6 DEF Keeps, Done
  <2>2. NextCovered'
    BY <1>1, <1>4, <1>7, <2>1 DEF NextCovered, Covered
  <2>3. NotedCovered'
    BY <1>1, <1>4, <1>7, <2>1 DEF NotedCovered, Covered
  <2>4. Covered(committed)'
    BY <1>1, <1>2, <2>1 DEF Covered
  <2> QED BY <2>2, <2>3, <2>4
<1>12. Gens' /\ SentCovered'
  <2>1. gen \in Nat /\ gen' = gen
    BY <1>1, <1>2 DEF TypeOK
  <2> QED BY <1>1, <1>2, <1>6, <2>1, KeptQueues DEF Gens, SentCovered
<1> QED BY <1>5, <1>8, <1>9, <1>10, <1>11, <1>12 DEF CoverInv

\* An empty poll, the end of the loop, and the end of a batch without a commit.
LEMMA CoverLocal ==
  ASSUME CoverInv, NEW c \in Consumers, PollEmpty(c) \/ Stop(c) \/ EndBatch(c)
  PROVE  CoverInv'
<1>1. TypeOK /\ Windows /\ Reads /\ Over /\ Gens /\ NextCovered /\ NotedCovered
      /\ SentCovered /\ Covered(committed)
  BY DEF CoverInv
<1>2. /\ UNCHANGED <<logEnd, committed, gen, kind, memberGen, owned, position, next,
                     inflight, crashes, processed, skipped>>
      /\ currentOffsets' \in {currentOffsets, [currentOffsets EXCEPT ![c] = NoOffsets]}
      /\ \/ UNCHANGED pc
         \/ pc[c] = "poll" /\ pc' = [pc EXCEPT ![c] = "close"]
         \/ pc[c] = "batch" /\ pc' = [pc EXCEPT ![c] = "poll"] /\ next[c] = position[c]
  BY DEF PollEmpty, Stop, EndBatch, Goto, BatchDone, group, client, history
<1>3. empty' \in [Consumers -> 0..StopAfter]
  <2>1. empty \in [Consumers -> 0..StopAfter]
    BY <1>1 DEF TypeOK
  <2>2. CASE PollEmpty(c)
    <3>1. empty[c] < StopAfter /\ empty' = [empty EXCEPT ![c] = @ + 1]
      BY <2>2 DEF PollEmpty, Running
    <3>2. empty[c] + 1 \in 0..StopAfter
      BY <2>1, <3>1, BoundsAssumption
    <3> QED BY <2>1, <3>1, <3>2
  <2>3. CASE Stop(c) \/ EndBatch(c)
    BY <2>1, <2>3 DEF Stop, EndBatch, client
  <2> QED BY <2>2, <2>3
<1>4. TypeOK'
  <2>1. pc' \in [Consumers -> Labels]
    BY <1>1, <1>2 DEF TypeOK, Labels
  <2>2. currentOffsets' \in [Consumers -> OffsetMap]
    BY <1>1, <1>2, BasicTypes DEF TypeOK
  <2> QED BY <1>1, <1>2, <1>3, <2>1, <2>2 DEF TypeOK, Labels
<1>5. Windows' /\ Reads' /\ Over'
  BY <1>1, <1>2 DEF Windows, Reads, Over, TypeOK
<1>6. NotedCovered'
  <2>1. Covered(NoOffsets)
    BY DEF Covered, NoOffsets, Below, None
  <2>2. \A d \in Consumers : currentOffsets'[d] \in {currentOffsets[d], NoOffsets}
    BY <1>1, <1>2 DEF TypeOK
  <2> QED BY <1>1, <1>2, <2>1, <2>2 DEF NotedCovered, Covered, Done
<1>7. NextCovered' /\ Covered(committed)' /\ SentCovered'
  BY <1>1, <1>2 DEF NextCovered, Covered, Done, SentCovered, Places, Sent
<1>8. Gens'
  BY <1>1, <1>2 DEF Gens, Places, Sent, TypeOK
<1> QED BY <1>4, <1>5, <1>6, <1>7, <1>8 DEF CoverInv

\* What a crash forgets is not covered less.
LEMMA CoverCrash ==
  ASSUME CoverInv, NEW c \in Consumers, Crash(c)
  PROVE  CoverInv'
<1>1. TypeOK /\ Windows /\ Reads /\ Over /\ Gens /\ NextCovered /\ NotedCovered
      /\ SentCovered /\ Covered(committed)
  BY DEF CoverInv
<1>2. /\ crashes < MaxCrashes /\ crashes' = crashes + 1
      /\ pc' = [pc EXCEPT ![c] = "poll"]
      /\ memberGen' = [memberGen EXCEPT ![c] = 0]
      /\ owned' = [owned EXCEPT ![c] = {}]
      /\ position' = [position EXCEPT ![c] = NoOffsets]
      /\ next' = [next EXCEPT ![c] = NoOffsets]
      /\ currentOffsets' = [currentOffsets EXCEPT ![c] = NoOffsets]
      /\ empty' = [empty EXCEPT ![c] = 0]
      /\ UNCHANGED <<logEnd, committed, gen, kind, inflight, processed, skipped>>
  BY DEF Crash, group, history
<1>3. TypeOK'
  <2>1. pc' \in [Consumers -> Labels] /\ crashes' \in 0..MaxCrashes
    BY <1>1, <1>2, BoundsAssumption DEF TypeOK, Labels
  <2> QED BY <1>1, <1>2, <2>1, BasicTypes DEF TypeOK, Labels
<1>4. \A p \in Partitions : NoOffsets[p] = None
  BY DEF NoOffsets
<1>5. Windows' /\ Reads' /\ Over'
  BY <1>1, <1>2, <1>4 DEF Windows, Reads, Over, TypeOK, None
<1>6. NextCovered' /\ NotedCovered'
  <2>1. Covered(NoOffsets)
    BY DEF Covered, NoOffsets, Below, None
  <2> QED BY <1>1, <1>2, <2>1 DEF NextCovered, NotedCovered, Covered, Done, TypeOK
<1>7. Covered(committed)' /\ Gens' /\ SentCovered'
  BY <1>1, <1>2 DEF Covered, Done, Gens, SentCovered, Places, Sent, TypeOK
<1> QED BY <1>3, <1>5, <1>6, <1>7 DEF CoverInv

LEMMA CoverProduce ==
  ASSUME CoverInv, NEW p \in Partitions, Produce(p)
  PROVE  CoverInv'
<1>1. TypeOK /\ Windows /\ Reads /\ Over /\ Gens /\ NextCovered /\ NotedCovered
      /\ SentCovered /\ Covered(committed)
  BY DEF CoverInv
<1>2. /\ logEnd[p] < MaxLog /\ logEnd' = [logEnd EXCEPT ![p] = @ + 1]
      /\ UNCHANGED <<committed, gen, kind, pc, memberGen, owned, position, next,
                     currentOffsets, inflight, empty, crashes, processed, skipped>>
  BY DEF Produce, group, client, history
<1>3. TypeOK'
  <2>1. logEnd[p] \in Offsets /\ logEnd[p] + 1 \in Offsets
    BY <1>1, <1>2, BoundsAssumption DEF TypeOK, Offsets
  <2> QED BY <1>1, <1>2, <2>1 DEF TypeOK
<1>4. Windows' /\ Reads' /\ Over' /\ NextCovered' /\ NotedCovered' /\ SentCovered'
      /\ Covered(committed)' /\ Gens'
  BY <1>1, <1>2 DEF Windows, Reads, Over, Gens, NextCovered, NotedCovered, SentCovered,
                    Covered, Done, Places, Sent
<1> QED BY <1>3, <1>4 DEF CoverInv

\* Who joins begins with nothing; who is left out reads on in the old generation.
LEMMA CoverRebalance ==
  ASSUME CoverInv, NEW joined \in SUBSET Consumers, NEW owner, Rebalance(joined, owner)
  PROVE  CoverInv'
<1>1. TypeOK /\ Windows /\ Reads /\ Over /\ Gens /\ NextCovered /\ NotedCovered
      /\ SentCovered /\ Covered(committed)
  BY DEF CoverInv
<1>2. /\ gen < MaxGen /\ gen' = gen + 1
      /\ memberGen' = [c \in Consumers |-> IF c \in joined THEN gen + 1 ELSE memberGen[c]]
      /\ owned' = [c \in Consumers |-> IF c \in joined
                                       THEN {p \in Partitions : owner[p] = c} ELSE owned[c]]
      /\ pc' = [c \in Consumers |-> IF c \in joined THEN "assigned" ELSE pc[c]]
      /\ position' = [c \in Consumers |-> IF c \in joined THEN NoOffsets ELSE position[c]]
      /\ next' = [c \in Consumers |-> IF c \in joined THEN NoOffsets ELSE next[c]]
      /\ UNCHANGED <<logEnd, committed, kind, currentOffsets, inflight, empty, crashes,
                     processed, skipped>>
  BY DEF Rebalance, history
<1>3. gen \in 0..MaxGen /\ gen + 1 \in 0..MaxGen /\ MaxGen \in Nat
  BY <1>1, <1>2, BoundsAssumption DEF TypeOK
<1>4. TypeOK'
  <2>1. pc' \in [Consumers -> Labels] /\ memberGen' \in [Consumers -> 0..MaxGen]
    BY <1>1, <1>2, <1>3 DEF TypeOK, Labels
  <2>2. owned' \in [Consumers -> SUBSET Partitions]
    BY <1>1, <1>2 DEF TypeOK
  <2>3. position' \in [Consumers -> OffsetMap] /\ next' \in [Consumers -> OffsetMap]
    BY <1>1, <1>2, BasicTypes DEF TypeOK
  <2> QED BY <1>1, <1>2, <1>3, <2>1, <2>2, <2>3 DEF TypeOK, Labels
<1>5. \A p \in Partitions : NoOffsets[p] = None
  BY DEF NoOffsets
<1>6. Windows'
  BY <1>1, <1>2, <1>5 DEF Windows, None
<1>7. Reads'
  BY <1>1, <1>2, <1>3, <1>5 DEF Reads
<1>8. Over'
  <2> SUFFICES ASSUME NEW c \in Consumers, pc'[c] \notin {"batch", "commit"},
                      kind[c] # "syncOffset" \/ memberGen'[c] = gen'
               PROVE  next'[c] = position'[c]
    BY <1>2 DEF Over
  <2>1. CASE c \in joined
    BY <1>2, <2>1
  <2>2. CASE c \notin joined
    <3>1. memberGen[c] \in 0..MaxGen /\ memberGen[c] <= gen
      BY <1>1 DEF TypeOK, Gens
    <3>2. kind[c] # "syncOffset"
      BY <1>2, <1>3, <2>2, <3>1
    <3> QED BY <1>1, <1>2, <2>2, <3>2 DEF Over
  <2> QED BY <2>1, <2>2
<1>9. NextCovered' /\ NotedCovered' /\ Covered(committed)'
  <2>1. Covered(NoOffsets)
    BY DEF Covered, NoOffsets, Below, None
  <2> QED BY <1>1, <1>2, <2>1 DEF NextCovered, NotedCovered, Covered, Done
<1>10. Gens' /\ SentCovered'
  <2>1. Keeps
    BY <1>2 DEF Keeps
  <2>2. \A c \in Consumers : memberGen'[c] <= gen'
    BY <1>1, <1>2, <1>3 DEF Gens, TypeOK
  <2> QED BY <1>1, <1>2, <1>3, <2>1, <2>2, KeptQueues DEF Gens, SentCovered
<1> QED BY <1>4, <1>6, <1>7, <1>8, <1>9, <1>10 DEF CoverInv

LEMMA CoverInit == Init => CoverInv
<1> SUFFICES ASSUME Init PROVE CoverInv
  OBVIOUS
<1>1. TypeOK
  BY TypeInit
<1>2. \A c \in Consumers : Places(c) = {}
  BY DEF Init, Places
<1>3. Windows /\ Reads /\ Over
  BY DEF Init, Windows, Reads, Over, NoOffsets, None
<1>4. Gens /\ SentCovered
  BY <1>2 DEF Init, Gens, SentCovered
<1>5. NextCovered /\ NotedCovered /\ Covered(committed)
  BY DEF Init, NextCovered, NotedCovered, Covered, NoOffsets, Below, None
<1> QED BY <1>1, <1>3, <1>4, <1>5 DEF CoverInv

LEMMA CoverNext == CoverInv /\ [Next]_vars => CoverInv'
<1> SUFFICES ASSUME CoverInv, [Next]_vars PROVE CoverInv'
  OBVIOUS
<1>1. ASSUME NEW c \in Consumers, Step(c) PROVE CoverInv'
  <2>1. CASE Deliver(c) \/ Lose(c)
    BY <2>1, CoverPop
  <2>2. CASE AutoCommit(c) \/ CommitRecordAsync(c) \/ EndBatchAsync(c)
    BY <2>2, CoverSendSteps
  <2>3. CASE \/ OnPartitionsAssigned(c) \/ CommitRecordSync(c)
             \/ EndBatchSync(c) \/ Close(c)
    BY <2>3, CoverCommitSteps
  <2>4. CASE FetchPositions(c)
    BY <2>4, CoverFetch
  <2>5. CASE \E n \in [Partitions -> 0..MaxPoll] : Poll(c, n)
    BY <2>5, CoverPoll
  <2>6. CASE \E p \in Partitions : Process(c, p)
    BY <2>6, CoverProcess
  <2>7. CASE PollEmpty(c) \/ Stop(c) \/ EndBatch(c)
    BY <2>7, CoverLocal
  <2>8. CASE Crash(c)
    BY <2>8, CoverCrash
  <2> QED BY <1>1, <2>1, <2>2, <2>3, <2>4, <2>5, <2>6, <2>7, <2>8 DEF Step
<1>2. ASSUME NEW p \in Partitions, Produce(p) PROVE CoverInv'
  BY <1>2, CoverProduce
<1>3. ASSUME NEW joined \in SUBSET Consumers \ {{}}, NEW owner \in [Partitions -> joined],
             Rebalance(joined, owner)
      PROVE  CoverInv'
  BY <1>3, CoverRebalance
<1>4. CASE UNCHANGED vars
  BY <1>4 DEF CoverInv, vars, group, client, history, TypeOK, Windows, Reads, Over, Gens,
              NextCovered, NotedCovered, SentCovered, Covered, Done, Places, Sent
<1> QED BY <1>1, <1>2, <1>3, <1>4 DEF Next

LEMMA CoverAlways == Spec => []CoverInv
  BY CoverInit, CoverNext, PTL DEF Spec

\* The types of the clients and of the group, for any consumers and bounds.
THEOREM TypeCorrect == Spec => []TypeOK
<1>1. CoverInv => TypeOK
  BY DEF CoverInv
<1> QED BY <1>1, CoverAlways, PTL

\* However the five programs are mixed, crash, are dropped, read on as members of an
\* old generation or have their commits delayed or lost, an offset is committed only
\* after the records before it were looked at or passed over by the reset to "latest".
THEOREM NothingSkippedHolds == Spec => []NothingSkipped
<1>1. CoverInv => NothingSkipped
  BY DEF CoverInv, Covered, Done, NothingSkipped
<1> QED BY <1>1, CoverAlways, PTL
-----------------------------------------------------------------------------
\* An offset is a number.
LEMMA OffsetType ==
  ASSUME NEW o \in OffsetMap, NEW p \in Partitions
  PROVE  o[p] \in Int /\ o[p] >= None
  BY BoundsAssumption DEF OffsetMap, Offsets, None

\* The numbers that the order is about.
LEMMA OrderTypes ==
  ASSUME TypeOK, NEW c \in Consumers, NEW p \in Partitions
  PROVE  /\ committed[p] \in Int /\ committed[p] >= None
         /\ next[c][p] \in Int /\ next[c][p] >= None
         /\ \A k \in Places(c) : Sent(c, k).offsets[p] \in Int
  BY OffsetType, SentType DEF TypeOK

\* A commit of c in the current generation touches what only c claims.
LEMMA OthersKeep ==
  ASSUME CoverInv, Exclusive, NEW c \in Consumers, NEW d \in Consumers \ {c},
         NEW p \in Partitions, Claims(c, p)
  PROVE  /\ ~(memberGen[d] = gen /\ p \in owned[d])
         /\ memberGen[d] = gen => next[d][p] = None
         /\ \A k \in Places(d) : Current(d, k) => Sent(d, k).offsets[p] = None
  BY DEF Exclusive, Claims, CoverInv, Reads

\* The first commit is the smallest, and the partitions it is for have no other reader.
LEMMA OrderPop ==
  ASSUME CoverInv, OrderInv, NEW c \in Consumers, Deliver(c) \/ Lose(c)
  PROVE  OrderInv'
<1>1. /\ TypeOK /\ Reads /\ Notes /\ Exclusive /\ Joining
      /\ Sorted /\ SentAhead /\ NextAhead /\ Settled
  BY DEF OrderInv, CoverInv
<1>2. Pop(c) /\ UNCHANGED <<logEnd, gen, kind, pc, memberGen, owned, position, next,
                            currentOffsets, empty, crashes, processed, skipped>>
  BY DEF Deliver, Lose, group, client, history
<1>3. /\ 1 \in Places(c) /\ Head(inflight[c]) = Sent(c, 1)
      /\ \A k \in Places(c)' : k + 1 \in Places(c) /\ Sent(c, k)' = Sent(c, k + 1)
      /\ \A d \in Consumers \ {c} : inflight'[d] = inflight[d]
  BY <1>1, <1>2, PopQueue
<1> DEFINE Was(d, k) == IF d = c THEN k + 1 ELSE k
<1>4. \A d \in Consumers : \A k \in Places(d)' :
        /\ k \in Int /\ Was(d, k) \in Places(d)
        /\ Sent(d, k)' = Sent(d, Was(d, k))
        /\ Current(d, k)' <=> Current(d, Was(d, k))
  BY <1>2, <1>3 DEF Places, Sent, Current
<1>5. ASSUME NEW p \in Partitions, committed'[p] # committed[p]
      PROVE  /\ Claims(c, p) /\ Current(c, 1)
             /\ committed'[p] = Sent(c, 1).offsets[p] /\ Sent(c, 1).offsets[p] # None
  <2>1. Commit(Sent(c, 1).gen, Sent(c, 1).offsets)
    BY <1>3, <1>5 DEF Deliver, Lose, group
  <2>2. /\ Sent(c, 1).gen = gen /\ Sent(c, 1).offsets[p] # None
        /\ committed'[p] = Sent(c, 1).offsets[p]
    BY <1>5, <2>1 DEF Commit
  <2> QED BY <1>3, <2>2 DEF Claims, Current
<1>6. Notes'
  BY <1>1, <1>2 DEF Notes
<1>7. Exclusive' /\ Joining'
  <2>1. \A d \in Consumers, p \in Partitions : Claims(d, p)' => Claims(d, p)
    BY <1>2, <1>4 DEF Claims, Current
  <2>2. Joining'
    BY <1>1, <1>2, <1>4 DEF Joining, Current
  <2> QED BY <1>1, <2>1, <2>2 DEF Exclusive
<1>8. Sorted'
  <2> SUFFICES ASSUME NEW d \in Consumers, NEW p \in Partitions,
                      NEW j \in Places(d)', NEW k \in Places(d)',
                      Current(d, j)', Current(d, k)', j <= k
               PROVE  (Sent(d, j).offsets[p] <= Sent(d, k).offsets[p])'
    BY DEF Sorted
  <2>1. Was(d, j) <= Was(d, k)
    BY <1>4
  <2> QED BY <1>1, <1>4, <2>1 DEF Sorted
<1>9. SentAhead'
  <2> SUFFICES ASSUME NEW d \in Consumers, NEW p \in Partitions, NEW k \in Places(d)',
                      Current(d, k)', Sent(d, k)'.offsets[p] # None
               PROVE  committed'[p] <= Sent(d, k)'.offsets[p]
    BY DEF SentAhead
  <2>1. /\ Was(d, k) \in Places(d) /\ Current(d, Was(d, k))
        /\ Sent(d, k)' = Sent(d, Was(d, k))
    BY <1>4
  <2>2. CASE committed'[p] = committed[p]
    BY <1>1, <2>1, <2>2 DEF SentAhead
  <2>3. CASE committed'[p] # committed[p]
    <3>1. d = c
      BY <1>1, <1>5, <2>1, <2>3, OthersKeep
    <3>2. 1 <= Was(d, k)
      BY <2>1 DEF Places
    <3> QED BY <1>1, <1>3, <1>5, <2>1, <2>3, <3>1, <3>2 DEF Sorted
  <2> QED BY <2>2, <2>3
<1>10. NextAhead'
  <2> SUFFICES ASSUME NEW d \in Consumers, NEW p \in Partitions, memberGen[d] = gen
               PROVE  /\ next[d][p] # None => committed'[p] <= next[d][p]
                      /\ \A k \in Places(d)' :
                           Current(d, k)' => Sent(d, k)'.offsets[p] <= next[d][p]
    BY <1>2 DEF NextAhead
  <2>1. \A k \in Places(d)' : Current(d, k)' => Sent(d, k)'.offsets[p] <= next[d][p]
    BY <1>1, <1>4 DEF NextAhead
  <2>2. ASSUME next[d][p] # None PROVE committed'[p] <= next[d][p]
    <3>1. CASE committed'[p] = committed[p]
      BY <1>1, <2>2, <3>1 DEF NextAhead
    <3>2. CASE committed'[p] # committed[p]
      <4>1. d = c
        BY <1>1, <1>5, <2>2, <3>2, OthersKeep
      <4> QED BY <1>1, <1>3, <1>5, <3>2, <4>1 DEF NextAhead
    <3> QED BY <3>1, <3>2
  <2> QED BY <2>1, <2>2
<1>11. Settled'
  <2> SUFFICES ASSUME NEW d \in Consumers
               PROVE  /\ Synchronous(d) => inflight'[d] = <<>>
                      /\ \A p \in Partitions : Settling(d, p) => UpToDate(next[d][p], p)'
    BY <1>2 DEF Settled, Synchronous, Settling, UpToDate
  <2>1. ~Synchronous(c)
    BY <1>1, <1>2 DEF Settled, Pop
  <2>2. Synchronous(d) => inflight'[d] = <<>>
    BY <1>1, <1>3, <2>1 DEF Settled
  <2>3. ASSUME NEW p \in Partitions, Settling(d, p) PROVE UpToDate(next[d][p], p)'
    <3>1. d # c /\ memberGen[d] = gen /\ p \in owned[d]
      BY <2>1, <2>3 DEF Settling, Synchronous
    <3>2. committed'[p] = committed[p]
      BY <1>1, <1>5, <3>1, OthersKeep
    <3> QED BY <1>1, <1>2, <2>3, <3>2 DEF Settled, UpToDate
  <2> QED BY <2>2, <2>3
<1> QED BY <1>6, <1>7, <1>8, <1>9, <1>10, <1>11 DEF OrderInv

\* The commit sent is for what its sender reads next, the largest of its queue.
LEMMA OrderSend ==
  ASSUME CoverInv, OrderInv, NEW c \in Consumers, Send(c, next[c]), ~Synchronous(c),
         UNCHANGED <<logEnd, committed, gen, kind, memberGen, owned, position, next,
                     currentOffsets, empty, crashes, processed, skipped>>,
         pc[c] \notin {"assigned", "fetch"}, memberGen[c] # 0,
         \A d \in Consumers : pc'[d] = pc[d] \/ (d = c /\ pc'[d] = "poll")
  PROVE  OrderInv'
<1>1. /\ TypeOK /\ Reads /\ Notes /\ Exclusive /\ Joining
      /\ Sorted /\ SentAhead /\ NextAhead /\ Settled
  BY DEF OrderInv, CoverInv
<1> DEFINE l == Len(inflight[c]) + 1
<1>2. next[c] \in OffsetMap
  BY <1>1 DEF TypeOK
<1>3. /\ l \in Nat /\ Places(c)' = Places(c) \cup {l}
      /\ \A k \in Places(c) : k < l /\ Sent(c, k)' = Sent(c, k)
      /\ inflight'[c][l] = [gen |-> memberGen[c], offsets |-> next[c]]
      /\ \A d \in Consumers \ {c} : inflight'[d] = inflight[d]
  BY <1>1, <1>2, SendQueue DEF Places
<1> HIDE DEF l
<1>4. \A d \in Consumers : \A k \in Places(d)' : Current(d, k)' =>
        \/ k \in Places(d) /\ Current(d, k) /\ Sent(d, k)' = Sent(d, k) /\ (d = c => k < l)
        \/ /\ d = c /\ k = l /\ memberGen[c] = gen
           /\ Sent(d, k)'.offsets = next[c]
  <2> SUFFICES ASSUME NEW d \in Consumers, NEW k \in Places(d)', Current(d, k)'
               PROVE  \/ /\ k \in Places(d) /\ Current(d, k)
                         /\ Sent(d, k)' = Sent(d, k) /\ (d = c => k < l)
                      \/ /\ d = c /\ k = l /\ memberGen[c] = gen
                         /\ Sent(d, k)'.offsets = next[c]
    OBVIOUS
  <2>1. CASE d = c /\ k = l
    <3>1. Sent(d, k)' = [gen |-> memberGen[c], offsets |-> next[c]]
      BY <1>3, <2>1 DEF Sent
    <3> QED BY <2>1, <3>1 DEF Current
  <2>2. CASE d = c /\ k # l
    <3>1. k \in Places(c) /\ Sent(c, k)' = Sent(c, k) /\ k < l
      BY <1>3, <2>2
    <3> QED BY <2>2, <3>1 DEF Current
  <2>3. CASE d # c
    <3>1. k \in Places(d) /\ Sent(d, k)' = Sent(d, k)
      BY <1>3, <2>3 DEF Places, Sent
    <3> QED BY <2>3, <3>1 DEF Current
  <2> QED BY <2>1, <2>2, <2>3
<1>5. Notes'
  BY <1>1 DEF Notes, Synchronous
<1>6. Exclusive'
  <2>1. ASSUME NEW d \in Consumers, NEW p \in Partitions, Claims(d, p)' PROVE Claims(d, p)
    <3>1. CASE memberGen[d] = gen /\ p \in owned[d]
      BY <3>1 DEF Claims
    <3>2. CASE ~(memberGen[d] = gen /\ p \in owned[d])
      <4>1. PICK k \in Places(d)' : Current(d, k)' /\ Sent(d, k)'.offsets[p] # None
        BY <2>1, <3>2 DEF Claims
      <4> QED BY <1>1, <1>4, <3>2, <4>1 DEF Claims, Reads
    <3> QED BY <3>1, <3>2
  <2> QED BY <1>1, <2>1 DEF Exclusive
<1>7. Joining'
  BY <1>1, <1>3, <1>4 DEF Joining
<1>8. Sorted'
  <2> SUFFICES ASSUME NEW d \in Consumers, NEW p \in Partitions,
                      NEW j \in Places(d)', NEW k \in Places(d)',
                      Current(d, j)', Current(d, k)', j <= k
               PROVE  (Sent(d, j).offsets[p] <= Sent(d, k).offsets[p])'
    BY DEF Sorted
  <2>1. next[c][p] <= next[c][p]
    BY <1>1, OrderTypes
  <2>2. j \in Int /\ k \in Int
    BY DEF Places
  <2> QED BY <1>1, <1>3, <1>4, <2>1, <2>2 DEF Sorted, NextAhead
<1>9. SentAhead'
  BY <1>1, <1>4 DEF SentAhead, NextAhead
<1>10. NextAhead'
  <2>1. \A p \in Partitions : next[c][p] <= next[c][p]
    BY <1>1, OrderTypes
  <2> QED BY <1>1, <1>4, <2>1 DEF NextAhead
<1>11. Settled'
  BY <1>1, <1>3 DEF Settled, Synchronous, Settling, UpToDate
<1> QED BY <1>5, <1>6, <1>7, <1>8, <1>9, <1>10, <1>11 DEF OrderInv

\* A commitSync waits for the queue, and commits what its caller reads next.
LEMMA OrderCommit ==
  ASSUME CoverInv, OrderInv, NEW c \in Consumers, NEW o \in OffsetMap,
         \/ inflight[c] = <<>> /\ Commit(memberGen[c], o)
         \/ UNCHANGED committed,
         \A p \in Partitions : o[p] \in {None, next[c][p]},
         UNCHANGED <<logEnd, gen, kind, memberGen, owned, position, next,
                     currentOffsets, inflight, empty, crashes, processed, skipped>>,
         \A d \in Consumers \ {c} : pc'[d] = pc[d],
         pc'[c] \in {"assigned", "fetch"} => pc[c] \in {"assigned", "fetch"},
         Notes',
         \A p \in Partitions : Settling(c, p)' => UpToDate(next[c][p], p)'
  PROVE  OrderInv'
<1>1. /\ TypeOK /\ Reads /\ Exclusive /\ Joining
      /\ Sorted /\ SentAhead /\ NextAhead /\ Settled
  BY DEF OrderInv, CoverInv
<1>2. ASSUME NEW p \in Partitions, committed'[p] # committed[p]
      PROVE  /\ Claims(c, p) /\ memberGen[c] = gen /\ inflight[c] = <<>>
             /\ committed'[p] = next[c][p]
  <2>1. inflight[c] = <<>> /\ memberGen[c] = gen /\ o[p] # None /\ committed'[p] = o[p]
    BY <1>2 DEF Commit
  <2> QED BY <1>1, <2>1 DEF Claims, Reads
<1>3. Exclusive' /\ Joining' /\ Sorted'
  BY <1>1 DEF Exclusive, Joining, Sorted, Claims, Current, Places, Sent
<1>4. SentAhead'
  <2> SUFFICES ASSUME NEW d \in Consumers, NEW p \in Partitions, NEW k \in Places(d),
                      Current(d, k), Sent(d, k).offsets[p] # None
               PROVE  committed'[p] <= Sent(d, k).offsets[p]
    BY DEF SentAhead, Current, Places, Sent
  <2>1. CASE committed'[p] = committed[p]
    BY <1>1, <2>1 DEF SentAhead
  <2>2. CASE committed'[p] # committed[p]
    <3>1. d = c
      BY <1>1, <1>2, <2>2, OthersKeep
    <3> QED BY <1>2, <2>2, <3>1 DEF Places
  <2> QED BY <2>1, <2>2
<1>5. NextAhead'
  <2> SUFFICES ASSUME NEW d \in Consumers, NEW p \in Partitions, memberGen[d] = gen,
                      next[d][p] # None
               PROVE  committed'[p] <= next[d][p]
    BY <1>1 DEF NextAhead, Current, Places, Sent
  <2>1. CASE committed'[p] = committed[p]
    BY <1>1, <2>1 DEF NextAhead
  <2>2. CASE committed'[p] # committed[p]
    <3>1. d = c
      BY <1>1, <1>2, <2>2, OthersKeep
    <3> QED BY <1>1, <1>2, <2>2, <3>1, OrderTypes
  <2> QED BY <2>1, <2>2
<1>6. Settled'
  <2> SUFFICES ASSUME NEW d \in Consumers, d # c, NEW p \in Partitions, Settling(d, p)'
               PROVE  UpToDate(next[d][p], p)'
    BY <1>1 DEF Settled, Synchronous
  <2>1. Settling(d, p) /\ memberGen[d] = gen /\ p \in owned[d]
    BY DEF Settling
  <2>2. committed'[p] = committed[p]
    BY <1>1, <1>2, <2>1, OthersKeep
  <2> QED BY <1>1, <2>1, <2>2 DEF Settled, UpToDate
<1> QED BY <1>3, <1>4, <1>5, <1>6 DEF OrderInv

LEMMA OrderSendSteps ==
  ASSUME CoverInv, Forgetful, OrderInv, NEW c \in Consumers,
         AutoCommit(c) \/ CommitRecordAsync(c) \/ EndBatchAsync(c)
  PROVE  OrderInv'
<1>1. TypeOK /\ Over /\ Gens
  BY DEF CoverInv
<1>2. UNCHANGED <<logEnd, committed, gen, kind, memberGen, owned, position, next,
                  currentOffsets, empty, crashes, processed, skipped>>
  BY DEF AutoCommit, CommitRecordAsync, EndBatchAsync, group, client, history
<1>3. ~CommitRecordAsync(c)
  BY DEF Forgetful, CommitRecordAsync
<1>4. CASE AutoCommit(c)
  <2>1. /\ next[c] = position[c] /\ Send(c, position[c]) /\ kind[c] = "auto"
        /\ pc[c] = "poll" /\ UNCHANGED pc /\ memberGen[c] # 0
    BY <1>1, <1>4 DEF AutoCommit, Over
  <2>2. ~Synchronous(c)
    BY <2>1 DEF Synchronous
  <2> QED BY <1>2, <2>1, <2>2, OrderSend
<1>5. CASE EndBatchAsync(c)
  <2>1. /\ next[c] = position[c] /\ Send(c, position[c]) /\ kind[c] = "async"
        /\ pc[c] = "batch" /\ pc' = [pc EXCEPT ![c] = "poll"] /\ memberGen[c] # 0
    BY <1>1, <1>5 DEF EndBatchAsync, Goto, BatchDone, Gens
  <2>2. ~Synchronous(c)
    BY <2>1 DEF Synchronous
  <2>3. \A d \in Consumers : pc'[d] = pc[d] \/ (d = c /\ pc'[d] = "poll")
    BY <1>1, <2>1 DEF TypeOK
  <2> QED BY <1>2, <2>1, <2>2, <2>3, OrderSend
<1> QED BY <1>3, <1>4, <1>5

LEMMA OrderCommitSteps ==
  ASSUME CoverInv, Forgetful, OrderInv, NEW c \in Consumers,
         \/ OnPartitionsAssigned(c) \/ CommitRecordSync(c)
         \/ EndBatchSync(c) \/ Close(c)
  PROVE  OrderInv'
<1>1. TypeOK /\ Reads /\ Over /\ Notes /\ Settled
  BY DEF CoverInv, OrderInv
<1>2. /\ UNCHANGED <<logEnd, gen, kind, memberGen, owned, position, next,
                     currentOffsets, inflight, empty, crashes, processed, skipped>>
      /\ next[c] \in OffsetMap /\ position[c] \in OffsetMap
      /\ currentOffsets[c] \in OffsetMap
      /\ pc \in [Consumers -> Labels]
  BY <1>1 DEF OnPartitionsAssigned, CommitRecordSync, EndBatchSync, Close, client,
              history, TypeOK, Labels
<1>3. NoOffsets \in OffsetMap /\ \A p \in Partitions : NoOffsets[p] = None
  BY BasicTypes DEF NoOffsets
<1>4. kind[c] # "asyncOffset"
  BY DEF Forgetful
<1>5. CASE OnPartitionsAssigned(c)
  <2>1. /\ \/ /\ kind[c] = "syncOffset" /\ inflight[c] = <<>>
              /\ Commit(memberGen[c], currentOffsets[c])
           \/ UNCHANGED committed
        /\ pc[c] = "assigned" /\ pc' = [pc EXCEPT ![c] = "fetch"]
    BY <1>4, <1>5 DEF OnPartitionsAssigned, Goto, CommitSync
  <2>2. kind[c] = "syncOffset" => \A p \in Partitions : currentOffsets[c][p] = None
    BY <1>1, <2>1 DEF Notes
  <2>3. UNCHANGED committed
    BY <1>1, <2>1, <2>2 DEF Commit, TypeOK, OffsetMap
  <2>4. Notes'
    BY <1>1, <1>2, <2>1 DEF Notes
  <2>5. \A p \in Partitions : ~Settling(c, p)'
    BY <1>2, <2>1 DEF Settling
  <2> QED BY <1>2, <1>3, <2>1, <2>3, <2>4, <2>5, OrderCommit
<1>6. CASE CommitRecordSync(c)
  <2>1. /\ inflight[c] = <<>> /\ Commit(memberGen[c], currentOffsets[c])
        /\ kind[c] = "syncOffset" /\ pc[c] = "commit"
        /\ pc' = [pc EXCEPT ![c] = IF memberGen[c] = gen THEN "batch" ELSE "close"]
    BY <1>6 DEF CommitRecordSync, Goto, CommitSync
  <2>2. \A p \in Partitions : currentOffsets[c][p] \in {None, next[c][p]}
    BY <1>1, <2>1 DEF Notes
  <2>3. Notes'
    BY <1>1, <1>2, <2>1, <2>2 DEF Notes
  <2>4. ASSUME NEW p \in Partitions, Settling(c, p)' PROVE UpToDate(next[c][p], p)'
    <3>1. memberGen[c] = gen /\ p \in owned[c]
      BY <1>2, <2>4 DEF Settling
    <3>2. CASE currentOffsets[c][p] = None
      <4>1. Settling(c, p) /\ committed'[p] = committed[p]
        BY <2>1, <3>1, <3>2 DEF Settling, Commit
      <4> QED BY <1>1, <1>2, <4>1 DEF Settled, UpToDate
    <3>3. CASE currentOffsets[c][p] # None
      <4>1. committed'[p] = next[c][p]
        BY <2>1, <2>2, <3>1, <3>3 DEF Commit
      <4> QED BY <1>2, <4>1 DEF UpToDate
    <3> QED BY <3>2, <3>3
  <2> QED BY <1>2, <2>1, <2>2, <2>3, <2>4, OrderCommit
<1>7. CASE EndBatchSync(c)
  <2>1. /\ inflight[c] = <<>> /\ Commit(memberGen[c], position[c])
        /\ kind[c] = "sync" /\ next[c] = position[c]
        /\ pc[c] = "batch" /\ pc' = [pc EXCEPT ![c] = "poll"]
    BY <1>7 DEF EndBatchSync, Goto, BatchDone, CommitSync
  <2>2. Notes'
    BY <1>1, <1>2, <2>1 DEF Notes
  <2>3. ASSUME NEW p \in Partitions, Settling(c, p)' PROVE UpToDate(next[c][p], p)'
    <3>1. memberGen[c] = gen /\ p \in owned[c]
      BY <1>2, <2>3 DEF Settling
    <3>2. next[c][p] # None
      BY <1>1, <2>1, <3>1 DEF Reads
    <3>3. committed'[p] = next[c][p]
      BY <2>1, <3>1, <3>2 DEF Commit
    <3> QED BY <1>2, <3>3 DEF UpToDate
  <2> QED BY <1>2, <2>1, <2>2, <2>3, OrderCommit
<1>8. CASE Close(c)
  <2>1. /\ inflight[c] = <<>> /\ Commit(memberGen[c], FinalOffsets(c))
        /\ pc[c] = "close" /\ pc' = [pc EXCEPT ![c] = "closed"]
    BY <1>8 DEF Close, Goto, CommitSync
  <2>2. kind[c] \in {"auto", "async"} => next[c] = position[c]
    BY <1>1, <2>1 DEF Over
  <2>3. FinalOffsets(c) \in {NoOffsets, next[c]}
    BY <1>4, <2>2 DEF FinalOffsets
  <2>4. /\ FinalOffsets(c) \in OffsetMap
        /\ \A p \in Partitions : FinalOffsets(c)[p] \in {None, next[c][p]}
    BY <1>2, <1>3, <2>3
  <2>5. Notes'
    BY <1>1, <1>2, <2>1 DEF Notes
  <2>6. \A p \in Partitions : ~Settling(c, p)'
    BY <1>2, <2>1 DEF Settling
  <2> QED BY <1>2, <2>1, <2>4, <2>5, <2>6, OrderCommit
<1> QED BY <1>5, <1>6, <1>7, <1>8

\* A step that leaves the group, its members and their commits alone.
LEMMA SameCommits ==
  ASSUME OrderInv, UNCHANGED <<committed, gen, memberGen, owned, inflight>>,
         \A c \in Consumers :
           pc'[c] \in {"assigned", "fetch"} => pc[c] \in {"assigned", "fetch"}
  PROVE  Exclusive' /\ Joining' /\ Sorted' /\ SentAhead'
  BY DEF OrderInv, Exclusive, Joining, Sorted, SentAhead, Claims, Current, Places, Sent

\* Reading begins at the committed offset, or where the reset puts it.
LEMMA OrderFetch ==
  ASSUME CoverInv, OrderInv, NEW c \in Consumers, FetchPositions(c)
  PROVE  OrderInv'
<1>1. TypeOK /\ Notes /\ Joining /\ NextAhead /\ Settled
  BY DEF CoverInv, OrderInv
<1> DEFINE start == [p \in Partitions |-> IF p \notin owned[c] THEN None
                                          ELSE IF committed[p] = None THEN logEnd[p]
                                          ELSE committed[p]]
<1>2. /\ pc[c] = "fetch" /\ pc' = [pc EXCEPT ![c] = "poll"]
      /\ next' = [next EXCEPT ![c] = start]
      /\ skipped' = [p \in Partitions |->
                       IF p \in owned[c] /\ committed[p] = None
                       THEN skipped[p] \cup Below(logEnd[p]) ELSE skipped[p]]
      /\ UNCHANGED <<committed, gen, kind, memberGen, owned, currentOffsets, inflight>>
  BY DEF FetchPositions, Goto, group
<1>3. \A p \in Partitions :
        logEnd[p] \in Nat /\ committed[p] \in Int /\ committed[p] >= None
  BY <1>1, OrderTypes, BasicTypes DEF TypeOK
<1>4. \A p \in Partitions : start[p] # None => committed[p] <= start[p]
  BY <1>3 DEF None
<1>5. \A p \in owned[c] : \/ committed[p] = start[p]
                          \/ committed[p] = None /\ Below(start[p]) \subseteq skipped'[p]
  BY <1>1, <1>2 DEF TypeOK
<1> HIDE DEF start
<1>6. /\ next'[c] = start /\ pc'[c] = "poll"
      /\ \A d \in Consumers \ {c} : next'[d] = next[d] /\ pc'[d] = pc[d]
  BY <1>1, <1>2 DEF TypeOK
<1>7. Exclusive' /\ Joining' /\ Sorted' /\ SentAhead'
  BY <1>2, <1>6, SameCommits
<1>8. Notes'
  <2>1. \A d \in Consumers, p \in Partitions : kind[d] = "syncOffset" =>
         /\ pc'[d] \in {"batch", "commit"} => currentOffsets[d][p] \in {None, next'[d][p]}
         /\ pc'[d] \in {"poll", "assigned", "fetch"} => currentOffsets[d][p] = None
    BY <1>1, <1>2, <1>6 DEF Notes
  <2> QED BY <1>2, <2>1 DEF Notes
<1>9. NextAhead'
  <2>1. \A k \in Places(c) : memberGen[c] = gen => ~Current(c, k)
    BY <1>1, <1>2 DEF Joining
  <2>2. \A d \in Consumers : \A k \in Places(d) : Current(d, k)' <=> Current(d, k)
    BY <1>2 DEF Current, Places, Sent
  <2>3. \A d \in Consumers, p \in Partitions : memberGen[d] = gen =>
         /\ next'[d][p] # None => committed[p] <= next'[d][p]
         /\ \A k \in Places(d) : Current(d, k) => Sent(d, k).offsets[p] <= next'[d][p]
    BY <1>1, <1>4, <1>6, <2>1 DEF NextAhead
  <2> QED BY <1>2, <2>2, <2>3 DEF NextAhead, Places, Sent
<1>10. Settled'
  <2>1. \A d \in Consumers : Synchronous(d)' => inflight'[d] = <<>>
    BY <1>1, <1>2 DEF Settled, Synchronous
  <2>2. ASSUME NEW d \in Consumers, NEW p \in Partitions, Settling(d, p)'
        PROVE  UpToDate(next[d][p], p)'
    <3>1. CASE d = c
      <4>1. p \in owned[c]
        BY <1>2, <2>2, <3>1 DEF Settling
      <4> QED BY <1>2, <1>5, <1>6, <3>1, <4>1 DEF UpToDate
    <3>2. CASE d # c
      <4>1. Settling(d, p)
        BY <1>2, <1>6, <2>2, <3>2 DEF Settling
      <4>2. skipped[p] \subseteq skipped'[p]
        BY <1>1, <1>2 DEF TypeOK
      <4> QED BY <1>1, <1>2, <1>6, <3>2, <4>1, <4>2 DEF Settled, UpToDate
    <3> QED BY <3>1, <3>2
  <2> QED BY <2>1, <2>2 DEF Settled
<1> QED BY <1>7, <1>8, <1>9, <1>10 DEF OrderInv

\* Steps that only move a consumer through its loop.
LEMMA OrderLocal ==
  ASSUME CoverInv, Forgetful, OrderInv, NEW c \in Consumers,
         \/ PollEmpty(c) \/ Stop(c) \/ EndBatch(c)
         \/ \E n \in [Partitions -> 0..MaxPoll] : Poll(c, n)
  PROVE  OrderInv'
<1>1. TypeOK /\ Notes /\ NextAhead /\ Settled
  BY DEF CoverInv, OrderInv
<1>2. UNCHANGED <<committed, gen, kind, memberGen, owned, next, inflight, skipped>>
  BY <1>1, PollMoves DEF PollEmpty, Stop, EndBatch, group, client, history
<1>3. \/ UNCHANGED <<pc, currentOffsets>>
      \/ pc[c] = "poll" /\ pc' = [pc EXCEPT ![c] = "close"] /\ UNCHANGED currentOffsets
      \/ pc[c] = "poll" /\ pc' = [pc EXCEPT ![c] = "batch"] /\ UNCHANGED currentOffsets
      \/ /\ kind[c] = "auto" /\ UNCHANGED currentOffsets
         /\ pc[c] = "batch" /\ pc' = [pc EXCEPT ![c] = "poll"]
      \/ /\ kind[c] = "syncOffset"
         /\ currentOffsets' = [currentOffsets EXCEPT ![c] = NoOffsets]
         /\ pc[c] = "batch" /\ pc' = [pc EXCEPT ![c] = "poll"]
  BY <1>1, PollMoves DEF PollEmpty, Stop, EndBatch, Goto, client, Forgetful
<1>4. Exclusive' /\ Joining' /\ Sorted' /\ SentAhead'
  BY <1>1, <1>2, <1>3, SameCommits DEF TypeOK
<1>5. Notes'
  <2>1. \A p \in Partitions : NoOffsets[p] = None
    BY DEF NoOffsets
  <2> QED BY <1>1, <1>2, <1>3, <2>1 DEF Notes, TypeOK
<1>6. NextAhead'
  BY <1>1, <1>2 DEF NextAhead, Current, Places, Sent
<1>7. Settled'
  <2>1. \A d \in Consumers, p \in Partitions : Settling(d, p)' => Settling(d, p)
    BY <1>1, <1>2, <1>3 DEF Settling, TypeOK
  <2> QED BY <1>1, <1>2, <2>1 DEF Settled, Synchronous, UpToDate
<1> QED BY <1>4, <1>5, <1>6, <1>7 DEF OrderInv

\* Reading on leaves the order as it is; the record's commit is then due.
LEMMA OrderProcess ==
  ASSUME CoverInv, Forgetful, OrderInv, NEW c \in Consumers, NEW p \in Partitions,
         Process(c, p)
  PROVE  OrderInv'
<1>1. TypeOK /\ Windows /\ Notes /\ NextAhead /\ Settled
  BY DEF CoverInv, OrderInv
<1> DEFINE x == next[c][p]
           noted == kind[c] = "syncOffset"
<1>2. /\ pc[c] = "batch" /\ pc' = [pc EXCEPT ![c] = IF noted THEN "commit" ELSE "batch"]
      /\ x < position[c][p]
      /\ next' = [next EXCEPT ![c][p] = x + 1]
      /\ currentOffsets' = IF noted THEN [currentOffsets EXCEPT ![c][p] = x + 1]
                           ELSE currentOffsets
      /\ UNCHANGED <<committed, gen, kind, memberGen, owned, inflight, skipped>>
  BY DEF Process, Goto, group, After, Forgetful
<1>3. x \in Nat
  <2>1. x \in Offsets \cup {None} /\ position[c][p] \in Offsets \cup {None}
    BY <1>1 DEF TypeOK, OffsetMap
  <2>2. x = None => position[c][p] = None
    BY <1>1 DEF Windows
  <2> QED BY <1>2, <2>1, <2>2, BoundsAssumption DEF Offsets, None
<1> HIDE DEF noted
<1>4. /\ \A d \in Consumers \ {c} : /\ next'[d] = next[d] /\ pc'[d] = pc[d]
                                     /\ currentOffsets'[d] = currentOffsets[d]
      /\ \A q \in Partitions \ {p} : /\ next'[c][q] = next[c][q]
                                      /\ currentOffsets'[c][q] = currentOffsets[c][q]
      /\ next'[c][p] = x + 1
      /\ noted => pc'[c] = "commit" /\ currentOffsets'[c][p] = x + 1
      /\ ~noted => pc'[c] = "batch"
  BY <1>1, <1>2 DEF TypeOK, OffsetMap
<1>5. Exclusive' /\ Joining' /\ Sorted' /\ SentAhead'
  <2>1. \A d \in Consumers :
          pc'[d] \in {"assigned", "fetch"} => pc[d] \in {"assigned", "fetch"}
    BY <1>4
  <2> QED BY <1>2, <2>1, SameCommits
<1>6. Notes'
  <2> SUFFICES ASSUME NEW d \in Consumers, NEW q \in Partitions, kind[d] = "syncOffset"
               PROVE  /\ pc'[d] \in {"batch", "commit"} =>
                           currentOffsets'[d][q] \in {None, next'[d][q]}
                      /\ pc'[d] \in {"poll", "assigned", "fetch"} =>
                           currentOffsets'[d][q] = None
    BY <1>2 DEF Notes
  <2>1. CASE d = c /\ q = p
    BY <1>4, <2>1 DEF noted
  <2>2. CASE d = c /\ q # p
    BY <1>1, <1>2, <1>4, <2>2 DEF Notes, noted
  <2>3. CASE d # c
    BY <1>1, <1>4, <2>3 DEF Notes
  <2> QED BY <2>1, <2>2, <2>3
<1>7. NextAhead'
  <2> SUFFICES ASSUME NEW d \in Consumers, NEW q \in Partitions, memberGen[d] = gen
               PROVE  /\ next'[d][q] # None => committed[q] <= next'[d][q]
                      /\ \A k \in Places(d) :
                           Current(d, k) => Sent(d, k).offsets[q] <= next'[d][q]
    BY <1>2 DEF NextAhead, Current, Places, Sent
  <2>1. CASE d = c /\ q = p
    <3>1. /\ x <= next'[c][p] /\ x # None /\ x \in Int /\ next'[c][p] \in Int
          /\ committed[p] \in Int /\ \A k \in Places(c) : Sent(c, k).offsets[p] \in Int
      BY <1>1, <1>3, <1>4, OrderTypes DEF None
    <3>2. /\ committed[p] <= x
          /\ \A k \in Places(c) : Current(c, k) => Sent(c, k).offsets[p] <= x
      BY <1>1, <2>1, <3>1 DEF NextAhead
    <3> HIDE DEF x
    <3> QED BY <2>1, <3>1, <3>2
  <2>2. CASE ~(d = c /\ q = p)
    <3>1. next'[d][q] = next[d][q]
      BY <1>4, <2>2
    <3> QED BY <1>1, <3>1 DEF NextAhead
  <2> QED BY <2>1, <2>2
<1>8. Settled'
  <2>1. \A d \in Consumers : Synchronous(d)' => inflight'[d] = <<>>
    BY <1>1, <1>2 DEF Settled, Synchronous
  <2>2. ASSUME NEW d \in Consumers, NEW q \in Partitions, Settling(d, q)'
        PROVE  Settling(d, q) /\ next'[d][q] = next[d][q]
    <3>1. CASE d = c /\ q = p
      BY <1>2, <1>3, <1>4, <2>2, <3>1 DEF Settling, noted, None
    <3>2. CASE d = c /\ q # p
      BY <1>2, <1>4, <2>2, <3>2 DEF Settling, noted
    <3>3. CASE d # c
      BY <1>2, <1>4, <2>2, <3>3 DEF Settling
    <3> QED BY <3>1, <3>2, <3>3
  <2> QED BY <1>1, <1>2, <2>1, <2>2 DEF Settled, UpToDate
<1> QED BY <1>5, <1>6, <1>7, <1>8 DEF OrderInv

\* A consumer that dies claims no more than before.
LEMMA OrderCrash ==
  ASSUME CoverInv, OrderInv, NEW c \in Consumers, Crash(c)
  PROVE  OrderInv'
<1>1. /\ TypeOK /\ Gens /\ Notes /\ Exclusive /\ Joining
      /\ Sorted /\ SentAhead /\ NextAhead /\ Settled
  BY DEF CoverInv, OrderInv
<1>2. /\ pc' = [pc EXCEPT ![c] = "poll"]
      /\ memberGen' = [memberGen EXCEPT ![c] = 0]
      /\ owned' = [owned EXCEPT ![c] = {}]
      /\ next' = [next EXCEPT ![c] = NoOffsets]
      /\ currentOffsets' = [currentOffsets EXCEPT ![c] = NoOffsets]
      /\ UNCHANGED <<committed, gen, kind, inflight, skipped>>
  BY DEF Crash, group, history
<1>3. /\ pc'[c] = "poll" /\ memberGen'[c] = 0 /\ owned'[c] = {}
      /\ \A p \in Partitions : next'[c][p] = None /\ currentOffsets'[c][p] = None
      /\ \A d \in Consumers \ {c} : /\ pc'[d] = pc[d] /\ memberGen'[d] = memberGen[d]
                                    /\ owned'[d] = owned[d] /\ next'[d] = next[d]
                                    /\ currentOffsets'[d] = currentOffsets[d]
  BY <1>1, <1>2 DEF TypeOK, NoOffsets
<1>4. \A d \in Consumers : /\ Places(d)' = Places(d)
                           /\ \A k \in Places(d) : /\ Sent(d, k)' = Sent(d, k)
                                                   /\ Current(d, k)' <=> Current(d, k)
  BY <1>2 DEF Places, Sent, Current
<1>5. Notes'
  BY <1>1, <1>2, <1>3 DEF Notes
<1>6. Exclusive'
  <2>1. \A d \in Consumers, p \in Partitions : Claims(d, p)' => Claims(d, p)
    BY <1>2, <1>3, <1>4 DEF Claims
  <2> QED BY <1>1, <2>1 DEF Exclusive
<1>7. Joining' /\ Sorted' /\ SentAhead'
  BY <1>1, <1>2, <1>3, <1>4 DEF Joining, Sorted, SentAhead
<1>8. NextAhead'
  <2>1. \A k \in Places(c) : memberGen'[c] = gen => ~Current(c, k)
    BY <1>1, <1>3 DEF Gens, Current
  <2> QED BY <1>1, <1>2, <1>3, <1>4, <2>1 DEF NextAhead
<1>9. Settled'
  <2>1. \A d \in Consumers, p \in Partitions :
          Settling(d, p)' => d # c /\ Settling(d, p)
    BY <1>2, <1>3 DEF Settling
  <2> QED BY <1>1, <1>2, <1>3, <2>1 DEF Settled, Synchronous, UpToDate
<1> QED BY <1>5, <1>6, <1>7, <1>8, <1>9 DEF OrderInv

LEMMA OrderProduce ==
  ASSUME OrderInv, NEW p \in Partitions, Produce(p)
  PROVE  OrderInv'
<1>1. UNCHANGED <<committed, gen, kind, pc, memberGen, owned, next, currentOffsets,
                  inflight, skipped>>
  BY DEF Produce, group, client, history
<1> QED BY <1>1 DEF OrderInv, Notes, Exclusive, Joining, Sorted, SentAhead, NextAhead,
            Settled, Synchronous, Settling, UpToDate, Claims, Current, Places, Sent

\* A new generation has no commits on their way, and each partition one reader.
LEMMA OrderRebalance ==
  ASSUME CoverInv, OrderInv, NEW joined \in SUBSET Consumers, NEW owner,
         Rebalance(joined, owner)
  PROVE  OrderInv'
<1>1. TypeOK /\ Gens /\ Notes /\ Settled
  BY DEF CoverInv, OrderInv
<1>2. /\ gen' = gen + 1
      /\ \A c \in joined : pc[c] = "poll"
      /\ UNCHANGED <<committed, kind, currentOffsets, inflight, skipped>>
      /\ \A c \in joined : /\ memberGen'[c] = gen' /\ pc'[c] = "assigned"
                           /\ owned'[c] = {p \in Partitions : owner[p] = c}
                           /\ \A p \in Partitions : next'[c][p] = None
      /\ \A c \in Consumers \ joined : /\ memberGen'[c] = memberGen[c] /\ pc'[c] = pc[c]
                                       /\ next'[c] = next[c]
  BY DEF Rebalance, history, NoOffsets
<1>3. gen \in Nat
  BY <1>1 DEF TypeOK
<1>4. \A c \in Consumers : memberGen'[c] = gen' => c \in joined
  BY <1>1, <1>2, <1>3 DEF Gens, TypeOK
<1>5. \A c \in Consumers : \A k \in Places(c)' : ~Current(c, k)'
  <2> SUFFICES ASSUME NEW c \in Consumers, NEW k \in Places(c) PROVE Sent(c, k)'.gen # gen'
    BY <1>2 DEF Current, Places
  <2>1. Sent(c, k)' = Sent(c, k) /\ Sent(c, k).gen <= gen /\ Sent(c, k).gen \in Int
    BY <1>1, <1>2, SentType DEF Sent, Gens
  <2> QED BY <1>2, <1>3, <2>1
<1>6. Notes'
  <2>1. \A c \in Consumers, p \in Partitions : kind[c] = "syncOffset" =>
         /\ pc'[c] \in {"batch", "commit"} => currentOffsets[c][p] \in {None, next'[c][p]}
         /\ pc'[c] \in {"poll", "assigned", "fetch"} => currentOffsets[c][p] = None
    BY <1>1, <1>2 DEF Notes
  <2> QED BY <1>2, <2>1 DEF Notes
<1>7. Exclusive'
  <2>1. \A c \in Consumers, p \in Partitions : Claims(c, p)' => c = owner[p]
    BY <1>2, <1>4, <1>5 DEF Claims
  <2> QED BY <2>1 DEF Exclusive
<1>8. Joining' /\ Sorted' /\ SentAhead'
  BY <1>5 DEF Joining, Sorted, SentAhead
<1>9. NextAhead'
  BY <1>2, <1>4, <1>5 DEF NextAhead
<1>10. Settled'
  <2>1. \A c \in Consumers, p \in Partitions : ~Settling(c, p)'
    BY <1>2, <1>4 DEF Settling
  <2> QED BY <1>1, <1>2, <2>1 DEF Settled, Synchronous
<1> QED BY <1>6, <1>7, <1>8, <1>9, <1>10 DEF OrderInv

LEMMA OrderInit == Init => OrderInv
<1> SUFFICES ASSUME Init PROVE OrderInv
  OBVIOUS
<1>1. \A c \in Consumers : Places(c) = {} /\ inflight[c] = <<>> /\ owned[c] = {}
  BY DEF Init, Places
<1>2. \A c \in Consumers, p \in Partitions : ~Claims(c, p) /\ ~Settling(c, p)
  BY <1>1 DEF Claims, Settling
<1>3. Notes /\ NextAhead
  BY <1>1 DEF Init, Notes, NextAhead, NoOffsets
<1> QED BY <1>1, <1>2, <1>3 DEF OrderInv, Exclusive, Joining, Sorted, SentAhead, Settled

\* The programs are what they are.
LEMMA SamePrograms == Next => kind' = kind
<1> SUFFICES ASSUME Next PROVE kind' = kind
  OBVIOUS
<1>1. ASSUME NEW c \in Consumers, Step(c) PROVE kind' = kind
  BY <1>1 DEF Step, Deliver, Lose, OnPartitionsAssigned, FetchPositions, PollEmpty,
              AutoCommit, Poll, Process, CommitRecordAsync, CommitRecordSync,
              EndBatchSync, EndBatchAsync, EndBatch, Stop, Close, Crash
<1> QED BY <1>1 DEF Next, Produce, Rebalance

\* The strengthening: the order holds where every program forgets what it has kept.
Inv == CoverInv /\ (Forgetful => OrderInv)

LEMMA InvNext == Inv /\ [Next]_vars => Inv'
<1> SUFFICES ASSUME Inv, [Next]_vars PROVE Inv'
  OBVIOUS
<1>1. CoverInv'
  BY CoverNext DEF Inv
<1>2. Forgetful' => Forgetful
  BY SamePrograms DEF Forgetful, vars
<1> SUFFICES ASSUME Forgetful PROVE OrderInv'
  BY <1>1, <1>2 DEF Inv
<1>3. CoverInv /\ OrderInv
  BY DEF Inv
<1>4. ASSUME NEW c \in Consumers, Step(c) PROVE OrderInv'
  <2>1. CASE Deliver(c) \/ Lose(c)
    BY <1>3, <2>1, OrderPop
  <2>2. CASE AutoCommit(c) \/ CommitRecordAsync(c) \/ EndBatchAsync(c)
    BY <1>3, <2>2, OrderSendSteps
  <2>3. CASE \/ OnPartitionsAssigned(c) \/ CommitRecordSync(c)
             \/ EndBatchSync(c) \/ Close(c)
    BY <1>3, <2>3, OrderCommitSteps
  <2>4. CASE FetchPositions(c)
    BY <1>3, <2>4, OrderFetch
  <2>5. CASE \/ PollEmpty(c) \/ Stop(c) \/ EndBatch(c)
             \/ \E n \in [Partitions -> 0..MaxPoll] : Poll(c, n)
    BY <1>3, <2>5, OrderLocal
  <2>6. CASE \E p \in Partitions : Process(c, p)
    BY <1>3, <2>6, OrderProcess
  <2>7. CASE Crash(c)
    BY <1>3, <2>7, OrderCrash
  <2> QED BY <1>4, <2>1, <2>2, <2>3, <2>4, <2>5, <2>6, <2>7 DEF Step
<1>5. ASSUME NEW p \in Partitions, Produce(p) PROVE OrderInv'
  BY <1>3, <1>5, OrderProduce
<1>6. ASSUME NEW joined \in SUBSET Consumers \ {{}}, NEW owner \in [Partitions -> joined],
             Rebalance(joined, owner)
      PROVE  OrderInv'
  BY <1>3, <1>6, OrderRebalance
<1>7. CASE UNCHANGED vars
  <2>1. UNCHANGED <<committed, gen, kind, pc, memberGen, owned, next, currentOffsets,
                    inflight, skipped>>
    BY <1>7 DEF vars, group, client, history
  <2> QED BY <1>3, <2>1 DEF OrderInv, Notes, Exclusive, Joining, Sorted, SentAhead,
              NextAhead, Settled, Synchronous, Settling, UpToDate, Claims, Current,
              Places, Sent
<1> QED BY <1>4, <1>5, <1>6, <1>7 DEF Next

LEMMA InvAlways == Spec => []Inv
<1>1. Init => Inv
  BY CoverInit, OrderInit DEF Inv
<1> QED BY <1>1, InvNext, PTL DEF Spec

\* What a commitSync commits: where the consumer reads next, as a member of the group.
LEMMA CommitsNext ==
  ASSUME CoverInv, Forgetful, OrderInv, NEW c \in Consumers,
         \/ OnPartitionsAssigned(c) \/ CommitRecordSync(c)
         \/ EndBatchSync(c) \/ Close(c),
         NEW p \in Partitions, committed'[p] # committed[p]
  PROVE  memberGen[c] = gen /\ next[c][p] # None /\ committed'[p] = next[c][p]
<1>1. TypeOK /\ Over /\ Notes
  BY DEF CoverInv, OrderInv
<1>2. NoOffsets[p] = None
  BY DEF NoOffsets
<1>3. kind[c] # "asyncOffset"
  BY DEF Forgetful
<1>4. CASE OnPartitionsAssigned(c)
  <2>1. /\ kind[c] = "syncOffset" /\ pc[c] = "assigned"
        /\ Commit(memberGen[c], currentOffsets[c])
    BY <1>3, <1>4 DEF OnPartitionsAssigned, Goto, CommitSync
  <2>2. currentOffsets[c][p] = None
    BY <1>1, <2>1 DEF Notes
  <2> QED BY <2>1, <2>2 DEF Commit
<1>5. CASE CommitRecordSync(c)
  <2>1. /\ kind[c] = "syncOffset" /\ pc[c] = "commit"
        /\ Commit(memberGen[c], currentOffsets[c])
    BY <1>5 DEF CommitRecordSync, Goto, CommitSync
  <2>2. currentOffsets[c][p] \in {None, next[c][p]}
    BY <1>1, <2>1 DEF Notes
  <2> QED BY <2>1, <2>2 DEF Commit
<1>6. CASE EndBatchSync(c)
  BY <1>6 DEF EndBatchSync, BatchDone, CommitSync, Commit
<1>7. CASE Close(c)
  <2>1. Commit(memberGen[c], FinalOffsets(c)) /\ pc[c] = "close"
    BY <1>7 DEF Close, Goto, CommitSync
  <2>2. kind[c] \in {"auto", "async"} => next[c] = position[c]
    BY <1>1, <2>1 DEF Over
  <2>3. FinalOffsets(c)[p] \in {None, next[c][p]}
    BY <1>2, <1>3, <2>2 DEF FinalOffsets
  <2> QED BY <2>1, <2>3 DEF Commit
<1> QED BY <1>4, <1>5, <1>6, <1>7

LEMMA GrowNext ==
  ASSUME Inv, Next, Forgetful, NEW p \in Partitions
  PROVE  committed'[p] >= committed[p]
<1>1. CoverInv /\ OrderInv /\ TypeOK /\ SentAhead /\ NextAhead
  BY DEF Inv, CoverInv, OrderInv
<1>2. /\ CoverInv /\ OrderInv /\ TypeOK /\ SentAhead /\ NextAhead
      /\ committed[p] \in Int
  BY <1>1, OffsetType DEF TypeOK
<1>3. ASSUME NEW c \in Consumers, Step(c) PROVE committed'[p] >= committed[p]
  <2>1. CASE Deliver(c)
    <3>1. Pop(c) /\ Commit(Head(inflight[c]).gen, Head(inflight[c]).offsets)
      BY <2>1 DEF Deliver
    <3>2. 1 \in Places(c) /\ Head(inflight[c]) = Sent(c, 1)
      BY <1>2, <3>1, PopQueue
    <3>3. \/ committed'[p] = committed[p]
          \/ /\ Current(c, 1) /\ Sent(c, 1).offsets[p] # None
             /\ committed'[p] = Sent(c, 1).offsets[p]
      BY <3>1, <3>2 DEF Commit, Current
    <3>4. committed'[p] \in Int
      BY <1>2, <3>2, <3>3, OrderTypes
    <3> QED BY <1>2, <3>2, <3>3, <3>4 DEF SentAhead
  <2>2. CASE \/ OnPartitionsAssigned(c) \/ CommitRecordSync(c)
             \/ EndBatchSync(c) \/ Close(c)
    <3>1. CASE committed'[p] = committed[p]
      BY <1>2, <3>1
    <3>2. CASE committed'[p] # committed[p]
      <4>1. memberGen[c] = gen /\ next[c][p] # None /\ committed'[p] = next[c][p]
        BY <1>2, <2>2, <3>2, CommitsNext
      <4>2. committed[p] <= next[c][p] /\ next[c][p] \in Int
        BY <1>2, <4>1, OrderTypes DEF NextAhead
      <4> QED BY <1>2, <4>1, <4>2
    <3> QED BY <3>1, <3>2
  <2>3. CASE \/ Lose(c) \/ FetchPositions(c) \/ PollEmpty(c) \/ AutoCommit(c)
             \/ \E n \in [Partitions -> 0..MaxPoll] : Poll(c, n)
             \/ \E q \in Partitions : Process(c, q)
             \/ CommitRecordAsync(c) \/ EndBatchAsync(c) \/ EndBatch(c)
             \/ Stop(c) \/ Crash(c)
    <3>1. committed' = committed
      BY <2>3 DEF Lose, FetchPositions, PollEmpty, AutoCommit, Poll, Process,
                  CommitRecordAsync, EndBatchAsync, EndBatch, Stop, Crash, group
    <3> QED BY <1>2, <3>1
  <2> QED BY <1>3, <2>1, <2>2, <2>3 DEF Step
<1>4. CASE \/ \E q \in Partitions : Produce(q)
           \/ \E joined \in SUBSET Consumers \ {{}} :
                \E owner \in [Partitions -> joined] : Rebalance(joined, owner)
  <2>1. committed' = committed
    BY <1>4 DEF Produce, Rebalance, group
  <2> QED BY <1>2, <2>1
<1> QED BY <1>3, <1>4 DEF Next

\* Without SimpleConsumerCommitAsyncOffset in the group a committed offset never falls,
\* for any number of consumers, partitions, generations, crashes and unanswered commits.
THEOREM OffsetsGrowHolds == Spec => OffsetsGrow
<1>1. Inv /\ [Next]_vars =>
        [Forgetful => \A p \in Partitions : committed'[p] >= committed[p]]_vars
  BY GrowNext
<1> QED BY <1>1, InvAlways, PTL DEF Spec, OffsetsGrow

\* A consumer ends in no other way than by Close.
LEMMA OnlyClose ==
  ASSUME TypeOK, Next, NEW c \in Consumers, Ends(c)
  PROVE  Close(c)
<1>1. pc[c] = "close" /\ pc'[c] = "closed" /\ pc \in [Consumers -> Labels]
  BY DEF Ends, TypeOK, Labels
<1>2. ASSUME NEW d \in Consumers, Step(d) PROVE Close(c)
  <2>1. \/ Close(d)
        \/ UNCHANGED pc
        \/ \E l \in Labels \ {"closed"} : pc' = [pc EXCEPT ![d] = l]
    BY <1>2 DEF Step, Deliver, Lose, OnPartitionsAssigned, FetchPositions, PollEmpty,
                AutoCommit, Poll, Process, CommitRecordAsync, CommitRecordSync,
                EndBatchSync, EndBatchAsync, EndBatch, Stop, Crash, Goto, Labels
  <2>2. CASE Close(d)
    BY <1>1, <2>2 DEF Close, Goto
  <2>3. CASE UNCHANGED pc
    BY <1>1, <2>3
  <2>4. CASE \E l \in Labels \ {"closed"} : pc' = [pc EXCEPT ![d] = l]
    BY <1>1, <2>4
  <2> QED BY <2>1, <2>2, <2>3, <2>4
<1>3. \A p \in Partitions : ~Produce(p)
  BY <1>1 DEF Produce
<1>4. \A joined \in SUBSET Consumers \ {{}} :
        \A owner \in [Partitions -> joined] : ~Rebalance(joined, owner)
  BY <1>1 DEF Rebalance
<1> QED BY <1>2, <1>3, <1>4 DEF Next

LEMMA EndsNext ==
  ASSUME Inv, Next, Forgetful, NEW c \in Consumers, Ends(c), NEW p \in owned[c]
  PROVE  \/ committed'[p] = position[c][p]
         \/ committed'[p] = None /\ Below(position[c][p]) \subseteq skipped[p]
<1>1. TypeOK /\ Over /\ Reads /\ Settled
  BY DEF Inv, CoverInv, OrderInv
<1>2. Close(c)
  BY <1>1, OnlyClose
<1>3. /\ Commit(memberGen[c], FinalOffsets(c)) /\ pc[c] = "close" /\ memberGen[c] = gen
      /\ p \in Partitions
  BY <1>1, <1>2 DEF Close, Goto, CommitSync, Ends, TypeOK
<1>4. next[c] = position[c] /\ next[c][p] # None
  BY <1>1, <1>3 DEF Over, Reads
<1>5. CASE kind[c] \in {"auto", "async"}
  <2>1. FinalOffsets(c) = position[c]
    BY <1>5 DEF FinalOffsets
  <2> QED BY <1>3, <1>4, <2>1 DEF Commit
<1>6. CASE Synchronous(c)
  <2>1. FinalOffsets(c) = NoOffsets
    BY <1>6 DEF FinalOffsets, Synchronous
  <2>2. committed'[p] = committed[p]
    BY <1>3, <2>1 DEF Commit, NoOffsets
  <2>3. UpToDate(next[c][p], p)
    BY <1>1, <1>3, <1>6 DEF Settled, Settling, Synchronous
  <2> QED BY <1>4, <2>2, <2>3 DEF UpToDate
<1>7. kind[c] \in {"auto", "async"} \/ Synchronous(c)
  BY <1>1 DEF Forgetful, Synchronous, TypeOK, Kinds
<1> QED BY <1>5, <1>6, <1>7

\* Whatever asynchronous commits were lost before, a consumer of those programs that
\* closes as a member of the group leaves all it has read committed.
THEOREM EndsCommittedHolds == Spec => EndsCommitted
<1> DEFINE Left(c) == \A p \in owned[c] :
      \/ committed'[p] = position[c][p]
      \/ committed'[p] = None /\ Below(position[c][p]) \subseteq skipped[p]
<1>1. Inv /\ [Next]_vars => [\A c \in Consumers : Forgetful /\ Ends(c) => Left(c)]_vars
  <2> SUFFICES ASSUME Inv, Next, NEW c \in Consumers, Forgetful, Ends(c) PROVE Left(c)
    OBVIOUS
  <2> QED BY EndsNext
<1> QED BY <1>1, InvAlways, PTL DEF Spec, EndsCommitted
=============================================================================
