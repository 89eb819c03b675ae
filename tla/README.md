# Specifications of the workspace of Java examples

The repository is a collection of about 115 independent Maven projects, each showing one tool in as
little code as its author could manage (`src/README.md`). There is no system that spans them: a demo
is one program, sometimes with one external service (Redis, Kafka, ZooKeeper, a database, a cache)
that several copies of it share. What can go wrong in them is therefore inside a demo, and this
project models the demos that have something to get wrong: shared state reached by several threads,
a lease in a remote store, offsets and caches that must agree with a log or a table, a lock file of
any kind, a decision table that must be total.

## 1. Inventory

Paths are under `src/`. "Hard" names the behaviours a unit test hardly reaches.

| Demo | State | Operations | Interacts with | Hard |
|---|---|---|---|---|
| `snowflake-demo` SnowflakeIdGenerator | `lastSeqNum`, `lastTimestamp` of a generator; one static lock for all generators | constructor, `nextId`, `tilNextMillis`, `timeGen`; `main` submits calls and counts repeats | system clock, thread pool | overflow of the sequence, clock set back, wait with the lock held, field widths |
| `redis-demo` RedisLock | one key, its value (the holder's identifier) and its time to live | `acquireLock`, `releaseLock`, `main` | Redis (SETNX, EXPIRE, TTL, WATCH/MULTI/EXEC) | crash between SETNX and EXPIRE, lease that ends while its holder works, timeout without a lock |
| `java_xml-demo` InstanceTypeMatrix | the XML file, `data`, `updated_datetime`, `xml_last_modified`, a lock | `getInstanceType`, `getAllInstanceType`, `updateData`, `initData`, `transHTMLtoXML` | file system, callers' threads | read before the lock, tryLock that fails, file changed while it is parsed, or emptied and not yet written |
| `kafka-simple-demo` consumers | position, `currentOffsets`, committed offset of the group | `poll`, `commitSync`, `commitAsync`, rebalance callbacks | Kafka broker, other consumers of the group | rebalance between processing and commit, late commits |
| `kafka-simple-demo` SimpleTransaction | position, `currentOffsets`, an open transaction under one fixed id | `initTransactions`, `poll`, `send`, `sendOffsetsToTransaction`, `commitTransaction`, `abortTransaction` | transaction and group coordinators, other copies of the program | fencing in the middle of a batch, abort without rewinding, a rebalance while a transaction is completed |
| `spring-boot-spring-kafka-demo` clients | position, replies sent | `listenOneMessage`, batch listeners, manual acknowledgement | Kafka broker | timeout of a reply that was sent, redelivery |
| `spring-boot-web-mybatis-ehcache-demo` BlogService | table `blog`, caches `blogdto`, `blogdto_all` | `create`, `list`, `list(id)`, `list(id,page)`, `update`, `remove` | database, Ehcache, HTTP threads | fill of a cache racing an update, nulls that are remembered, a call that throws after its insert, expiry |
| `spring-boot-web-taskexecutor-demo` | pool size, running tasks, callers waiting | `home` submits tasks and waits ten seconds for each; shutdown | ThreadPoolTaskExecutor, HTTP threads | pool at its limit, caller runs the task, timeout of `get`, tasks dropped at shutdown |
| `zookeeper-native-demo` SimpleExample | nodes with versions, the session | `main`: exists/create, transaction, delete; `setValues`; `travelByPreorder` | ZooKeeper, other copies of the program | a second client between two calls, ephemeral nodes of a program that has ended |
| `zookeeper-curator-demo` recipes | lock holders, leader, local cache | read/write lock, leader latch, leader selector, path cache | ZooKeeper | release without acquire, leader lost between two looks |
| `spring-boot-shiro-jwt-demo` | `sec_user.jti`, session | `doLogin`, `doLogout`, filter, realm | database, HTTP threads | login between check and invalidation |
| `jpos-demo` SSMClient, SSMRequestListener | none | command to response mapping | TCP | default branches |
| `license-tools-demo` LicenseControl, `spring-boot-web-tkmybatis-geoip-demo` GeoipRmdbService, `java_keystore-demo`, `hadoop-demo` parsers | none | pure functions over records and ranges | files, tables | boundaries |
| the listener, scheduler and quartz demos | a counter or nothing | `onMessage`, `execute` | brokers, database lock tables | redelivery, a second node |
| everything else | configuration, generated MyBatis classes, a tour of a library's API from `main` | | | none of its own |

Inside the demos that are modelled, the actors meet as follows. Threads of one JVM meet at a Java lock
(`snowflake-demo`, `java_xml-demo`) or at a concurrent map (`main` of `snowflake-demo`); processes meet
at a key of a Redis server, at the committed offsets of a Kafka group, at a transactional id, or at
nodes of ZooKeeper; HTTP requests meet at a database table and at two caches in front of it, or at a pool of threads. No demo calls another one.

What each modelled part has to get right:

| Part | Correct means |
|---|---|
| `nextId` | identifiers are new and grow; where they repeat, the configuration or the clock is to blame; calls return |
| `main`'s count of repeats | the total is never too big and by how much it can be too small is known |
| RedisLock | one holder at a time while the lease is kept; nobody's lock is deleted by another; no lock stays for ever |
| InstanceTypeMatrix | one loader, a table that is the file's and never older than the one before, whatever the writer of the file does |
| BlogService | what a cache holds is the row, or there is a reason why not that ends |
| consumers | no record is committed unread, the committed offset does not fall, nothing is left over at the end |
| SimpleTransaction | replies and offsets become visible together, each record is answered once, none is lost but for aborted batches |
| task pool | `home` ends, within its limits, and the pool shrinks again |
| SimpleExample | it reads what it wrote, fails only because of somebody else, and leaves nothing behind |

## 2. Modules

| Module | Models | State | One action is |
|---|---|---|---|
| `IdOracle` | what a source of identifiers promises | the answers so far, the open calls and what had been answered when each began | a call, an answer |
| `Snowflake` | `SnowflakeIdGenerator.nextId` and `tilNextMillis`, the constructor | the two fields of every generator, the static lock, the clock, the locals of every open call | a stretch of `nextId` that reads or writes shared state once: `Lock`, `Stamp`, `TilNextMillis`, `Store`, `Unlock`, `Return` |
| `OwnedLock` | what a lock with an owner promises | the owner, who is inside | a client goes in or leaves, the lock comes free |
| `DuplicateCount` | the parallel stream of `main` | the map, the counter, how far each future is | one atomic map operation |
| `RedisLock` | `acquireLock`, `releaseLock`, `main` | the key, its time to live, where each client is, whether its connection's watch is spoiled | one Jedis command, one look at the clock, a crash, a second |
| `InstanceTypeMatrix` | `getInstanceType`, `getAllInstanceType`, `updateData`, `initData` | the file's version and time, the three fields, the lock, what every caller has seen | one check, one file access, one publication |
| `BlogCache` | `svr2/BlogService` with its cache annotations | the table, both caches, what every request carries | one statement, one cache operation |
| `ExactlyOnce` | what reading, answering and noting offsets in transactions promises | how far each partition is dealt with, how often each record was answered | moving on over some records and answering some of them |
| `KafkaTransaction` | `SimpleTransaction` | log, committed offsets and replies, the open and the decided transactions, the fields of every copy | one record, one poll, one transactional call, the completion of a transaction |
| `TaskExecutor` | `home` and the pool of `TaskExecutorConfig` | where each request is, what became of its tasks, what each thread does, the queue, the clocks | one attempt to place a task, one look for a task, one `get`, a shutdown, a second |
| `ZkSimple` | `main`, `setValues`, `travelByPreorder` | the server's nodes and sessions, where each program is, the version it goes by | one call to the server, the end of a process, of a session |
| `KafkaOffsets` | the five consumer programs | the log, the committed offsets, the group's generation, the fields of every consumer | one record, one poll, one commit |

`MCSnowflake`, `MCRedisLock`, `MCKafkaOffsets` and `MCKafkaTransaction` give the model checker constants that a
configuration file cannot write down and the symmetry sets. `SnowflakeProofs`, `RedisLockProofs`, `InstanceTypeMatrixProofs`,
`BlogCacheProofs`, `KafkaOffsetsProofs`, `KafkaTransactionProofs`, `TaskExecutorProofs` and `ZkSimpleProofs` hold
the proofs; those about `DuplicateCount` are in `SnowflakeProofs`, whose class it belongs to. Three modules implement an abstract one by a refinement
mapping: `Snowflake` implements `IdOracle` (`OracleSpec`), `KafkaTransaction` implements `ExactlyOnce`
(`RepliesOnce`), and `RedisLock` under `PromptSpec` implements `OwnedLock` (`LockSpec`); the other modules stand alone, as the programs do.

**Snowflake.** A mask `2^k - 1` applied with `&` is a remainder and fields joined with `|` are a sum, because
the fields have disjoint bits: `Pack` is arithmetic, and the widths (12, 5, 5 and 41 bits) are the constants
`SeqSize`, `NumSize`, `TimeSize`. The clock may be set back. The readings of the spinning loop that do not end
it change nothing and are left out. Definitions `SeqUnmasked`, `TilSameMillis`, `KeepLock`, `PackSeqHigh` are
mutants, as are all definitions in any module whose comment begins with "Mutant": deliberately wrong versions
of the definition that follows them. No specification uses them; they show that the property they are paired
with can fail.

**RedisLock.** The identifier is a fresh random UUID per call. The client's name stands for it, which is sound
because a client without an identifier never compares it with the key, and one with an identifier has set the
key to it in the same call. Whoever gets no lock within the timeout goes on into `main`'s work without one, as
the code does: `Critical` is the part of the work that is done under an identifier. A Redis server that loses
its data or fails over is not modelled.

**InstanceTypeMatrix.** A table is identified by the version of the file it was parsed from. `data` and
`updated_datetime` are neither volatile nor read under the lock: `Read` may return any value the field has had
that is not older than one this caller has seen, and a caller may act on an old date (`Enter`).
`lastModified()` has a resolution, so that two writes may share a modification time. The writer,
`transHTMLtoXML`, empties the file when it opens it and writes afterwards (`Truncate`, then `Complete` or, if
it dies or throws, `WriteFails`): `state` says whether the file is `whole`, being written (`open`) or left
unfinished (`torn`). Such a file does not parse, so that `initData` throws and nothing is published or
remembered. A parse is one step (`Parse`): `initData` reads the file in chunks, and a mixture of two versions that
happens to parse is not in the model.

**BlogCache.** `CacheConfiguration` is scanned before `MybatisTest2Configuration` and both advisors have the
lowest precedence, so the cache advice is the outer one: a method commits, or rolls back, before its puts and
evictions, and an exception leaves the caches alone. `create` puts under `#result.blogId`, which is a `String`
in `BlogDto`, while `list(Long)` looks under a `Long`; nobody can find that entry, and the model does not keep
it. Orika maps `null` to `null`, and the null is cached: `None` is a value of an entry, `Absent` is no entry.
A page of the list is outdated only if the whole list is; the model keeps the whole list under every key.

**KafkaOffsets.** The five programs share topic and group id, so any mix of them can form a group. The client
library is 1.1.1: positions are read again after every rebalance, after `onPartitionsAssigned`; an exception
of the listener is logged; a commit waits for the asynchronous ones before it; the coordinator accepts a
commit from any member of the current generation for any partition. A rebalance is one step in which some of
the consumers that are in `poll` get the next generation. The variable `i` of the offset programs is never
incremented, so `i % 10 == 0` holds for every record and each is followed by a commit. Commits that a
rebalance in progress refuses are the ones of older generations.

**KafkaTransaction.** All copies of the program use the one transactional id `my-transaction-id`, so
`InitTransactions` of one fences the others. The group is left open: `Assigned` gives a program any partitions
at any poll, which covers every rebalance. `commitTransaction` answers when the coordinator has decided; the
offsets and replies become visible later (`Complete`). A consumer of version 1.1.1 asks for committed offsets
without waiting for that, so that after a rebalance at this moment it starts at the old offset, and the batch
is answered a second time. The history variable `hasty` records this; `RepliesOnce` is stated of every
behaviour up to it, and without the exception TLC finds the double answer. Replies are only counted up to two.
A program can lose an answer in two ways. `abortTransaction` is followed by the next poll without a seek: the
records of the batch are `passedOver`. And the Future of `send` is dropped (line 77): in the client 1.1.1 a
`send` that gets no metadata or no buffer in time, that may not write to the topic or whose record is too large
fails only in that Future and leaves the transaction as it is. The program notes the offset all the same, and
offsets and transaction are committed without that reply (`SendRefused`): the record is `unsent`, and `missed`
once the transaction is completed. It is different when `send` took a reply that could not be delivered
afterwards: then the next transactional call throws, and nobody catches it (`SendFails`). `LossExplained`
says that nothing else is lost: a record below a committed offset has its reply, or is `passedOver` or `missed`.

**TaskExecutor.** `ThreadPoolExecutor.execute` is modelled in its three attempts (`AddCore`, `Offer`,
`AddMax`) and the rejection (`CallerRuns`), each a step because each looks at the pool again. A capacity of
zero makes a `SynchronousQueue`, which takes a task only for a thread that waits. `getTask` decides between a
limited and an unlimited wait before it waits. Time passes only when every thread sleeps or waits (`Quiet`);
the keep-alive is not timed, its end may come at any time. The shutdown is `shutdownNow`, as the bean is
configured not to wait, and requests may still be served during it: their tasks are dropped without a word by
`CallerRunsPolicy`.

**ZkSimple.** Every call of the client library is one step at the server, and every `KeeperException` ends the
program (`Fail`), as `main` declares it. `getData` answers `null` for a node created anew, and `new
String(null)` throws before the assertion that follows it. `main` does not close its session, so that its
ephemeral nodes stay until the server expires it (`Expire`). The values written are always the same, so that
data is `null` or `set`; `TravalPath` is a constant, the path of the comment (`/zookeeper_native`) in the run
and either in the proofs. ZooKeeper's own nodes under the root never change and are left out. A call whose
connection is lost may have been carried out or not: `Die` is possible before and after every step.

## 3. Runs

| Run | Question | Result |
|---|---|---|
| `snowflake_repeats` | Which ways are there to two equal identifiers? Does every call return? | Equal generator numbers, a clock set back, or readings a whole field of milliseconds apart; none other. Every call returns; with the clock set back the lock is held until it has caught up |
| `snowflake_oracle` | Is `nextId` a source of new, growing identifiers? | Yes, if the clock is not set back and stays in its 41 bits |
| `duplicate_count` | What does the printed total say? | Never more than the repeats, and at most `Workers - 1` fewer per identifier |
| `redis_lock` | Can a lock be taken from its owner, and does it come free? | Only by its own transaction or once as old as the lease; a client that had the lock leaves none without a lease, also when EXEC was refused and `releaseLock` answers true all the same; leases end, and a lock left without one gets one from a contender |
| `redis_prompt` | Do two clients work at once? Is the key a lock with an owner? | No, if a holder is done before the lease; and then nobody takes the key from an owner that still counts on it, not even a client that releases it too late |
| `instance_types` | Is the table the file's, and loaded once? | One loader, only when due; never older; behind only after a write between parse and look, or within one millisecond; an unfinished file is neither published nor remembered |
| `blog_cache` | What makes a cache entry outdated, and for how long? | An operation still to come, a slow fill, or the null of an id created later; until it expires |
| `kafka_offsets` | Is a record committed that nobody looked at? Do committed offsets fall? Is anything left uncommitted at the end? | No, but for records that the reset to "latest" passes over; no and no for the four programs that keep no offsets |
| `kafka_transaction` | Is a record answered twice, or passed over? | Not twice, but for the rebalance described above; unanswered are only aborted batches, what the reset to "latest" passes over, and replies whose `send` failed into the dropped Future |
| `task_executor` | Do requests end, and in what time? Does the pool shrink? | Within a task's time for each task; after `get`'s limit when tasks were dropped by a shutdown; yes |
| `zk_simple` | What can make a program fail, or read something else than it wrote? | Another client's change while it runs, or what a program that ended left; for the second, only that the node was created anew. All nodes go in the end |
| `kafka_regress` | Does the fifth program keep to its comment? | No: a bigger committed offset is overwritten |

One run is expected to end in a violation. `kafka_regress`: the comment of
`SimpleConsumerCommitAsyncOffset` gives "the possibility of the bigger offset had commited" as the reason
not to retry, but `currentOffsets` is never cleared; TLC shows a consumer that reads up to offset 1,
loses the partition to another one, which commits 2, and then commits 1 again from
`onPartitionsAssigned`. A second disagreement needs no run: the generator's constructor says
of its numbers "no bigger than 2^4 = 16" and masks them with five bits, so that 17 to 31 are accepted too; `Snowflake`
models the mask.

**Bounds.** All are constants named `Max...`, in guards only. Sequence numbers of one bit overflow at the
third call of a millisecond, so that three threads reach the wait, and timestamps of one bit wrap within the
run. Three Redis clients are an owner, one who is late and one who takes over; times are the code's seconds in
`redis_prompt` (lease 5, work 3, timeout 5) and shortened in `redis_lock`, where only their order matters and
the theorem covers all others. Two writes of the file are one that is loaded and one that is missed. Two
requests are a slow one and a fast one; two writes and any number of removals allow an entry to be outdated
twice. Kafka needs two consumers (every unordered pair of programs), and three generations to lose a
partition, see it move on and get it back; two records tell an old offset from a new one. `KafkaTransaction`
has two copies, of which one fences the other, three records in batches of up to two, so that there is a batch
before and one after an abort, one restart, and two refusals, each of offsets or of a reply. Three requests and a pool of two threads, one of
them above the core size, fill the pool twice over; two tasks each are one that is waited for and one that
goes on meanwhile; `get` waits three times a task's length, enough to tell it from the one second a task may
need. Three copies of `SimpleExample` are one that runs, one that interferes twice (delete, then create again)
and one whose session is still there. Symmetry is used only in runs that check safety: invariants, and in `redis_prompt` and
`kafka_transaction` a refinement without fairness, which does not tell the symmetric copies apart.

**Deadlock.** TLC's check is on in `redis_lock`, `redis_prompt`, `instance_types` and `blog_cache`. In the
others the system may stop: the calls of `Snowflake`, the futures of `DuplicateCount`, the requests of
`TaskExecutor` and the programs of `ZkSimple` are finitely many, and the consumers and `SimpleTransaction` end
after 60 empty polls (`StopAfter`).

**Fairness.** Weak fairness of the next step of a thread, client or request that has begun (`Proceed`): the
Java scheduler runs runnable threads, and a command to a server is answered. Crashes, calls, writes, shutdowns
and retries are never fair. Weak fairness of `Tick`: time passes. Weak fairness of the expiry of cache entries
(`timeToLiveSeconds="300"`), sound because the table changes finitely often in the model. Weak fairness of
`KeepAliveEnds`: a limited wait ends; of `End` in `ZkSimple`: the server expires the session of a client it no
longer hears of, and a client whose session has expired gets an exception; of `Complete` in
`InstanceTypeMatrix`, which a failing writer disables: `KeepsUp` excuses a file that was left torn.
`AbandonedIsFreed` and `KeepsUp` are promises to somebody who keeps calling, which the properties name as
their premise: a client that reaches SETNX again and again and no longer dies between it and the end of
`acquireLock`, a thread that calls again and again. A client so slow that its timeout has always passed before
its first SETNX renews nothing. The `ReentrantLock` of the generator is not a fair one: `CallReturns` holds
because every thread makes finitely many calls.

## 4. Proofs

Checked by TLAPS for every value of the constants that the named assumptions allow.

*`SnowflakeProofs`*
- `TypeCorrect`: `Spec => []TypeOK`.
- `RepeatsExplainedHolds`: `Spec => []RepeatsExplained`. The property is not inductive: it says nothing
  of the identifiers that are about to be returned. `Inv` adds that the lock is held exactly by the thread
  between `Lock` and `Unlock`, and that, while the clock has not been set back, the pairs (timestamp,
  sequence number) of one generator are ordered: those issued or about to be issued lie at or below
  the generator's fields and differ from each other. `FieldsApart`, `WrapApart`, `PackApart` prove that
  the packed layout loses nothing within a window of `TimeSize`.
- `ImplementsOracle`: under `ProperInit`, a clock that is not set back and stays in the window, each step
  is a step of `IdOracle` or a stutter. `PackOrdered` makes the order of pairs the order of identifiers.

*`RedisLockProofs`*
- `TypeCorrect`: `Spec => []TypeOK`.
- `TakenAwayProperlyHolds`: needs that a connection past its GET that still has a clean watch sees its
  own key (`WatchInv`), and that a time to live and the age of the key add up to at least the lease
  (`LeaseInv`): a late EXPIRE by anybody only lengthens it.
- `LeavesLeaseHolds`: needs that the key has a time to live as long as it holds a client's identifier
  that `acquireLock` has returned (`LeasedInv`).
- `ExclusionHolds`: `MaxHold < Lease /\ PromptSpec => []Exclusion`. `OwnInv` says that a client inside the
  critical section owns the key; it is `PromptTick` that keeps the key from expiring under it.
- `LockSpecHolds`: `MaxHold < Lease /\ PromptSpec => LockSpec`. The owner is the key's value, inside are the clients
  from SETNX to `releaseLock`; with `Inv` and `OwnInv` SETNX is `Enter`, the end of the work or a crash in it is
  `Leave`, EXEC and the end of a lease are `ComeFree` (`WatchInv`, `LeaseInv`), and all else is a stutter.

*`InstanceTypeMatrixProofs`*
- `TypeCorrect`: `Spec => []TypeOK`.
- `LoaderIsDueHolds`, `StaleExplainedHolds`, `NeverOlderHolds`: all from one `Inv`. `OneLoader` says that
  the thread between `tryLock` and `unlock` is the lock's owner, without which two of them could publish in
  turn; `ParsedFile` says what a loader carries between its steps: the file's version unless the file has
  been written since (`lost`), not older than the table it replaces, and after `Publish` the table itself;
  `NothingAhead` says that no modification time is remembered before it is reached, so that a write that
  advances the time is always noticed. `MoveStep` deals with the eleven actions that only move a thread on.

  A writer only changes what `Truncate` and `Complete` make of the file; `ParsedFile` needs that a torn file is never parsed.

*`KafkaTransactionProofs`*
- `TypeCorrect`: `Spec => []TypeOK`.
- `LossExplainedHolds`: from `LossInv`. `Windows` says that the batch lies between `next` and `position`;
  `ReadCovered` and `OfferCovered` extend the property to offsets that are not committed yet: every record below
  the `next` of a program that is not fenced, or below an offset in a transaction, has a reply, was passed over or missed, or is
  `InHand`: its reply, or the lack of one, becomes final with that transaction.
- `ImplementsExactlyOnce`: `Spec => RepliesOnce`. `OnceInv` adds that at most one program may write
  under the transactional id (`OneProducer`) and, until `hasty`, that what an open transaction holds lies between
  the committed offset and the one it offers (`Extents`), so that its completion answers only records that are
  not yet dealt with.

*`ZkSimpleProofs`*
- `TypeCorrect`: `Spec => []TypeOK`, which includes that every node belongs to a session that is alive and that the
  two paths of the transaction have one owner.
- `ReadsBackHolds`: by induction with the types, from the steps that change the node or its history.
- `FailureExplainedHolds`: `Begins` and `Expected` say what a program that nobody has interfered with knows of the
  server at each label: which nodes are there, with which version and data. So whatever its next call needs is there.

*`SnowflakeProofs`, about `DuplicateCount`*, for a finite set of futures and at least one worker
- `NeverOverCountsHolds`: `Counts` says that an identifier with a count is among the answers looked up, so that
  counting one adds a future and no answer.
- `MissesBoundedHolds`: every future looked up was counted or missed. `Missed` gives each miss a place in
  answers X `1..Workers`: as long as an identifier has no count, all that missed it are still between
  `computeIfPresent` and `putIfAbsent`, and one that looks now is at work too, so that a place is free (`MissLeft`).

*`BlogCacheProofs`*
- `TypeCorrect`: `Spec => []TypeOK`.
- `BlogStaleExplainedHolds`, `ListStaleExplainedHolds`: both properties are inductive together with the types and
  `Unused`, that identifiers still to be given out have no row. Without it a row could appear under an old entry.

*`KafkaOffsetsProofs`*
- `TypeCorrect` and `NothingSkippedHolds`: from `CoverInv`. A committed offset was sent, one that is sent was noted or
  is the position, so that all of them (`NextCovered`, `NotedCovered`, `SentCovered`) have to be covered by records
  that were looked at or passed over. For the programs that commit their position this needs `Over`: when a consumer
  polls again, or ends, its batch is over. It is left out for the one case in which the code leaves its loop early, an
  offset program whose commit was refused.
- `OffsetsGrowHolds`, `EndsCommittedHolds`: from `Inv`, which adds `OrderInv` for groups without the fifth program
  (`Forgetful`). `Exclusive` says that in one generation a partition is committed by one consumer only; `Sorted`,
  `SentAhead` and `NextAhead` order its commits on their way between what is committed and what it reads next;
  `Joining` says that a consumer which still waits for its positions has none on their way in this generation. With
  `Settled` nothing is left over after a synchronous commit.

*`TaskExecutorProofs`*
- `TypeCorrect`: from `PoolInv`, which says where a task is: in the queue once (`Queued`, `Distinct`, `InQueue`), with
  one thread (`WithThread`, `Runs`), with its own request (`WithCaller`), not yet submitted (`Submits`), or over.
- `GetsInTimeHolds`, `AnswersInTimeHolds`: for `QueueCapacity = 0`, the value of `TaskExecutorConfig`: with a
  capacity a task may lie in the queue while no thread is free (the mutant `Unlimited` shows what comes of it). `Ready` says that there are at least as many waiting threads as tasks in the queue, which
  survives the end of a keep-alive only because that thread was one too many. So when time passes no task is in the
  queue and all that run sleep (`QuietTasks`), and every second takes one from the task that is waited for
  (`WaitsInTime`) and brings none of them past its due time (`RunsInTime`): task `i` of a request is over after
  `i * Duration`. `TimelessNext` shows that all other steps do to a request what these two need.
- Both need the threads to be finitely many, and the names of a thread's states not to be tasks
  (`ThreadsAssumption`).

What stays with TLC: everything about liveness, which includes `CallReturns`, `LeaseEnds`, `AbandonedIsFreed`, `KeepsUp`,
`InTheEndFresh`, `PoolShrinks` and `InTheEndGone`: no liveness under fairness is within reach of the prover. Every safety
property that a passing run checks is proved.

## 5. Not modelled

`PROJECT.json`, "components", lists each part with its reason.

- The listeners of `spring-boot-spring-kafka-demo`: with the configuration that is shipped only a batch
  listener runs that acknowledges by itself, the same program as `sync` of `KafkaOffsets`.
- `StreamsWordCount`, the recipes of `zookeeper-curator-demo`: the behaviour is the library's, the demo starts it
  and logs.
- `spring-boot-shiro-jwt-demo`: authentication is left aside.
- `jpos-demo`, `license-tools-demo`, the geoip service, parsers, listeners, scheduler and quartz demos: no state that lasts from one call to the
  next.
- Nineteen copies of jQuery 3.3.1, which are nearly all the JavaScript of the repository, are
  third-party; the three functions of the MongoDB demo answer random numbers whatever they are given.
- Programs that make one pass through a library's API, configuration and generated mapper classes have no state of
  their own that could be wrong.

Left out of programs that are modelled otherwise:

- `InstanceTypeMatrix`: that `initData` reads the file in chunks while the writer goes on.
- `KafkaOffsets`: exceptions of `commitSync` other than `CommitFailedException`, which nobody catches and which end
  the program with the last offsets uncommitted, and an automatic commit at `close` that fails. `EndsCommitted` says
  nothing of these two.
- `BlogCache`: a crash between a commit and its puts and evictions. The cache is persistent, so that an entry
  outdated by it would be served after the restart until it expires; `BlogStaleExplained` and `ListStaleExplained`
  say nothing of that case.
- `ZkSimple`: what other clients change meanwhile is in the model, but `FailureExplained` excuses a failure that
  follows from it; it does not say that the program copes.

The services (Redis, Kafka, ZooKeeper, the database) are modelled as far as the programs use them, and are marked
external.

## 6. Plan

Written, in this order: `IdOracle`, `Snowflake`, `SnowflakeProofs`, `DuplicateCount`, `RedisLock`,
`RedisLockProofs`, `InstanceTypeMatrix`, `InstanceTypeMatrixProofs`, `BlogCache`, `KafkaOffsets`, `ExactlyOnce`,
`KafkaTransaction`, `MCKafkaTransaction`, `KafkaTransactionProofs`, `TaskExecutor`, `ZkSimple`, `ZkSimpleProofs`, `BlogCacheProofs`,
`KafkaOffsetsProofs`, `TaskExecutorProofs`, `OwnedLock`.

Every part of the plan is written.
