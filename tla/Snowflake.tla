----------------------------- MODULE Snowflake ------------------------------
(***************************************************************************)
(* SnowflakeIdGenerator.java: 64-bit identifiers packed from a 41-bit      *)
(* millisecond timestamp, a data center number, a machine number and a     *)
(* sequence number within the millisecond.  Threads call nextId() of       *)
(* generators that live in one JVM and share one static ReentrantLock; the *)
(* clock is the operating system's and may be set back.                    *)
(*                                                                         *)
(* A mask 2^k - 1 applied with & is a remainder modulo 2^k, and the fields *)
(* joined with | have disjoint bits, so that the packed identifier is a    *)
(* sum.  The widths are parameters: 2^12 is SeqSize, 2^5 is NumSize, 2^41  *)
(* is TimeSize.                                                            *)
(***************************************************************************)
EXTENDS Integers, FiniteSets

CONSTANTS Threads,      \* threads that call nextId()
          Gens,         \* generators of the JVM
          Candidates,   \* numbers given to the constructor
          NumSize,      \* SEQUENCE_MASK + 1 ...
          SeqSize,
          TimeSize,
          Start,        \* START_TIME_IN_MS
          BootClock,    \* readings the clock may show when the JVM starts
          NoThread,     \* nobody holds the lock
          NoGen,        \* the thread is between two calls
          MaxCalls,     \* bound: calls a thread makes
          MaxLead,      \* bound: how far the clock runs ahead of the readings in use
          MaxSetBacks   \* bound: how often the clock is set back

ASSUME SizesAssumption ==
  /\ NumSize \in Nat \ {0}
  /\ SeqSize \in Nat \ {0}
  /\ TimeSize \in Nat \ {0}
ASSUME ClockAssumption ==
  /\ Start \in Nat
  /\ BootClock \subseteq Nat
ASSUME BoundsAssumption ==
  /\ Candidates \subseteq Int
  /\ MaxCalls \in Nat
  /\ MaxLead \in Nat
  /\ MaxSetBacks \in Nat
ASSUME NamesAssumption ==
  /\ NoThread \notin Threads
  /\ NoGen \notin Gens

VARIABLES now,            \* System.currentTimeMillis()
          setBacks,       \* how often the clock was set back so far
          owner,          \* holder of reentrantLock, or NoThread
          worker,         \* dataCenterId and machineId of each generator
          lastSeqNum, lastTimestamp,
          pc,             \* where each thread is in nextId()
          gen,            \* the generator whose nextId() it runs
          thisTimestamp, thisSeqNum,
          calls,          \* calls each thread began
          issued,         \* history: the identifiers returned
          seen            \* history: those returned when t's open call began

shared == <<owner, lastSeqNum, lastTimestamp>>
locals == <<gen, thisTimestamp, thisSeqNum>>
history == <<calls, issued, seen>>
vars == <<now, setBacks, worker, pc, shared, locals, history>>

Masked(n, size) == n % size

\* The constructor throws for a number that its mask would change.
Accepted(n) == n = Masked(n, NumSize)

Init == /\ now \in BootClock
        /\ setBacks = 0
        /\ owner = NoThread
        /\ worker \in [Gens -> [dc : {n \in Candidates : Accepted(n)},
                                machine : {n \in Candidates : Accepted(n)}]]
        /\ lastSeqNum = [g \in Gens |-> 0]
        /\ lastTimestamp = [g \in Gens |-> -1]
        /\ pc = [t \in Threads |-> "idle"]
        /\ gen = [t \in Threads |-> NoGen]
        /\ thisTimestamp = [t \in Threads |-> -1]
        /\ thisSeqNum = [t \in Threads |-> 0]
        /\ calls = [t \in Threads |-> 0]
        /\ issued = {}
        /\ seen = [t \in Threads |-> {}]
-----------------------------------------------------------------------------
Goto(t, from, to) == pc[t] = from /\ pc' = [pc EXCEPT ![t] = to]

Begin(t, g) == /\ Goto(t, "idle", "lock")
               /\ calls[t] < MaxCalls
               /\ calls' = [calls EXCEPT ![t] = @ + 1]
               /\ gen' = [gen EXCEPT ![t] = g]
               /\ seen' = [seen EXCEPT ![t] = issued]
               /\ UNCHANGED <<now, setBacks, worker, shared, thisTimestamp,
                              thisSeqNum, issued>>

Lock(t) == /\ Goto(t, "lock", "stamp")
           /\ owner = NoThread
           /\ owner' = t
           /\ UNCHANGED <<now, setBacks, worker, lastSeqNum, lastTimestamp,
                          locals, history>>

\* Mutant: the mask of the sequence number is forgotten.
SeqUnmasked(g) == lastSeqNum[g] + 1

\* The sequence number after the last one of this millisecond: 0 is overflow.
NextSeq(g) == Masked(lastSeqNum[g] + 1, SeqSize)

\* timeGen(), and the sequence number that belongs to the reading.
Stamp(t) ==
  LET same == lastTimestamp[gen[t]] = now
      seq == IF same THEN NextSeq(gen[t]) ELSE 0
  IN /\ Goto(t, "stamp", IF same /\ seq = 0 THEN "spin" ELSE "store")
     /\ thisTimestamp' = [thisTimestamp EXCEPT ![t] = now]
     /\ thisSeqNum' = [thisSeqNum EXCEPT ![t] = seq]
     /\ UNCHANGED <<now, setBacks, worker, shared, gen, history>>

\* Mutant: tilNextMillis loops while the reading is smaller, not while it is
\* smaller or equal.
TilSameMillis(t) == /\ Goto(t, "spin", "store")
                    /\ now >= thisTimestamp[t]
                    /\ thisTimestamp' = [thisTimestamp EXCEPT ![t] = now]
                    /\ UNCHANGED <<now, setBacks, worker, shared, gen,
                                   thisSeqNum, history>>

\* tilNextMillis(): the reading that ends the loop.  The readings before it
\* change nothing.
TilNextMillis(t) == /\ Goto(t, "spin", "store")
                    /\ now > thisTimestamp[t]
                    /\ thisTimestamp' = [thisTimestamp EXCEPT ![t] = now]
                    /\ UNCHANGED <<now, setBacks, worker, shared, gen,
                                   thisSeqNum, history>>

Store(t) == /\ Goto(t, "store", "unlock")
            /\ lastSeqNum' = [lastSeqNum EXCEPT ![gen[t]] = thisSeqNum[t]]
            /\ lastTimestamp' = [lastTimestamp EXCEPT ![gen[t]] = thisTimestamp[t]]
            /\ UNCHANGED <<now, setBacks, worker, owner, locals, history>>

\* Mutant: a path out of nextId() that forgets the unlock.
KeepLock(t) == /\ Goto(t, "unlock", "pack")
               /\ UNCHANGED <<now, setBacks, worker, shared, locals, history>>

Unlock(t) == /\ Goto(t, "unlock", "pack")
             /\ owner' = NoThread
             /\ UNCHANGED <<now, setBacks, worker, lastSeqNum, lastTimestamp,
                            locals, history>>

\* The fields of an identifier, and where they lie in it.
Field(ts) == Masked(ts - Start, TimeSize)
\* Mutant: the sequence number is shifted above the timestamp.
PackSeqHigh(ts, w, seq) ==
  ((seq * TimeSize + Field(ts)) * NumSize + w.dc) * NumSize + w.machine

Pack(ts, w, seq) ==
  ((Field(ts) * NumSize + w.dc) * NumSize + w.machine) * SeqSize + seq

\* The return statement runs after the unlock, on local values.
Return(t) == /\ Goto(t, "pack", "idle")
             /\ issued' = issued \cup
                  {[call |-> <<t, calls[t]>>, gen |-> gen[t],
                    ts |-> thisTimestamp[t], seq |-> thisSeqNum[t],
                    id |-> Pack(thisTimestamp[t], worker[gen[t]], thisSeqNum[t])]}
             /\ gen' = [gen EXCEPT ![t] = NoGen]
             /\ seen' = [seen EXCEPT ![t] = {}]
             /\ UNCHANGED <<now, setBacks, worker, shared, thisTimestamp,
                            thisSeqNum, calls>>
-----------------------------------------------------------------------------
\* A reading some generator or some open call still depends on: what the clock
\* does further ahead of all of them than MaxLead is not distinguished.
Readings == {lastTimestamp[g] : g \in Gens}
            \cup {thisTimestamp[t] : t \in {u \in Threads : pc[u] # "idle"}}

Tick == /\ \E r \in Readings : now < r + MaxLead
        /\ now' = now + 1
        /\ UNCHANGED <<setBacks, worker, pc, shared, locals, history>>

SetBack == /\ setBacks < MaxSetBacks
           /\ \E n \in 0..(now - 1) : now' = n
           /\ setBacks' = setBacks + 1
           /\ UNCHANGED <<worker, pc, shared, locals, history>>

Proceed(t) == \/ Lock(t)
              \/ Stamp(t)
              \/ TilNextMillis(t)
              \/ Store(t)
              \/ Unlock(t)
              \/ Return(t)

Next == \/ \E t \in Threads : Proceed(t) \/ \E g \in Gens : Begin(t, g)
        \/ Tick
        \/ SetBack

Spec == Init /\ [][Next]_vars

\* Java runs a thread that can run, and time passes.  The lock is not fair,
\* but every thread makes finitely many calls.
Fairness == WF_vars(Tick) /\ \A t \in Threads : WF_vars(Proceed(t))
-----------------------------------------------------------------------------
\* Every variable stays in its range: fields never outgrow their bits.
TypeOK == /\ now \in Nat
          /\ setBacks \in Nat
          /\ owner \in Threads \cup {NoThread}
          /\ worker \in [Gens -> [dc : 0..(NumSize - 1), machine : 0..(NumSize - 1)]]
          /\ lastSeqNum \in [Gens -> 0..(SeqSize - 1)]
          /\ lastTimestamp \in [Gens -> Nat \cup {-1}]
          /\ pc \in [Threads -> {"idle", "lock", "stamp", "spin", "store",
                                 "unlock", "pack"}]
          /\ gen \in [Threads -> Gens \cup {NoGen}]
          /\ thisTimestamp \in [Threads -> Nat \cup {-1}]
          /\ thisSeqNum \in [Threads -> 0..(SeqSize - 1)]
          /\ calls \in [Threads -> Nat]
          /\ issued \subseteq [call : Threads \X Nat, gen : Gens,
                               ts : Nat \cup {-1}, seq : 0..(SeqSize - 1),
                               id : 0..(TimeSize * NumSize * NumSize * SeqSize - 1)]
          /\ seen \in [Threads -> SUBSET issued]
          /\ \A t \in Threads : pc[t] # "idle" => gen[t] \in Gens
-----------------------------------------------------------------------------
\* Less than the 2^41 ms after which the timestamp field starts again.
SameWindow(a, b) == a.ts - b.ts < TimeSize /\ b.ts - a.ts < TimeSize

\* nextId() answers two calls with one identifier only if the generators were
\* built with the same numbers, and one generator does so only if the clock was
\* set back or the timestamp field wrapped: the wait in tilNextMillis, the lock
\* and the packed layout leave no other way.
RepeatsExplained ==
  \A a, b \in issued : a.call # b.call /\ a.id = b.id =>
    /\ worker[a.gen] = worker[b.gen]
    /\ a.gen = b.gen => setBacks > 0 \/ ~SameWindow(a, b)

\* A call that began returns: the loop that waits for the next millisecond runs
\* with the lock held, and every other caller of every generator waits for it.
CallReturns == \A t \in Threads : pc[t] = "lock" ~> pc[t] = "idle"

\* Data center and machine are configured once per generator.
ProperWorkers == \A g, h \in Gens : worker[g] = worker[h] => g = h
ProperInit == Init /\ ProperWorkers
ProperSpec == ProperInit /\ [][Next]_vars

\* The clock shows the 2^41 ms that the timestamp field can tell apart.
ClockInWindow == now >= Start /\ now < Start + TimeSize

Project(answers) == {[gen |-> a.gen, id |-> a.id] : a \in answers}

Oracle == INSTANCE IdOracle WITH
            Ids <- 0..(TimeSize * NumSize * NumSize * SeqSize - 1),
            answers <- Project(issued),
            begun <- gen,
            known <- [t \in Threads |-> Project(seen[t])]

\* nextId() is a source of fresh identifiers that grow from call to call.
OracleSpec == Oracle!Spec
=============================================================================
