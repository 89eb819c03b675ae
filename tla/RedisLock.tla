----------------------------- MODULE RedisLock ------------------------------
(***************************************************************************)
(* RedisLock.java: a lock kept as one Redis key.  Clients set the key with *)
(* SETNX, give it a time to live with a separate EXPIRE, and delete it in  *)
(* a transaction guarded by WATCH.  Every Jedis call is one atomic step of *)
(* the server; clients run between each other's calls, pause, and die.     *)
(*                                                                         *)
(* acquireLock draws a new random identifier per call.  The client's name  *)
(* stands for it: a client that holds no identifier never looks for one in *)
(* the key, and one that does has set it there since it last looked.       *)
(***************************************************************************)
EXTENDS Integers

CONSTANTS Clients,
          NoKey,      \* the key does not exist
          Lease,      \* seconds given to EXPIRE (5)
          Timeout,    \* acquireTimeoutInMillisecond (5000)
          Work,       \* the time main sleeps (3000)
          MaxHold     \* of PromptSpec: a holder is done this long after SETNX

ASSUME TimesAssumption == /\ Lease \in Nat \ {0}
                          /\ Timeout \in Nat
                          /\ Work \in Nat
                          /\ MaxHold \in Nat
ASSUME NoKeyAssumption == NoKey \notin Clients

VARIABLES value,      \* the identifier in the key, or NoKey
          ttl,        \* seconds the key has to live, NoTtl for ever
          pc,         \* where each client is in main
          left,       \* time to the client's deadline, or to the end of its sleep
          holds,      \* lockId is not null
          dirty,      \* the key the connection watches was modified
          keyAge      \* history: the age of the key, up to Lease

vars == <<value, ttl, pc, left, holds, dirty, keyAge>>

\* What the TTL command answers for a key that never expires.  It answers -2 if
\* there is no key; acquireLock tells neither from the other.
NoTtl == -1

Init == /\ value = NoKey
        /\ ttl = NoTtl
        /\ pc = [c \in Clients |-> "idle"]
        /\ left = [c \in Clients |-> 0]
        /\ holds = [c \in Clients |-> FALSE]
        /\ dirty = [c \in Clients |-> FALSE]
        /\ keyAge = 0

Goto(c, from, to) == pc[c] = from /\ pc' = [pc EXCEPT ![c] = to]

\* The server marks every connection that watches the key when it is modified.
Watching(c) == pc[c] \in {"get", "exec", "unwatch"}
Touch == dirty' = [c \in Clients |-> dirty[c] \/ Watching(c)]

\* DEL, or the end of the key's time to live.
Remove == value' = NoKey /\ ttl' = NoTtl /\ keyAge' = 0

\* Mutant: a time to live is recorded although there is no key.
SetTtlBlindly == ttl' = Lease /\ Touch

\* EXPIRE: does nothing if there is no key, and asks nobody whose key it is.
SetTtl == IF value = NoKey
          THEN UNCHANGED <<ttl, dirty>>
          ELSE ttl' = Lease /\ Touch
-----------------------------------------------------------------------------
\* acquireLock is called: the deadline is set.
Acquire(c) == /\ Goto(c, "idle", "check")
              /\ left' = [left EXCEPT ![c] = Timeout]
              /\ UNCHANGED <<value, ttl, holds, dirty, keyAge>>

\* while (System.currentTimeMillis() < end)
InTime(c) == /\ Goto(c, "check", "setnx")
             /\ left[c] > 0
             /\ UNCHANGED <<value, ttl, left, holds, dirty, keyAge>>

\* acquireLock returns null, and main does its work all the same.
GiveUp(c) == /\ Goto(c, "check", "work")
             /\ left[c] = 0
             /\ left' = [left EXCEPT ![c] = Work]
             /\ UNCHANGED <<value, ttl, holds, dirty, keyAge>>

\* Mutant: SET instead of SETNX.
SetAlways(c) == /\ Goto(c, "setnx", "expire")
                /\ value' = c
                /\ ttl' = NoTtl
                /\ keyAge' = 0
                /\ Touch
                /\ UNCHANGED <<left, holds>>

SetNxWins(c) == /\ Goto(c, "setnx", "expire")
                /\ value = NoKey
                /\ value' = c
                /\ ttl' = NoTtl
                /\ keyAge' = 0
                /\ Touch
                /\ UNCHANGED <<left, holds>>

SetNxFails(c) == /\ Goto(c, "setnx", "ttl")
                 /\ value # NoKey
                 /\ UNCHANGED <<value, ttl, left, holds, dirty, keyAge>>

\* Mutant: every contender renews the time to live.
TtlIgnored(c) == /\ Goto(c, "ttl", "extend")
                 /\ UNCHANGED <<value, ttl, left, holds, dirty, keyAge>>

\* jedis.ttl(lockName) < 0
Ttl(c) == /\ Goto(c, "ttl", IF ttl < 0 THEN "extend" ELSE "check")
          /\ UNCHANGED <<value, ttl, left, holds, dirty, keyAge>>

\* Mutant: acquireLock without the else-if branch.
NoExtend(c) == /\ Goto(c, "extend", "check")
               /\ UNCHANGED <<value, ttl, left, holds, dirty, keyAge>>

\* The contender gives a time to live to a key it saw without one.
Extend(c) == /\ Goto(c, "extend", "check")
             /\ SetTtl
             /\ UNCHANGED <<value, left, holds, keyAge>>

\* Mutant: acquireLock returns the identifier without EXPIRE.
NoOwnExpire(c) == /\ Goto(c, "expire", "work")
                  /\ left' = [left EXCEPT ![c] = Work]
                  /\ holds' = [holds EXCEPT ![c] = TRUE]
                  /\ UNCHANGED <<value, ttl, dirty, keyAge>>

\* The new holder's own EXPIRE; acquireLock returns the identifier.
Expire(c) == /\ Goto(c, "expire", "work")
             /\ SetTtl
             /\ left' = [left EXCEPT ![c] = Work]
             /\ holds' = [holds EXCEPT ![c] = TRUE]
             /\ UNCHANGED <<value, keyAge>>

\* The sleep ends and the finally block calls releaseLock, which returns at
\* once without an identifier.
Finish(c) == /\ Goto(c, "work", IF holds[c] THEN "watch" ELSE "idle")
             /\ left[c] = 0
             /\ UNCHANGED <<value, ttl, left, holds, dirty, keyAge>>

Watch(c) == /\ Goto(c, "watch", "get")
            /\ UNCHANGED <<value, ttl, left, holds, dirty, keyAge>>

\* Mutant: releaseLock deletes the key without looking whose it is.
GetIgnored(c) == /\ Goto(c, "get", "exec")
                 /\ UNCHANGED <<value, ttl, left, holds, dirty, keyAge>>

\* identifier.equals(jedis.get(lockName))
Get(c) == /\ Goto(c, "get", IF value = c THEN "exec" ELSE "unwatch")
          /\ UNCHANGED <<value, ttl, left, holds, dirty, keyAge>>

\* releaseLock returns: the client stops watching and forgets its identifier.
Return(c) == holds' = [holds EXCEPT ![c] = FALSE]
Forget(c) == dirty' = [dirty EXCEPT ![c] = FALSE]

\* The transaction takes effect: the others that watch the key notice.
Delete(c) == /\ Remove
             /\ dirty' = [d \in Clients |-> d # c /\ (dirty[d] \/ Watching(d))]

\* MULTI, DEL and EXEC: the server deletes the key unless it was modified since
\* WATCH.  The result of EXEC is not looked at.
Exec(c) == /\ Goto(c, "exec", "idle")
           /\ IF dirty[c]
              THEN UNCHANGED <<value, ttl, keyAge>> /\ Forget(c)
              ELSE Delete(c)
           /\ Return(c)
           /\ UNCHANGED left

Unwatch(c) == /\ Goto(c, "unwatch", "idle")
              /\ Return(c)
              /\ Forget(c)
              /\ UNCHANGED <<value, ttl, left, keyAge>>
-----------------------------------------------------------------------------
\* A connection lost while releasing, before or after the server ran the
\* transaction: the exception is caught and the loop starts again.
Retry(c) == /\ Watching(c)
            /\ pc' = [pc EXCEPT ![c] = "watch"]
            /\ \/ UNCHANGED <<value, ttl, keyAge>> /\ Forget(c)
               \/ pc[c] = "exec" /\ ~dirty[c] /\ Delete(c)
            /\ UNCHANGED <<left, holds>>

\* The process dies, or a call of acquireLock throws: main's finally block then
\* has no identifier to release.  The program may be started again.
Crash(c) == /\ pc[c] # "idle"
            /\ pc' = [pc EXCEPT ![c] = "idle"]
            /\ left' = [left EXCEPT ![c] = 0]
            /\ Return(c)
            /\ Forget(c)
            /\ UNCHANGED <<value, ttl, keyAge>>

Lapses == value # NoKey /\ ttl = 1

\* A second passes for everybody.
Tick == /\ left' = [c \in Clients |-> IF left[c] = 0 THEN 0 ELSE left[c] - 1]
        /\ IF Lapses
           THEN Remove /\ Touch
           ELSE /\ ttl' = IF ttl = NoTtl THEN NoTtl ELSE ttl - 1
                /\ keyAge' = IF value = NoKey \/ keyAge = Lease
                             THEN keyAge ELSE keyAge + 1
                /\ UNCHANGED <<value, dirty>>
        /\ UNCHANGED <<pc, holds>>

Proceed(c) == \/ InTime(c) \/ GiveUp(c)
              \/ SetNxWins(c) \/ SetNxFails(c)
              \/ Ttl(c) \/ Extend(c) \/ Expire(c)
              \/ Finish(c)
              \/ Watch(c) \/ Get(c) \/ Exec(c) \/ Unwatch(c)

ClientStep == \E c \in Clients : \/ Acquire(c)
                                 \/ Proceed(c)
                                 \/ Retry(c)
                                 \/ Crash(c)

Next == ClientStep \/ Tick

Spec == Init /\ [][Next]_vars

\* Time passes, and a process that is not dead goes on.
FairSpec == Spec /\ WF_vars(Tick) /\ \A c \in Clients : WF_vars(Proceed(c))
-----------------------------------------------------------------------------
\* Between its SETNX and its call of releaseLock a client takes the lock for its.
Critical(c) == pc[c] = "expire" \/ (pc[c] = "work" /\ holds[c])

\* Clients that are not paused: no time passes for a holder beyond MaxHold.
PromptTick == /\ \A c \in Clients : Critical(c) /\ value = c => keyAge < MaxHold
              /\ Tick

PromptSpec == Init /\ [][ClientStep \/ PromptTick]_vars
-----------------------------------------------------------------------------
TypeOK == /\ value \in Clients \cup {NoKey}
          /\ ttl \in (1..Lease) \cup {NoTtl}
          /\ pc \in [Clients -> {"idle", "check", "setnx", "ttl", "extend", "expire",
                                 "work", "watch", "get", "exec", "unwatch"}]
          /\ left \in [Clients -> Nat]
          /\ holds \in [Clients -> BOOLEAN]
          /\ dirty \in [Clients -> BOOLEAN]
          /\ keyAge \in 0..Lease
          /\ value = NoKey => ttl = NoTtl /\ keyAge = 0

\* Whatever pauses, crashes and lost connections there are, a lock is only taken
\* away by its owner's own release or when it is at least Lease seconds old, and
\* it is never handed over without having been free.
TakenAwayProperly ==
  [][value # NoKey /\ value' # value =>
       /\ value' = NoKey
       /\ \/ pc[value] = "exec" /\ pc'[value] # "exec"
          \/ keyAge >= Lease - 1]_vars

\* releaseLock answers true also when EXEC did nothing, because a contender's late
\* EXPIRE modified the key that was still its own.  However a client loses its
\* identifier, by that, by its death or by a lost connection, the lock it leaves
\* behind has a time to live.
LeavesLease ==
  [][\A c \in Clients : holds[c] /\ ~holds'[c] /\ value' = c => ttl' # NoTtl]_vars

\* Two clients that are never paused for long do not work under the lock at once,
\* although the lease starts with a command of its own and others may start it.
Exclusion == \A c, d \in Clients : Critical(c) /\ Critical(d) => c = d

\* What the clients see of the key is then a lock with an owner: nobody is given a
\* lock that is not free, and neither a late release, a late EXPIRE nor a lease
\* takes it from an owner that still counts on it.
Lock == INSTANCE OwnedLock WITH owner <- value, inside <- {c \in Clients : Critical(c)},
                                Nobody <- NoKey
LockSpec == Lock!Spec

\* Once the lock has a time to live it comes free, whatever contenders do to it:
\* a contender's late EXPIRE may renew the lease, not for ever.
LeaseEnds == \A c \in Clients : (value = c /\ ttl # NoTtl) ~> value # c

\* A lock whose holder died between SETNX and EXPIRE has no time to live.  It does
\* not stay so, as long as one client goes on trying SETNX, in calls of acquireLock
\* that it does not die in any more.
Abandoned(c) == value = c /\ ~Critical(c)
DiesAsking(d) == /\ pc[d] \in {"setnx", "ttl", "extend", "expire"}
                 /\ pc'[d] = "idle"
KeepsAsking(d) == <>[][~DiesAsking(d)]_vars /\ []<>(pc[d] = "setnx")
AbandonedIsFreed ==
  \A c, d \in Clients : KeepsAsking(d) => []<>~Abandoned(c)
=============================================================================
