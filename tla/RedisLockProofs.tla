--------------------------- MODULE RedisLockProofs --------------------------
(***************************************************************************)
(* Proofs about RedisLock, for every set of clients and all durations.     *)
(***************************************************************************)
EXTENDS RedisLock, TLAPS

LEMMA TypeInit == Init => TypeOK
  BY TimesAssumption DEF Init, TypeOK, NoTtl

\* The server's marks stay Boolean.
LEMMA TouchType ==
  ASSUME TypeOK, Touch
  PROVE  dirty' \in [Clients -> BOOLEAN]
<1>1. \A c \in Clients : (dirty[c] \/ Watching(c)) \in BOOLEAN
  BY Zenon
<1> QED BY <1>1, Zenon DEF Touch

LEMMA DeleteType ==
  ASSUME TypeOK, NEW c \in Clients, Delete(c)
  PROVE  dirty' \in [Clients -> BOOLEAN]
<1>1. \A d \in Clients : (d # c /\ (dirty[d] \/ Watching(d))) \in BOOLEAN
  BY Zenon
<1> QED BY <1>1, Zenon DEF Delete

LEMMA TypeStep ==
  ASSUME TypeOK, [Next]_vars
  PROVE  TypeOK'
<1> USE TimesAssumption, NoKeyAssumption DEF TypeOK, NoTtl
<1>1. CASE UNCHANGED vars
  BY <1>1 DEF vars
<1>2. ASSUME NEW c \in Clients, Acquire(c) PROVE TypeOK'
  BY <1>2 DEF Acquire, Goto
<1>3. ASSUME NEW c \in Clients, InTime(c) \/ GiveUp(c) PROVE TypeOK'
  BY <1>3 DEF InTime, GiveUp, Goto
<1>4. ASSUME NEW c \in Clients, SetNxWins(c) PROVE TypeOK'
  BY <1>4, TouchType DEF SetNxWins, Goto
<1>5. ASSUME NEW c \in Clients, SetNxFails(c) \/ Ttl(c) PROVE TypeOK'
  BY <1>5 DEF SetNxFails, Ttl, Goto
<1>6. ASSUME NEW c \in Clients, Extend(c) PROVE TypeOK'
  <2>1. dirty' \in [Clients -> BOOLEAN]
    BY <1>6, TouchType DEF Extend, SetTtl
  <2>2. \/ ttl' = ttl
        \/ value # NoKey /\ ttl' = Lease
    BY <1>6 DEF Extend, SetTtl
  <2>3. /\ pc' = [pc EXCEPT ![c] = "check"]
        /\ UNCHANGED <<value, left, holds, keyAge>>
    BY <1>6 DEF Extend, Goto
  <2> QED BY <2>1, <2>2, <2>3
<1>7. ASSUME NEW c \in Clients, Expire(c) PROVE TypeOK'
  <2>1. dirty' \in [Clients -> BOOLEAN]
    BY <1>7, TouchType DEF Expire, SetTtl
  <2>2. \/ ttl' = ttl
        \/ value # NoKey /\ ttl' = Lease
    BY <1>7 DEF Expire, SetTtl
  <2>3. /\ pc' = [pc EXCEPT ![c] = "work"]
        /\ left' = [left EXCEPT ![c] = Work]
        /\ holds' = [holds EXCEPT ![c] = TRUE]
        /\ UNCHANGED <<value, keyAge>>
    BY <1>7 DEF Expire, Goto
  <2> QED BY <2>1, <2>2, <2>3
<1>8. ASSUME NEW c \in Clients, Finish(c) \/ Watch(c) \/ Get(c) PROVE TypeOK'
  BY <1>8 DEF Finish, Watch, Get, Goto
<1>9. ASSUME NEW c \in Clients, Exec(c) PROVE TypeOK'
  <2>1. dirty' \in [Clients -> BOOLEAN]
    BY <1>9, DeleteType DEF Exec, Forget
  <2>2. /\ value' \in Clients \cup {NoKey} /\ ttl' \in (1..Lease) \cup {NoTtl}
        /\ keyAge' \in 0..Lease
        /\ value' = NoKey => ttl' = NoTtl /\ keyAge' = 0
    BY <1>9 DEF Exec, Delete, Remove
  <2> QED BY <1>9, <2>1, <2>2 DEF Exec, Return, Goto
<1>10. ASSUME NEW c \in Clients, Unwatch(c) PROVE TypeOK'
  BY <1>10 DEF Unwatch, Return, Forget, Goto
<1>11. ASSUME NEW c \in Clients, Retry(c) PROVE TypeOK'
  <2>1. dirty' \in [Clients -> BOOLEAN]
    BY <1>11, DeleteType DEF Retry, Forget
  <2>2. /\ value' \in Clients \cup {NoKey} /\ ttl' \in (1..Lease) \cup {NoTtl}
        /\ keyAge' \in 0..Lease
        /\ value' = NoKey => ttl' = NoTtl /\ keyAge' = 0
    BY <1>11 DEF Retry, Delete, Remove
  <2> QED BY <1>11, <2>1, <2>2 DEF Retry
<1>12. ASSUME NEW c \in Clients, Crash(c) PROVE TypeOK'
  BY <1>12 DEF Crash, Return, Forget
<1>13. CASE Tick
  <2>1. left' \in [Clients -> Nat]
    BY <1>13 DEF Tick
  <2>2. dirty' \in [Clients -> BOOLEAN]
    BY <1>13, TouchType DEF Tick
  <2> QED BY <1>13, <2>1, <2>2 DEF Tick, Lapses, Remove
<1> QED BY <1>1, <1>2, <1>3, <1>4, <1>5, <1>6, <1>7, <1>8, <1>9, <1>10,
        <1>11, <1>12, <1>13 DEF Next, ClientStep, Proceed

\* The lock's key, its time to live and the clients' books stay in their ranges.
THEOREM TypeCorrect == Spec => []TypeOK
  BY TypeInit, TypeStep, PTL DEF Spec
-----------------------------------------------------------------------------
\* A connection that was not told of a change still watches its own key.
WatchInv == \A c \in Clients : pc[c] = "exec" /\ ~dirty[c] => value = c

\* No lease ends before it is Lease seconds after SETNX, whoever started it.
LeaseInv == ttl # NoTtl => ttl + keyAge >= Lease

\* A client has an identifier only between the two calls.
HoldsInv == \A c \in Clients :
  holds[c] => pc[c] \in {"work", "watch", "get", "exec", "unwatch"}

\* Who has an identifier and the key has given the key its time to live.
LeasedInv == \A c \in Clients : holds[c] /\ value = c => ttl # NoTtl

Inv == TypeOK /\ WatchInv /\ LeaseInv /\ HoldsInv /\ LeasedInv

LEMMA InitInv == Init => Inv
  BY TypeInit DEF Init, Inv, WatchInv, LeaseInv, HoldsInv, LeasedInv

LEMMA WatchStep ==
  ASSUME Inv, [Next]_vars
  PROVE  WatchInv'
<1> USE DEF Inv, TypeOK, WatchInv
<1>1. CASE UNCHANGED vars
  BY <1>1 DEF vars
<1>2. ASSUME NEW c \in Clients,
             Acquire(c) \/ InTime(c) \/ GiveUp(c) \/ SetNxFails(c) \/ Ttl(c)
             \/ Finish(c) \/ Watch(c) \/ Get(c)
      PROVE  WatchInv'
  BY <1>2 DEF Acquire, InTime, GiveUp, SetNxFails, Ttl, Finish, Watch, Get, Goto
<1>3. ASSUME NEW c \in Clients, SetNxWins(c) PROVE WatchInv'
  BY <1>3 DEF SetNxWins, Goto, Touch, Watching
<1>4. ASSUME NEW c \in Clients, Extend(c) \/ Expire(c) PROVE WatchInv'
  BY <1>4 DEF Extend, Expire, Goto, SetTtl, Touch, Watching
<1>5. ASSUME NEW c \in Clients, Exec(c) PROVE WatchInv'
  BY <1>5 DEF Exec, Delete, Remove, Return, Forget, Watching, Goto
<1>6. ASSUME NEW c \in Clients, Unwatch(c) \/ Crash(c) PROVE WatchInv'
  BY <1>6 DEF Unwatch, Crash, Return, Forget, Goto
<1>7. ASSUME NEW c \in Clients, Retry(c) PROVE WatchInv'
  BY <1>7 DEF Retry, Delete, Remove, Forget, Watching
<1>8. CASE Tick
  BY <1>8 DEF Tick, Lapses, Remove, Touch, Watching
<1> QED BY <1>1, <1>2, <1>3, <1>4, <1>5, <1>6, <1>7, <1>8
    DEF Next, ClientStep, Proceed

LEMMA LeaseStep ==
  ASSUME Inv, [Next]_vars
  PROVE  LeaseInv'
<1> USE TimesAssumption DEF Inv, TypeOK, LeaseInv, NoTtl
<1>1. CASE UNCHANGED <<ttl, keyAge>>
  BY <1>1
<1>2. ASSUME NEW c \in Clients, SetNxWins(c) PROVE LeaseInv'
  BY <1>2 DEF SetNxWins
<1>3. ASSUME NEW c \in Clients, Extend(c) \/ Expire(c) PROVE LeaseInv'
  BY <1>3 DEF Extend, Expire, SetTtl
<1>4. ASSUME NEW c \in Clients, Exec(c) \/ Retry(c) PROVE LeaseInv'
  BY <1>4 DEF Exec, Retry, Delete, Remove
<1>5. CASE Tick
  BY <1>5 DEF Tick, Lapses, Remove
<1> QED BY <1>1, <1>2, <1>3, <1>4, <1>5
    DEF Next, ClientStep, Proceed, Acquire, InTime, GiveUp, SetNxFails, Ttl,
        Finish, Watch, Get, Unwatch, Crash, vars

LEMMA HoldsStep ==
  ASSUME Inv, [Next]_vars
  PROVE  HoldsInv'
  BY DEF Inv, TypeOK, HoldsInv, Next, ClientStep, Proceed, Acquire, InTime, GiveUp,
     SetNxWins, SetNxFails, Ttl, Extend, Expire, Finish, Watch, Get, Exec, Unwatch,
     Retry, Crash, Tick, Return, Watching, Goto, vars

LEMMA LeasedStep ==
  ASSUME Inv, [Next]_vars
  PROVE  LeasedInv'
<1> USE TimesAssumption, NoKeyAssumption DEF Inv, TypeOK, LeasedInv, NoTtl
<1>1. CASE UNCHANGED <<holds, value, ttl>>
  BY <1>1
<1>2. ASSUME NEW c \in Clients, SetNxWins(c) PROVE LeasedInv'
  <2>1. ~holds[c]
    BY <1>2 DEF SetNxWins, Goto, HoldsInv
  <2> QED BY <1>2, <2>1 DEF SetNxWins
<1>3. ASSUME NEW c \in Clients, Extend(c) \/ Expire(c) PROVE LeasedInv'
  BY <1>3 DEF Extend, Expire, SetTtl
<1>4. ASSUME NEW c \in Clients, Exec(c) \/ Retry(c) \/ Unwatch(c) \/ Crash(c)
      PROVE  LeasedInv'
  BY <1>4 DEF Exec, Retry, Unwatch, Crash, Delete, Remove, Return
<1>5. CASE Tick
  BY <1>5 DEF Tick, Lapses, Remove
<1> QED BY <1>1, <1>2, <1>3, <1>4, <1>5
    DEF Next, ClientStep, Proceed, Acquire, InTime, GiveUp, SetNxFails, Ttl,
        Finish, Watch, Get, vars

LEMMA InvStep ==
  ASSUME Inv, [Next]_vars
  PROVE  Inv'
  BY TypeStep, WatchStep, LeaseStep, HoldsStep, LeasedStep DEF Inv

THEOREM InvHolds == Spec => []Inv
<1>1. Inv /\ [Next]_vars => Inv'
  BY InvStep
<1> QED BY <1>1, InitInv, PTL DEF Spec

\* In every step that takes the lock away its owner releases it, or the lease it
\* was given has run out.
LEMMA TakenAwayStep ==
  ASSUME Inv, [Next]_vars, value # NoKey, value' # value
  PROVE  /\ value' = NoKey
         /\ \/ pc[value] = "exec" /\ pc'[value] # "exec"
            \/ keyAge >= Lease - 1
<1>1. ASSUME NEW c \in Clients, Exec(c) \/ Retry(c)
      PROVE  value' = NoKey /\ pc[value] = "exec" /\ pc'[value] # "exec"
  <2>1. pc[c] = "exec" /\ ~dirty[c] /\ value' = NoKey /\ pc'[c] # "exec"
    BY <1>1 DEF Exec, Retry, Delete, Remove, Goto, Inv, TypeOK
  <2> QED BY <2>1 DEF Inv, WatchInv
<1>2. ASSUME Tick PROVE value' = NoKey /\ keyAge >= Lease - 1
  BY <1>2, TimesAssumption DEF Tick, Lapses, Remove, Inv, TypeOK, LeaseInv, NoTtl
<1> QED BY <1>1, <1>2
    DEF Next, ClientStep, Proceed, Acquire, InTime, GiveUp, SetNxWins, SetNxFails,
        Ttl, Extend, Expire, Finish, Watch, Get, Unwatch, Crash, vars

\* Only its owner's release or a lease of full length takes the lock away.
THEOREM TakenAwayProperlyHolds == Spec => TakenAwayProperly
<1>1. Inv /\ [Next]_vars =>
        [value # NoKey /\ value' # value =>
           /\ value' = NoKey
           /\ \/ pc[value] = "exec" /\ pc'[value] # "exec"
              \/ keyAge >= Lease - 1]_vars
  BY TakenAwayStep
<1> QED BY <1>1, InvHolds, PTL DEF Spec, TakenAwayProperly

\* A step in which a client with an identifier loses it leaves the key alone, or
\* deletes it.
LEMMA LeavesStep ==
  ASSUME Inv, [Next]_vars, NEW c \in Clients, holds[c], ~holds'[c], value' = c
  PROVE  ttl' # NoTtl
<1>1. (ttl # NoTtl /\ ttl' = ttl) \/ ttl' = Lease
  <2> USE NoKeyAssumption DEF Inv, TypeOK, LeasedInv
  <2>1. ASSUME NEW d \in Clients, Exec(d) \/ Unwatch(d) \/ Crash(d)
        PROVE  ttl # NoTtl /\ ttl' = ttl
    BY <2>1 DEF Exec, Unwatch, Crash, Delete, Remove, Return
  <2> QED BY <2>1
      DEF Next, ClientStep, Proceed, Acquire, InTime, GiveUp, SetNxWins, SetNxFails,
          Ttl, Extend, Expire, Finish, Watch, Get, Retry, Tick, vars
<1> QED BY <1>1, TimesAssumption DEF NoTtl

\* A client that had an identifier leaves no lock for ever, whatever EXEC did.
THEOREM LeavesLeaseHolds == Spec => LeavesLease
<1>1. Inv /\ [Next]_vars =>
        [\A c \in Clients : holds[c] /\ ~holds'[c] /\ value' = c => ttl' # NoTtl]_vars
  BY LeavesStep
<1> QED BY <1>1, InvHolds, PTL DEF Spec, LeavesLease
-----------------------------------------------------------------------------
\* Under the schedule of PromptSpec a client that takes the lock for its has it.
OwnInv == \A c \in Clients : Critical(c) => value = c

LEMMA OwnStep ==
  ASSUME Inv, OwnInv, [ClientStep \/ PromptTick]_vars, MaxHold < Lease
  PROVE  OwnInv'
<1> USE NoKeyAssumption DEF Inv, TypeOK, OwnInv, Critical
<1>1. CASE UNCHANGED vars
  BY <1>1 DEF vars
<1>2. ASSUME NEW c \in Clients,
             Acquire(c) \/ InTime(c) \/ GiveUp(c) \/ SetNxFails(c) \/ Ttl(c)
             \/ Extend(c) \/ Finish(c) \/ Watch(c) \/ Get(c) \/ Unwatch(c) \/ Crash(c)
      PROVE  OwnInv'
  BY <1>2 DEF HoldsInv, Acquire, InTime, GiveUp, SetNxFails, Ttl, Extend, Finish,
     Watch, Get, Unwatch, Crash, Return, Goto
<1>3. ASSUME NEW c \in Clients, SetNxWins(c) PROVE OwnInv'
  BY <1>3 DEF SetNxWins, Goto
<1>4. ASSUME NEW c \in Clients, Expire(c) PROVE OwnInv'
  BY <1>4 DEF Expire, Goto
<1>5. ASSUME NEW c \in Clients, Exec(c) \/ Retry(c) PROVE OwnInv'
  <2>1. \A d \in Clients : Critical(d)' => Critical(d) /\ d # c
    BY <1>5 DEF Exec, Retry, Return, Watching, Goto
  <2>2. value' # value => value = c
    BY <1>5 DEF Exec, Retry, Delete, Remove, WatchInv, Goto
  <2> QED BY <2>1, <2>2
<1>6. CASE PromptTick
  <2>1. \A d \in Clients : Critical(d)' = Critical(d)
    BY <1>6 DEF PromptTick, Tick
  <2>2. ASSUME NEW d \in Clients, Critical(d) PROVE value' = value
    <3>1. value = d /\ keyAge < MaxHold
      BY <1>6, <2>2 DEF PromptTick
    <3>2. ~Lapses
      BY <3>1, TimesAssumption DEF Lapses, LeaseInv, NoTtl
    <3> QED BY <1>6, <3>2 DEF PromptTick, Tick
  <2> QED BY <2>1, <2>2
<1> QED BY <1>1, <1>2, <1>3, <1>4, <1>5, <1>6 DEF ClientStep, Proceed

\* Clients that are done within less than a lease never hold the lock together.
THEOREM ExclusionHolds == MaxHold < Lease /\ PromptSpec => []Exclusion
<1>1. Init => OwnInv
  BY DEF Init, OwnInv, Critical
<1>2. [ClientStep \/ PromptTick]_vars => [Next]_vars
  BY DEF PromptTick, Next
<1>3. ASSUME MaxHold < Lease, Inv, OwnInv, [ClientStep \/ PromptTick]_vars
      PROVE  OwnInv'
  BY <1>3, OwnStep
<1>4. OwnInv => Exclusion
  BY DEF OwnInv, Exclusion
<1>5. Inv /\ [Next]_vars => Inv'
  BY InvStep
<1>6. CASE MaxHold < Lease
  BY <1>1, <1>2, <1>3, <1>4, <1>5, <1>6, InitInv, PTL DEF PromptSpec
<1> QED BY <1>6
-----------------------------------------------------------------------------
\* The clients inside the lock, as OwnedLock knows them.
Inside == {c \in Clients : Critical(c)}

\* A step that changes neither the key nor who counts on it is a stutter, and one after
\* which a client counts on the lock no more is its departure.
LEMMA LeavesLock ==
  ASSUME UNCHANGED value, NEW c \in Clients, Inside' = Inside \/ Inside' = Inside \ {c}
  PROVE  [Lock!Next]_(Lock!vars)
  BY DEF Inside, Lock!Next, Lock!Leave, Lock!vars

\* One that frees the key does so when the owner is gone.
LEMMA FreesLock ==
  ASSUME Inside' = Inside, value' = value \/ (value' = NoKey /\ value \notin Inside)
  PROVE  [Lock!Next]_(Lock!vars)
  BY DEF Inside, Lock!Next, Lock!ComeFree, Lock!vars

\* Every step of a client or of the clock is a step of the lock, or none.
LEMMA LockStep ==
  ASSUME Inv, OwnInv, [ClientStep \/ PromptTick]_vars, MaxHold < Lease
  PROVE  [Lock!Next]_(Lock!vars)
<1> USE NoKeyAssumption DEF Inv, TypeOK
<1>1. CASE UNCHANGED vars
  BY <1>1 DEF vars, Critical, Lock!vars
<1>2. ASSUME NEW c \in Clients,
             \/ Acquire(c) \/ InTime(c) \/ SetNxFails(c) \/ Ttl(c) \/ Extend(c) \/ GiveUp(c)
             \/ Expire(c) \/ Finish(c) \/ Watch(c) \/ Get(c) \/ Unwatch(c) \/ Crash(c)
      PROVE  [Lock!Next]_(Lock!vars)
  <2>1. UNCHANGED value
    BY <1>2 DEF Acquire, InTime, SetNxFails, Ttl, Extend, GiveUp, Expire, Finish, Watch,
       Get, Unwatch, Crash
  <2>2. \A d \in Clients \ {c} : Critical(d)' = Critical(d)
    BY <1>2 DEF Acquire, InTime, SetNxFails, Ttl, Extend, GiveUp, Expire, Finish, Watch,
       Get, Unwatch, Crash, Critical, Goto, Return
  <2>3. Critical(c)' => Critical(c)
    BY <1>2 DEF Acquire, InTime, SetNxFails, Ttl, Extend, GiveUp, Expire, Finish, Watch,
       Get, Unwatch, Crash, Critical, Goto, Return, HoldsInv
  <2>4. Inside' = Inside \/ Inside' = Inside \ {c}
    BY <2>2, <2>3 DEF Inside
  <2> QED BY <2>1, <2>4, LeavesLock
<1>3. ASSUME NEW c \in Clients, SetNxWins(c)
      PROVE  [Lock!Next]_(Lock!vars)
  <2>1. value = NoKey /\ value' = c
    BY <1>3 DEF SetNxWins
  <2>2. \A d \in Clients : Critical(d)' <=> Critical(d) \/ d = c
    BY <1>3 DEF SetNxWins, Critical, Goto
  <2>3. {d \in Clients : Critical(d)}' = {d \in Clients : Critical(d)} \cup {c}
    BY <2>2
  <2> QED BY <2>1, <2>3 DEF Lock!Next, Lock!Enter
<1>4. ASSUME NEW c \in Clients, Exec(c) \/ Retry(c)
      PROVE  [Lock!Next]_(Lock!vars)
  <2>1. ~Critical(c) /\ ~Critical(c)'
    BY <1>4 DEF Exec, Retry, Return, Watching, Critical, Goto
  <2>2. \A d \in Clients \ {c} : Critical(d)' = Critical(d)
    BY <1>4 DEF Exec, Retry, Return, Critical, Goto
  <2>3. Inside' = Inside
    BY <2>1, <2>2 DEF Inside
  <2>4. value' = value \/ (value' = NoKey /\ value = c)
    BY <1>4 DEF Exec, Retry, Delete, Remove, WatchInv, Goto
  <2> QED BY <2>1, <2>3, <2>4, FreesLock DEF Inside
<1>5. CASE PromptTick
  <2>1. Inside' = Inside
    BY <1>5 DEF PromptTick, Tick, Inside, Critical
  <2>2. value' = value \/ (value' = NoKey /\ Lapses)
    BY <1>5 DEF PromptTick, Tick, Remove
  <2>3. ASSUME Lapses, value \in Inside PROVE FALSE
    <3>1. value \in Clients /\ keyAge < MaxHold
      BY <1>5, <2>3 DEF PromptTick, Inside
    <3> QED BY <2>3, <3>1, TimesAssumption DEF Lapses, LeaseInv, NoTtl
  <2> QED BY <2>1, <2>2, <2>3, FreesLock
<1> QED BY <1>1, <1>2, <1>3, <1>4, <1>5 DEF ClientStep, Proceed

\* Under the schedule of PromptSpec the key is a lock with an owner.
THEOREM LockSpecHolds == MaxHold < Lease /\ PromptSpec => LockSpec
<1>1. Init => Lock!Init
  BY DEF Init, Critical, Lock!Init
<1>2. [ClientStep \/ PromptTick]_vars => [Next]_vars
  BY DEF PromptTick, Next
<1>3. Init => OwnInv
  BY DEF Init, OwnInv, Critical
<1>4. ASSUME MaxHold < Lease, Inv, OwnInv, [ClientStep \/ PromptTick]_vars
      PROVE  OwnInv' /\ [Lock!Next]_(Lock!vars)
  BY <1>4, OwnStep, LockStep
<1>5. Inv /\ [Next]_vars => Inv'
  BY InvStep
<1>6. CASE MaxHold < Lease
  BY <1>1, <1>2, <1>3, <1>4, <1>5, <1>6, InitInv, PTL DEF PromptSpec, LockSpec, Lock!Spec
<1> QED BY <1>6
=============================================================================
