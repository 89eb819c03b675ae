--------------------------- MODULE SnowflakeProofs --------------------------
(***************************************************************************)
(* Proofs about Snowflake, for every number of threads and generators and  *)
(* every width of the fields; and, at the end, about DuplicateCount, the   *)
(* stream in which main of the same class counts repeated identifiers, for *)
(* every number of futures and of workers.                                 *)
(***************************************************************************)
EXTENDS Snowflake, DuplicateCount, FiniteSetTheorems, TLAPS

-----------------------------------------------------------------------------
\* A remainder modulo a width lies in the field of that width: what the masks
\* 0xFFF, 0x1F and 0x1FFFFFFFFFF do to any number.
LEMMA MaskedRange ==
  ASSUME NEW n \in Int, NEW size \in Nat \ {0}
  PROVE  Masked(n, size) \in 0..(size - 1)
  BY DEF Masked

\* Two numbers written with a low field of k values are equal only if both
\* parts are: the bits that nextId() joins with | do not overlap.
LEMMA FieldsApart ==
  ASSUME NEW k \in Nat \ {0}, NEW a \in Int, NEW b \in Int,
         NEW r \in 0..(k - 1), NEW s \in 0..(k - 1),
         a * k + r = b * k + s
  PROVE  a = b /\ r = s
<1>1. ~(a < b)
  <2> SUFFICES ASSUME a < b PROVE FALSE
    OBVIOUS
  <2>1. a + 1 <= b
    OBVIOUS
  <2>2. (a + 1) * k <= b * k
    BY <2>1
  <2>3. (a + 1) * k = a * k + k
    OBVIOUS
  <2> QED BY <2>2, <2>3
<1>2. ~(b < a)
  <2> SUFFICES ASSUME b < a PROVE FALSE
    OBVIOUS
  <2>1. b + 1 <= a
    OBVIOUS
  <2>2. (b + 1) * k <= a * k
    BY <2>1
  <2>3. (b + 1) * k = b * k + k
    OBVIOUS
  <2> QED BY <2>2, <2>3
<1>3. a = b
  BY <1>1, <1>2
<1> QED BY <1>3

\* The larger high part makes the larger number, whatever the low parts.
LEMMA FieldsOrdered ==
  ASSUME NEW k \in Nat \ {0}, NEW a \in Int, NEW b \in Int,
         NEW r \in 0..(k - 1), NEW s \in 0..(k - 1),
         a < b
  PROVE  a * k + r < b * k + s
<1>1. a + 1 <= b
  OBVIOUS
<1>2. (a + 1) * k <= b * k
  BY <1>1
<1>3. (a + 1) * k = a * k + k
  OBVIOUS
<1> QED BY <1>2, <1>3

\* Numbers less than size apart have the same remainder only if they are equal.
LEMMA WrapApart ==
  ASSUME NEW size \in Nat \ {0}, NEW x \in Int, NEW y \in Int,
         x % size = y % size, x - y < size, y - x < size
  PROVE  x = y
<1> DEFINE p == x \div size
           q == y \div size
<1>1. /\ p \in Int /\ q \in Int
      /\ x % size \in 0..(size - 1)
      /\ y % size \in 0..(size - 1)
  OBVIOUS
<1>2. x = p * size + (x % size) /\ y = q * size + (y % size)
  OBVIOUS
<1>3. ~(p < q)
  <2> SUFFICES ASSUME p < q PROVE FALSE
    OBVIOUS
  <2>1. (p + 1) * size <= q * size
    BY <1>1
  <2>2. (p + 1) * size = p * size + size
    BY <1>1
  <2> QED BY <1>1, <1>2, <2>1, <2>2
<1>4. ~(q < p)
  <2> SUFFICES ASSUME q < p PROVE FALSE
    OBVIOUS
  <2>1. (q + 1) * size <= p * size
    BY <1>1
  <2>2. (q + 1) * size = q * size + size
    BY <1>1
  <2> QED BY <1>1, <1>2, <2>1, <2>2
<1>5. p = q
  BY <1>1, <1>3, <1>4
<1> QED BY <1>1, <1>2, <1>5

-----------------------------------------------------------------------------
Worker == [dc : 0..(NumSize - 1), machine : 0..(NumSize - 1)]

LEMMA FieldRange ==
  ASSUME NEW x \in Int
  PROVE  Field(x) \in 0..(TimeSize - 1)
  BY MaskedRange, SizesAssumption, ClockAssumption DEF Field

\* An identifier determines every field it was packed from.
LEMMA PackApart ==
  ASSUME NEW x \in Int, NEW y \in Int, NEW w \in Worker, NEW v \in Worker,
         NEW r \in 0..(SeqSize - 1), NEW s \in 0..(SeqSize - 1),
         Pack(x, w, r) = Pack(y, v, s)
  PROVE  Field(x) = Field(y) /\ w = v /\ r = s
<1> DEFINE fx == Field(x)
           fy == Field(y)
<1>1. fx \in Int /\ fy \in Int
  BY FieldRange
<1>2. /\ w.dc \in 0..(NumSize - 1) /\ w.machine \in 0..(NumSize - 1)
      /\ v.dc \in 0..(NumSize - 1) /\ v.machine \in 0..(NumSize - 1)
  BY DEF Worker
<1> DEFINE hx == fx * NumSize + w.dc
           hy == fy * NumSize + v.dc
           mx == hx * NumSize + w.machine
           my == hy * NumSize + v.machine
<1>3. hx \in Int /\ hy \in Int
  BY <1>1, <1>2, SizesAssumption
<1>4. mx \in Int /\ my \in Int
  BY <1>2, <1>3, SizesAssumption
<1>5. mx * SeqSize + r = my * SeqSize + s
  BY DEF Pack
<1> HIDE DEF mx, my
<1>6. mx = my /\ r = s
  BY <1>4, <1>5, FieldsApart, SizesAssumption
<1>7. hx * NumSize + w.machine = hy * NumSize + v.machine
  BY <1>6 DEF mx, my
<1> HIDE DEF hx, hy
<1>8. hx = hy /\ w.machine = v.machine
  BY <1>2, <1>3, <1>7, FieldsApart, SizesAssumption
<1>9. fx * NumSize + w.dc = fy * NumSize + v.dc
  BY <1>8 DEF hx, hy
<1> HIDE DEF fx, fy
<1>10. fx = fy /\ w.dc = v.dc
  BY <1>1, <1>2, <1>9, FieldsApart, SizesAssumption
<1>11. w = v
  BY <1>8, <1>10 DEF Worker
<1> QED BY <1>6, <1>10, <1>11 DEF fx, fy

\* What was stamped first is the smaller identifier of its generator.
LEMMA PackOrdered ==
  ASSUME NEW x \in Int, NEW y \in Int, NEW w \in Worker,
         NEW r \in 0..(SeqSize - 1), NEW s \in 0..(SeqSize - 1),
         Field(x) < Field(y) \/ (Field(x) = Field(y) /\ r < s)
  PROVE  Pack(x, w, r) < Pack(y, w, s)
<1> DEFINE fx == Field(x)
           fy == Field(y)
<1>1. fx \in Int /\ fy \in Int
  BY FieldRange
<1>2. w.dc \in 0..(NumSize - 1) /\ w.machine \in 0..(NumSize - 1)
  BY DEF Worker
<1> DEFINE hx == fx * NumSize + w.dc
           hy == fy * NumSize + w.dc
           mx == hx * NumSize + w.machine
           my == hy * NumSize + w.machine
<1>3. hx \in Int /\ hy \in Int
  BY <1>1, <1>2, SizesAssumption
<1>4. mx \in Int /\ my \in Int
  BY <1>2, <1>3, SizesAssumption
<1>5. Pack(x, w, r) = mx * SeqSize + r /\ Pack(y, w, s) = my * SeqSize + s
  BY DEF Pack
<1>6. CASE fx < fy
  <2>1. hx < hy
    BY <1>1, <1>2, <1>6, FieldsOrdered, SizesAssumption
  <2>2. mx < my
    <3> HIDE DEF hx, hy
    <3> QED BY <1>2, <1>3, <2>1, FieldsOrdered, SizesAssumption
  <2>3. mx * SeqSize + r < my * SeqSize + s
    <3> HIDE DEF mx, my
    <3> QED BY <1>4, <2>2, FieldsOrdered, SizesAssumption
  <2> QED BY <1>5, <2>3
<1>7. CASE fx = fy /\ r < s
  <2>1. mx = my
    BY <1>7
  <2>2. mx * SeqSize \in Int
    BY <1>4, SizesAssumption
  <2> HIDE DEF mx, my
  <2>3. mx * SeqSize + r < mx * SeqSize + s
    BY <1>7, <2>2, SizesAssumption
  <2> QED BY <1>5, <2>1, <2>3
<1> QED BY <1>6, <1>7

\* Every identifier is a non-negative number below 2^63: the sign bit is unused.
LEMMA PackRange ==
  ASSUME NEW x \in Int, NEW w \in Worker, NEW r \in 0..(SeqSize - 1)
  PROVE  Pack(x, w, r) \in 0..(TimeSize * NumSize * NumSize * SeqSize - 1)
<1> DEFINE fx == Field(x)
           hx == fx * NumSize + w.dc
           mx == hx * NumSize + w.machine
<1>1. fx \in 0..(TimeSize - 1)
  BY FieldRange
<1>2. w.dc \in 0..(NumSize - 1) /\ w.machine \in 0..(NumSize - 1)
  BY DEF Worker
<1>3. ASSUME NEW k \in Nat \ {0}, NEW n \in Nat \ {0},
             NEW a \in 0..(n - 1), NEW b \in 0..(k - 1)
      PROVE  n * k \in Nat \ {0} /\ a * k + b \in 0..(n * k - 1)
  <2>1. a * k + b < n * k + 0
    BY FieldsOrdered
  <2>2. a * k \in Nat /\ n * k \in Nat
    OBVIOUS
  <2>3. n * k # 0
    OBVIOUS
  <2> QED BY <2>1, <2>2, <2>3
<1>4. TimeSize * NumSize \in Nat \ {0} /\ hx \in 0..(TimeSize * NumSize - 1)
  BY <1>1, <1>2, <1>3, SizesAssumption
<1> HIDE DEF hx
<1>5. /\ TimeSize * NumSize * NumSize \in Nat \ {0}
      /\ mx \in 0..(TimeSize * NumSize * NumSize - 1)
  BY <1>2, <1>3, <1>4, SizesAssumption
<1>6. mx * SeqSize + r \in 0..(TimeSize * NumSize * NumSize * SeqSize - 1)
  <2> HIDE DEF mx
  <2> QED BY <1>3, <1>5, SizesAssumption
<1> QED BY <1>6 DEF Pack, hx
-----------------------------------------------------------------------------
LEMMA TypeInit == Init => TypeOK
<1> SUFFICES ASSUME Init PROVE TypeOK
  OBVIOUS
<1>1. \A n \in Candidates : Accepted(n) => n \in 0..(NumSize - 1)
  BY MaskedRange, SizesAssumption, BoundsAssumption DEF Accepted
<1>2. worker \in [Gens -> [dc : 0..(NumSize - 1), machine : 0..(NumSize - 1)]]
  BY <1>1 DEF Init
<1> QED BY <1>2, SizesAssumption, ClockAssumption DEF Init, TypeOK

LEMMA TypeStep == TypeOK /\ [Next]_vars => TypeOK'
<1> SUFFICES ASSUME TypeOK, [Next]_vars PROVE TypeOK'
  OBVIOUS
<1> USE SizesAssumption, NamesAssumption
<1>1. CASE UNCHANGED vars
  BY <1>1 DEF TypeOK, vars, shared, locals, history
<1>2. ASSUME NEW t \in Threads, NEW g \in Gens, Begin(t, g) PROVE TypeOK'
  BY <1>2 DEF TypeOK, Begin, Goto, shared
<1>3. ASSUME NEW t \in Threads, Lock(t) PROVE TypeOK'
  BY <1>3 DEF TypeOK, Lock, Goto, locals, history
<1>4. ASSUME NEW t \in Threads, Stamp(t) PROVE TypeOK'
  <2>1. gen[t] \in Gens
    BY <1>4 DEF TypeOK, Stamp, Goto
  <2>2. NextSeq(gen[t]) \in 0..(SeqSize - 1)
    BY <2>1, MaskedRange DEF TypeOK, NextSeq
  <2>3. thisSeqNum' \in [Threads -> 0..(SeqSize - 1)]
    BY <1>4, <2>2 DEF TypeOK, Stamp
  <2> QED BY <1>4, <2>3 DEF TypeOK, Stamp, Goto, shared, history
<1>5. ASSUME NEW t \in Threads, TilNextMillis(t) PROVE TypeOK'
  BY <1>5 DEF TypeOK, TilNextMillis, Goto, shared, history
<1>6. ASSUME NEW t \in Threads, Store(t) PROVE TypeOK'
  BY <1>6 DEF TypeOK, Store, Goto, locals, history
<1>7. ASSUME NEW t \in Threads, Unlock(t) PROVE TypeOK'
  BY <1>7 DEF TypeOK, Unlock, Goto, locals, history
<1>8. ASSUME NEW t \in Threads, Return(t) PROVE TypeOK'
  <2>1. gen[t] \in Gens
    BY <1>8 DEF TypeOK, Return, Goto
  <2> DEFINE new == [call |-> <<t, calls[t]>>, gen |-> gen[t],
                     ts |-> thisTimestamp[t], seq |-> thisSeqNum[t],
                     id |-> Pack(thisTimestamp[t], worker[gen[t]], thisSeqNum[t])]
  <2>2. new.id \in 0..(TimeSize * NumSize * NumSize * SeqSize - 1)
    <3>1. /\ worker[gen[t]] \in Worker
          /\ thisTimestamp[t] \in Int
          /\ thisSeqNum[t] \in 0..(SeqSize - 1)
      BY <2>1 DEF TypeOK, Worker
    <3> QED BY <3>1, PackRange
  <2>3. new \in [call : Threads \X Nat, gen : Gens,
                ts : Nat \cup {-1}, seq : 0..(SeqSize - 1),
                id : 0..(TimeSize * NumSize * NumSize * SeqSize - 1)]
    BY <2>1, <2>2 DEF TypeOK
  <2>4. issued' = issued \cup {new}
    BY <1>8 DEF Return
  <2> HIDE DEF new
  <2> QED BY <1>8, <2>3, <2>4 DEF TypeOK, Return, Goto, shared
<1>9. CASE Tick
  BY <1>9 DEF TypeOK, Tick, shared, locals, history
<1>10. CASE SetBack
  BY <1>10 DEF TypeOK, SetBack, shared, locals, history
<1> QED BY <1>1, <1>2, <1>3, <1>4, <1>5, <1>6, <1>7, <1>8, <1>9, <1>10
    DEF Next, Proceed

\* Every variable stays in its range: no field outgrows the bits it is packed in.
THEOREM TypeCorrect == Spec => []TypeOK
  BY TypeInit, TypeStep, PTL DEF Spec
-----------------------------------------------------------------------------
(***************************************************************************)
(* The order in which a generator gives out its (timestamp, sequence) pairs *)
(* is the order of its critical sections; the pairs of calls that left it   *)
(* and have not returned yet must be followed as well.                      *)
(***************************************************************************)
Before(x, r, y, s) == x < y \/ (x = y /\ r < s)
UpTo(x, r, y, s) == x < y \/ (x = y /\ r <= s)

\* The threads whose pair is stored and not yet returned.
Taken == {t \in Threads : pc[t] \in {"unlock", "pack"}}

LockInv == \A t \in Threads :
             pc[t] \in {"stamp", "spin", "store", "unlock"} => owner = t
SpinInv == \A t \in Threads : pc[t] = "spin" =>
             thisTimestamp[t] = lastTimestamp[gen[t]] /\ thisSeqNum[t] = 0
IdInv == \A a \in issued : a.id = Pack(a.ts, worker[a.gen], a.seq)

ClockInv == /\ \A g \in Gens : lastTimestamp[g] <= now
            /\ \A t \in Threads : thisTimestamp[t] <= now
StoreInv == \A t \in Threads : pc[t] = "store" =>
              Before(lastTimestamp[gen[t]], lastSeqNum[gen[t]],
                     thisTimestamp[t], thisSeqNum[t])
LastInv == /\ \A a \in issued :
                UpTo(a.ts, a.seq, lastTimestamp[a.gen], lastSeqNum[a.gen])
           /\ \A t \in Taken : UpTo(thisTimestamp[t], thisSeqNum[t],
                                    lastTimestamp[gen[t]], lastSeqNum[gen[t]])
SeenInv == \A t \in Taken : \A a \in seen[t] : a.gen = gen[t] =>
              Before(a.ts, a.seq, thisTimestamp[t], thisSeqNum[t])
FreshInv == \A t \in Taken : \A a \in issued : a.gen = gen[t] =>
              a.ts # thisTimestamp[t] \/ a.seq # thisSeqNum[t]
PairInv == \A t, u \in Taken : t # u /\ gen[t] = gen[u] =>
             thisTimestamp[t] # thisTimestamp[u] \/ thisSeqNum[t] # thisSeqNum[u]
DistinctInv == \A a, b \in issued : a.call # b.call /\ a.gen = b.gen =>
                 a.ts # b.ts \/ a.seq # b.seq

OrderInv == /\ ClockInv /\ StoreInv /\ LastInv /\ SeenInv
            /\ FreshInv /\ PairInv /\ DistinctInv

Inv == /\ TypeOK /\ LockInv /\ SpinInv /\ IdInv
       /\ setBacks = 0 => OrderInv

\* Without overflow the next sequence number is the larger one.
LEMMA NextSeqLarger ==
  ASSUME NEW n \in 0..(SeqSize - 1), (n + 1) % SeqSize # 0
  PROVE  (n + 1) % SeqSize = n + 1
<1>1. CASE n + 1 = SeqSize
  BY <1>1, SizesAssumption
<1>2. CASE n + 1 < SeqSize
  BY <1>2, SizesAssumption
<1> QED BY <1>1, <1>2, SizesAssumption

LEMMA InitInv == Init => Inv
<1> SUFFICES ASSUME Init PROVE Inv
  OBVIOUS
<1>1. TypeOK
  BY TypeInit
<1>2. LockInv /\ SpinInv /\ IdInv
  BY DEF Init, LockInv, SpinInv, IdInv
<1>3. OrderInv
  BY ClockAssumption DEF Init, OrderInv, ClockInv, StoreInv, LastInv, SeenInv,
     FreshInv, PairInv, DistinctInv, Taken
<1> QED BY <1>1, <1>2, <1>3 DEF Inv

\* The lock keeps the threads between lock() and unlock() apart, and what the
\* one inside knows of its generator stays true until it leaves.
LEMMA ControlInv ==
  ASSUME Inv, [Next]_vars
  PROVE  LockInv' /\ SpinInv' /\ IdInv'
<1> USE DEF Inv
<1>1. CASE UNCHANGED vars
  BY <1>1 DEF LockInv, SpinInv, IdInv, vars, shared, locals, history
<1>2. ASSUME NEW t \in Threads, NEW g \in Gens, Begin(t, g)
      PROVE  LockInv' /\ SpinInv' /\ IdInv'
  BY <1>2 DEF LockInv, SpinInv, IdInv, TypeOK, Begin, Goto, shared
<1>3. ASSUME NEW t \in Threads, Lock(t) PROVE LockInv' /\ SpinInv' /\ IdInv'
  BY <1>3, NamesAssumption
  DEF LockInv, SpinInv, IdInv, TypeOK, Lock, Goto, locals, history
<1>4. ASSUME NEW t \in Threads, Stamp(t) PROVE LockInv' /\ SpinInv' /\ IdInv'
  BY <1>4 DEF LockInv, SpinInv, IdInv, TypeOK, Stamp, Goto, shared, history
<1>5. ASSUME NEW t \in Threads, TilNextMillis(t)
      PROVE  LockInv' /\ SpinInv' /\ IdInv'
  BY <1>5 DEF LockInv, SpinInv, IdInv, TypeOK, TilNextMillis, Goto, shared, history
<1>6. ASSUME NEW t \in Threads, Store(t) PROVE LockInv' /\ SpinInv' /\ IdInv'
  BY <1>6 DEF LockInv, SpinInv, IdInv, TypeOK, Store, Goto, locals, history
<1>7. ASSUME NEW t \in Threads, Unlock(t) PROVE LockInv' /\ SpinInv' /\ IdInv'
  BY <1>7 DEF LockInv, SpinInv, IdInv, TypeOK, Unlock, Goto, locals, history
<1>8. ASSUME NEW t \in Threads, Return(t) PROVE LockInv' /\ SpinInv' /\ IdInv'
  BY <1>8 DEF LockInv, SpinInv, IdInv, TypeOK, Return, Goto, shared
<1>9. CASE Tick
  BY <1>9 DEF LockInv, SpinInv, IdInv, Tick, shared, locals, history
<1>10. CASE SetBack
  BY <1>10 DEF LockInv, SpinInv, IdInv, SetBack, shared, locals, history
<1> QED BY <1>1, <1>2, <1>3, <1>4, <1>5, <1>6, <1>7, <1>8, <1>9, <1>10
    DEF Next, Proceed

\* While the clock has not been set back, every step keeps the order of pairs.
LEMMA StepOrder ==
  ASSUME Inv, TypeOK', [Next]_vars, setBacks' = 0
  PROVE  OrderInv'
<1>0. setBacks = 0 /\ OrderInv /\ TypeOK /\ LockInv /\ SpinInv
  BY DEF Inv, TypeOK, Next, Proceed, SetBack, Tick, Begin, Lock, Stamp,
     TilNextMillis, Store, Unlock, Return, vars
<1> USE <1>0 DEF OrderInv
<1>1. CASE UNCHANGED vars
  BY <1>1 DEF ClockInv, StoreInv, LastInv, SeenInv, FreshInv, PairInv,
     DistinctInv, Taken, vars, shared, locals, history
<1>2. ASSUME NEW t \in Threads, NEW g \in Gens, Begin(t, g) PROVE OrderInv'
  BY <1>2 DEF ClockInv, StoreInv, LastInv, SeenInv, FreshInv, PairInv,
     DistinctInv, Taken, TypeOK, Begin, Goto, shared
<1>3. ASSUME NEW t \in Threads, Lock(t) PROVE OrderInv'
  BY <1>3 DEF ClockInv, StoreInv, LastInv, SeenInv, FreshInv, PairInv,
     DistinctInv, Taken, TypeOK, Lock, Goto, locals, history
<1>4. ASSUME NEW t \in Threads, Stamp(t) PROVE OrderInv'
  <2>1. ClockInv'
    BY <1>4 DEF ClockInv, TypeOK, Stamp, shared
  <2>2. StoreInv'
    <3> SUFFICES ASSUME NEW u \in Threads, pc'[u] = "store"
                 PROVE  Before(lastTimestamp[gen[u]], lastSeqNum[gen[u]],
                               thisTimestamp'[u], thisSeqNum'[u])
      BY <1>4 DEF StoreInv, Stamp, shared
    <3>1. CASE u # t
      BY <1>4, <3>1 DEF StoreInv, TypeOK, Stamp, Goto
    <3>2. CASE u = t
      <4> DEFINE g == gen[t]
      <4>1. g \in Gens
        BY <1>4 DEF TypeOK, Stamp, Goto
      <4>2. /\ lastTimestamp[g] \in Int /\ now \in Int
            /\ lastSeqNum[g] \in 0..(SeqSize - 1)
        BY <4>1 DEF TypeOK
      <4>3. CASE lastTimestamp[g] = now
        <5>1. NextSeq(g) # 0
          BY <1>4, <3>2, <4>3 DEF Stamp, Goto, TypeOK
        <5>2. NextSeq(g) = lastSeqNum[g] + 1
          BY <4>2, <5>1, NextSeqLarger DEF NextSeq, Masked
        <5> QED BY <1>4, <3>2, <4>2, <4>3, <5>2 DEF Before, Stamp, TypeOK
      <4>4. CASE lastTimestamp[g] # now
        <5>1. lastTimestamp[g] <= now
          BY <4>1 DEF ClockInv
        <5>2. lastTimestamp[g] < now
          BY <4>2, <4>4, <5>1
        <5> QED BY <1>4, <3>2, <5>2 DEF Before, Stamp, TypeOK
      <4> QED BY <4>3, <4>4
    <3> QED BY <3>1, <3>2
  <2>3. t \notin Taken /\ Taken' = Taken
    BY <1>4 DEF Taken, TypeOK, Stamp, Goto
  <2>4. LastInv' /\ SeenInv' /\ FreshInv' /\ PairInv' /\ DistinctInv'
    BY <1>4, <2>3 DEF LastInv, SeenInv, FreshInv, PairInv, DistinctInv, Taken,
       TypeOK, Stamp, shared, history
  <2> QED BY <2>1, <2>2, <2>4
<1>5. ASSUME NEW t \in Threads, TilNextMillis(t) PROVE OrderInv'
  <2>1. ClockInv'
    BY <1>5 DEF ClockInv, TypeOK, TilNextMillis, shared
  <2>2. StoreInv'
    BY <1>5 DEF StoreInv, SpinInv, Before, TypeOK, TilNextMillis, Goto, shared
  <2>3. t \notin Taken /\ Taken' = Taken
    BY <1>5 DEF Taken, TypeOK, TilNextMillis, Goto
  <2>4. LastInv' /\ SeenInv' /\ FreshInv' /\ PairInv' /\ DistinctInv'
    BY <1>5, <2>3 DEF LastInv, SeenInv, FreshInv, PairInv, DistinctInv, Taken,
       TypeOK, TilNextMillis, shared, history
  <2> QED BY <2>1, <2>2, <2>4
<1>6. ASSUME NEW t \in Threads, Store(t) PROVE OrderInv'
  <2> DEFINE g == gen[t]
  <2>1. /\ g \in Gens /\ t \notin Taken /\ Taken' = Taken \cup {t}
        /\ lastTimestamp' = [lastTimestamp EXCEPT ![g] = thisTimestamp[t]]
        /\ lastSeqNum' = [lastSeqNum EXCEPT ![g] = thisSeqNum[t]]
        /\ UNCHANGED <<now, gen, thisTimestamp, thisSeqNum, issued, seen>>
    BY <1>6 DEF Taken, TypeOK, Store, Goto, locals, history
  <2>2. Before(lastTimestamp[g], lastSeqNum[g], thisTimestamp[t], thisSeqNum[t])
    BY <1>6 DEF StoreInv, Store, Goto
  <2>3. ClockInv'
    BY <2>1 DEF ClockInv, TypeOK
  <2>4. StoreInv'
    <3>1. \A u \in Threads : pc'[u] # "store"
      BY <1>6 DEF Store, Goto, LockInv, TypeOK
    <3> QED BY <3>1 DEF StoreInv
  <2>5. /\ \A a \in issued : a.gen = g =>
              Before(a.ts, a.seq, thisTimestamp[t], thisSeqNum[t])
        /\ \A u \in Taken : gen[u] = g =>
              Before(thisTimestamp[u], thisSeqNum[u], thisTimestamp[t], thisSeqNum[t])
    <3>1. /\ lastTimestamp[g] \in Int /\ lastSeqNum[g] \in Int
          /\ thisTimestamp[t] \in Int /\ thisSeqNum[t] \in Int
      BY <2>1 DEF TypeOK
    <3>2. \A a \in issued : a.ts \in Int /\ a.seq \in Int
      BY DEF TypeOK
    <3>3. \A u \in Taken : thisTimestamp[u] \in Int /\ thisSeqNum[u] \in Int
      BY DEF TypeOK, Taken
    <3>4. \A x, r \in Int :
             UpTo(x, r, lastTimestamp[g], lastSeqNum[g])
             => Before(x, r, thisTimestamp[t], thisSeqNum[t])
      BY <2>2, <3>1 DEF UpTo, Before
    <3> QED BY <3>2, <3>3, <3>4 DEF LastInv
  <2>6. LastInv'
    <3>1. \A x, r \in Int : Before(x, r, thisTimestamp[t], thisSeqNum[t])
                            => UpTo(x, r, thisTimestamp[t], thisSeqNum[t])
      BY DEF Before, UpTo, TypeOK
    <3>2. UpTo(thisTimestamp[t], thisSeqNum[t], thisTimestamp[t], thisSeqNum[t])
      BY DEF UpTo, TypeOK
    <3>3. /\ lastTimestamp'[g] = thisTimestamp[t] /\ lastSeqNum'[g] = thisSeqNum[t]
          /\ \A h \in Gens \ {g} : /\ lastTimestamp'[h] = lastTimestamp[h]
                                  /\ lastSeqNum'[h] = lastSeqNum[h]
      BY <2>1 DEF TypeOK
    <3>4. /\ \A a \in issued : a.gen \in Gens /\ a.ts \in Int /\ a.seq \in Int
          /\ \A u \in Taken : /\ gen[u] \in Gens
                              /\ thisTimestamp[u] \in Int /\ thisSeqNum[u] \in Int
      BY DEF TypeOK, Taken
    <3>5. \A a \in issued :
             UpTo(a.ts, a.seq, lastTimestamp'[a.gen], lastSeqNum'[a.gen])
      BY <2>5, <3>1, <3>3, <3>4 DEF LastInv
    <3>6. \A u \in Taken \cup {t} :
             UpTo(thisTimestamp[u], thisSeqNum[u],
                  lastTimestamp'[gen[u]], lastSeqNum'[gen[u]])
      BY <2>5, <3>1, <3>2, <3>3, <3>4 DEF LastInv
    <3> QED BY <2>1, <3>5, <3>6 DEF LastInv
  <2>7. SeenInv'
    BY <2>1, <2>5 DEF SeenInv, TypeOK, Taken
  <2>8. FreshInv'
    BY <2>1, <2>5 DEF FreshInv, Before, TypeOK, Taken
  <2>9. PairInv'
    BY <2>1, <2>5 DEF PairInv, Before, TypeOK, Taken
  <2>10. DistinctInv'
    BY <2>1 DEF DistinctInv
  <2> QED BY <2>3, <2>4, <2>6, <2>7, <2>8, <2>9, <2>10
<1>7. ASSUME NEW t \in Threads, Unlock(t) PROVE OrderInv'
  <2>1. Taken' = Taken
    BY <1>7 DEF Taken, TypeOK, Unlock, Goto
  <2> QED BY <1>7, <2>1 DEF ClockInv, StoreInv, LastInv, SeenInv, FreshInv,
          PairInv, DistinctInv, TypeOK, Unlock, Goto, locals, history
<1>8. ASSUME NEW t \in Threads, Return(t) PROVE OrderInv'
  <2> DEFINE new == [call |-> <<t, calls[t]>>, gen |-> gen[t],
                     ts |-> thisTimestamp[t], seq |-> thisSeqNum[t],
                     id |-> Pack(thisTimestamp[t], worker[gen[t]], thisSeqNum[t])]
  <2>1. /\ t \in Taken /\ Taken' = Taken \ {t} /\ issued' = issued \cup {new}
        /\ \A u \in Taken' : gen'[u] = gen[u] /\ seen'[u] = seen[u]
        /\ UNCHANGED <<now, lastTimestamp, lastSeqNum, thisTimestamp, thisSeqNum>>
    BY <1>8 DEF Taken, TypeOK, Return, Goto, shared
  <2>2. new.gen = gen[t] /\ new.ts = thisTimestamp[t] /\ new.seq = thisSeqNum[t]
    OBVIOUS
  <2> HIDE DEF new
  <2>3. ClockInv'
    BY <2>1 DEF ClockInv
  <2>4. StoreInv'
    BY <1>8 DEF StoreInv, TypeOK, Return, Goto, shared
  <2>5. LastInv'
    BY <2>1, <2>2 DEF LastInv
  <2>6. SeenInv'
    BY <2>1 DEF SeenInv
  <2>7. FreshInv'
    BY <2>1, <2>2 DEF FreshInv, PairInv
  <2>8. PairInv'
    BY <2>1 DEF PairInv
  <2>9. DistinctInv'
    BY <2>1, <2>2 DEF DistinctInv, FreshInv
  <2> QED BY <2>3, <2>4, <2>5, <2>6, <2>7, <2>8, <2>9
<1>9. CASE Tick
  <2>1. ClockInv'
    BY <1>9 DEF ClockInv, TypeOK, Tick, shared, locals
  <2> QED BY <1>9, <2>1 DEF StoreInv, LastInv, SeenInv, FreshInv, PairInv,
          DistinctInv, Taken, Tick, shared, locals, history
<1>10. CASE SetBack
  BY <1>0, <1>10 DEF SetBack, TypeOK
<1> QED BY <1>1, <1>2, <1>3, <1>4, <1>5, <1>6, <1>7, <1>8, <1>9, <1>10
    DEF Next, Proceed

THEOREM InvHolds == Spec => []Inv
<1>1. Inv /\ [Next]_vars => Inv'
  BY TypeStep, ControlInv, StepOrder DEF Inv
<1> QED BY <1>1, InitInv, PTL DEF Spec

\* Two calls answer with one identifier only if their generators have the same
\* numbers and, for one generator, the clock was set back or wrapped.
THEOREM RepeatsExplainedHolds == Spec => []RepeatsExplained
<1>1. Inv => RepeatsExplained
  <2> SUFFICES ASSUME Inv, NEW a \in issued, NEW b \in issued,
                      a.call # b.call, a.id = b.id
               PROVE  /\ worker[a.gen] = worker[b.gen]
                      /\ a.gen = b.gen => setBacks > 0 \/ ~SameWindow(a, b)
    BY DEF RepeatsExplained
  <2>1. /\ a.gen \in Gens /\ b.gen \in Gens
        /\ a.ts \in Int /\ b.ts \in Int
        /\ a.seq \in 0..(SeqSize - 1) /\ b.seq \in 0..(SeqSize - 1)
        /\ worker[a.gen] \in Worker /\ worker[b.gen] \in Worker
        /\ setBacks \in Nat
    BY DEF Inv, TypeOK, Worker
  <2>2. Pack(a.ts, worker[a.gen], a.seq) = Pack(b.ts, worker[b.gen], b.seq)
    BY DEF Inv, IdInv
  <2>3. /\ Field(a.ts) = Field(b.ts)
        /\ worker[a.gen] = worker[b.gen] /\ a.seq = b.seq
    BY <2>1, <2>2, PackApart
  <2>4. ASSUME a.gen = b.gen, setBacks = 0, SameWindow(a, b) PROVE FALSE
    <3>1. a.ts # b.ts
      BY <2>3, <2>4 DEF Inv, OrderInv, DistinctInv
    <3> DEFINE x == a.ts - Start
               y == b.ts - Start
    <3>2. x \in Int /\ y \in Int /\ x - y < TimeSize /\ y - x < TimeSize
      BY <2>1, <2>4, ClockAssumption, SizesAssumption DEF SameWindow
    <3>3. x % TimeSize = y % TimeSize
      BY <2>3 DEF Field, Masked
    <3> HIDE DEF x, y
    <3>4. x = y
      BY <3>2, <3>3, WrapApart, SizesAssumption
    <3> QED BY <2>1, <3>1, <3>4, ClockAssumption DEF x, y
  <2> QED BY <2>1, <2>3, <2>4
<1> QED BY <1>1, InvHolds, PTL
-----------------------------------------------------------------------------
\* What the timestamp field can tell apart.
InWindow(x) == x >= Start /\ x < Start + TimeSize

WindowInv ==
  /\ \A a \in issued : InWindow(a.ts)
  /\ \A t \in Threads : pc[t] \in {"spin", "store", "unlock", "pack"} =>
                          InWindow(thisTimestamp[t])

\* A thread between two calls uses no generator.
IdleInv == \A t \in Threads : pc[t] = "idle" => gen[t] = NoGen

LEMMA IdleStep ==
  ASSUME TypeOK, IdleInv, [Next]_vars
  PROVE  IdleInv'
  BY DEF IdleInv, TypeOK, Next, Proceed, Begin, Lock, Stamp, TilNextMillis, Store,
     Unlock, Return, Tick, SetBack, Goto, vars, locals

\* Inside the window the field is the distance from the start, so that the order
\* of readings is the order of fields.
LEMMA FieldInWindow ==
  ASSUME NEW x \in Int, InWindow(x)
  PROVE  Field(x) = x - Start
  BY SizesAssumption, ClockAssumption DEF InWindow, Field, Masked

LEMMA WindowStep ==
  ASSUME TypeOK, WindowInv, ClockInWindow, [Next]_vars
  PROVE  WindowInv'
<1>1. CASE UNCHANGED vars
  BY <1>1 DEF WindowInv, InWindow, vars, locals, history
<1>2. ASSUME NEW t \in Threads, NEW g \in Gens, Begin(t, g) PROVE WindowInv'
  BY <1>2 DEF WindowInv, InWindow, TypeOK, Begin, Goto
<1>3. ASSUME NEW t \in Threads, Lock(t) PROVE WindowInv'
  BY <1>3 DEF WindowInv, InWindow, TypeOK, Lock, Goto, locals, history
<1>4. ASSUME NEW t \in Threads, Stamp(t) PROVE WindowInv'
  BY <1>4 DEF WindowInv, ClockInWindow, InWindow, TypeOK, Stamp, Goto, history
<1>5. ASSUME NEW t \in Threads, TilNextMillis(t) PROVE WindowInv'
  BY <1>5 DEF WindowInv, ClockInWindow, InWindow, TypeOK, TilNextMillis, Goto, history
<1>6. ASSUME NEW t \in Threads, Store(t) PROVE WindowInv'
  BY <1>6 DEF WindowInv, InWindow, TypeOK, Store, Goto, locals, history
<1>7. ASSUME NEW t \in Threads, Unlock(t) PROVE WindowInv'
  BY <1>7 DEF WindowInv, InWindow, TypeOK, Unlock, Goto, locals, history
<1>8. ASSUME NEW t \in Threads, Return(t) PROVE WindowInv'
  <2>1. InWindow(thisTimestamp[t])
    BY <1>8 DEF WindowInv, Return, Goto
  <2>2. \A a \in issued' : a \in issued \/ a.ts = thisTimestamp[t]
    BY <1>8 DEF Return
  <2> QED BY <1>8, <2>1, <2>2 DEF WindowInv, InWindow, TypeOK, Return, Goto
<1>9. CASE Tick
  BY <1>9 DEF WindowInv, InWindow, Tick, locals, history
<1>10. CASE SetBack
  BY <1>10 DEF WindowInv, InWindow, SetBack, locals, history
<1> QED BY <1>1, <1>2, <1>3, <1>4, <1>5, <1>6, <1>7, <1>8, <1>9, <1>10
    DEF Next, Proceed

\* The return of a call is the oracle's answer: the identifier is new, and above
\* every identifier of the generator that had been returned when the call began.
LEMMA ReturnAnswers ==
  ASSUME Inv, WindowInv, ProperWorkers, setBacks = 0,
         NEW t \in Threads, Return(t)
  PROVE  \E i \in 0..(TimeSize * NumSize * NumSize * SeqSize - 1) :
            Oracle!Answer(t, i)
<1> DEFINE x == thisTimestamp[t]
           r == thisSeqNum[t]
           g == gen[t]
           i == Pack(x, worker[g], r)
<1>1. /\ t \in Taken /\ g \in Gens /\ worker[g] \in Worker
      /\ x \in Int /\ r \in 0..(SeqSize - 1)
  BY DEF Inv, TypeOK, Taken, Worker, Return, Goto
<1>2. i \in 0..(TimeSize * NumSize * NumSize * SeqSize - 1)
  BY <1>1, PackRange
<1>3. InWindow(x)
  BY DEF WindowInv, Return, Goto
<1>4. ASSUME NEW a \in issued
      PROVE  /\ a.gen \in Gens /\ worker[a.gen] \in Worker
             /\ a.ts \in Int /\ a.seq \in 0..(SeqSize - 1)
             /\ a.id = Pack(a.ts, worker[a.gen], a.seq)
             /\ Field(a.ts) = a.ts - Start
  BY <1>4, FieldInWindow DEF Inv, TypeOK, IdInv, WindowInv, Worker
<1>5. Field(x) = x - Start
  BY <1>1, <1>3, FieldInWindow
<1>6. \A a \in issued : a.id # i
  <2> SUFFICES ASSUME NEW a \in issued, a.id = i PROVE FALSE
    OBVIOUS
  <2>1. Pack(a.ts, worker[a.gen], a.seq) = Pack(x, worker[g], r)
    BY <1>4
  <2>2. Field(a.ts) = Field(x) /\ worker[a.gen] = worker[g] /\ a.seq = r
    <3> HIDE DEF x, r, g
    <3> QED BY <1>1, <1>4, <2>1, PackApart
  <2>3. a.gen = g
    BY <1>1, <1>4, <2>2 DEF ProperWorkers
  <2>4. a.ts = x
    BY <1>1, <1>4, <1>5, <2>2, ClockAssumption
  <2> QED BY <1>1, <2>2, <2>3, <2>4 DEF Inv, OrderInv, FreshInv
<1>7. \A a \in seen[t] : a.gen = g => a.id < i
  <2> SUFFICES ASSUME NEW a \in seen[t], a.gen = g PROVE a.id < i
    OBVIOUS
  <2>1. a \in issued
    BY DEF Inv, TypeOK
  <2>2. Before(a.ts, a.seq, x, r)
    BY <1>1 DEF Inv, OrderInv, SeenInv
  <2>3. Field(a.ts) < Field(x) \/ (Field(a.ts) = Field(x) /\ a.seq < r)
    BY <1>1, <1>4, <1>5, <2>1, <2>2, ClockAssumption DEF Before
  <2>4. Pack(a.ts, worker[g], a.seq) < Pack(x, worker[g], r)
    <3> HIDE DEF x, r, g
    <3> QED BY <1>1, <1>4, <2>1, <2>3, PackOrdered
  <2> QED BY <1>4, <2>1, <2>4
<1> DEFINE new == [call |-> <<t, calls[t]>>, gen |-> g, ts |-> x, seq |-> r, id |-> i]
<1>8. /\ issued' = issued \cup {new}
      /\ gen' = [gen EXCEPT ![t] = NoGen]
      /\ seen' = [seen EXCEPT ![t] = {}]
  BY DEF Return
<1>9. new.gen = g /\ new.id = i
  OBVIOUS
<1> HIDE DEF i, new
<1>10. Project(issued)' = Project(issued) \cup {[gen |-> g, id |-> i]}
  BY <1>8, <1>9 DEF Project
<1>11. [u \in Threads |-> Project(seen[u])]'
       = [[u \in Threads |-> Project(seen[u])] EXCEPT ![t] = {}]
  BY <1>8 DEF Project, Inv, TypeOK
<1>12. /\ g # NoGen
       /\ \A a \in Project(issued) : a.id # i
       /\ \A a \in [u \in Threads |-> Project(seen[u])][t] :
             a.gen = g => a.id < i
  BY <1>1, <1>6, <1>7, NamesAssumption DEF Project
<1>13. Oracle!Answer(t, i)
  BY <1>8, <1>10, <1>11, <1>12 DEF Oracle!Answer
<1> QED BY <1>2, <1>13

\* The steps that neither begin nor end a call are invisible to the caller.
LEMMA InnerSteps ==
  ASSUME UNCHANGED <<issued, gen, seen>>
  PROVE  UNCHANGED Oracle!vars
  BY DEF Oracle!vars, Project

\* nextId() is a source of fresh identifiers that grow from call to call, as long
\* as generators are configured with different numbers and the clock is neither
\* set back nor outside the years the timestamp field covers.
THEOREM ImplementsOracle ==
  ProperSpec /\ [](ClockInWindow /\ setBacks = 0) => OracleSpec
<1>1. Init => WindowInv /\ IdleInv /\ Oracle!Init
  BY DEF Init, WindowInv, IdleInv, Oracle!Init, Project
<1>2. ProperWorkers /\ [Next]_vars => ProperWorkers'
  BY DEF ProperWorkers, Next, Proceed, Begin, Lock, Stamp, TilNextMillis, Store,
     Unlock, Return, Tick, SetBack, vars
<1>3. Inv => TypeOK
  BY DEF Inv
<1>4. ASSUME Inv, WindowInv, IdleInv, ProperWorkers, setBacks = 0, [Next]_vars
      PROVE  [Oracle!Next]_Oracle!vars
  <2>1. CASE UNCHANGED vars
    BY <2>1, InnerSteps DEF vars, locals, history
  <2>2. ASSUME NEW t \in Threads, NEW g \in Gens, Begin(t, g)
        PROVE  Oracle!Begin(t, g)
    <3>1. gen[t] = NoGen
      BY <1>4, <2>2 DEF Begin, Goto, IdleInv
    <3> QED BY <1>4, <2>2, <3>1 DEF Oracle!Begin, Project, Begin, Inv, TypeOK
  <2>3. ASSUME NEW t \in Threads, Proceed(t), ~Return(t)
        PROVE  UNCHANGED Oracle!vars
    BY <2>3, InnerSteps DEF Proceed, Lock, Stamp, TilNextMillis, Store, Unlock,
       locals, history
  <2>4. CASE Tick \/ SetBack
    BY <2>4, InnerSteps DEF Tick, SetBack, locals, history
  <2>5. ASSUME NEW t \in Threads, Return(t) PROVE Oracle!Next
    BY <1>4, <2>5, ReturnAnswers DEF Oracle!Next
  <2>6. Oracle!Next \/ UNCHANGED Oracle!vars
    BY <1>4, <2>1, <2>2, <2>3, <2>4, <2>5 DEF Next, Oracle!Next
  <2> QED BY <2>6
<1>5. ProperSpec => Spec
  BY DEF ProperSpec, ProperInit, Spec
<1> QED BY <1>1, <1>2, <1>3, <1>4, <1>5, InvHolds, WindowStep, IdleStep, PTL
    DEF ProperSpec, ProperInit, OracleSpec, Oracle!Spec
-----------------------------------------------------------------------------
\* The stream of main.  An identifier that has a count was looked up, and as long as it
\* has none, every worker that looked it up has still to put it.
Stages == {"queued", "get", "put", "done"}
Counts == /\ idOf \in [Futures -> Ids] /\ id2Count \in [Ids -> Nat] /\ counter \in Nat
          /\ stage \in [Futures -> Stages]
          /\ \A i \in Ids : id2Count[i] > 0 => i \in Answers(Looked)
          /\ \A f \in Futures : stage[f] = "done" => id2Count[idOf[f]] > 0
          /\ Cardinality(Running) <= Workers

\* Each of the futures looked up was counted or missed.  An identifier has as many misses
\* as workers found no count of it, which were all at work at once, at most Workers.
Lookers(i) == {f \in Looked : idOf[f] = i}
MissesOf(misses, i) == {p \in misses : p[1] = i}
Misses(misses) ==
  /\ counter + Cardinality(misses) = Cardinality(Looked)
  /\ \A i \in Ids : id2Count[i] = 0 =>
       Cardinality(MissesOf(misses, i)) = Cardinality(Lookers(i))
Missed == \E misses \in SUBSET (Answers(Looked) \X (1..Workers)) :
            Misses(misses)

\* The answers of a set of futures are no more than the futures.
LEMMA AnswersCounted ==
  ASSUME IsFiniteSet(Futures), NEW S \in SUBSET Futures
  PROVE  /\ IsFiniteSet(S) /\ Cardinality(S) \in Nat
         /\ IsFiniteSet(Answers(S)) /\ Cardinality(Answers(S)) \in Nat
<1>1. IsFiniteSet(S) /\ Cardinality(S) \in Nat
  BY FS_Subset, FS_CardinalityType
<1> DEFINE g == [f \in S |-> idOf[f]]
<1>2. g \in Surjection(S, Answers(S))
  BY DEF Surjection, Answers
<1>3. IsFiniteSet(Answers(S))
  BY <1>1, <1>2, FS_Surjection
<1> QED BY <1>1, <1>3, FS_CardinalityType

\* What the stream looked up, and runs, are futures.
LEMMA StreamSets ==
  /\ Looked \in SUBSET Futures /\ Looked' \in SUBSET Futures
  /\ Running \in SUBSET Futures /\ Running' \in SUBSET Futures
  BY DEF Looked, Running

\* One more future is looked up.
LEMMA LooksUp ==
  ASSUME IsFiniteSet(Futures), Counts, NEW f \in Futures, ComputeIfPresent(f)
  PROVE  /\ f \notin Looked /\ Looked' = Looked \cup {f}
         /\ Cardinality(Looked') = Cardinality(Looked) + 1
         /\ Answers(Looked)' = Answers(Looked) \cup {idOf[f]}
         /\ Running' = Running /\ f \in Running
<1>1. /\ stage[f] = "get" /\ stage' = [stage EXCEPT ![f] = "put"]
      /\ idOf' = idOf /\ stage \in [Futures -> Stages]
  BY DEF ComputeIfPresent, Counts
<1>2. f \notin Looked /\ Looked' = Looked \cup {f}
  BY <1>1 DEF Looked, Stages
<1>3. Cardinality(Looked') = Cardinality(Looked) + 1
  BY <1>2, AnswersCounted, StreamSets, FS_AddElement
<1>4. Answers(Looked)' = Answers(Looked) \cup {idOf[f]}
  BY <1>1, <1>2 DEF Answers
<1>5. Running' = Running /\ f \in Running
  BY <1>1 DEF Running, Stages
<1> QED BY <1>2, <1>3, <1>4, <1>5

\* Putting the key changes nothing of it.
LEMMA PutsKey ==
  ASSUME Counts, NEW f \in Futures, PutIfAbsent(f)
  PROVE  /\ Looked' = Looked /\ f \in Looked
         /\ Answers(Looked)' = Answers(Looked)
         /\ Running' = Running \ {f}
<1>1. /\ stage[f] = "put" /\ stage' = [stage EXCEPT ![f] = "done"]
      /\ idOf' = idOf /\ stage \in [Futures -> Stages]
  BY DEF PutIfAbsent, Counts
<1>2. Looked' = Looked /\ f \in Looked
  BY <1>1 DEF Looked, Stages
<1> QED BY <1>1, <1>2 DEF Answers, Running, Stages

\* Nor does taking a future, or nothing.
LEMMA TakesFuture ==
  ASSUME Counts, (\E f \in Futures : Take(f)) \/ UNCHANGED streamVars
  PROVE  /\ UNCHANGED <<idOf, id2Count, counter>>
         /\ Looked' = Looked
         /\ Answers(Looked)' = Answers(Looked)
<1>1. /\ UNCHANGED <<idOf, id2Count, counter>>
      /\ \/ UNCHANGED stage
         \/ \E f \in Futures : stage[f] = "queued" /\ stage' = [stage EXCEPT ![f] = "get"]
  BY DEF Take, streamVars
<1>2. Looked' = Looked
  BY <1>1 DEF Looked, Counts, Stages
<1> QED BY <1>1, <1>2 DEF Answers

\* It is so at first, and no step of a worker changes it.
LEMMA CountsAlways == StreamSpec => []Counts
<1> USE StreamAssumption
<1>1. StreamInit => Counts
  <2> SUFFICES ASSUME StreamInit PROVE Counts
    OBVIOUS
  <2>1. Running = {}
    BY DEF StreamInit, Running
  <2>2. Cardinality(Running) <= Workers
    BY <2>1, FS_EmptySet
  <2> QED BY <2>2 DEF StreamInit, Counts, Stages
<1>2. Counts /\ [StreamNext]_streamVars => Counts'
  <2> SUFFICES ASSUME Counts, [StreamNext]_streamVars
               PROVE  Counts'
    OBVIOUS
  <2>1. CASE UNCHANGED streamVars
    BY <2>1 DEF Counts, streamVars, Looked, Answers, Running
  <2>2. ASSUME NEW f \in Futures, Take(f)
        PROVE  Counts'
    <3>1. /\ stage[f] = "queued" /\ Cardinality(Running) < Workers
          /\ stage' = [stage EXCEPT ![f] = "get"] /\ UNCHANGED <<idOf, id2Count, counter>>
          /\ stage \in [Futures -> Stages]
      BY <2>2 DEF Take, Counts
    <3>2. Running' = Running \cup {f}
      BY <3>1 DEF Running, Stages
    <3>3. Cardinality(Running') <= Workers
      <4>1. IsFiniteSet(Running) /\ Cardinality(Running) \in Nat
        BY StreamSets, AnswersCounted
      <4>2. \/ Cardinality(Running') = Cardinality(Running) + 1
            \/ Cardinality(Running') = Cardinality(Running)
        BY <3>2, <4>1, FS_AddElement
      <4> QED BY <3>1, <4>1, <4>2
    <3>4. Answers(Looked)' = Answers(Looked)
      BY <2>2, TakesFuture
    <3>5. stage' \in [Futures -> Stages]
      BY <3>1 DEF Stages
    <3> QED BY <3>1, <3>3, <3>4, <3>5 DEF Counts, Stages
  <2>3. ASSUME NEW f \in Futures, ComputeIfPresent(f)
        PROVE  Counts'
    <3>1. /\ stage[f] = "get" /\ stage' = [stage EXCEPT ![f] = "put"] /\ UNCHANGED idOf
          /\ \/ /\ id2Count[idOf[f]] > 0 /\ counter' = counter + 1
                /\ id2Count' = [id2Count EXCEPT ![idOf[f]] = @ + 1]
             \/ UNCHANGED <<id2Count, counter>>
      BY <2>3 DEF ComputeIfPresent
    <3>2. /\ id2Count' \in [Ids -> Nat] /\ counter' \in Nat
          /\ \A i \in Ids : id2Count'[i] > 0 <=> id2Count[i] > 0
      BY <3>1 DEF Counts
    <3>3. stage' \in [Futures -> Stages]
      BY <3>1 DEF Counts, Stages
    <3> QED BY <2>3, <3>1, <3>2, <3>3, LooksUp DEF Counts
  <2>4. ASSUME NEW f \in Futures, PutIfAbsent(f)
        PROVE  Counts'
    <3>1. /\ stage[f] = "put" /\ stage' = [stage EXCEPT ![f] = "done"]
          /\ UNCHANGED <<idOf, counter>>
          /\ id2Count' = [id2Count EXCEPT ![idOf[f]] = IF @ = 0 THEN 1 ELSE @]
      BY <2>4 DEF PutIfAbsent
    <3>2. /\ id2Count' \in [Ids -> Nat] /\ id2Count'[idOf[f]] > 0
          /\ \A i \in Ids \ {idOf[f]} : id2Count'[i] = id2Count[i]
      BY <3>1 DEF Counts
    <3>3. stage' \in [Futures -> Stages]
      BY <3>1 DEF Counts, Stages
    <3>4. Cardinality(Running') <= Workers
      <4>1. /\ Cardinality(Running') <= Cardinality(Running)
            /\ Cardinality(Running') \in Nat /\ Cardinality(Running) \in Nat
        BY <2>4, PutsKey, StreamSets, AnswersCounted, FS_Subset
      <4> QED BY <4>1 DEF Counts
    <3>5. \A i \in Ids : id2Count'[i] > 0 => i \in Answers(Looked)'
      <4>1. idOf[f] \in Answers(Looked)
        BY <2>4, PutsKey DEF Answers
      <4> QED BY <2>4, <3>2, <4>1, PutsKey DEF Counts
    <3>6. \A h \in Futures : stage'[h] = "done" => id2Count'[idOf[h]] > 0
      BY <3>1, <3>2 DEF Counts
    <3> QED BY <3>1, <3>2, <3>3, <3>4, <3>5, <3>6 DEF Counts
  <2> QED BY <2>1, <2>2, <2>3, <2>4 DEF StreamNext
<1> QED BY <1>1, <1>2, PTL DEF StreamSpec

\* The total that main prints is never more than the repeated identifiers among the
\* futures it looked up, for any number of futures and of workers.
THEOREM NeverOverCountsHolds == StreamSpec => []NeverOverCounts
<1> USE StreamAssumption
<1>1. StreamInit => NeverOverCounts
  <2> SUFFICES ASSUME StreamInit PROVE NeverOverCounts
    OBVIOUS
  <2>1. Looked = {} /\ Answers(Looked) = {} /\ counter = 0
    BY DEF StreamInit, Looked, Answers
  <2> QED BY <2>1, FS_EmptySet DEF NeverOverCounts, Repeats
<1>2. Counts /\ NeverOverCounts /\ [StreamNext]_streamVars
        => NeverOverCounts'
  <2> SUFFICES ASSUME Counts, NeverOverCounts, [StreamNext]_streamVars
               PROVE  counter' <= Cardinality(Looked') -
                                    Cardinality(Answers(Looked)')
    BY DEF NeverOverCounts, Repeats, Answers
  <2>1. /\ counter \in Nat
        /\ counter <= Cardinality(Looked) -
                        Cardinality(Answers(Looked))
        /\ Cardinality(Looked) \in Nat
        /\ IsFiniteSet(Answers(Looked))
        /\ Cardinality(Answers(Looked)) \in Nat
    BY StreamSets, AnswersCounted
       DEF NeverOverCounts, Repeats, Counts
  <2>2. CASE (\E f \in Futures : Take(f)) \/ UNCHANGED streamVars
    BY <2>1, <2>2, TakesFuture
  <2>3. ASSUME NEW f \in Futures, ComputeIfPresent(f)
        PROVE  counter' <= Cardinality(Looked') -
                             Cardinality(Answers(Looked)')
    <3>1. /\ Cardinality(Looked') = Cardinality(Looked) + 1
          /\ Answers(Looked)' = Answers(Looked) \cup {idOf[f]}
      BY <2>3, LooksUp
    <3>2. Cardinality(Answers(Looked)') =
            IF idOf[f] \in Answers(Looked)
            THEN Cardinality(Answers(Looked))
            ELSE Cardinality(Answers(Looked)) + 1
      BY <2>1, <3>1, FS_AddElement
    <3>3. \/ counter' = counter + 1 /\ idOf[f] \in Answers(Looked)
          \/ counter' = counter
      BY <2>3 DEF ComputeIfPresent, Counts
    <3> QED BY <2>1, <3>1, <3>2, <3>3
  <2>4. ASSUME NEW f \in Futures, PutIfAbsent(f)
        PROVE  counter' <= Cardinality(Looked') -
                             Cardinality(Answers(Looked)')
    <3>1. counter' = counter
      BY <2>4 DEF PutIfAbsent
    <3> QED BY <2>1, <2>4, <3>1, PutsKey
  <2> QED BY <2>2, <2>3, <2>4 DEF StreamNext
<1> QED BY <1>1, <1>2, CountsAlways, PTL DEF StreamSpec

\* And there are finitely many misses.
LEMMA MissesFinite ==
  ASSUME IsFiniteSet(Futures), Workers \in Nat \ {0},
         NEW misses \in SUBSET (Answers(Looked) \X (1..Workers))
  PROVE  IsFiniteSet(misses) /\ Cardinality(misses) \in Nat
<1>1. IsFiniteSet(1..Workers) /\ IsFiniteSet(Answers(Looked))
  BY StreamSets, AnswersCounted, FS_Interval
<1>2. IsFiniteSet(Answers(Looked) \X (1..Workers))
  BY <1>1, FS_Product
<1> QED BY <1>2, FS_Subset, FS_CardinalityType

\* A misser more of an identifier that was not put is one of the workers at work, so there
\* is a miss left for it.
LEMMA MissLeft ==
  ASSUME IsFiniteSet(Futures), Workers \in Nat \ {0}, Counts, NEW f \in Futures,
         ComputeIfPresent(f), id2Count[idOf[f]] = 0,
         NEW misses \in SUBSET (Answers(Looked) \X (1..Workers)),
         Misses(misses)
  PROVE  \E k \in 1..Workers : <<idOf[f], k>> \notin misses
<1> SUFFICES ASSUME \A k \in 1..Workers : <<idOf[f], k>> \in misses
             PROVE  FALSE
  OBVIOUS
<1> DEFINE i == idOf[f]
<1>1. i \in Ids /\ Cardinality(MissesOf(misses, i)) = Cardinality(Lookers(i))
  BY DEF Counts, Misses
<1>2. /\ Lookers(i) \in SUBSET Futures /\ f \notin Lookers(i)
      /\ Lookers(i) \cup {f} \subseteq Running
  <2>1. f \notin Looked /\ f \in Running
    BY LooksUp
  <2>2. \A h \in Lookers(i) : h \in Futures /\ stage[h] = "put"
    BY DEF Lookers, Looked, Counts
  <2> QED BY <2>1, <2>2 DEF Lookers, Running
<1>3. Cardinality(Lookers(i)) + 1 <= Workers /\ Cardinality(Lookers(i)) \in Nat
  <2>1. IsFiniteSet(Lookers(i)) /\ Cardinality(Lookers(i)) \in Nat
    BY <1>2, AnswersCounted
  <2>2. Cardinality(Lookers(i) \cup {f}) = Cardinality(Lookers(i)) + 1
    BY <1>2, <2>1, FS_AddElement
  <2>3. IsFiniteSet(Running) /\ Cardinality(Running) \in Nat
    BY StreamSets, AnswersCounted
  <2>4. Cardinality(Lookers(i) \cup {f}) <= Cardinality(Running)
    BY <1>2, <2>3, FS_Subset
  <2>5. Cardinality(Running) <= Workers
    BY DEF Counts
  <2> QED BY <2>1, <2>2, <2>3, <2>4, <2>5
<1>4. IsFiniteSet(1..Workers) /\ Cardinality(1..Workers) = Workers
  BY FS_Interval
<1>5. Cardinality({i} \X (1..Workers)) = Workers
  <2>1. IsFiniteSet({i}) /\ Cardinality({i}) = 1
    BY FS_Singleton
  <2>2. Cardinality({i} \X (1..Workers)) = 1 * Workers
    BY <1>4, <2>1, FS_Product
  <2> QED BY <2>2
<1>6. {i} \X (1..Workers) \subseteq MissesOf(misses, i)
  BY DEF MissesOf
<1>7. IsFiniteSet(misses)
  BY MissesFinite
<1>8. IsFiniteSet(MissesOf(misses, i))
  BY <1>7, FS_Subset DEF MissesOf
<1>9. Workers <= Cardinality(MissesOf(misses, i))
  BY <1>5, <1>6, <1>8, FS_Subset
<1> QED BY <1>1, <1>3, <1>9

\* The future that is looked up is counted, or missed.
LEMMA LooksUpMissed ==
  ASSUME IsFiniteSet(Futures), Workers \in Nat \ {0}, Counts, Missed,
         NEW f \in Futures, ComputeIfPresent(f)
  PROVE  Missed'
<1>1. PICK misses \in SUBSET (Answers(Looked) \X (1..Workers)) :
        Misses(misses)
  BY DEF Missed
<1> DEFINE i == idOf[f]
<1>2. /\ counter \in Nat /\ i \in Ids /\ idOf' = idOf /\ id2Count \in [Ids -> Nat]
      /\ \/ /\ id2Count[i] > 0 /\ counter' = counter + 1
            /\ id2Count' = [id2Count EXCEPT ![i] = @ + 1]
         \/ id2Count[i] = 0 /\ UNCHANGED <<id2Count, counter>>
  BY DEF ComputeIfPresent, Counts
<1>3. /\ f \notin Looked /\ Looked' = Looked \cup {f}
      /\ Cardinality(Looked') = Cardinality(Looked) + 1
      /\ Answers(Looked)' = Answers(Looked) \cup {i}
  BY LooksUp
<1>4. IsFiniteSet(misses) /\ Cardinality(misses) \in Nat
  BY MissesFinite
<1>5. Cardinality(Looked) \in Nat
  BY StreamSets, AnswersCounted
<1>6. \A j \in Ids \ {i} : {h \in Looked' : idOf'[h] = j} = Lookers(j)
  BY <1>2, <1>3 DEF Lookers
<1>7. CASE id2Count[i] > 0
  <2>1. counter' + Cardinality(misses) = Cardinality(Looked')
    BY <1>1, <1>2, <1>3, <1>4, <1>5, <1>7 DEF Misses
  <2>2. ASSUME NEW j \in Ids, id2Count'[j] = 0
        PROVE  Cardinality(MissesOf(misses, j)) =
                 Cardinality({h \in Looked' : idOf'[h] = j})
    <3>1. j # i /\ id2Count[j] = 0
      BY <1>2, <1>7, <2>2
    <3> QED BY <1>1, <1>6, <3>1 DEF Misses
  <2>3. misses \in SUBSET (Answers(Looked)' \X (1..Workers))
    BY <1>3
  <2> QED BY <2>1, <2>2, <2>3 DEF Missed, Misses, MissesOf, Lookers
<1>8. CASE id2Count[i] = 0
  <2>1. PICK k \in 1..Workers : <<i, k>> \notin misses
    BY <1>1, <1>8, MissLeft
  <2> DEFINE more == misses \cup {<<i, k>>}
  <2>2. Cardinality(more) = Cardinality(misses) + 1
    BY <1>4, <2>1, FS_AddElement
  <2>3. more \in SUBSET (Answers(Looked)' \X (1..Workers))
    <3>1. misses \subseteq Answers(Looked)' \X (1..Workers)
      BY <1>3
    <3>2. <<i, k>> \in Answers(Looked)' \X (1..Workers)
      BY <1>3
    <3> QED BY <3>1, <3>2
  <2>4. counter' + Cardinality(more) = Cardinality(Looked')
    BY <1>1, <1>2, <1>3, <1>4, <1>5, <1>8, <2>2 DEF Misses
  <2>5. ASSUME NEW j \in Ids, id2Count'[j] = 0
        PROVE  Cardinality(MissesOf(more, j)) =
                 Cardinality({h \in Looked' : idOf'[h] = j})
    <3>1. id2Count[j] = 0
      BY <1>2, <1>8, <2>5
    <3>2. Cardinality(MissesOf(misses, j)) = Cardinality(Lookers(j))
      BY <1>1, <3>1 DEF Misses
    <3>3. CASE j # i
      <4>1. MissesOf(more, j) = MissesOf(misses, j)
        BY <3>3 DEF MissesOf
      <4> QED BY <1>6, <3>2, <3>3, <4>1
    <3>4. CASE j = i
      <4>1. MissesOf(more, i) = MissesOf(misses, i) \cup {<<i, k>>}
        BY DEF MissesOf
      <4>2. {h \in Looked' : idOf'[h] = i} = Lookers(i) \cup {f}
        BY <1>2, <1>3 DEF Lookers
      <4>3. <<i, k>> \notin MissesOf(misses, i) /\ f \notin Lookers(i)
        BY <1>3, <2>1 DEF MissesOf, Lookers
      <4>4. IsFiniteSet(MissesOf(misses, i)) /\ IsFiniteSet(Lookers(i))
        <5>1. MissesOf(misses, i) \in SUBSET misses
          BY DEF MissesOf
        <5>2. Lookers(i) \in SUBSET Futures
          BY StreamSets DEF Lookers
        <5> QED BY <1>4, <5>1, <5>2, AnswersCounted, FS_Subset
      <4>5. /\ Cardinality(MissesOf(more, i)) = Cardinality(MissesOf(misses, i)) + 1
            /\ Cardinality(Lookers(i) \cup {f}) = Cardinality(Lookers(i)) + 1
        BY <4>1, <4>3, <4>4, FS_AddElement
      <4> QED BY <3>2, <3>4, <4>2, <4>5
    <3> QED BY <3>3, <3>4
  <2> QED BY <2>3, <2>4, <2>5 DEF Missed, Misses, MissesOf, Lookers
<1> QED BY <1>2, <1>7, <1>8

\* And is never less than the repeated identifiers by more than every identifier's first
\* look of all workers but one.
THEOREM MissesBoundedHolds == StreamSpec => []MissesBounded
<1> USE StreamAssumption
<1>1. StreamInit => Missed
  <2> SUFFICES ASSUME StreamInit PROVE Missed
    OBVIOUS
  <2>1. Looked = {} /\ counter = 0
    BY DEF StreamInit, Looked
  <2>2. \A i : Lookers(i) = {} /\ MissesOf({}, i) = {}
    BY <2>1 DEF Lookers, MissesOf
  <2>3. Misses({})
    BY <2>1, <2>2, FS_EmptySet DEF Misses
  <2> QED BY <2>3 DEF Missed
<1>2. Counts /\ Missed /\ [StreamNext]_streamVars => Missed'
  <2> SUFFICES ASSUME Counts, Missed, [StreamNext]_streamVars
               PROVE  Missed'
    OBVIOUS
  <2>1. CASE (\E f \in Futures : Take(f)) \/ UNCHANGED streamVars
    <3>1. /\ UNCHANGED <<idOf, id2Count, counter>>
          /\ Looked' = Looked
          /\ Answers(Looked)' = Answers(Looked)
      BY <2>1, TakesFuture
    <3> QED BY <3>1 DEF Missed, Misses, Lookers, MissesOf
  <2>2. ASSUME NEW f \in Futures, ComputeIfPresent(f)
        PROVE  Missed'
    BY <2>2, LooksUpMissed
  <2>3. ASSUME NEW f \in Futures, PutIfAbsent(f)
        PROVE  Missed'
    <3>1. UNCHANGED <<idOf, counter>> /\ \A i \in Ids : id2Count'[i] = 0 => id2Count[i] = 0
      BY <2>3 DEF PutIfAbsent, Counts
    <3>2. /\ Looked' = Looked
          /\ Answers(Looked)' = Answers(Looked)
      BY <2>3, PutsKey
    <3> QED BY <3>1, <3>2 DEF Missed, Misses, Lookers, MissesOf
  <2> QED BY <2>1, <2>2, <2>3 DEF StreamNext
<1>3. Counts /\ Missed => MissesBounded
  <2> SUFFICES ASSUME Counts, Missed PROVE MissesBounded
    OBVIOUS
  <2>1. PICK misses \in SUBSET (Answers(Looked) \X (1..Workers)) :
          counter + Cardinality(misses) = Cardinality(Looked)
    BY DEF Missed, Misses
  <2> DEFINE answers == Cardinality(Answers(Looked))
  <2>2. /\ Cardinality(Looked) \in Nat
        /\ IsFiniteSet(Answers(Looked)) /\ answers \in Nat
    BY StreamSets, AnswersCounted
  <2>3. IsFiniteSet(1..Workers) /\ Cardinality(1..Workers) = Workers
    BY FS_Interval
  <2>4. Cardinality(misses) <= answers * Workers /\ Cardinality(misses) \in Nat
    <3>1. /\ IsFiniteSet(Answers(Looked) \X (1..Workers))
          /\ Cardinality(Answers(Looked) \X (1..Workers)) = answers * Workers
      BY <2>2, <2>3, FS_Product
    <3> QED BY <3>1, FS_Subset, FS_CardinalityType
  <2>5. answers * Workers = (Workers - 1) * answers + answers
    BY <2>2
  <2>6. answers * Workers \in Nat /\ (Workers - 1) * answers \in Nat
    BY <2>2
  <2>7. counter \in Nat
    BY DEF Counts
  <2>8. counter >= (Cardinality(Looked) - answers) - (Workers - 1) * answers
    <3> HIDE DEF answers
    <3> QED BY <2>1, <2>2, <2>4, <2>5, <2>6, <2>7
  <2> QED BY <2>8 DEF MissesBounded, Repeats
<1> QED BY <1>1, <1>2, <1>3, CountsAlways, PTL DEF StreamSpec
=============================================================================
