---------------------------- MODULE BlogCacheProofs ----------------------------
(***************************************************************************)
(* BlogCache for any number of requests, blogs, list keys and writes: its  *)
(* types, and what can make an entry of either cache differ from the       *)
(* table.                                                                  *)
(***************************************************************************)
EXTENDS BlogCache, TLAPS

Entries == Versions \cup {None, Absent}
Lists == Table \cup {NoTable}

\* A row is written with a version, or removed.
LEMMA RowType ==
  ASSUME TypeOK, NEW i \in Ids, NEW v \in Versions \cup {None},
         row' = [row EXCEPT ![i] = v]
  PROVE  row' \in Table
  BY DEF TypeOK, Table

LEMMA NextVersion ==
  ASSUME TypeOK, writes < MaxWrites
  PROVE  writes + 1 \in Versions /\ writes + 1 \in 0..MaxWrites
  BY BoundsAssumption DEF TypeOK, Versions

LEMMA TypeInit == Init => TypeOK
<1> SUFFICES ASSUME Init PROVE TypeOK
  OBVIOUS
<1>1. 1 \in Ids /\ 1 \in 1..(MaxId + 1) /\ 0 \in 0..MaxWrites
  BY BoundsAssumption DEF Ids
<1>2. (CHOOSE k \in ListKeys : TRUE) \in ListKeys
  BY ListKeysAssumption, Zenon
<1> QED BY <1>1, <1>2 DEF Init, TypeOK, Table

\* Queries, and the steps that only touch the caches.
LEMMA TypeReads ==
  ASSUME TypeOK, NEW r \in Requests,
         \/ \E i \in Ids : ListOne(r, i) \/ UpdateMisses(r, i)
         \/ \E k \in ListKeys : ListAll(r, k)
         \/ LoadOne(r) \/ LoadAll(r)
         \/ CreateThrows(r)
  PROVE  TypeOK'
<1> USE DEF TypeOK, Goto, db, caches, request
<1>1. CASE \E i \in Ids : ListOne(r, i) \/ UpdateMisses(r, i)
  BY <1>1 DEF ListOne, UpdateMisses
<1>2. CASE \E k \in ListKeys : ListAll(r, k)
  BY <1>2 DEF ListAll
<1>3. CASE LoadOne(r)
  BY <1>3 DEF LoadOne, Table
<1>4. CASE LoadAll(r)
  BY <1>4 DEF LoadAll
<1>5. CASE CreateThrows(r)
  BY <1>5, BoundsAssumption DEF CreateThrows, Ids
<1> QED BY <1>1, <1>2, <1>3, <1>4, <1>5

LEMMA TypeCaches ==
  ASSUME TypeOK, NEW r \in Requests,
         FillOne(r) \/ FillAll(r) \/ PutOne(r) \/ EvictAll(r) \/ EvictOne(r)
  PROVE  TypeOK'
<1> USE DEF TypeOK, Goto, db, request
<1>1. CASE FillOne(r) \/ PutOne(r)
  BY <1>1 DEF FillOne, PutOne, Put
<1>2. CASE FillAll(r)
  BY <1>2 DEF FillAll
<1>3. CASE EvictAll(r) \/ EvictOne(r)
  BY <1>3 DEF EvictAll, EvictOne
<1> QED BY <1>1, <1>2, <1>3

LEMMA TypeExpiry ==
  ASSUME TypeOK, (\E i \in Ids : ExpireOne(i)) \/ (\E k \in ListKeys : ExpireAll(k))
  PROVE  TypeOK'
  BY DEF TypeOK, ExpireOne, ExpireAll, db, request

LEMMA TypeWrites ==
  ASSUME TypeOK, NEW r \in Requests,
         Create(r) \/ \E i \in Ids : Update(r, i) \/ Remove(r, i)
  PROVE  TypeOK'
<1> USE DEF TypeOK, Goto, caches
<1>1. CASE Create(r)
  <2>1. writes + 1 \in Versions /\ writes + 1 \in 0..MaxWrites
    BY <1>1, NextVersion DEF Create, Write
  <2>2. row' \in Table
    BY <1>1, <2>1, RowType DEF Create, Write
  <2>3. nextId + 1 \in 1..(MaxId + 1)
    BY <1>1, BoundsAssumption DEF Create, Ids
  <2> QED BY <1>1, <2>1, <2>2, <2>3 DEF Create, Write
<1>2. ASSUME NEW i \in Ids, Update(r, i) PROVE TypeOK'
  <2>1. writes + 1 \in Versions /\ writes + 1 \in 0..MaxWrites
    BY <1>2, NextVersion DEF Update, Write
  <2>2. row' \in Table
    BY <1>2, <2>1, RowType DEF Update, Write
  <2> QED BY <1>2, <2>1, <2>2 DEF Update, Write
<1>3. ASSUME NEW i \in Ids, Remove(r, i) PROVE TypeOK'
  <2>1. row' \in Table
    BY <1>3, RowType DEF Remove
  <2> QED BY <1>3, <2>1 DEF Remove
<1> QED BY <1>1, <1>2, <1>3

LEMMA TypeStep ==
  ASSUME TypeOK, [Next]_vars
  PROVE  TypeOK'
<1>1. CASE UNCHANGED vars
  BY <1>1 DEF TypeOK, vars, db, caches, request
<1>2. CASE Next
  BY <1>2, TypeReads, TypeCaches, TypeExpiry, TypeWrites DEF Next, Ask, Proceed
<1> QED BY <1>1, <1>2

\* Table, caches and what requests carry stay in their types.
THEOREM TypeCorrect == Spec => []TypeOK
  BY TypeInit, TypeStep, PTL DEF Spec
-----------------------------------------------------------------------------
\* An identifier that has not been given out has no row.
Unused == \A i \in Ids : i >= nextId => row[i] = None

Inv == TypeOK /\ Unused /\ BlogStaleExplained /\ ListStaleExplained

\* Why an entry of blogdto may be what it is.
Explained(i) == one[i] \in {Absent, row[i]} \/ WriteOpen(i) \/ i \in late
                \/ (one[i] = None /\ row[i] # None)

LEMMA InvInit == Init => Inv
  BY TypeInit DEF Init, Inv, Unused, BlogStaleExplained, ListStaleExplained, Table

LEMMA UnusedStep ==
  ASSUME Inv, [Next]_vars
  PROVE  Unused'
<1> USE DEF Inv, Unused
<1>1. CASE UNCHANGED <<row, nextId>>
  BY <1>1
<1>2. ASSUME NEW r \in Requests, Create(r) \/ CreateThrows(r) PROVE Unused'
  <2>1. nextId \in Nat /\ nextId' = nextId + 1
    BY <1>2, BoundsAssumption DEF Create, CreateThrows, TypeOK
  <2>2. \A i \in Ids : i # nextId => row'[i] = row[i]
    BY <1>2 DEF Create, CreateThrows, Write, TypeOK, Table
  <2> QED BY <2>1, <2>2 DEF Ids
<1>3. ASSUME NEW r \in Requests, NEW i \in Ids, Update(r, i) \/ Remove(r, i)
      PROVE  Unused'
  BY <1>3 DEF Update, Remove, Write, TypeOK, Table
<1> QED BY <1>1, <1>2, <1>3
    DEF Next, Ask, Proceed, ListOne, LoadOne, FillOne, ListAll, LoadAll, FillAll,
        UpdateMisses, PutOne, EvictAll, EvictOne, ExpireOne, ExpireAll, vars, db

\* A request that was not about to correct an entry leaves the open writes open.
LEMMA WriteStaysOpen ==
  ASSUME TypeOK, NEW r \in Requests, NEW i \in Ids, WriteOpen(i),
         \/ pc[r] \notin {"putOne", "evictBoth", "evictOne"}
         \/ pc'[r] \in {"putOne", "evictBoth", "evictOne"} /\ id' = id
         \/ id[r] # i,
         \A q \in Requests \ {r} : pc'[q] = pc[q] /\ id'[q] = id[q]
  PROVE  WriteOpen(i)'
  BY DEF WriteOpen

\* What a put leaves of the explanations: the entry it makes is right or late.
LEMMA PutExplained ==
  ASSUME TypeOK, NEW r \in Requests, Put(r), UNCHANGED row,
         NEW i \in Ids, Explained(i), id[r] # i => (WriteOpen(i) => WriteOpen(i)')
  PROVE  Explained(i)'
<1>1. CASE id[r] = i
  BY <1>1 DEF Put, Explained, TypeOK
<1>2. CASE id[r] # i
  BY <1>2 DEF Put, Explained, TypeOK
<1> QED BY <1>1, <1>2

LEMMA BlogWrites ==
  ASSUME Inv, NEW r \in Requests, NEW i \in Ids,
         Create(r) \/ \E j \in Ids : Update(r, j) \/ Remove(r, j)
  PROVE  Explained(i)'
<1>0. TypeOK /\ Explained(i) /\ pc[r] = "idle" /\ one' = one /\ late' = late
  BY DEF Inv, BlogStaleExplained, Explained, Create, Update, Remove, Goto, caches
<1>1. CASE WriteOpen(i)
  <2>1. \A q \in Requests \ {r} : pc'[q] = pc[q] /\ id'[q] = id[q]
    BY <1>0 DEF TypeOK, Create, Update, Remove, Goto
  <2> QED BY <1>0, <1>1, <2>1, WriteStaysOpen DEF Explained
<1>2. CASE Create(r)
  <2>1. CASE i = nextId
    <3>1. row[i] = None
      BY <2>1 DEF Inv, Unused, TypeOK
    <3>2. row'[i] # None
      BY <1>0, <1>2, <2>1, BoundsAssumption DEF Create, Write, TypeOK, Table, None
    <3> QED BY <1>0, <1>1, <3>1, <3>2 DEF Explained
  <2>2. CASE i # nextId
    <3>1. row'[i] = row[i]
      BY <1>0, <1>2, <2>2 DEF Create, Write, TypeOK, Table
    <3> QED BY <1>0, <1>1, <3>1 DEF Explained
  <2> QED BY <2>1, <2>2
<1>3. ASSUME NEW j \in Ids, Update(r, j) \/ Remove(r, j) PROVE Explained(i)'
  <2>1. CASE i = j
    <3>1. pc'[r] \in {"putOne", "evictBoth"} /\ id'[r] = i
      BY <1>0, <1>3, <2>1 DEF Update, Remove, Goto, TypeOK
    <3>2. WriteOpen(i)'
      BY <3>1 DEF WriteOpen
    <3> QED BY <3>2 DEF Explained
  <2>2. CASE i # j
    <3>1. row'[i] = row[i]
      BY <1>0, <1>3, <2>2 DEF Update, Remove, Write, TypeOK, Table
    <3> QED BY <1>0, <1>1, <3>1 DEF Explained
  <2> QED BY <2>1, <2>2
<1> QED BY <1>2, <1>3

LEMMA BlogStep ==
  ASSUME Inv, [Next]_vars, NEW i \in Ids
  PROVE  Explained(i)'
<1>0. TypeOK /\ Explained(i)
  BY DEF Inv, BlogStaleExplained, Explained
<1>1. CASE UNCHANGED vars
  BY <1>0, <1>1 DEF Explained, WriteOpen, vars, db, caches, request
<1>2. ASSUME NEW r \in Requests,
             \/ \E j \in Ids : ListOne(r, j) \/ UpdateMisses(r, j)
             \/ \E k \in ListKeys : ListAll(r, k)
             \/ LoadOne(r) \/ LoadAll(r) \/ FillAll(r) \/ CreateThrows(r) \/ EvictAll(r)
      PROVE  Explained(i)'
  <2>1. UNCHANGED <<row, one, late>>
    BY <1>2 DEF ListOne, UpdateMisses, ListAll, LoadOne, LoadAll, FillAll, CreateThrows,
                EvictAll, db, caches
  <2>2. \A q \in Requests \ {r} : pc'[q] = pc[q] /\ id'[q] = id[q]
    BY <1>0, <1>2 DEF ListOne, UpdateMisses, ListAll, LoadOne, LoadAll, FillAll,
                      CreateThrows, EvictAll, Goto, request, TypeOK
  <2>3. \/ pc[r] \notin {"putOne", "evictBoth", "evictOne"}
        \/ pc'[r] = "evictOne" /\ id' = id
    BY <1>0, <1>2 DEF ListOne, UpdateMisses, ListAll, LoadOne, LoadAll, FillAll,
                      CreateThrows, EvictAll, Goto, request, TypeOK
  <2>4. WriteOpen(i) => WriteOpen(i)'
    BY <1>0, <2>2, <2>3, WriteStaysOpen
  <2> QED BY <1>0, <2>1, <2>4 DEF Explained
<1>3. ASSUME NEW r \in Requests, FillOne(r) \/ PutOne(r) PROVE Explained(i)'
  <2>1. Put(r) /\ UNCHANGED <<row, id>> /\ \A q \in Requests \ {r} : pc'[q] = pc[q]
    BY <1>0, <1>3 DEF FillOne, PutOne, Goto, db, request, TypeOK
  <2>2. id[r] # i => (WriteOpen(i) => WriteOpen(i)')
    BY <1>0, <2>1, WriteStaysOpen
  <2> QED BY <1>0, <2>1, <2>2, PutExplained
<1>4. ASSUME NEW r \in Requests, EvictOne(r) PROVE Explained(i)'
  <2>1. CASE id[r] = i
    BY <1>0, <1>4, <2>1 DEF EvictOne, Explained, TypeOK
  <2>2. CASE id[r] # i
    <3>1. UNCHANGED <<row, id>> /\ \A q \in Requests \ {r} : pc'[q] = pc[q]
      BY <1>0, <1>4 DEF EvictOne, Goto, db, request, TypeOK
    <3>2. WriteOpen(i) => WriteOpen(i)'
      BY <1>0, <2>2, <3>1, WriteStaysOpen
    <3>3. one'[i] = one[i] /\ (i \in late => i \in late')
      BY <1>0, <1>4, <2>2 DEF EvictOne, TypeOK
    <3> QED BY <1>0, <3>1, <3>2, <3>3 DEF Explained
  <2> QED BY <2>1, <2>2
<1>5. ASSUME NEW j \in Ids, ExpireOne(j) PROVE Explained(i)'
  BY <1>0, <1>5 DEF ExpireOne, Explained, WriteOpen, TypeOK, db, request
<1>6. ASSUME NEW k \in ListKeys, ExpireAll(k) PROVE Explained(i)'
  BY <1>0, <1>6 DEF ExpireAll, Explained, WriteOpen, db, request
<1> QED BY <1>1, <1>2, <1>3, <1>4, <1>5, <1>6, BlogWrites DEF Next, Ask, Proceed

\* The lists: every write opens an eviction of all of them.
LEMMA ListStep ==
  ASSUME TypeOK, ListStaleExplained, [Next]_vars
  PROVE  ListStaleExplained'
<1> USE DEF TypeOK, ListStaleExplained, ListOpen
<1>1. CASE UNCHANGED vars
  BY <1>1 DEF vars, db, caches
<1>2. ASSUME NEW r \in Requests,
             \/ \E j \in Ids : ListOne(r, j) \/ UpdateMisses(r, j)
             \/ \E k \in ListKeys : ListAll(r, k)
             \/ LoadOne(r) \/ LoadAll(r) \/ CreateThrows(r)
             \/ FillOne(r) \/ PutOne(r) \/ EvictOne(r)
      PROVE  ListStaleExplained'
  BY <1>2 DEF ListOne, UpdateMisses, ListAll, LoadOne, LoadAll, CreateThrows, FillOne,
              PutOne, Put, EvictOne, Goto, db, caches
<1>3. ASSUME NEW r \in Requests, FillAll(r) PROVE ListStaleExplained'
  BY <1>3 DEF FillAll, Goto, db
<1>4. ASSUME NEW r \in Requests,
             Create(r) \/ \E j \in Ids : Update(r, j) \/ Remove(r, j)
      PROVE  ListStaleExplained'
  BY <1>4 DEF Create, Update, Remove, Goto
<1>5. ASSUME NEW r \in Requests, EvictAll(r) PROVE ListStaleExplained'
  BY <1>5 DEF EvictAll
<1>6. ASSUME NEW k \in ListKeys, ExpireAll(k) PROVE ListStaleExplained'
  BY <1>6 DEF ExpireAll, db
<1>7. ASSUME NEW j \in Ids, ExpireOne(j) PROVE ListStaleExplained'
  BY <1>7 DEF ExpireOne, db
<1> QED BY <1>1, <1>2, <1>3, <1>4, <1>5, <1>6, <1>7 DEF Next, Ask, Proceed

LEMMA InvStep ==
  ASSUME Inv, [Next]_vars
  PROVE  Inv'
<1>1. BlogStaleExplained'
  BY BlogStep DEF BlogStaleExplained, Explained
<1> QED BY <1>1, TypeStep, UnusedStep, ListStep DEF Inv

THEOREM InvHolds == Spec => []Inv
<1>1. Inv /\ [Next]_vars => Inv'
  BY InvStep
<1> QED BY <1>1, InvInit, PTL DEF Spec

\* A cached blog is its row, or a correction is to come, a slow fill was late, or it is
\* the null of an identifier given out later.
THEOREM BlogStaleExplainedHolds == Spec => []BlogStaleExplained
<1>1. Inv => BlogStaleExplained
  BY DEF Inv
<1> QED BY <1>1, InvHolds, PTL

\* A cached list is the table, or an eviction is to come, or a slow fill was late.
THEOREM ListStaleExplainedHolds == Spec => []ListStaleExplained
<1>1. Inv => ListStaleExplained
  BY DEF Inv
<1> QED BY <1>1, InvHolds, PTL
=============================================================================
