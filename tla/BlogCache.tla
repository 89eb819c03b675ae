----------------------------- MODULE BlogCache ------------------------------
(***************************************************************************)
(* svr2/BlogService.java: a table of blogs behind two caches, "blogdto" of *)
(* single blogs and "blogdto_all" of lists.  The cache advice runs outside *)
(* the transaction advice, so a request first commits and then puts and    *)
(* evicts, one cache operation after the other, while other requests run.  *)
(*                                                                         *)
(* A blog's content is the number of the write that made it.  create puts  *)
(* its result under the key #result.blogId, which is a String, and list(id)*)
(* looks under a Long: nobody finds that entry and it is left out.         *)
(***************************************************************************)
EXTENDS Integers

CONSTANTS Requests,     \* HTTP threads
          ListKeys,     \* keys of blogdto_all: no argument, or page arguments
          MaxId,        \* bound: identifiers the table gives out
          MaxWrites     \* bound: writes that are committed

ASSUME BoundsAssumption == MaxId \in Nat \ {0} /\ MaxWrites \in Nat
ASSUME ListKeysAssumption == ListKeys # {}

None == 0               \* no row; also the null that a cache remembers
Absent == -1            \* no cache entry

Ids == 1..MaxId
Versions == 1..MaxWrites
Table == [Ids -> Versions \cup {None}]
NoTable == [i \in {} |-> None]   \* no cached list

VARIABLES row,          \* the committed table
          nextId,       \* AUTO_INCREMENT
          writes,       \* writes committed so far
          one,          \* cache blogdto
          all,          \* cache blogdto_all
          pc, id, key, val, snapshot,  \* each request: where it is, what it carries
          late,         \* history: ids whose entry was outdated when it was put
          lateAll       \* history: the same for lists

db == <<row, nextId, writes>>
caches == <<one, all, late, lateAll>>
request == <<id, key, val, snapshot>>
vars == <<db, caches, pc, request>>

Init == /\ row = [i \in Ids |-> None]
        /\ nextId = 1
        /\ writes = 0
        /\ one = [i \in Ids |-> Absent]
        /\ all = [k \in ListKeys |-> NoTable]
        /\ pc = [r \in Requests |-> "idle"]
        /\ id = [r \in Requests |-> 1]
        /\ key = [r \in Requests |-> CHOOSE k \in ListKeys : TRUE]
        /\ val = [r \in Requests |-> None]
        /\ snapshot = [r \in Requests |-> NoTable]
        /\ late = {}
        /\ lateAll = {}

Goto(r, from, to) == pc[r] = from /\ pc' = [pc EXCEPT ![r] = to]
-----------------------------------------------------------------------------
\* list(id): a hit answers from the cache and changes nothing; this is a miss.
ListOne(r, i) == /\ Goto(r, "idle", "loadOne")
                 /\ one[i] = Absent
                 /\ id' = [id EXCEPT ![r] = i]
                 /\ UNCHANGED <<db, caches, key, val, snapshot>>

LoadOne(r) == /\ Goto(r, "loadOne", "fillOne")
              /\ val' = [val EXCEPT ![r] = row[id[r]]]
              /\ UNCHANGED <<db, caches, id, key, snapshot>>

\* An entry is put; it is late if the row has changed since it was read.
Put(r) == /\ one' = [one EXCEPT ![id[r]] = val[r]]
          /\ late' = IF val[r] = row[id[r]] THEN late \ {id[r]} ELSE late \cup {id[r]}
          /\ UNCHANGED <<all, lateAll>>

\* The null of a row that is not there is cached as well.
FillOne(r) == /\ Goto(r, "fillOne", "idle")
              /\ Put(r)
              /\ UNCHANGED <<db, request>>

\* list() and list(id, pageNo, pageSize).
ListAll(r, k) == /\ Goto(r, "idle", "loadAll")
                 /\ all[k] = NoTable
                 /\ key' = [key EXCEPT ![r] = k]
                 /\ UNCHANGED <<db, caches, id, val, snapshot>>

LoadAll(r) == /\ Goto(r, "loadAll", "fillAll")
              /\ snapshot' = [snapshot EXCEPT ![r] = row]
              /\ UNCHANGED <<db, caches, id, key, val>>

FillAll(r) == /\ Goto(r, "fillAll", "idle")
              /\ all' = [all EXCEPT ![key[r]] = snapshot[r]]
              /\ lateAll' = IF snapshot[r] = row THEN lateAll \ {key[r]}
                                                 ELSE lateAll \cup {key[r]}
              /\ snapshot' = [snapshot EXCEPT ![r] = NoTable]
              /\ UNCHANGED <<db, one, late, id, key, val>>
-----------------------------------------------------------------------------
Write(i) == /\ writes < MaxWrites
            /\ writes' = writes + 1
            /\ row' = [row EXCEPT ![i] = writes + 1]

Create(r) == /\ Goto(r, "idle", "evictAll")
             /\ nextId \in Ids
             /\ Write(nextId)
             /\ nextId' = nextId + 1
             /\ id' = [id EXCEPT ![r] = nextId]
             /\ UNCHANGED <<caches, key, val, snapshot>>

\* A content with "throw" in it: the insert is rolled back, its number is used up,
\* and nothing is put or evicted.
CreateThrows(r) == /\ pc[r] = "idle"
                   /\ nextId \in Ids
                   /\ nextId' = nextId + 1
                   /\ UNCHANGED <<row, writes, caches, pc, request>>

\* Mutant: the result of update is not put.
UpdateKeepsEntry(r, i) == /\ Goto(r, "idle", "evictAll")
                          /\ row[i] # None
                          /\ Write(i)
                          /\ id' = [id EXCEPT ![r] = i]
                          /\ val' = [val EXCEPT ![r] = writes + 1]
                          /\ UNCHANGED <<nextId, caches, key, snapshot>>

\* The row is locked from the update to the commit: what update reads back is
\* what it wrote.
Update(r, i) == /\ Goto(r, "idle", "putOne")
                /\ row[i] # None
                /\ Write(i)
                /\ id' = [id EXCEPT ![r] = i]
                /\ val' = [val EXCEPT ![r] = writes + 1]
                /\ UNCHANGED <<nextId, caches, key, snapshot>>

\* Mutant: the null of an update that misses is taken for an entry to leave out.
UpdateMissesAbsent(r, i) == /\ Goto(r, "idle", "putOne")
                            /\ row[i] = None
                            /\ id' = [id EXCEPT ![r] = i]
                            /\ val' = [val EXCEPT ![r] = Absent]
                            /\ UNCHANGED <<db, caches, key, snapshot>>

\* No row is affected: update answers, and caches, null.
UpdateMisses(r, i) == /\ Goto(r, "idle", "putOne")
                      /\ row[i] = None
                      /\ id' = [id EXCEPT ![r] = i]
                      /\ val' = [val EXCEPT ![r] = None]
                      /\ UNCHANGED <<db, caches, key, snapshot>>

Remove(r, i) == /\ Goto(r, "idle", "evictBoth")
                /\ row' = [row EXCEPT ![i] = None]
                /\ id' = [id EXCEPT ![r] = i]
                /\ UNCHANGED <<nextId, writes, caches, key, val, snapshot>>

\* Puts come before evictions.
PutOne(r) == /\ Goto(r, "putOne", "evictAll")
             /\ Put(r)
             /\ UNCHANGED <<db, request>>

\* Mutant: allEntries = true is left out, which evicts the key of the arguments.
EvictNothing(r) == /\ \/ Goto(r, "evictAll", "idle")
                      \/ Goto(r, "evictBoth", "evictOne")
                   /\ UNCHANGED <<db, caches, request>>

EvictAll(r) == /\ \/ Goto(r, "evictAll", "idle")
                  \/ Goto(r, "evictBoth", "evictOne")
               /\ all' = [k \in ListKeys |-> NoTable]
               /\ lateAll' = {}
               /\ UNCHANGED <<db, one, late, request>>

EvictOne(r) == /\ Goto(r, "evictOne", "idle")
               /\ one' = [one EXCEPT ![id[r]] = Absent]
               /\ late' = late \ {id[r]}
               /\ UNCHANGED <<db, all, lateAll, request>>

\* timeToLiveSeconds, or the least recently used of too many entries.
ExpireOne(i) == /\ one[i] # Absent
                /\ one' = [one EXCEPT ![i] = Absent]
                /\ late' = late \ {i}
                /\ UNCHANGED <<db, all, lateAll, pc, request>>

\* Mutant: lists are cached with eternal="true".
ExpireNever(k) == /\ all[k] # NoTable
                  /\ k \notin ListKeys
                  /\ UNCHANGED vars

ExpireAll(k) == /\ all[k] # NoTable
                /\ all' = [all EXCEPT ![k] = NoTable]
                /\ lateAll' = lateAll \ {k}
                /\ UNCHANGED <<db, one, late, pc, request>>
-----------------------------------------------------------------------------
Proceed(r) == \/ LoadOne(r) \/ FillOne(r)
              \/ LoadAll(r) \/ FillAll(r)
              \/ PutOne(r) \/ EvictAll(r) \/ EvictOne(r)

Ask(r) == \/ \E i \in Ids : \/ ListOne(r, i)
                            \/ Update(r, i) \/ UpdateMisses(r, i)
                            \/ Remove(r, i)
          \/ \E k \in ListKeys : ListAll(r, k)
          \/ Create(r) \/ CreateThrows(r)

Next == \/ \E r \in Requests : Ask(r) \/ Proceed(r)
        \/ \E i \in Ids : ExpireOne(i)
        \/ \E k \in ListKeys : ExpireAll(k)

Spec == Init /\ [][Next]_vars

\* A request that has begun goes on, and entries do not outlive their 300 seconds.
FairSpec == /\ Spec
            /\ \A r \in Requests : WF_vars(Proceed(r))
            /\ \A i \in Ids : WF_vars(ExpireOne(i))
            /\ \A k \in ListKeys : WF_vars(ExpireAll(k))
-----------------------------------------------------------------------------
TypeOK == /\ row \in Table
          /\ nextId \in 1..(MaxId + 1)
          /\ writes \in 0..MaxWrites
          /\ one \in [Ids -> Versions \cup {None, Absent}]
          /\ all \in [ListKeys -> Table \cup {NoTable}]
          /\ pc \in [Requests -> {"idle", "loadOne", "fillOne", "loadAll", "fillAll",
                                  "putOne", "evictAll", "evictBoth", "evictOne"}]
          /\ id \in [Requests -> Ids]
          /\ key \in [Requests -> ListKeys]
          /\ val \in [Requests -> Versions \cup {None}]
          /\ snapshot \in [Requests -> Table \cup {NoTable}]
          /\ late \subseteq Ids
          /\ lateAll \subseteq ListKeys

\* A write whose request has not got to its cache operations yet.
WriteOpen(i) == \E r \in Requests : /\ pc[r] \in {"putOne", "evictBoth", "evictOne"}
                                    /\ id[r] = i
ListOpen == \E r \in Requests : pc[r] \in {"putOne", "evictAll", "evictBoth"}

\* Every committed write is followed by the cache operation that corrects the
\* entry.  A cached blog differs from its row only while that operation is still
\* to come, or because a slower request put what it had read before, or because
\* it is the null of an identifier that a later create gave out: create evicts no
\* single entry.
BlogStaleExplained ==
  \A i \in Ids : one[i] \in {Absent, row[i]} \/ WriteOpen(i) \/ i \in late
                 \/ (one[i] = None /\ row[i] # None)

\* The same for the cached lists.
ListStaleExplained ==
  \A k \in ListKeys : all[k] \in {NoTable, row} \/ ListOpen \/ k \in lateAll

\* An outdated entry is served for a time to live at most: the table changes a
\* bounded number of times here, and after the last change the caches come to agree
\* with it and go on agreeing, whatever was on its way to them.
InTheEndFresh ==
  <>[](/\ \A i \in Ids : one[i] \in {Absent, row[i]}
       /\ \A k \in ListKeys : all[k] \in {NoTable, row})
=============================================================================
