---------------------- MODULE InstanceTypeMatrixProofs ----------------------
(***************************************************************************)
(* InstanceTypeMatrix for any number of threads, any interval, and files   *)
(* written and failing any number of times: its types, the one loader, and *)
(* what a table that is not the file's can come from.                      *)
(***************************************************************************)
EXTENDS InstanceTypeMatrix, TLAPS

LEMMA TypeInit == Init => TypeOK
<1> SUFFICES ASSUME Init PROVE TypeOK
  OBVIOUS
<1>1. 0 \in 0..MaxWrites /\ 0 \in 0..MaxFailures
  BY BoundsAssumption
<1>2. /\ None \in published /\ published = {None}
      /\ pc = [t \in Threads |-> "idle"]
      /\ lock = NoThread /\ lost \in BOOLEAN
  BY DEF Init
<1> QED BY <1>1, <1>2 DEF Init, TypeOK

LEMMA TypeStep ==
  ASSUME TypeOK, [Next]_vars
  PROVE  TypeOK'
<1> USE BoundsAssumption DEF TypeOK, None
<1>1. CASE UNCHANGED vars
  BY <1>1 DEF vars, file, table
<1>2. ASSUME NEW t \in Threads, Begin(t) \/ Skip(t) \/ Enter(t) \/ TryLockFails(t)
                                \/ Inner(t) \/ CheckFile(t)
      PROVE  TypeOK'
  BY <1>2 DEF Begin, Skip, Enter, TryLockFails, Inner, CheckFile, Goto, file, table
<1>3a. ASSUME NEW t \in Threads, CannotRead(t)  PROVE TypeOK'
  BY <1>3a DEF CannotRead, Goto, file, table
<1>3b. ASSUME NEW t \in Threads, ParseFails(t) PROVE TypeOK'
  BY <1>3b DEF ParseFails, Goto, file, table
<1>4. ASSUME NEW t \in Threads, TryLock(t) PROVE TypeOK'
  BY <1>4 DEF TryLock, Goto, file, table
<1>5. ASSUME NEW t \in Threads, Parse(t) PROVE TypeOK'
  BY <1>5 DEF Parse, Goto, file, table
<1>6. ASSUME NEW t \in Threads, Publish(t) PROVE TypeOK'
  <2>1. /\ data' = parsed[t] /\ published' = published \cup {parsed[t]}
        /\ pc' = [pc EXCEPT ![t] = "stamp"]
        /\ view' = [view EXCEPT ![t] = parsed[t]]
        /\ age' = 0
        /\ UNCHANGED <<content, state, mtime, xmlLastModified, lock, parsed, failures, lost>>
    BY <1>6 DEF Publish, Goto, file
  <2>2. data' \in published' /\ published' \subseteq (0..MaxWrites) \cup {None}
    BY <2>1
  <2>3. view' \in [Threads -> published']
    BY <2>1
  <2> QED BY <2>1, <2>2, <2>3
<1>7a. ASSUME NEW t \in Threads, Stamp(t) PROVE TypeOK'
  BY <1>7a DEF Stamp, Goto, file, table
<1>7b. ASSUME NEW t \in Threads, Unlock(t) PROVE TypeOK'
  BY <1>7b DEF Unlock, Goto, file, table
<1>7c. ASSUME NEW t \in Threads, Read(t) PROVE TypeOK'
  BY <1>7c DEF Read, Goto, file, table
<1>8a. CASE Truncate \/ WriteFails
  <2>1. /\ mtime' \in Nat /\ xmlLastModified' \in (0..mtime') \cup {None}
        /\ state' \in {"whole", "open", "torn"} /\ (state' = "open" => content' < MaxWrites)
        /\ failures' \in 0..MaxFailures
    BY <1>8a DEF Truncate, WriteFails, Touch
  <2>2. UNCHANGED <<content, data, published, age, lock, pc, parsed, view, lost>>
    BY <1>8a DEF Truncate, WriteFails, table
  <2> QED BY <2>1, <2>2
<1>8b. CASE Complete
  <2>1. lost' \in BOOLEAN
    BY <1>8b, Zenon DEF Complete
  <2>2. content' \in 0..MaxWrites /\ state' = "whole"
    BY <1>8b DEF Complete
  <2>3. mtime' \in Nat /\ xmlLastModified' \in (0..mtime') \cup {None}
    BY <1>8b DEF Complete, Touch
  <2>4. UNCHANGED <<data, published, age, lock, pc, parsed, view, failures>>
    BY <1>8b DEF Complete, table
  <2> QED BY <2>1, <2>2, <2>3, <2>4
<1>9. CASE Tick
  BY <1>9 DEF Tick, file, table
<1> QED BY <1>1, <1>2, <1>3a, <1>3b, <1>4, <1>5, <1>6, <1>7a, <1>7b, <1>7c, <1>8a, <1>8b, <1>9 DEF Next, Proceed

\* Types of the specification, for all constants.
THEOREM TypeCorrect == Spec => []TypeOK
<1> QED BY TypeInit, TypeStep, PTL DEF Spec
-----------------------------------------------------------------------------
(***************************************************************************)
(* The inductive invariant.  The lock is held by the one thread between    *)
(* tryLock and unlock; what it parsed was the file then, and is newer than *)
(* the table it replaces; no time is remembered that is not past.          *)
(***************************************************************************)
Locked == {"inner", "file", "parse", "publish", "stamp", "unlock", "throw"}

OneLoader == \A t \in Threads : pc[t] \in Locked => lock = t

ParsedFile ==
  \A t \in Threads : /\ parsed[t] <= content
                     /\ Loading(t) => parsed[t] = content \/ lost
                     /\ pc[t] = "publish" => parsed[t] >= data
                     /\ pc[t] = "stamp" => parsed[t] = data

NothingAhead == data <= content /\ xmlLastModified <= mtime

Inv == TypeOK /\ OneLoader /\ LoaderIsDue /\ ParsedFile /\ NothingAhead /\ StaleExplained

LEMMA InvInit == Init => Inv
<1> SUFFICES ASSUME Init PROVE Inv
  OBVIOUS
<1>1. TypeOK
  BY TypeInit
<1>2. \A t \in Threads : pc[t] = "idle" /\ parsed[t] = -1
  BY DEF Init, None
<1>3. OneLoader /\ LoaderIsDue
  BY <1>2 DEF OneLoader, LoaderIsDue, Locked
<1>4. ParsedFile /\ NothingAhead
  BY <1>2 DEF Init, ParsedFile, NothingAhead, Loading, None
<1>5. StaleExplained
  BY DEF Init, StaleExplained, None
<1> QED BY <1>1, <1>3, <1>4, <1>5 DEF Inv

\* Two threads are not both inside the lock.
LEMMA Alone ==
  ASSUME OneLoader, NEW t \in Threads, NEW u \in Threads,
         pc[t] \in Locked, pc[u] \in Locked
  PROVE  t = u
BY DEF OneLoader

\* Steps of one thread that move it on and change nothing that it shares.
Moves(t, from, to) == /\ pc[t] = from /\ pc' = [pc EXCEPT ![t] = to]
                      /\ UNCHANGED <<content, mtime, data, age, xmlLastModified, parsed, lost>>

LEMMA MoveStep ==
  ASSUME Inv, TypeOK', NEW t \in Threads, NEW from, NEW to, Moves(t, from, to),
         OneLoader',
         to \notin {"publish", "stamp"}, from \notin {"publish", "stamp"},
         to \in {"file", "parse"} => Due
  PROVE  Inv'
<1> USE DEF Moves, TypeOK
<1>1. \A u \in Threads : u # t => pc'[u] = pc[u]
  BY DEF Inv
<1>2. pc'[t] = to
  BY DEF Inv
<1>3. LoaderIsDue'
  BY <1>1, <1>2 DEF Inv, LoaderIsDue, Due
<1>4. ParsedFile'
  BY <1>1, <1>2 DEF Inv, ParsedFile, Loading
<1>5. NothingAhead'
  BY DEF Inv, NothingAhead
<1>6. StaleExplained'
  <2>1. \A u \in Threads : Loading(u) <=> Loading(u)'
    BY <1>1, <1>2 DEF Loading
  <2> QED BY <2>1 DEF Inv, StaleExplained
<1> QED BY <1>3, <1>4, <1>5, <1>6 DEF Inv

LEMMA InvStep ==
  ASSUME Inv, [Next]_vars
  PROVE  Inv'
<1>0. TypeOK /\ TypeOK' /\ OneLoader /\ LoaderIsDue /\ ParsedFile /\ NothingAhead
  BY TypeStep DEF Inv
<1>1. CASE UNCHANGED vars
  BY <1>0, <1>1 DEF vars, file, table, Inv, OneLoader, LoaderIsDue, ParsedFile,
                    NothingAhead, StaleExplained, Loading, Due
<1>2. ASSUME NEW t \in Threads,
             \/ Begin(t) \/ Skip(t) \/ Enter(t) \/ TryLockFails(t) \/ Read(t)
             \/ Inner(t) \/ CheckFile(t) \/ CannotRead(t) \/ ParseFails(t)
             \/ TryLock(t) \/ Unlock(t)
      PROVE  Inv'
  <2>1. PICK from, to :
          /\ Moves(t, from, to)
          /\ to \notin {"publish", "stamp"} /\ from \notin {"publish", "stamp"}
          /\ to = "file" => from = "inner" /\ Due
          /\ to = "parse" => from = "file"
          /\ to \in Locked => (from \in Locked /\ lock' = lock)
                              \/ (lock = NoThread /\ lock' = t)
          /\ to \notin Locked => lock' = lock \/ (lock' = NoThread /\ from \in Locked)
    BY <1>2 DEF Begin, Skip, Enter, TryLockFails, Read, Inner, CheckFile, CannotRead,
                ParseFails, TryLock, Unlock, Goto, Moves, file, table, Locked
  <2>2. \A u \in Threads : u # t => pc'[u] = pc[u]
    BY <1>0, <2>1 DEF Moves, TypeOK
  <2>3. pc'[t] = to /\ pc[t] = from
    BY <1>0, <2>1 DEF Moves, TypeOK
  <2>4. OneLoader'
    BY <1>0, <2>1, <2>2, <2>3, NoThreadAssumption DEF OneLoader
  <2>5. to \in {"file", "parse"} => Due
    BY <1>0, <2>1, <2>3 DEF LoaderIsDue
  <2> QED BY <1>0, <2>1, <2>4, <2>5, MoveStep
<1>3. ASSUME NEW t \in Threads, Parse(t)
      PROVE  Inv'
  <2>1. /\ pc[t] = "parse" /\ pc' = [pc EXCEPT ![t] = "publish"]
        /\ parsed' = [parsed EXCEPT ![t] = content]
        /\ lost' = FALSE
        /\ UNCHANGED <<content, mtime, data, age, xmlLastModified, lock>>
    BY <1>3 DEF Parse, Goto, file, table
  <2>2. \A u \in Threads : u # t => pc[u] \notin Locked /\ pc'[u] = pc[u]
                                    /\ parsed'[u] = parsed[u]
    BY <1>0, <2>1, Alone DEF TypeOK, Locked
  <2>3. pc'[t] = "publish" /\ parsed'[t] = content /\ lock = t
    BY <1>0, <2>1 DEF TypeOK, OneLoader, Locked
  <2>4. OneLoader' /\ LoaderIsDue' /\ NothingAhead'
    BY <1>0, <2>1, <2>2, <2>3 DEF OneLoader, LoaderIsDue, NothingAhead, Due
  <2>5. ParsedFile'
    BY <1>0, <2>1, <2>2, <2>3 DEF ParsedFile, NothingAhead, Loading, Locked, TypeOK, None
  <2>6. StaleExplained'
    BY <2>3 DEF StaleExplained, Loading
  <2> QED BY <1>0, <2>4, <2>5, <2>6 DEF Inv
<1>4. ASSUME NEW t \in Threads, Publish(t)
      PROVE  Inv'
  <2>1. /\ pc[t] = "publish" /\ pc' = [pc EXCEPT ![t] = "stamp"]
        /\ data' = parsed[t]
        /\ UNCHANGED <<content, mtime, parsed, xmlLastModified, lock, lost>>
    BY <1>4 DEF Publish, Goto, file
  <2>2. \A u \in Threads : u # t => pc[u] \notin Locked /\ pc'[u] = pc[u]
    BY <1>0, <2>1, Alone DEF TypeOK, Locked
  <2>3. pc'[t] = "stamp" /\ lock = t
    BY <1>0, <2>1 DEF TypeOK, OneLoader, Locked
  <2>4. OneLoader' /\ LoaderIsDue'
    BY <2>1, <2>2, <2>3 DEF OneLoader, LoaderIsDue, Locked
  <2>5. ParsedFile' /\ NothingAhead'
    BY <1>0, <2>1, <2>2, <2>3 DEF ParsedFile, NothingAhead, Loading, Locked
  <2>6. StaleExplained'
    BY <2>3 DEF StaleExplained, Loading
  <2> QED BY <1>0, <2>4, <2>5, <2>6 DEF Inv
<1>5. ASSUME NEW t \in Threads, Stamp(t)
      PROVE  Inv'
  <2>1. /\ pc[t] = "stamp" /\ pc' = [pc EXCEPT ![t] = "unlock"]
        /\ xmlLastModified' = mtime
        /\ UNCHANGED <<content, mtime, data, age, parsed, lock, lost>>
    BY <1>5 DEF Stamp, Goto, file, table
  <2>2. \A u \in Threads : u # t => pc[u] \notin Locked /\ pc'[u] = pc[u]
    BY <1>0, <2>1, Alone DEF TypeOK, Locked
  <2>3. pc'[t] = "unlock" /\ lock = t
    BY <1>0, <2>1 DEF TypeOK, OneLoader, Locked
  <2>4. OneLoader' /\ LoaderIsDue'
    BY <2>1, <2>2, <2>3 DEF OneLoader, LoaderIsDue, Locked
  <2>5. ParsedFile' /\ NothingAhead'
    BY <1>0, <2>1, <2>2, <2>3 DEF ParsedFile, NothingAhead, Loading, Locked, TypeOK
  <2>6. data = content \/ lost
    BY <1>0, <2>1 DEF ParsedFile, Loading
  <2>7. StaleExplained'
    BY <2>1, <2>6 DEF StaleExplained
  <2> QED BY <1>0, <2>4, <2>5, <2>7 DEF Inv
<1>6. CASE Complete
  <2>1. /\ content' = content + 1
        /\ UNCHANGED <<data, age, xmlLastModified, lock, pc, parsed>>
    BY <1>6 DEF Complete, table
  <2>2. (lost \/ \E t \in Threads : Loading(t)) => lost'
    BY <1>6, Zenon DEF Complete
  <2>3. mtime' = mtime + 1 \/ (mtime' = mtime /\ (mtime = xmlLastModified => lost'))
    BY <1>6 DEF Complete, Touch
  <2>4. OneLoader' /\ LoaderIsDue'
    BY <1>0, <2>1 DEF OneLoader, LoaderIsDue, Due
  <2>5. ParsedFile' /\ NothingAhead'
    BY <1>0, <2>1, <2>2, <2>3 DEF ParsedFile, NothingAhead, Loading, TypeOK, None
  <2>6. StaleExplained'
    BY <1>0, <2>1, <2>2, <2>3 DEF StaleExplained, NothingAhead, TypeOK, None
  <2> QED BY <1>0, <2>4, <2>5, <2>6 DEF Inv
<1>6a. CASE Truncate \/ WriteFails
  <2>1. /\ UNCHANGED <<content, data, age, xmlLastModified, lock, pc, parsed, lost>>
        /\ mtime' = mtime \/ mtime' = mtime + 1
    BY <1>6a DEF Truncate, WriteFails, Touch, table
  <2>2. OneLoader' /\ LoaderIsDue' /\ ParsedFile' /\ NothingAhead'
    BY <1>0, <2>1 DEF OneLoader, LoaderIsDue, Due, ParsedFile, NothingAhead, Loading, TypeOK, None
  <2>3. StaleExplained'
    BY <1>0, <2>1 DEF Inv, StaleExplained, NothingAhead, Loading, TypeOK, None
  <2> QED BY <1>0, <2>2, <2>3 DEF Inv
<1>7. CASE Tick
  <2>1. /\ ~Due
        /\ UNCHANGED <<content, mtime, data, xmlLastModified, lock, pc, parsed, lost>>
    BY <1>0, <1>7, BoundsAssumption DEF Tick, file, Due, TypeOK, None
  <2>2. OneLoader' /\ ParsedFile' /\ NothingAhead' /\ StaleExplained'
    BY <2>1 DEF Inv, OneLoader, ParsedFile, NothingAhead, StaleExplained, Loading
  <2>3. LoaderIsDue'
    BY <1>0, <2>1 DEF LoaderIsDue
  <2> QED BY <1>0, <2>2, <2>3 DEF Inv
<1> QED BY <1>1, <1>2, <1>3, <1>4, <1>5, <1>6, <1>6a, <1>7 DEF Next, Proceed

THEOREM InvHolds == Spec => []Inv
<1> QED BY InvInit, InvStep, PTL DEF Spec
-----------------------------------------------------------------------------
\* A table is loaded only when the last one is older than the interval: the check
\* inside the lock makes up for the gap between the first check and tryLock.
THEOREM LoaderIsDueHolds == Spec => []LoaderIsDue
<1>1. Inv => LoaderIsDue
  BY DEF Inv
<1> QED BY <1>1, InvHolds, PTL

\* A table that is not the file's while the remembered time is the file's comes
\* from a write between parse and look, or within the remembered millisecond.
THEOREM StaleExplainedHolds == Spec => []StaleExplained
<1>1. Inv => StaleExplained
  BY DEF Inv
<1> QED BY <1>1, InvHolds, PTL

\* No caller replaces a table by an older one.
THEOREM NeverOlderHolds == Spec => NeverOlder
<1>1. Inv /\ [Next]_vars => [data' >= data]_vars
  <2> SUFFICES ASSUME Inv, [Next]_vars PROVE [data' >= data]_vars
    OBVIOUS
  <2>1. CASE data' = data
    BY <2>1 DEF Inv, TypeOK, None
  <2>2. ASSUME NEW t \in Threads, Publish(t) PROVE data' >= data
    BY <2>2 DEF Inv, Publish, Goto, ParsedFile
  <2>3. CASE UNCHANGED vars
    BY <2>3
  <2> QED BY <2>1, <2>2, <2>3
       DEF Next, Proceed, table, Begin, Skip, Enter, TryLock, TryLockFails, Inner,
           CheckFile, CannotRead, Parse, ParseFails, Stamp, Unlock, Read, Truncate, Complete, WriteFails,
           Tick
<1> QED BY <1>1, InvHolds, PTL DEF Spec, NeverOlder
=============================================================================
