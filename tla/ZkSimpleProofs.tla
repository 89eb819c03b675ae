---------------------------- MODULE ZkSimpleProofs ----------------------------
(***************************************************************************)
(* ZkSimple for any number of clients and either path to traverse: its     *)
(* types, what a program reads back, and what can make it fail.            *)
(***************************************************************************)
EXTENDS ZkSimple, TLAPS

Nodes == [owner : SUBSET Clients, data : {"null", "set"}, version : Nat]
Labels == {"new", "create", "version", "set", "get", "commit", "travel",
           "visit", "data", "children", "delete"} \cup Ended

\* What TypeOK says of the programs, and what it says of the server.
ProgramsOK == /\ pc \in [Clients -> Labels]
              /\ seen \in [Clients -> Nat]
              /\ todo \in [Clients -> SUBSET Paths]
              /\ at \in [Clients -> Paths]
              /\ round \in [Clients -> {1, 2}]
              /\ alone \in [Clients -> BOOLEAN]
              /\ recreated \in [Clients -> BOOLEAN]

ServerOK == /\ session \subseteq Clients
            /\ node \in [Paths -> Nodes]
            /\ \A p \in Paths : There(p) => \E c \in session : node[p].owner = {c}
            /\ \A p, q \in Transaction : node[p].owner = node[q].owner
            /\ node[SetValuePath].data = "null" <=> node[SetValuePath].version = 0

LEMMA TypeParts == TypeOK <=> ProgramsOK /\ ServerOK
  BY DEF TypeOK, ProgramsOK, ServerOK, Nodes, Labels, Ended

LEMMA PathFacts == /\ SetValuePath \in Paths /\ SetValuePath \notin Transaction
                   /\ Transaction \subseteq Paths
                   /\ Missing \in Nodes
  BY DEF Paths, Transaction, SetValuePath, Missing, Nodes

LEMMA NodeType ==
  ASSUME NEW o \in SUBSET Clients, NEW d \in {"null", "set"}, NEW v \in Nat
  PROVE  /\ Node(o, d, v) \in Nodes
         /\ Node(o, d, v).owner = o /\ Node(o, d, v).data = d /\ Node(o, d, v).version = v
  BY DEF Node, Nodes

LEMMA TypeInit == Init => TypeOK
<1> SUFFICES ASSUME Init PROVE ProgramsOK /\ ServerOK
  BY TypeParts
<1>1. ProgramsOK
  BY PathFacts DEF Init, ProgramsOK, Labels
<1>2. ServerOK
  BY PathFacts DEF Init, ServerOK, There, Missing
<1> QED BY <1>1, <1>2

\* Steps that leave the server's nodes and sessions alone keep their types.
LEMMA ServerStays ==
  ASSUME ServerOK, UNCHANGED <<node, session>>
  PROVE  ServerOK'
  BY DEF ServerOK, There

\* Boolean histories: what Exists notes, and what a change of the nodes leaves of it.
LEMMA AloneAfterChange ==
  ASSUME NEW c \in Clients, NEW nodes, Change(c, nodes)
  PROVE  /\ alone' \in [Clients -> BOOLEAN]
         /\ \A d \in Clients : alone'[d] <=> alone[d] /\ d = c
<1>1. alone' = [d \in Clients |-> alone[d] /\ d = c]
  BY Zenon DEF Change
<1>2. \A d \in Clients : (alone[d] /\ d = c) \in BOOLEAN
  BY Zenon
<1> QED BY <1>1, <1>2, Zenon

LEMMA AloneAfterExists ==
  ASSUME ProgramsOK, NEW c \in Clients, Exists(c)
  PROVE  /\ alone' \in [Clients -> BOOLEAN]
         /\ \A d \in Clients : d # c => alone'[d] = alone[d]
         /\ alone'[c] <=> \A p \in Transaction : ~There(p)
<1> DEFINE absent == \A p \in Transaction : ~There(p)
<1>1. alone' = [alone EXCEPT ![c] = absent]
  BY Zenon DEF Exists
<1>2. absent \in BOOLEAN
  BY Zenon
<1> HIDE DEF absent
<1>3. alone \in [Clients -> BOOLEAN]
  BY DEF ProgramsOK
<1>4. /\ alone' \in [Clients -> BOOLEAN]
      /\ \A d \in Clients : d # c => alone'[d] = alone[d]
      /\ alone'[c] = absent
  BY <1>1, <1>2, <1>3
<1> QED BY <1>4, Zenon DEF absent

\* Create looks at who is between writing and reading.
LEMMA RecreatedAfterCreate ==
  ASSUME NEW c \in Clients, Create(c)
  PROVE  /\ recreated' \in [Clients -> BOOLEAN]
         /\ \A d \in Clients : recreated'[d] <=> pc[d] = "get"
<1>1. recreated' = [d \in Clients |-> pc[d] = "get"]
  BY Zenon DEF Create
<1>2. \A d \in Clients : (pc[d] = "get") \in BOOLEAN
  BY Zenon
<1> QED BY <1>1, <1>2, Zenon

LEMMA ProgramsStep ==
  ASSUME TypeOK, NEW c \in Clients, Proceed(c) \/ Die(c) \/ Expire(c)
  PROVE  ProgramsOK'
<1>0. ProgramsOK /\ ServerOK
  BY TypeParts
<1> USE PathFacts DEF ProgramsOK, Labels, Ended, Goto, program, history
<1>1. CASE Exists(c)
  <2>1. alone' \in [Clients -> BOOLEAN]
    BY <1>0, <1>1, AloneAfterExists
  <2> QED BY <1>0, <1>1, <2>1 DEF Exists
<1>2. CASE Create(c)
  <2>1. alone' \in [Clients -> BOOLEAN] /\ recreated' \in [Clients -> BOOLEAN]
    BY <1>2, AloneAfterChange, RecreatedAfterCreate DEF Create
  <2> QED BY <1>0, <1>2, <2>1 DEF Create
<1>3. CASE GetVersion(c)
  BY <1>0, <1>3 DEF GetVersion, ServerOK, Nodes
<1>4. CASE SetData(c)
  <2>1. alone' \in [Clients -> BOOLEAN]
    BY <1>4, AloneAfterChange DEF SetData
  <2> QED BY <1>0, <1>4, <2>1 DEF SetData
<1>5. CASE GetData(c)
  BY <1>0, <1>5 DEF GetData
<1>6. CASE Commit(c)
  <2>1. alone' \in [Clients -> BOOLEAN]
    BY <1>6, AloneAfterChange DEF Commit
  <2> QED BY <1>0, <1>6, <2>1 DEF Commit
<1>7. CASE Travel(c)
  BY <1>0, <1>7, TravalPathAssumption DEF Travel, Root
<1>8. ASSUME NEW p \in Paths, Visit(c, p) PROVE ProgramsOK'
  BY <1>0, <1>8 DEF Visit
<1>9. CASE Read(c) \/ Children(c) \/ Traveled(c)
  BY <1>0, <1>9 DEF Read, Children, Look, Traveled
<1>10. CASE Delete(c)
  <2>1. alone' \in [Clients -> BOOLEAN]
    BY <1>10, AloneAfterChange DEF Delete
  <2> QED BY <1>0, <1>10, <2>1 DEF Delete
<1>11. CASE Fail(c) \/ Die(c)
  BY <1>0, <1>11 DEF Fail, Die
<1>12. CASE Expire(c)
  <2>1. alone' \in [Clients -> BOOLEAN]
    BY <1>12, AloneAfterChange DEF Expire
  <2> QED BY <1>0, <1>12, <2>1 DEF Expire
<1> QED BY <1>1, <1>2, <1>3, <1>4, <1>5, <1>6, <1>7, <1>8, <1>9, <1>10, <1>11, <1>12
        DEF Proceed

Owned == \A p \in Paths : There(p) => \E c \in session : node[p].owner = {c}

\* A node is put in the place of another, or of none, for a session that is alive.
LEMMA ServerPuts ==
  ASSUME ServerOK, NEW p \in Paths, NEW n \in Nodes,
         node' = [node EXCEPT ![p] = n], session' = session,
         n # Missing => \E c \in session : n.owner = {c}
  PROVE  node' \in [Paths -> Nodes] /\ Owned'
<1>1. node' \in [Paths -> Nodes]
  BY DEF ServerOK
<1>2. \A q \in Paths : node'[q] = IF q = p THEN n ELSE node[q]
  BY DEF ServerOK
<1> QED BY <1>1, <1>2 DEF ServerOK, Owned, There

LEMMA ServerStep ==
  ASSUME TypeOK, NEW c \in Clients, Proceed(c) \/ Die(c) \/ Expire(c)
  PROVE  ServerOK'
<1>0. ServerOK
  BY TypeParts
<1> DEFINE path1 == "/transactionpath1"
           path2 == "/transactionpath2"
<1>a. Transaction = {path1, path2} /\ path1 # path2 /\ path1 \in Paths /\ path2 \in Paths
  BY PathFacts DEF Transaction
<1>1. CASE Exists(c) \/ GetVersion(c) \/ GetData(c) \/ Travel(c) \/ (\E p \in Paths : Visit(c, p))
           \/ Read(c) \/ Children(c) \/ Traveled(c) \/ Fail(c) \/ Die(c)
  <2>1. UNCHANGED <<node, session>>
    BY <1>1 DEF Exists, GetVersion, GetData, Travel, Visit, Read, Children, Look, Traveled,
                Fail, Die, Goto
  <2> QED BY <1>0, <2>1, ServerStays
<1>2. CASE Create(c)
  <2> DEFINE new == Node({c}, "null", 0)
  <2>1. /\ node' = [node EXCEPT ![SetValuePath] = new]
        /\ session' = session /\ c \in session
    BY <1>2 DEF Create, Change, Goto
  <2>2. new \in Nodes /\ new.owner = {c} /\ new.data = "null" /\ new.version = 0
    BY NodeType
  <2> HIDE DEF new
  <2>3. node' \in [Paths -> Nodes] /\ Owned'
    BY <1>0, <2>1, <2>2, PathFacts, ServerPuts
  <2>4. node'[SetValuePath] = new /\ \A p \in Transaction : node'[p] = node[p]
    BY <1>0, <2>1, PathFacts DEF ServerOK
  <2> QED BY <1>0, <2>1, <2>2, <2>3, <2>4 DEF ServerOK, Owned
<1>3. CASE SetData(c)
  <2> DEFINE old == node[SetValuePath]
             new == Node(old.owner, "set", old.version + 1)
  <2>1. /\ node' = [node EXCEPT ![SetValuePath] = new]
        /\ session' = session /\ There(SetValuePath)
    BY <1>3 DEF SetData, Change, Goto
  <2>2. old \in Nodes /\ \E d \in session : old.owner = {d}
    BY <1>0, <2>1, PathFacts DEF ServerOK
  <2>3. old.owner \in SUBSET Clients /\ old.version \in Nat
    BY <2>2 DEF Nodes
  <2>4. new \in Nodes /\ new.owner = old.owner /\ new.data = "set" /\ new.version = old.version + 1
    BY <2>3, NodeType
  <2> HIDE DEF new, old
  <2>5. node' \in [Paths -> Nodes] /\ Owned'
    BY <1>0, <2>1, <2>2, <2>4, PathFacts, ServerPuts
  <2>6. node'[SetValuePath] = new /\ \A p \in Transaction : node'[p] = node[p]
    BY <1>0, <2>1, PathFacts DEF ServerOK
  <2>7. new.data # "null" /\ new.version # 0
    BY <2>3, <2>4
  <2> QED BY <1>0, <2>1, <2>5, <2>6, <2>7 DEF ServerOK, Owned
<1>4. CASE Commit(c)
  <2> DEFINE new1 == Node({c}, "set", 1)
             new2 == Node({c}, "set", 0)
             half == [node EXCEPT ![path1] = new1]
  <2>1. /\ node' = [node EXCEPT ![path1] = new1, ![path2] = new2]
        /\ session' = session /\ c \in session
    BY <1>4 DEF Commit, Change, Goto
  <2>2. new1 \in Nodes /\ new1.owner = {c} /\ new2 \in Nodes /\ new2.owner = {c}
    BY NodeType
  <2> HIDE DEF new1, new2, path1, path2
  <2>3. node' \in [Paths -> Nodes]
    BY <1>0, <1>a, <2>1, <2>2 DEF ServerOK
  <2>4. \A p \in Paths : node'[p] = IF p = path2 THEN new2 ELSE IF p = path1 THEN new1 ELSE node[p]
    BY <1>0, <1>a, <2>1 DEF ServerOK
  <2>5. Owned'
    BY <1>0, <2>1, <2>2, <2>4 DEF ServerOK, Owned, There
  <2>6. \A p \in Transaction : node'[p].owner = {c}
    BY <1>a, <2>2, <2>4
  <2>7. node'[SetValuePath] = node[SetValuePath]
    BY <1>a, <2>4, PathFacts
  <2> QED BY <1>0, <2>1, <2>3, <2>5, <2>6, <2>7 DEF ServerOK, Owned
<1>5. CASE Delete(c)
  <2>1. node' = [node EXCEPT ![SetValuePath] = Missing] /\ session' = session
    BY <1>5 DEF Delete, Change, Goto
  <2>2. node' \in [Paths -> Nodes] /\ Owned'
    BY <1>0, <2>1, PathFacts, ServerPuts
  <2>3. node'[SetValuePath] = Missing /\ \A p \in Transaction : node'[p] = node[p]
    BY <1>0, <2>1, PathFacts DEF ServerOK
  <2>4. Missing.data = "null" /\ Missing.version = 0
    BY DEF Missing
  <2> QED BY <1>0, <2>1, <2>2, <2>3, <2>4 DEF ServerOK, Owned
<1>6. CASE Expire(c)
  <2>1. /\ session' = session \ {c}
        /\ node' = [p \in Paths |-> IF node[p].owner = {c} THEN Missing ELSE node[p]]
    BY <1>6 DEF Expire, Change
  <2>2. node' \in [Paths -> Nodes]
    BY <1>0, <2>1, PathFacts DEF ServerOK
  <2>3. \A p \in Paths : node'[p] = IF node[p].owner = {c} THEN Missing ELSE node[p]
    BY <2>1
  <2>4. ASSUME NEW p \in Paths, There(p)' PROVE \E d \in session' : node'[p].owner = {d}
    <3>1. node'[p] = node[p] /\ node[p].owner # {c} /\ There(p)
      BY <2>3, <2>4 DEF There
    <3>2. PICK d \in session : node[p].owner = {d}
      BY <1>0, <3>1 DEF ServerOK
    <3>3. d \in session'
      BY <2>1, <3>1, <3>2
    <3> QED BY <3>1, <3>2, <3>3
  <2>5. \A p, q \in Transaction : node'[p].owner = node'[q].owner
    BY <1>0, <2>3, PathFacts DEF ServerOK
  <2>6. node'[SetValuePath].data = "null" <=> node'[SetValuePath].version = 0
    <3>1. node'[SetValuePath] = Missing \/ node'[SetValuePath] = node[SetValuePath]
      BY <2>3, PathFacts
    <3> QED BY <1>0, <3>1 DEF ServerOK, Missing
  <2>7. session' \subseteq Clients
    BY <1>0, <2>1 DEF ServerOK
  <2> QED BY <2>2, <2>4, <2>5, <2>6, <2>7 DEF ServerOK
<1> QED BY <1>1, <1>2, <1>3, <1>4, <1>5, <1>6 DEF Proceed

LEMMA TypeStep == TypeOK /\ [Next]_vars => TypeOK'
<1> SUFFICES ASSUME TypeOK, [Next]_vars PROVE TypeOK'
  OBVIOUS
<1>1. CASE UNCHANGED vars
  BY <1>1 DEF TypeOK, There, vars, program, history
<1>2. CASE Next
  <2>1. PICK c \in Clients : Proceed(c) \/ Die(c) \/ Expire(c)
    BY <1>2 DEF Next
  <2>2. (ProgramsOK /\ ServerOK)'
    BY <2>1, ProgramsStep, ServerStep
  <2> QED BY <2>2, TypeParts, PTL
<1> QED BY <1>1, <1>2

\* The types of the nodes and of the programs; nodes belong to sessions that are alive,
\* and the two paths of the transaction come and go together.
THEOREM TypeCorrect == Spec => []TypeOK
<1>1. Init => TypeOK
  BY TypeInit
<1>2. TypeOK /\ [Next]_vars => TypeOK'
  BY TypeStep
<1> QED BY <1>1, <1>2, PTL DEF Spec
-----------------------------------------------------------------------------
\* The calls that only look, or end the program.
Looks(c) == \/ Exists(c) \/ GetVersion(c) \/ GetData(c) \/ Travel(c)
            \/ (\E p \in Paths : Visit(c, p))
            \/ Read(c) \/ Children(c) \/ Traveled(c) \/ Fail(c) \/ Die(c)

LEMMA Steps ==
  ASSUME NEW c \in Clients, Proceed(c) \/ Die(c) \/ Expire(c)
  PROVE  Looks(c) \/ Create(c) \/ SetData(c) \/ Commit(c) \/ Delete(c) \/ Expire(c)
  BY DEF Proceed, Looks

\* What a step does to the node that is written to and read.
LEMMA SetNode ==
  ASSUME TypeOK, NEW c \in Clients
  PROVE  /\ Looks(c) => node' = node
         /\ Create(c) => node'[SetValuePath].data = "null"
         /\ SetData(c) => node'[SetValuePath].data = "set"
         /\ Commit(c) => node'[SetValuePath] = node[SetValuePath]
         /\ Delete(c) => node'[SetValuePath] = Missing
         /\ Expire(c) => node'[SetValuePath] \in {Missing, node[SetValuePath]}
<1>0. node \in [Paths -> Nodes]
  BY TypeParts DEF ServerOK
<1>1. Looks(c) => node' = node
  BY DEF Looks, Exists, GetVersion, GetData, Travel, Visit, Read, Children, Look, Traveled,
         Fail, Die
<1>2. Create(c) => node'[SetValuePath].data = "null"
  BY <1>0, PathFacts DEF Create, Change, Node
<1>3. SetData(c) => node'[SetValuePath].data = "set"
  BY <1>0, PathFacts DEF SetData, Change, Node
<1>4. Commit(c) => node'[SetValuePath] = node[SetValuePath]
  BY <1>0, PathFacts DEF Commit, Change, Transaction
<1>5. Delete(c) => node'[SetValuePath] = Missing
  BY <1>0, PathFacts DEF Delete, Change
<1>6. Expire(c) => node'[SetValuePath] \in {Missing, node[SetValuePath]}
  BY <1>0, PathFacts DEF Expire, Change
<1> QED BY <1>1, <1>2, <1>3, <1>4, <1>5, <1>6

LEMMA ReadsBackStep ==
  ASSUME TypeOK, ReadsBack, NEW c \in Clients, Proceed(c) \/ Die(c) \/ Expire(c)
  PROVE  ReadsBack'
<1> SUFFICES ASSUME NEW d \in Clients, pc'[d] = "get", There(SetValuePath)'
             PROVE  node'[SetValuePath].data = "set" \/ recreated'[d]
  BY DEF ReadsBack
<1>0. pc \in [Clients -> Labels] /\ SetValuePath \in Paths
  BY TypeParts, PathFacts DEF ProgramsOK
<1>1. CASE SetData(c)
  BY <1>1, SetNode
<1>2. CASE Create(c)
  <2>1. pc[d] = "get"
    BY <1>0, <1>2 DEF Create, Goto
  <2> QED BY <1>2, <2>1, RecreatedAfterCreate
<1>3. CASE Looks(c) \/ Commit(c) \/ Delete(c) \/ Expire(c)
  <2>1. pc[d] = "get" /\ recreated' = recreated
    BY <1>0, <1>3 DEF Looks, Exists, GetVersion, GetData, Travel, Visit, Read, Children, Look,
                      Traveled, Fail, Die, Commit, Delete, Expire, Goto, history, Labels
  <2>2. node'[SetValuePath] = node[SetValuePath]
    BY <1>3, SetNode DEF There
  <2>3. There(SetValuePath)
    BY <2>2 DEF There
  <2> QED BY <2>1, <2>2, <2>3 DEF ReadsBack
<1> QED BY <1>1, <1>2, <1>3, Steps

\* What setValues asserts, for any number of clients: a program reads what it has
\* written unless the node was created anew since.
THEOREM ReadsBackHolds == Spec => []ReadsBack
<1>1. Init => ReadsBack
  BY DEF Init, ReadsBack
<1>2. TypeOK /\ ReadsBack /\ [Next]_vars => ReadsBack'
  <2> SUFFICES ASSUME TypeOK, ReadsBack, [Next]_vars PROVE ReadsBack'
    OBVIOUS
  <2>1. CASE UNCHANGED vars
    BY <2>1 DEF ReadsBack, There, vars, history
  <2>2. CASE Next
    BY <2>2, ReadsBackStep DEF Next
  <2> QED BY <2>1, <2>2
<1>3. Spec => []TypeOK
  BY TypeCorrect
<1> QED BY <1>1, <1>2, <1>3, PTL DEF Spec
-----------------------------------------------------------------------------
\* What a program that has been alone counts on, as long as its session lives.
Early == {"create", "version", "set", "get", "commit"}
FirstRound(c) == pc[c] \in {"travel", "visit", "data", "children"} /\ round[c] = 1

Expects(c) ==
  /\ pc[c] = "create" => ~There(SetValuePath)
  /\ pc[c] \in {"version", "set", "get", "commit", "delete"} \/ FirstRound(c)
       => There(SetValuePath)
  /\ pc[c] = "set" => SameVersion(c)
  /\ pc[c] = "get" => node[SetValuePath].data = "set"
  /\ pc[c] \in Early => \A p \in Transaction : ~There(p)
  /\ pc[c] \in {"data", "children"} => There(at[c])

Begins == \A c \in Clients : pc[c] \in Early \cup {"new"} => round[c] = 1
Expected == \A c \in Clients : c \in session /\ alone[c] => Expects(c)

\* Alone or not: a program that is refused was not.
LEMMA NotRefused ==
  ASSUME NEW c \in Clients, Expects(c)
  PROVE  ~Refused(c)
  BY DEF Expects, Refused, Early

\* Another client's step: it leaves the nodes as they are, or the program is not alone
\* any more.
LEMMA OthersStep ==
  ASSUME TypeOK, NEW c \in Clients, NEW d \in Clients, d # c, Expected,
         Proceed(c) \/ Die(c) \/ Expire(c),
         d \in session', alone'[d]
  PROVE  Expects(d)'
<1>0. ProgramsOK /\ ServerOK
  BY TypeParts
<1>2. ~(Create(c) \/ SetData(c) \/ Commit(c) \/ Delete(c) \/ Expire(c))
  BY AloneAfterChange DEF Create, SetData, Commit, Delete, Expire
<1>3. Looks(c)
  BY <1>2, Steps
<1>a. \E e \in Labels : pc' = [pc EXCEPT ![c] = e]
  <2>2. CASE Exists(c) \/ GetVersion(c) \/ GetData(c) \/ Travel(c)
    BY <2>2 DEF Exists, GetVersion, GetData, Travel, Goto, Labels
  <2>3. CASE \E p \in Paths : Visit(c, p)
    BY <2>3 DEF Visit, Goto, Labels
  <2>4. CASE Read(c) \/ Children(c) \/ Traveled(c) \/ Fail(c) \/ Die(c)
    BY <2>4 DEF Read, Children, Look, Traveled, Fail, Die, Goto, Labels, Ended
  <2> QED BY <1>3, <2>2, <2>3, <2>4 DEF Looks
<1>b. session' = session
  BY <1>3 DEF Looks, Exists, GetVersion, GetData, Travel, Visit, Read, Children, Look,
       Traveled, Fail, Die, Goto
<1>c. seen'[d] = seen[d] /\ at'[d] = at[d] /\ round'[d] = round[d]
  BY <1>0, <1>3 DEF Looks, Exists, GetVersion, GetData, Travel, Visit, Read, Children, Look,
       Traveled, Fail, Die, program, ProgramsOK
<1>1. /\ d \in session
      /\ pc'[d] = pc[d] /\ seen'[d] = seen[d] /\ at'[d] = at[d] /\ round'[d] = round[d]
  BY <1>0, <1>a, <1>b, <1>c DEF ProgramsOK
<1>4. node' = node
  BY <1>3, SetNode
<1>5. alone[d]
  <2>1. CASE Exists(c)
    BY <1>0, <2>1, AloneAfterExists
  <2>2. CASE ~Exists(c)
    <3>1. alone' = alone
      BY <1>3, <2>2 DEF Looks, GetVersion, GetData, Travel, Visit, Read, Children, Look,
           Traveled, Fail, Die, history
    <3> QED BY <3>1
  <2> QED BY <2>1, <2>2
<1>6. Expects(d)
  BY <1>1, <1>5 DEF Expected
<1> QED BY <1>1, <1>4, <1>6 DEF Expects, There, SameVersion, FirstRound

\* Only its first call can make a program alone.
LEMMA AloneBefore ==
  ASSUME TypeOK, NEW c \in Clients, NEW d \in Clients,
         Proceed(d) \/ Die(d) \/ Expire(d), ~(c = d /\ Exists(c)), alone'[c]
  PROVE  alone[c]
<1>1. ASSUME Exists(d) PROVE alone[c]
  BY <1>1, TypeParts, AloneAfterExists
<1>2. ASSUME Create(d) \/ SetData(d) \/ Commit(d) \/ Delete(d) \/ Expire(d) PROVE alone[c]
  BY <1>2, AloneAfterChange DEF Create, SetData, Commit, Delete, Expire
<1>3. ASSUME Looks(d), ~Exists(d) PROVE alone[c]
  <2>1. alone' = alone
    BY <1>3 DEF Looks, GetVersion, GetData, Travel, Visit, Read, Children, Look, Traveled,
                Fail, Die, history
  <2> QED BY <2>1
<1> QED BY <1>1, <1>2, <1>3, Steps

\* A program's own step: it finds again what it has found or made.
LEMMA OwnStep ==
  ASSUME TypeOK, NEW c \in Clients, Begins, Expected,
         Proceed(c) \/ Die(c) \/ Expire(c),
         c \in session', alone'[c]
  PROVE  Expects(c)'
<1>0. ProgramsOK /\ ServerOK
  BY TypeParts
<1>a. /\ pc \in [Clients -> Labels] /\ node \in [Paths -> Nodes] /\ seen \in [Clients -> Nat]
      /\ at \in [Clients -> Paths] /\ round \in [Clients -> {1, 2}]
  BY <1>0 DEF ProgramsOK, ServerOK
<1>b. ~Expire(c)
  BY DEF Expire
<1>c. c \in session
  BY <1>b, Steps DEF Looks, Exists, GetVersion, GetData, Travel, Visit, Read, Children, Look,
       Traveled, Fail, Die, Create, SetData, Commit, Delete, Goto
<1>d. ~Exists(c) => Expects(c)
  BY <1>c, AloneBefore DEF Expected
<1> USE <1>a DEF Early, FirstRound, Goto
<1>1. CASE Exists(c)
  <2>1. /\ pc'[c] = (IF There(SetValuePath) THEN "version" ELSE "create")
        /\ node' = node
    BY <1>1 DEF Exists
  <2>2. \A p \in Transaction : ~There(p)
    BY <1>0, <1>1, AloneAfterExists
  <2> QED BY <2>1, <2>2 DEF Expects, There
<1>2. CASE Create(c)
  <2>1. pc'[c] = "version" /\ pc[c] = "create"
    BY <1>2 DEF Create
  <2>2. node'[SetValuePath] = Node({c}, "null", 0)
    BY <1>2, PathFacts DEF Create, Change
  <2>3. Node({c}, "null", 0) # Missing
    BY DEF Node, Missing
  <2>4. \A p \in Transaction : node'[p] = node[p]
    BY <1>2, PathFacts DEF Create, Change
  <2>5. Expects(c)
    BY <1>d, <2>1 DEF Exists
  <2> QED BY <2>1, <2>2, <2>3, <2>4, <2>5 DEF Expects, There
<1>3. CASE GetVersion(c)
  <2>1. /\ pc'[c] = "set" /\ pc[c] = "version" /\ node' = node
        /\ seen'[c] = node[SetValuePath].version /\ There(SetValuePath)
    BY <1>3 DEF GetVersion
  <2>2. Expects(c)
    BY <1>d, <2>1 DEF Exists
  <2> QED BY <2>1, <2>2 DEF Expects, There, SameVersion
<1>4. CASE SetData(c)
  <2>1. pc'[c] = "get" /\ pc[c] = "set" /\ node'[SetValuePath].data = "set"
    BY <1>4, SetNode DEF SetData
  <2>2. \A p \in Transaction : node'[p] = node[p]
    BY <1>4, PathFacts DEF SetData, Change
  <2>3. Missing.data # "set"
    BY DEF Missing
  <2>4. Expects(c)
    BY <1>d, <2>1 DEF Exists
  <2> QED BY <2>1, <2>2, <2>3, <2>4 DEF Expects, There
<1>5. CASE GetData(c)
  <2>1. pc'[c] = "commit" /\ pc[c] = "get" /\ node' = node /\ There(SetValuePath)
    BY <1>5 DEF GetData
  <2>2. Expects(c)
    BY <1>d, <2>1 DEF Exists
  <2> QED BY <2>1, <2>2 DEF Expects, There
<1>6. CASE Commit(c)
  <2>1. pc'[c] = "travel" /\ pc[c] = "commit" /\ node'[SetValuePath] = node[SetValuePath]
    BY <1>6, SetNode DEF Commit
  <2>2. Expects(c)
    BY <1>d, <2>1 DEF Exists
  <2> QED BY <2>1, <2>2 DEF Expects, There
<1>7. CASE Travel(c) \/ (\E p \in Paths : Visit(c, p)) \/ Read(c) \/ Children(c)
  <2>1. /\ node' = node /\ round' = round
        /\ pc[c] \in {"travel", "visit", "data", "children"}
        /\ pc'[c] \in {"visit", "data", "children"}
    BY <1>7 DEF Travel, Visit, Read, Children, Look, program
  <2>2. pc'[c] \in {"data", "children"} => There(at'[c])
    BY <1>7 DEF Travel, Visit, Read, Children, Look, program
  <2>3. Expects(c)
    BY <1>d, <2>1 DEF Exists
  <2> QED BY <2>1, <2>2, <2>3 DEF Expects, There
<1>8. CASE Traveled(c)
  <2>1. /\ node' = node /\ pc[c] = "visit"
        /\ pc'[c] = IF round[c] = 1 THEN "delete" ELSE "done"
    BY <1>8 DEF Traveled
  <2>2. Expects(c)
    BY <1>d, <2>1 DEF Exists
  <2> QED BY <2>1, <2>2 DEF Expects, There
<1>9. CASE Delete(c)
  <2>1. pc'[c] = "travel" /\ round'[c] = 2
    BY <1>9 DEF Delete
  <2> QED BY <2>1 DEF Expects
<1>10. CASE Fail(c) \/ Die(c)
  <2>1. pc'[c] \in {"failed", "dead"}
    BY <1>10 DEF Fail, Die
  <2> QED BY <2>1 DEF Expects
<1> QED BY <1>b, <1>1, <1>2, <1>3, <1>4, <1>5, <1>6, <1>7, <1>8, <1>9, <1>10, Steps DEF Looks

LEMMA BeginsStep ==
  ASSUME TypeOK, Begins, NEW c \in Clients, Proceed(c) \/ Die(c) \/ Expire(c)
  PROVE  Begins'
<1>0. pc \in [Clients -> Labels] /\ round \in [Clients -> {1, 2}]
  BY TypeParts DEF ProgramsOK
<1> USE <1>0 DEF Begins, Early, Goto, program
<1>1. CASE Exists(c) \/ Create(c) \/ GetVersion(c) \/ SetData(c) \/ GetData(c) \/ Commit(c)
  BY <1>1 DEF Exists, Create, GetVersion, SetData, GetData, Commit
<1>2. CASE Travel(c) \/ (\E p \in Paths : Visit(c, p)) \/ Read(c) \/ Children(c)
  BY <1>2 DEF Travel, Visit, Read, Children, Look
<1>3. CASE Traveled(c) \/ Delete(c) \/ Fail(c) \/ Die(c) \/ Expire(c)
  BY <1>3 DEF Traveled, Delete, Fail, Die, Expire
<1> QED BY <1>1, <1>2, <1>3, Steps DEF Looks

\* Who has failed was not alone, and who is alone is never refused.
LEMMA FailureStep ==
  ASSUME TypeOK, FailureExplained, Expected, NEW c \in Clients,
         Proceed(c) \/ Die(c) \/ Expire(c)
  PROVE  FailureExplained'
<1> SUFFICES ASSUME NEW d \in Clients, pc'[d] = "failed", alone'[d]
             PROVE  FALSE
  BY DEF FailureExplained
<1>0. pc \in [Clients -> Labels]
  BY TypeParts DEF ProgramsOK
<1>1. CASE d = c /\ Fail(c)
  <2>1. alone' = alone /\ c \in session /\ Refused(c)
    BY <1>1 DEF Fail, Goto, history
  <2>2. Expects(c)
    BY <1>1, <2>1 DEF Expected
  <2> QED BY <2>1, <2>2, NotRefused
<1>2. CASE ~(d = c /\ Fail(c))
  <2>1. ~(d = c /\ Exists(c))
    BY <1>0 DEF Exists, Goto
  <2>2. alone[d]
    BY <2>1, AloneBefore
  <2>3. pc[d] = "failed"
    <3>1. CASE d = c
      BY <1>0, <1>2, <3>1, Steps DEF Looks, Exists, GetVersion, GetData, Travel, Visit, Read,
           Children, Look, Traveled, Die, Create, SetData, Commit, Delete, Expire, Goto
    <3>2. CASE d # c
      BY <1>0, <3>2, Steps DEF Looks, Exists, GetVersion, GetData, Travel, Visit, Read,
           Children, Look, Traveled, Fail, Die, Create, SetData, Commit, Delete, Expire, Goto
    <3> QED BY <3>1, <3>2
  <2> QED BY <2>2, <2>3 DEF FailureExplained
<1> QED BY <1>1, <1>2

Inv == TypeOK /\ Begins /\ Expected /\ FailureExplained

LEMMA InvStep == Inv /\ [Next]_vars => Inv'
<1> SUFFICES ASSUME Inv, [Next]_vars PROVE Inv'
  OBVIOUS
<1>1. TypeOK'
  BY TypeStep DEF Inv
<1>2. CASE UNCHANGED vars
  BY <1>1, <1>2 DEF Inv, Begins, Expected, FailureExplained, Expects, There, SameVersion,
                    FirstRound, vars, program, history
<1>3. CASE Next
  <2>1. PICK c \in Clients : Proceed(c) \/ Die(c) \/ Expire(c)
    BY <1>3 DEF Next
  <2>2. Expected'
    <3>1. ASSUME NEW d \in Clients, d \in session', alone'[d] PROVE Expects(d)'
      BY <2>1, <3>1, OwnStep, OthersStep DEF Inv
    <3> QED BY <3>1 DEF Expected
  <2>3. Begins' /\ FailureExplained'
    BY <2>1, BeginsStep, FailureStep DEF Inv
  <2> QED BY <1>1, <2>2, <2>3 DEF Inv
<1> QED BY <1>2, <1>3

\* For any number of clients: a program throws only if another client changed a node
\* while it ran, or if the paths of the transaction were there when it started.
THEOREM FailureExplainedHolds == Spec => []FailureExplained
<1>1. Init => Inv
  <2> SUFFICES ASSUME Init PROVE Begins /\ Expected /\ FailureExplained
    BY TypeInit DEF Inv
  <2> QED BY DEF Init, Begins, Expected, FailureExplained, Early
<1>2. Inv /\ [Next]_vars => Inv'
  BY InvStep
<1>3. Inv => FailureExplained
  BY DEF Inv
<1> QED BY <1>1, <1>2, <1>3, PTL DEF Spec
=============================================================================
