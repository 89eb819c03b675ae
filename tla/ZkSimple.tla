------------------------------- MODULE ZkSimple -------------------------------
(***************************************************************************)
(* zookeeper-native-demo: copies of SimpleExample work on one ensemble.    *)
(* Every call is a step of its own at the server, and an exception of one  *)
(* ends the program.  All nodes are ephemeral.  main does not close its    *)
(* session, which lives on until it expires.                               *)
(*                                                                         *)
(* One value is ever written to each path, so that data is only "null" or  *)
(* "set".                                                                  *)
(***************************************************************************)
EXTENDS Naturals

CONSTANTS Clients,
          TravalPath      \* the second argument: Root, or the third one again

VARIABLES pc,             \* where each program is
          node,           \* what the server keeps under each path
          session,        \* the clients whose session is alive
          seen,           \* the version each client goes by
          todo,           \* the paths a traversal has still to visit
          at,             \* the one it visits
          round,          \* the traversal a program is at, of two
          alone,          \* nobody else has changed a node since it started
          recreated       \* the path was created anew since it wrote to it

program == <<seen, todo, at, round>>
history == <<alone, recreated>>
vars == <<pc, node, session, program, history>>

Root == "/"
SetValuePath == "/zookeeper_native"
Transaction == {"/transactionpath1", "/transactionpath2"}
Paths == Transaction \cup {SetValuePath}

ASSUME TravalPathAssumption == TravalPath \in Paths \cup {Root}

Missing == [owner |-> {}, data |-> "null", version |-> 0]
Node(owner, data, version) == [owner |-> owner, data |-> data, version |-> version]
There(p) == node[p] # Missing

Init == /\ pc = [c \in Clients |-> "new"]
        /\ node = [p \in Paths |-> Missing]
        /\ session = Clients
        /\ seen = [c \in Clients |-> 0]
        /\ todo = [c \in Clients |-> {}]
        /\ at = [c \in Clients |-> SetValuePath]
        /\ round = [c \in Clients |-> 1]
        /\ alone = [c \in Clients |-> FALSE]
        /\ recreated = [c \in Clients |-> FALSE]

\* A call of client c that is answered.
Goto(c, from, to) == /\ pc[c] = from
                     /\ c \in session
                     /\ pc' = [pc EXCEPT ![c] = to]
                     /\ UNCHANGED session

\* The server changes its nodes on behalf of c.
Change(c, nodes) == /\ node' = nodes
                    /\ alone' = [d \in Clients |-> alone[d] /\ d = c]
-----------------------------------------------------------------------------
\* exists() of main, its first call.
Exists(c) == /\ Goto(c, "new", IF There(SetValuePath) THEN "version" ELSE "create")
             /\ alone' = [alone EXCEPT ![c] = \A p \in Transaction : ~There(p)]
             /\ UNCHANGED <<node, program, recreated>>

\* Mutant: CreateMode.PERSISTENT.
CreatePersistent(c) ==
  /\ ~There(SetValuePath)
  /\ Goto(c, "create", "version")
  /\ Change(c, [node EXCEPT ![SetValuePath] = Node(Clients, "null", 0)])
  /\ recreated' = [d \in Clients |-> pc[d] = "get"]
  /\ UNCHANGED program

Create(c) ==
  /\ ~There(SetValuePath)
  /\ Goto(c, "create", "version")
  /\ Change(c, [node EXCEPT ![SetValuePath] = Node({c}, "null", 0)])
  /\ recreated' = [d \in Clients |-> pc[d] = "get"]
  /\ UNCHANGED program

\* exists(zkPath).getVersion()
GetVersion(c) == /\ There(SetValuePath)
                 /\ Goto(c, "version", "set")
                 /\ seen' = [seen EXCEPT ![c] = node[SetValuePath].version]
                 /\ UNCHANGED <<node, todo, at, round, history>>

\* Mutant: setData with the version of a new node.
NewVersion(c) == node[SetValuePath].version = 0

SameVersion(c) == node[SetValuePath].version = seen[c]

\* Mutant: BadVersion is caught, and the program goes on.
SetDataMaybe(c) ==
  /\ There(SetValuePath)
  /\ Goto(c, "set", "get")
  /\ IF SameVersion(c)
     THEN Change(c, [node EXCEPT ![SetValuePath] = Node(@.owner, "set", @.version + 1)])
     ELSE UNCHANGED <<node, alone>>
  /\ recreated' = [recreated EXCEPT ![c] = FALSE]
  /\ UNCHANGED program

SetData(c) == /\ There(SetValuePath) /\ SameVersion(c)
              /\ Goto(c, "set", "get")
              /\ Change(c, [node EXCEPT ![SetValuePath] =
                              Node(@.owner, "set", @.version + 1)])
              /\ recreated' = [recreated EXCEPT ![c] = FALSE]
              /\ seen' = [seen EXCEPT ![c] = 0]
              /\ UNCHANGED <<todo, at, round>>

\* getData(), and the string made of it, which null does not allow.
GetData(c) == /\ There(SetValuePath) /\ node[SetValuePath].data # "null"
              /\ Goto(c, "get", "commit")
              /\ UNCHANGED <<node, program, history>>

\* Mutant: a path of its own is created outside of the transaction.
CommitHalf(c) ==
  /\ ~There("/transactionpath1")
  /\ Goto(c, "commit", "travel")
  /\ Change(c, [node EXCEPT !["/transactionpath1"] = Node({c}, "set", 1)])
  /\ UNCHANGED <<program, recreated>>

\* Both paths are created, and the first one is written to, or nothing is done.
Commit(c) ==
  /\ \A p \in Transaction : ~There(p)
  /\ Goto(c, "commit", "travel")
  /\ Change(c, [node EXCEPT !["/transactionpath1"] = Node({c}, "set", 1),
                            !["/transactionpath2"] = Node({c}, "set", 0)])
  /\ UNCHANGED <<program, recreated>>
-----------------------------------------------------------------------------
\* travelByPreorder: the children of the root are read once.  No other node has any.
Travel(c) == /\ Goto(c, "travel", "visit")
             /\ todo' = [todo EXCEPT ![c] = IF TravalPath = Root
                                            THEN {p \in Paths : There(p)}
                                            ELSE {TravalPath}]
             /\ UNCHANGED <<node, seen, at, round, history>>

\* exists() of travelByPreorder.
Visit(c, p) == /\ p \in todo[c]
               /\ Goto(c, "visit", IF There(p) THEN "data" ELSE "visit")
               /\ todo' = [todo EXCEPT ![c] = @ \ {p}]
               /\ at' = [at EXCEPT ![c] = p]
               /\ UNCHANGED <<node, seen, round, history>>

\* getData(), and then getChildren(), of the path that was there.
Look(c, from, to) == /\ There(at[c])
                     /\ Goto(c, from, to)
                     /\ UNCHANGED <<node, program, history>>

Read(c) == Look(c, "data", "children")
Children(c) == Look(c, "children", "visit")

\* The last path: the node is deleted, or the program has come to its end.
Traveled(c) == /\ todo[c] = {}
               /\ Goto(c, "visit", IF round[c] = 1 THEN "delete" ELSE "done")
               /\ UNCHANGED <<node, program, history>>

\* delete(setValuePath, -1)
Delete(c) == /\ There(SetValuePath)
             /\ Goto(c, "delete", "travel")
             /\ Change(c, [node EXCEPT ![SetValuePath] = Missing])
             /\ round' = [round EXCEPT ![c] = 2]
             /\ UNCHANGED <<seen, todo, at, recreated>>
-----------------------------------------------------------------------------
\* What the step that comes next needs to find at the server.
Refused(c) ==
  \/ pc[c] = "create" /\ There(SetValuePath)
  \/ pc[c] \in {"version", "set", "get", "delete"} /\ ~There(SetValuePath)
  \/ pc[c] = "set" /\ ~SameVersion(c)
  \/ pc[c] = "get" /\ node[SetValuePath].data = "null"
  \/ pc[c] = "commit" /\ \E p \in Transaction : There(p)
  \/ pc[c] \in {"data", "children"} /\ ~There(at[c])

\* NodeExists, NoNode, BadVersion, or a NullPointerException for what is not there.
Fail(c) == /\ Refused(c)
           /\ Goto(c, pc[c], "failed")
           /\ UNCHANGED <<node, program, history>>

Ended == {"done", "failed", "dead"}

\* The process dies, or a call throws because its connection or its session is gone,
\* before or after the server dealt with it.
Die(c) == /\ pc[c] \notin Ended \cup {"new"}
          /\ pc' = [pc EXCEPT ![c] = "dead"]
          /\ UNCHANGED <<node, session, program, history>>

\* The server has not heard of the client for three seconds: its ephemeral nodes go.
Expire(c) == /\ c \in session /\ pc[c] # "new"
             /\ session' = session \ {c}
             /\ Change(c, [p \in Paths |-> IF node[p].owner = {c} THEN Missing ELSE node[p]])
             /\ UNCHANGED <<pc, program, recreated>>

Proceed(c) == \/ Exists(c) \/ Create(c)
              \/ GetVersion(c) \/ SetData(c) \/ GetData(c)
              \/ Commit(c)
              \/ Travel(c) \/ Traveled(c) \/ Read(c) \/ Children(c)
              \/ (\E p \in Paths : Visit(c, p))
              \/ Delete(c)
              \/ Fail(c)

\* Without its session a program can only die, and without its program a session can
\* only expire.
End(c) == \/ c \notin session /\ Die(c)
          \/ pc[c] \in Ended /\ Expire(c)

Next == \E c \in Clients : Proceed(c) \/ Die(c) \/ Expire(c)

Spec == Init /\ [][Next]_vars

\* A program that was started goes on, and the server finds out about one that ended.
FairSpec == Spec /\ \A c \in Clients : WF_vars(pc[c] # "new" /\ Proceed(c)) /\ WF_vars(End(c))
-----------------------------------------------------------------------------
\* Nodes belong to sessions that are alive, the two paths of the transaction come and
\* go together, and a version tells a node that was written to from a new one.
TypeOK ==
  /\ pc \in [Clients -> {"new", "create", "version", "set", "get", "commit", "travel",
                         "visit", "data", "children", "delete"} \cup Ended]
  /\ node \in [Paths -> [owner : SUBSET Clients, data : {"null", "set"}, version : Nat]]
  /\ session \subseteq Clients
  /\ \A p \in Paths : There(p) => \E c \in session : node[p].owner = {c}
  /\ \A p, q \in Transaction : node[p].owner = node[q].owner
  /\ node[SetValuePath].data = "null" <=> node[SetValuePath].version = 0
  /\ seen \in [Clients -> Nat]
  /\ todo \in [Clients -> SUBSET Paths]
  /\ at \in [Clients -> Paths]
  /\ round \in [Clients -> {1, 2}]
  /\ alone \in [Clients -> BOOLEAN]
  /\ recreated \in [Clients -> BOOLEAN]

\* setValues asserts that it reads what it has written.  It does, unless somebody
\* deleted the node and created it again in between; in particular no other write,
\* and no version that means another node, makes the difference.
ReadsBack == \A c \in Clients :
  pc[c] = "get" /\ There(SetValuePath) =>
    node[SetValuePath].data = "set" \/ recreated[c]

\* A program throws only if another client changed a node while it ran, or if the
\* session of a program that ended before still kept the paths of the transaction.
FailureExplained == \A c \in Clients : pc[c] = "failed" => ~alone[c]

\* Nothing is left at the server when all programs have ended, also those that died.
InTheEndGone == <>[](\A p \in Paths : ~There(p))
=============================================================================
