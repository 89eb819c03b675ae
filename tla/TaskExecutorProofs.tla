-------------------------- MODULE TaskExecutorProofs --------------------------
(***************************************************************************)
(* TaskExecutor for any requests, tasks, times and sizes of the pool: its  *)
(* types, and, for a pool whose queue has no capacity, as the one of       *)
(* TaskExecutorConfig, how long a request waits and takes.                 *)
(***************************************************************************)
EXTENDS TaskExecutor, FiniteSetTheorems, SequenceTheorems, TLAPS

States == {"new", "queued", "running", "done", "failed", "dropped"}
Labels == {"new", "core", "offer", "max", "caller", "get"} \cup Over

\* The request has still to submit its task i.
Ahead(r, i) == \/ pc[r] \in {"new", "core", "offer", "max"} /\ i >= turn[r]
               \/ pc[r] = "caller" /\ i > turn[r]

\* A task that was submitted is where its state says, and nowhere else.
Submits == \A r \in Requests, i \in 1..Tasks :
  /\ task[r][i] = "new" <=> Ahead(r, i)
  /\ task[r][i] \in {"new", "queued"} => left[r][i] = Duration
Queued == \A k \in 1..Len(queue), r \in Requests, i \in 1..Tasks :
  queue[k] = <<r, i>> => task[r][i] = "queued"
Distinct == \A j, k \in 1..Len(queue) : queue[j] = queue[k] => j = k
InQueue == \A r \in Requests, i \in 1..Tasks :
  task[r][i] = "queued" => \E k \in 1..Len(queue) : queue[k] = <<r, i>>
WithThread == \A w \in Workers, r \in Requests, i \in 1..Tasks :
  worker[w] = <<r, i>> => task[r][i] = "running"
WithCaller == \A r \in Requests : pc[r] = "caller" =>
  /\ task[r][turn[r]] = "running"
  /\ \A w \in Workers : worker[w] # <<r, turn[r]>>
Runs == \A r \in Requests, i \in 1..Tasks : task[r][i] = "running" =>
  \/ \E w \in Workers : worker[w] = <<r, i>>
  \/ pc[r] = "caller" /\ turn[r] = i

\* Once it is shut down the pool is empty, and only then tasks are dropped.
Down == /\ shut => queue = <<>> /\ \A w \in Workers : worker[w] = None
        /\ \A r \in Requests, i \in 1..Tasks : task[r][i] = "dropped" => shut

PoolInv == /\ TypeOK /\ Submits /\ Queued /\ Distinct /\ InQueue
           /\ WithThread /\ WithCaller /\ Runs /\ Down

\* For every task that was offered a thread waits.
Ready == Len(queue) <= Cardinality(Waiting)

\* When the first i tasks of a request are over, at the latest.
Due(i) == i * Duration

\* A request has waited, and taken, no longer than its tasks can account for.
Dropped(r) == task[r][turn[r]] = "dropped" /\ shut
WaitsInTime == \A r \in Requests :
  /\ pc[r] \in {"new", "core", "offer", "max", "caller"} => waited[r] = 0
  /\ Dropped(r) \/ waited[r] + left[r][turn[r]] <= Duration
RunsInTime == ~shut => \A r \in Requests :
  /\ elapsed[r] <= Due(Tasks)
  /\ pc[r] \in {"new", "core", "offer", "max"} => elapsed[r] <= Due(turn[r] - 1)
  /\ \A i \in 1..Tasks : task[r][i] \in {"queued", "running"} =>
       elapsed[r] + left[r][i] <= Due(i)

-----------------------------------------------------------------------------
\* What TypeOK says of each variable.
LEMMA TypeParts ==
  ASSUME TypeOK
  PROVE  /\ pc \in [Requests -> Labels]
         /\ turn \in [Requests -> 1..Tasks]
         /\ task \in [Requests -> [1..Tasks -> States]]
         /\ left \in [Requests -> [1..Tasks -> 0..Duration]]
         /\ worker \in [Workers -> {None, Free, Poll, Take} \cup TaskIds]
         /\ queue \in Seq(TaskIds)
  BY DEF TypeOK, Labels, States

\* What makes up TypeOK after a step.
LEMMA TypeWhole ==
  ASSUME pc' \in [Requests -> Labels], turn' \in [Requests -> 1..Tasks],
         task' \in [Requests -> [1..Tasks -> States]],
         left' \in [Requests -> [1..Tasks -> 0..Duration]],
         worker' \in [Workers -> {None, Free, Poll, Take} \cup TaskIds],
         \A v, w \in Workers : worker'[v] = worker'[w] /\ worker'[v] \in TaskIds => v = w,
         queue' \in Seq(TaskIds), shut' \in BOOLEAN,
         waited' \in [Requests -> 0..Patience], elapsed' \in [Requests -> 0..Longest + 1]
  PROVE  TypeOK'
  BY DEF TypeOK, Labels, States, Over

\* The clocks start within their bounds.
LEMMA Times == /\ 1 \in 1..Tasks /\ 0 \in 0..Patience
               /\ Longest \in Nat /\ 0 \in 0..Longest + 1 /\ Duration \in 0..Duration
<1>1. Tasks \in Nat /\ Duration \in Nat => Tasks * Duration \in Nat
  OBVIOUS
<1> QED BY <1>1, BoundsAssumption DEF Longest

\* A thread without a task is not taken for one that has it.
LEMMA NoTask == \A x \in {None, Free, Poll, Take} : x \notin TaskIds
  BY ThreadsAssumption DEF TaskIds

\* At first no task is submitted, and the pool has no threads.
LEMMA PoolInit == Init => PoolInv
<1> SUFFICES ASSUME Init PROVE PoolInv
  OBVIOUS
<1>1. TypeOK
  <2>1. /\ pc \in [Requests -> {"new", "core", "offer", "max", "caller", "get"} \cup Over]
        /\ turn \in [Requests -> 1..Tasks]
        /\ task \in [Requests -> [1..Tasks ->
                       {"new", "queued", "running", "done", "failed", "dropped"}]]
        /\ left \in [Requests -> [1..Tasks -> 0..Duration]]
    BY Times DEF Init
  <2>2. /\ worker \in [Workers -> {None, Free, Poll, Take} \cup TaskIds]
        /\ \A w \in Workers : worker[w] \notin TaskIds
    BY NoTask DEF Init
  <2>3. queue \in Seq(TaskIds) /\ shut \in BOOLEAN
    BY EmptySeq DEF Init
  <2>4. /\ waited \in [Requests -> 0..Patience]
        /\ elapsed \in [Requests -> 0..Longest + 1]
    BY Times DEF Init
  <2> QED BY <2>1, <2>2, <2>3, <2>4 DEF TypeOK
<1>2. \A i \in 1..Tasks : i >= 1
  OBVIOUS
<1>3. Submits
  BY <1>2 DEF Init, Submits, Ahead
<1>4. Queued /\ Distinct
  BY DEF Init, Queued, Distinct
<1>5. InQueue /\ WithCaller /\ Runs /\ Down
  BY DEF Init, InQueue, WithCaller, Runs, Down
<1>6. WithThread
  <2>1. \A r \in Requests, i \in 1..Tasks : None # <<r, i>>
    BY NoTask DEF TaskIds
  <2> QED BY <2>1 DEF Init, WithThread
<1> QED BY <1>1, <1>3, <1>4, <1>5, <1>6 DEF PoolInv

\* One task changes its state.
LEMMA BecomesOne ==
  ASSUME TypeOK, NEW t \in TaskIds, NEW state \in States, Becomes(t, state)
  PROVE  /\ task' \in [Requests -> [1..Tasks -> States]]
         /\ task'[t[1]][t[2]] = state
         /\ \A r \in Requests, i \in 1..Tasks : <<r, i>> # t => task'[r][i] = task[r][i]
<1>1. PICK r \in Requests, i \in 1..Tasks : t = <<r, i>>
  BY DEF TaskIds
<1>2. task' = [task EXCEPT ![r][i] = state]
  BY <1>1 DEF Becomes
<1> QED BY <1>1, <1>2, TypeParts

\* The request goes on to its next task, or to the first answer.
LEMMA SubmittedOne ==
  ASSUME TypeOK, NEW r \in Requests, NEW from \in {"core", "offer", "max", "caller"},
         Submitted(r, from)
  PROVE  /\ pc[r] = from /\ pc' \in [Requests -> Labels]
         /\ turn' \in [Requests -> 1..Tasks]
         /\ \/ pc'[r] = "core" /\ turn'[r] = turn[r] + 1 /\ turn[r] < Tasks
            \/ pc'[r] = "get" /\ turn'[r] = 1 /\ turn[r] = Tasks
         /\ \A s \in Requests \ {r} : pc'[s] = pc[s] /\ turn'[s] = turn[s]
         /\ \A i \in 1..Tasks : Ahead(r, i)' <=> i > turn[r]
         /\ \A s \in Requests \ {r}, i \in 1..Tasks : Ahead(s, i)' <=> Ahead(s, i)
<1>1. /\ pc[r] = from /\ pc' = [pc EXCEPT ![r] = After(r)]
      /\ turn' = [turn EXCEPT ![r] = IF After(r) = "core" THEN @ + 1 ELSE 1]
  BY DEF Submitted, Goto
<1>2. turn[r] \in 1..Tasks /\ Tasks \in Nat
  BY TypeParts, BoundsAssumption
<1>3. /\ turn[r] < Tasks => After(r) = "core" /\ turn[r] + 1 \in 1..Tasks
      /\ turn[r] = Tasks => After(r) = "get" /\ 1 \in 1..Tasks
      /\ turn[r] < Tasks \/ turn[r] = Tasks
  BY <1>2 DEF After
<1>4. pc' \in [Requests -> Labels] /\ turn' \in [Requests -> 1..Tasks]
  BY <1>1, <1>3, TypeParts DEF Labels
<1>5. \/ pc'[r] = "core" /\ turn'[r] = turn[r] + 1 /\ turn[r] < Tasks
      \/ pc'[r] = "get" /\ turn'[r] = 1 /\ turn[r] = Tasks
  BY <1>1, <1>3, TypeParts
<1>6. \A s \in Requests \ {r} : pc'[s] = pc[s] /\ turn'[s] = turn[s]
  BY <1>1, TypeParts
<1>7. \A i \in 1..Tasks : Ahead(r, i)' <=> i > turn[r]
  BY <1>2, <1>5 DEF Ahead
<1>8. \A s \in Requests \ {r}, i \in 1..Tasks : Ahead(s, i)' <=> Ahead(s, i)
  BY <1>6 DEF Ahead
<1> QED BY <1>1, <1>4, <1>5, <1>6, <1>7, <1>8

\* The queue and the states of tasks stay as they are.
LEMMA SameQueue ==
  ASSUME Queued, Distinct, InQueue, UNCHANGED <<task, queue>>
  PROVE  Queued' /\ Distinct' /\ InQueue'
<1>1. Queued'
  BY DEF Queued
<1>2. Distinct'
  BY DEF Distinct
<1>3. InQueue'
  BY DEF InQueue
<1> QED BY <1>1, <1>2, <1>3

\* And so do the tasks in the queue when a task that is not there changes.
LEMMA OthersQueue ==
  ASSUME TypeOK, Queued, Distinct, InQueue, NEW r \in Requests, NEW j \in 1..Tasks,
         task[r][j] # "queued", task'[r][j] # "queued", UNCHANGED queue,
         \A s \in Requests, i \in 1..Tasks : <<s, i>> # <<r, j>> => task'[s][i] = task[s][i]
  PROVE  Queued' /\ Distinct' /\ InQueue'
<1>1. Queued'
  <2> SUFFICES ASSUME NEW k \in 1..Len(queue), NEW s \in Requests, NEW i \in 1..Tasks,
                      queue[k] = <<s, i>>
               PROVE  task'[s][i] = "queued"
    BY DEF Queued
  <2> QED BY DEF Queued
<1>2. Distinct'
  BY DEF Distinct
<1>3. InQueue'
  BY DEF InQueue
<1> QED BY <1>1, <1>2, <1>3

\* The steps that only move a request.
LEMMA PoolMoves ==
  ASSUME PoolInv, NEW r \in Requests,
         \/ Home(r) \/ CoreFull(r) \/ OfferFails(r)
         \/ Got(r) \/ GetFails(r) \/ GetTimesOut(r)
  PROVE  PoolInv'
<1>1. /\ TypeOK /\ Submits /\ Queued /\ Distinct /\ InQueue
      /\ WithThread /\ WithCaller /\ Runs /\ Down
  BY DEF PoolInv
<1>2. UNCHANGED <<task, left, worker, queue, shut, elapsed>>
  BY DEF Home, CoreFull, OfferFails, Got, GetFails, GetTimesOut, pool, clock
<1>3. /\ pc' \in [Requests -> Labels] /\ turn' \in [Requests -> 1..Tasks]
      /\ waited' \in [Requests -> 0..Patience]
      /\ \A s \in Requests \ {r} : pc'[s] = pc[s] /\ turn'[s] = turn[s]
      /\ \/ /\ pc[r] \in {"new", "core", "offer"} /\ pc'[r] \in {"core", "offer", "max"}
            /\ turn'[r] = turn[r]
         \/ pc[r] = "get" /\ pc'[r] \in {"get"} \cup Over
  <2>1. CASE Home(r) \/ CoreFull(r) \/ OfferFails(r)
    BY <1>1, <2>1, TypeParts DEF Home, CoreFull, OfferFails, Goto, Labels, clock, TypeOK
  <2>2. CASE Got(r)
    <3>1. /\ pc[r] = "get"
          /\ pc' = [pc EXCEPT ![r] = IF turn[r] = Tasks THEN "done" ELSE "get"]
          /\ turn' = [turn EXCEPT ![r] = IF turn[r] = Tasks THEN turn[r] ELSE turn[r] + 1]
          /\ waited' = [waited EXCEPT ![r] = 0]
      BY <2>2 DEF Got, Goto
    <3>2. turn[r] = Tasks \/ turn[r] + 1 \in 1..Tasks
      BY <1>1, TypeParts, BoundsAssumption
    <3>3. turn' \in [Requests -> 1..Tasks] /\ waited' \in [Requests -> 0..Patience]
      BY <1>1, <3>1, <3>2, TypeParts, Times DEF TypeOK
    <3> QED BY <1>1, <3>1, <3>3, TypeParts DEF Labels, Over
  <2>3. CASE GetFails(r) \/ GetTimesOut(r)
    BY <1>1, <2>3, TypeParts DEF GetFails, GetTimesOut, Goto, Labels, Over, clock, TypeOK
  <2> QED BY <2>1, <2>2, <2>3
<1>4. TypeOK'
  BY <1>1, <1>2, <1>3, TypeWhole, TypeParts DEF TypeOK
<1>5. \A s \in Requests, i \in 1..Tasks : Ahead(s, i)' <=> Ahead(s, i)
  BY <1>3 DEF Ahead, Over
<1>6. Submits'
  BY <1>1, <1>2, <1>5 DEF Submits
<1>7. Queued' /\ Distinct' /\ InQueue'
  BY <1>1, <1>2, SameQueue
<1>8. WithThread' /\ Down'
  BY <1>1, <1>2 DEF WithThread, Down
<1>9. WithCaller'
  BY <1>1, <1>2, <1>3 DEF WithCaller, Over
<1>10. Runs'
  BY <1>1, <1>2, <1>3 DEF Runs, Over
<1> QED BY <1>4, <1>6, <1>7, <1>8, <1>9, <1>10 DEF PoolInv

\* A thread that has no task, and gets none.
LEMMA PoolThreads ==
  ASSUME PoolInv, NEW w \in Workers, GetTask(w) \/ KeepAliveEnds(w)
  PROVE  PoolInv'
<1>1. /\ TypeOK /\ Submits /\ Queued /\ Distinct /\ InQueue
      /\ WithThread /\ WithCaller /\ Runs /\ Down
  BY DEF PoolInv
<1>2. /\ UNCHANGED <<pc, turn, task, left, queue, shut, waited, elapsed>>
      /\ worker[w] \in {Free, Poll} /\ (worker[w] = Free => ~shut)
      /\ \E x \in {None, Poll, Take} : worker' = [worker EXCEPT ![w] = x]
  BY <1>1, ThreadsAssumption DEF GetTask, KeepAliveEnds, clock, Wait, Down
<1>3. /\ worker[w] \notin TaskIds /\ worker'[w] \notin TaskIds
      /\ worker' \in [Workers -> {None, Free, Poll, Take} \cup TaskIds]
      /\ \A v \in Workers \ {w} : worker'[v] = worker[v]
  BY <1>1, <1>2, TypeParts, NoTask
<1>4. TypeOK'
  BY <1>1, <1>2, <1>3, TypeWhole, TypeParts DEF TypeOK
<1>5. Submits' /\ Queued' /\ Distinct' /\ InQueue'
  BY <1>1, <1>2, SameQueue DEF Submits, Ahead
<1>6. \A v \in Workers : \A t \in TaskIds : worker'[v] = t <=> worker[v] = t
  BY <1>3
<1>7. WithThread'
  BY <1>1, <1>2, <1>6 DEF WithThread, TaskIds
<1>8. WithCaller'
  <2> SUFFICES ASSUME NEW r \in Requests, pc[r] = "caller"
               PROVE  /\ task[r][turn[r]] = "running"
                      /\ \A v \in Workers : worker'[v] # <<r, turn[r]>>
    BY <1>2 DEF WithCaller
  <2>1. <<r, turn[r]>> \in TaskIds
    BY <1>1, TypeParts DEF TaskIds
  <2> QED BY <1>1, <1>6, <2>1 DEF WithCaller
<1>9. Runs'
  <2> SUFFICES ASSUME NEW r \in Requests, NEW i \in 1..Tasks, task[r][i] = "running"
               PROVE  \/ \E v \in Workers : worker'[v] = <<r, i>>
                      \/ pc[r] = "caller" /\ turn[r] = i
    BY <1>2 DEF Runs
  <2>1. <<r, i>> \in TaskIds
    BY DEF TaskIds
  <2> QED BY <1>1, <1>6, <2>1 DEF Runs
<1>10. Down'
  <2>1. ~shut
    BY <1>1, <1>2, ThreadsAssumption DEF Down
  <2> QED BY <1>1, <1>2, <2>1 DEF Down
<1> QED BY <1>4, <1>5, <1>7, <1>8, <1>9, <1>10 DEF PoolInv

\* A task that is submitted was new, and is not any more.
LEMMA SubmitOne ==
  ASSUME PoolInv, NEW r \in Requests, NEW from \in {"core", "offer", "max"},
         NEW state \in States \ {"new"},
         Submitted(r, from), Becomes(Current(r), state), UNCHANGED left
  PROVE  /\ <<r, turn[r]>> \in TaskIds /\ turn[r] \in 1..Tasks
         /\ task[r][turn[r]] = "new" /\ task'[r][turn[r]] = state
         /\ \A s \in Requests, i \in 1..Tasks :
              <<s, i>> # <<r, turn[r]>> => task'[s][i] = task[s][i]
         /\ task' \in [Requests -> [1..Tasks -> States]]
         /\ pc' \in [Requests -> Labels] /\ turn' \in [Requests -> 1..Tasks]
         /\ pc[r] = from /\ pc'[r] # "caller"
         /\ \A s \in Requests \ {r} : pc'[s] = pc[s] /\ turn'[s] = turn[s]
         /\ Submits'
<1>1. TypeOK /\ Submits
  BY DEF PoolInv
<1>2. <<r, turn[r]>> \in TaskIds /\ turn[r] \in 1..Tasks
  BY <1>1, TypeParts DEF TaskIds
<1>3. /\ task'[r][turn[r]] = state
      /\ \A s \in Requests, i \in 1..Tasks :
           <<s, i>> # <<r, turn[r]>> => task'[s][i] = task[s][i]
      /\ task' \in [Requests -> [1..Tasks -> States]]
  BY <1>1, <1>2, BecomesOne DEF Current
<1>4. /\ pc[r] = from /\ pc' \in [Requests -> Labels]
      /\ turn' \in [Requests -> 1..Tasks] /\ pc'[r] # "caller"
      /\ \A s \in Requests \ {r} : pc'[s] = pc[s] /\ turn'[s] = turn[s]
      /\ \A i \in 1..Tasks : Ahead(r, i)' <=> i > turn[r]
      /\ \A s \in Requests \ {r}, i \in 1..Tasks : Ahead(s, i)' <=> Ahead(s, i)
  BY <1>1, SubmittedOne
<1>5. \A i \in 1..Tasks : Ahead(r, i) <=> i >= turn[r]
  BY <1>4 DEF Ahead
<1>6. task[r][turn[r]] = "new" /\ left[r][turn[r]] = Duration
  BY <1>1, <1>2, <1>5 DEF Submits
<1>7. Submits'
  <2> SUFFICES ASSUME NEW s \in Requests, NEW i \in 1..Tasks
               PROVE  /\ task'[s][i] = "new" <=> Ahead(s, i)'
                      /\ task'[s][i] \in {"new", "queued"} => left[s][i] = Duration
    BY DEF Submits
  <2>1. CASE s = r /\ i = turn[r]
    BY <1>2, <1>3, <1>4, <1>6, <2>1
  <2>2. CASE s = r /\ i # turn[r]
    <3>1. Ahead(r, i)' <=> Ahead(r, i)
      BY <1>2, <1>4, <1>5, <2>2
    <3> QED BY <1>1, <1>3, <2>2, <3>1 DEF Submits
  <2>3. CASE s # r
    BY <1>1, <1>3, <1>4, <2>3 DEF Submits
  <2> QED BY <2>1, <2>2, <2>3
<1> QED BY <1>2, <1>3, <1>4, <1>6, <1>7

\* The threads do not notice a task that was new and goes to none of them.
LEMMA SubmittedRest ==
  ASSUME PoolInv, NEW r \in Requests, NEW state \in {"queued", "dropped"},
         task[r][turn[r]] = "new", task'[r][turn[r]] = state, state = "dropped" => shut,
         \A s \in Requests, i \in 1..Tasks :
           <<s, i>> # <<r, turn[r]>> => task'[s][i] = task[s][i],
         pc[r] # "caller", pc'[r] # "caller", UNCHANGED <<worker, shut>>,
         shut' => queue' = <<>>,
         \A s \in Requests \ {r} : pc'[s] = pc[s] /\ turn'[s] = turn[s]
  PROVE  WithThread' /\ WithCaller' /\ Runs' /\ Down'
<1>1. TypeOK /\ WithThread /\ WithCaller /\ Runs /\ Down
  BY DEF PoolInv
<1>2. WithThread'
  BY <1>1 DEF WithThread
<1>3. WithCaller'
  <2> SUFFICES ASSUME NEW s \in Requests, pc'[s] = "caller"
               PROVE  /\ task'[s][turn'[s]] = "running"
                      /\ \A v \in Workers : worker[v] # <<s, turn'[s]>>
    BY DEF WithCaller
  <2>1. s # r /\ turn[s] \in 1..Tasks /\ turn'[s] = turn[s]
    BY <1>1, TypeParts
  <2> QED BY <1>1, <2>1 DEF WithCaller
<1>4. Runs'
  <2> SUFFICES ASSUME NEW s \in Requests, NEW i \in 1..Tasks, task'[s][i] = "running"
               PROVE  \/ \E v \in Workers : worker[v] = <<s, i>>
                      \/ pc'[s] = "caller" /\ turn'[s] = i
    BY DEF Runs
  <2>1. task[s][i] = "running"
    OBVIOUS
  <2> QED BY <1>1, <2>1 DEF Runs
<1>5. Down'
  BY <1>1 DEF Down
<1> QED BY <1>2, <1>3, <1>4, <1>5

\* A thread is started with the task.
LEMMA PoolStart ==
  ASSUME PoolInv, NEW r \in Requests, NEW w \in Workers, AddCore(w, r) \/ AddMax(w, r)
  PROVE  PoolInv'
<1>1. /\ TypeOK /\ Submits /\ Queued /\ Distinct /\ InQueue
      /\ WithThread /\ WithCaller /\ Runs /\ Down
  BY DEF PoolInv
<1> DEFINE t == <<r, turn[r]>>
<1>2. PICK from \in {"core", "offer", "max"} : Start(w, r, from) /\ ~shut
  BY DEF AddCore, AddMax
<1>3. /\ worker[w] = None /\ worker' = [worker EXCEPT ![w] = t]
      /\ Becomes(t, "running") /\ Submitted(r, from)
      /\ UNCHANGED <<left, queue, shut, waited, elapsed>>
  BY <1>2 DEF Start, Current, clock
<1>4. /\ t \in TaskIds /\ turn[r] \in 1..Tasks
      /\ task[r][turn[r]] = "new" /\ task'[r][turn[r]] = "running"
      /\ \A s \in Requests, i \in 1..Tasks : <<s, i>> # t => task'[s][i] = task[s][i]
      /\ task' \in [Requests -> [1..Tasks -> States]]
      /\ pc' \in [Requests -> Labels] /\ turn' \in [Requests -> 1..Tasks]
      /\ pc[r] = from /\ pc'[r] # "caller"
      /\ \A s \in Requests \ {r} : pc'[s] = pc[s] /\ turn'[s] = turn[s]
      /\ Submits'
  BY <1>3, SubmitOne DEF Current, States
<1>5. /\ \A v \in Workers \ {w} : worker'[v] = worker[v] /\ worker[v] # t
      /\ worker'[w] = t
      /\ worker' \in [Workers -> {None, Free, Poll, Take} \cup TaskIds]
  <2>1. \A v \in Workers : worker[v] # t
    BY <1>1, <1>4 DEF WithThread
  <2> QED BY <1>1, <1>3, <1>4, <2>1, TypeParts
<1>6. worker[w] \notin TaskIds
  BY <1>3, NoTask
<1>7. TypeOK'
  <2>1. \A v, u \in Workers : worker'[v] = worker'[u] /\ worker'[v] \in TaskIds => v = u
    BY <1>1, <1>5 DEF TypeOK
  <2> QED BY <1>1, <1>3, <1>4, <1>5, <2>1, TypeWhole DEF TypeOK
<1>8. Queued' /\ Distinct' /\ InQueue'
  BY <1>1, <1>3, <1>4, OthersQueue
<1>9. WithThread'
  <2> SUFFICES ASSUME NEW v \in Workers, NEW s \in Requests, NEW i \in 1..Tasks,
                      worker'[v] = <<s, i>>
               PROVE  task'[s][i] = "running"
    BY DEF WithThread
  <2> QED BY <1>1, <1>4, <1>5 DEF WithThread
<1>10. WithCaller'
  <2> SUFFICES ASSUME NEW s \in Requests, pc'[s] = "caller"
               PROVE  /\ task'[s][turn'[s]] = "running"
                      /\ \A v \in Workers : worker'[v] # <<s, turn'[s]>>
    BY DEF WithCaller
  <2>1. s # r /\ turn[s] \in 1..Tasks
    BY <1>1, <1>4, TypeParts
  <2>2. pc[s] = "caller" /\ turn'[s] = turn[s] /\ <<s, turn[s]>> # t
    BY <1>4, <2>1
  <2>3. task'[s][turn[s]] = "running" /\ \A v \in Workers : worker[v] # <<s, turn[s]>>
    BY <1>1, <1>4, <2>1, <2>2 DEF WithCaller
  <2> QED BY <1>5, <2>2, <2>3
<1>11. Runs'
  <2> SUFFICES ASSUME NEW s \in Requests, NEW i \in 1..Tasks, task'[s][i] = "running"
               PROVE  \/ \E v \in Workers : worker'[v] = <<s, i>>
                      \/ pc'[s] = "caller" /\ turn'[s] = i
    BY DEF Runs
  <2>1. CASE <<s, i>> = t
    BY <1>5, <2>1
  <2>2. CASE <<s, i>> # t
    <3>1. <<s, i>> \in TaskIds /\ task[s][i] = "running"
      BY <1>4, <2>2 DEF TaskIds
    <3>2. CASE \E v \in Workers : worker[v] = <<s, i>>
      BY <1>5, <1>6, <3>1, <3>2
    <3>3. CASE pc[s] = "caller" /\ turn[s] = i
      BY <1>4, <3>3
    <3> QED BY <1>1, <3>1, <3>2, <3>3 DEF Runs
  <2> QED BY <2>1, <2>2
<1>12. Down'
  <2>1. ~shut' /\ \A s \in Requests, i \in 1..Tasks : task'[s][i] # "dropped"
    BY <1>1, <1>2, <1>3, <1>4 DEF Down
  <2> QED BY <2>1 DEF Down
<1> QED BY <1>4, <1>7, <1>8, <1>9, <1>10, <1>11, <1>12 DEF PoolInv

\* The task is the last of the queue.
LEMMA PoolOffer ==
  ASSUME PoolInv, NEW r \in Requests, Offer(r)
  PROVE  PoolInv'
<1>1. /\ TypeOK /\ Submits /\ Queued /\ Distinct /\ InQueue
      /\ WithThread /\ WithCaller /\ Runs /\ Down
  BY DEF PoolInv
<1> DEFINE t == <<r, turn[r]>>
           l == Len(queue) + 1
<1>2. /\ ~shut /\ queue' = Append(queue, t) /\ Becomes(t, "queued") /\ Submitted(r, "offer")
      /\ UNCHANGED <<left, worker, shut, waited, elapsed>>
  BY DEF Offer, Current, clock
<1>3. /\ t \in TaskIds /\ turn[r] \in 1..Tasks
      /\ task[r][turn[r]] = "new" /\ task'[r][turn[r]] = "queued"
      /\ \A s \in Requests, i \in 1..Tasks : <<s, i>> # t => task'[s][i] = task[s][i]
      /\ task' \in [Requests -> [1..Tasks -> States]]
      /\ pc' \in [Requests -> Labels] /\ turn' \in [Requests -> 1..Tasks]
      /\ pc[r] = "offer" /\ pc'[r] # "caller"
      /\ \A s \in Requests \ {r} : pc'[s] = pc[s] /\ turn'[s] = turn[s]
      /\ Submits'
  BY <1>2, SubmitOne DEF Current, States
<1>4. /\ queue' \in Seq(TaskIds) /\ Len(queue') = l /\ Len(queue) \in Nat
      /\ \A k \in 1..Len(queue) : queue'[k] = queue[k]
      /\ queue'[l] = t
  BY <1>1, <1>2, <1>3, TypeParts
<1>5. \A k \in 1..Len(queue') : k \in 1..Len(queue) \/ k = l
  BY <1>4
<1>6. \A k \in 1..Len(queue) : queue[k] # t
  BY <1>1, <1>3 DEF Queued
<1> HIDE DEF l
<1>7. TypeOK'
  BY <1>1, <1>2, <1>3, <1>4, TypeWhole, TypeParts DEF TypeOK
<1>8. Queued'
  <2> SUFFICES ASSUME NEW k \in 1..Len(queue'), NEW s \in Requests, NEW i \in 1..Tasks,
                      queue'[k] = <<s, i>>
               PROVE  task'[s][i] = "queued"
    BY DEF Queued
  <2>1. CASE k \in 1..Len(queue)
    <3>1. queue[k] = <<s, i>> /\ <<s, i>> # t
      BY <1>4, <1>6, <2>1
    <3> QED BY <1>1, <1>3, <2>1, <3>1 DEF Queued
  <2>2. CASE k = l
    <3>1. s = r /\ i = turn[r]
      BY <1>4, <2>2
    <3> QED BY <1>3, <3>1
  <2> QED BY <1>5, <2>1, <2>2
<1>9. Distinct'
  <2> SUFFICES ASSUME NEW j \in 1..Len(queue'), NEW k \in 1..Len(queue'),
                      queue'[j] = queue'[k]
               PROVE  j = k
    BY DEF Distinct
  <2>1. CASE j \in 1..Len(queue) /\ k \in 1..Len(queue)
    BY <1>1, <1>4, <2>1 DEF Distinct
  <2>2. CASE j = l /\ k = l
    BY <2>2
  <2>3. CASE (j = l /\ k \in 1..Len(queue)) \/ (k = l /\ j \in 1..Len(queue))
    BY <1>4, <1>6, <2>3
  <2> QED BY <1>5, <2>1, <2>2, <2>3
<1>10. InQueue'
  <2> SUFFICES ASSUME NEW s \in Requests, NEW i \in 1..Tasks, task'[s][i] = "queued"
               PROVE  \E k \in 1..Len(queue') : queue'[k] = <<s, i>>
    BY DEF InQueue
  <2>1. CASE <<s, i>> = t
    <3>1. l \in 1..Len(queue')
      BY <1>4 DEF l
    <3> QED BY <1>4, <2>1, <3>1
  <2>2. CASE <<s, i>> # t
    <3>1. PICK k \in 1..Len(queue) : queue[k] = <<s, i>>
      BY <1>1, <1>3, <2>2 DEF InQueue
    <3>2. k \in 1..Len(queue')
      BY <1>4 DEF l
    <3> QED BY <1>4, <3>1, <3>2
  <2> QED BY <2>1, <2>2
<1>11. WithThread' /\ WithCaller' /\ Runs' /\ Down'
  BY <1>1, <1>2, <1>3, SubmittedRest
<1> QED BY <1>3, <1>7, <1>8, <1>9, <1>10, <1>11 DEF PoolInv

\* A thread of the pool takes the first task of the queue.
LEMMA PoolTake ==
  ASSUME PoolInv, NEW w \in Workers, TakeTask(w)
  PROVE  PoolInv'
<1>1. /\ TypeOK /\ Submits /\ Queued /\ Distinct /\ InQueue
      /\ WithThread /\ WithCaller /\ Runs /\ Down
  BY DEF PoolInv
<1>2. /\ w \in Waiting /\ queue # <<>> /\ worker' = [worker EXCEPT ![w] = Head(queue)]
      /\ queue' = Tail(queue) /\ Becomes(Head(queue), "running")
      /\ UNCHANGED <<pc, turn, left, shut, waited, elapsed>>
  BY DEF TakeTask, clock
<1>3. /\ queue \in Seq(TaskIds) /\ Len(queue) \in Nat \ {0} /\ Head(queue) = queue[1]
      /\ queue' \in Seq(TaskIds) /\ Len(queue') = Len(queue) - 1
      /\ \A k \in 1..Len(queue') : queue'[k] = queue[k + 1]
  BY <1>1, <1>2, TypeParts, EmptySeq, HeadTailProperties
<1>4. 1 \in 1..Len(queue) /\ queue[1] \in TaskIds
  BY <1>3
<1>5. PICK r \in Requests, j \in 1..Tasks : queue[1] = <<r, j>>
  BY <1>4 DEF TaskIds
<1> DEFINE t == <<r, j>>
<1>6. t \in TaskIds /\ task[r][j] = "queued"
  BY <1>1, <1>4, <1>5 DEF Queued, TaskIds
<1>7. /\ task' \in [Requests -> [1..Tasks -> States]] /\ task'[r][j] = "running"
      /\ \A s \in Requests, i \in 1..Tasks : <<s, i>> # t => task'[s][i] = task[s][i]
  BY <1>1, <1>2, <1>3, <1>5, <1>6, BecomesOne DEF States
<1>8. \A v \in Workers : worker[v] # t
  BY <1>1, <1>6 DEF WithThread
<1>9. /\ worker'[w] = t /\ worker[w] \notin TaskIds
      /\ \A v \in Workers \ {w} : worker'[v] = worker[v]
      /\ worker' \in [Workers -> {None, Free, Poll, Take} \cup TaskIds]
  BY <1>1, <1>2, <1>3, <1>5, <1>6, NoTask, TypeParts DEF Waiting
<1>10. TypeOK'
  <2>1. \A v, u \in Workers : worker'[v] = worker'[u] /\ worker'[v] \in TaskIds => v = u
    BY <1>1, <1>8, <1>9 DEF TypeOK
  <2> QED BY <1>1, <1>2, <1>3, <1>7, <1>9, <2>1, TypeWhole, TypeParts DEF TypeOK
<1>11. Submits'
  <2>1. \A s \in Requests, i \in 1..Tasks : Ahead(s, i)' <=> Ahead(s, i)
    BY <1>2 DEF Ahead
  <2> QED BY <1>1, <1>2, <1>6, <1>7, <2>1 DEF Submits
<1>12. \A k \in 1..Len(queue') :
         k + 1 \in 1..Len(queue) /\ queue'[k] = queue[k + 1] /\ queue'[k] # t
  <2> SUFFICES ASSUME NEW k \in 1..Len(queue')
               PROVE  k + 1 \in 1..Len(queue) /\ queue[k + 1] # t
    BY <1>3
  <2>1. k + 1 \in 1..Len(queue) /\ k + 1 # 1
    BY <1>3
  <2> QED BY <1>1, <1>4, <1>5, <2>1 DEF Distinct
<1>13. Queued'
  <2> SUFFICES ASSUME NEW k \in 1..Len(queue'), NEW s \in Requests, NEW i \in 1..Tasks,
                      queue'[k] = <<s, i>>
               PROVE  task'[s][i] = "queued"
    BY DEF Queued
  <2> QED BY <1>1, <1>7, <1>12 DEF Queued
<1>14. Distinct'
  <2> SUFFICES ASSUME NEW k \in 1..Len(queue'), NEW n \in 1..Len(queue'),
                      queue'[k] = queue'[n]
               PROVE  k = n
    BY DEF Distinct
  <2>1. k + 1 = n + 1
    BY <1>1, <1>12 DEF Distinct
  <2> QED BY <1>3, <2>1
<1>15. InQueue'
  <2> SUFFICES ASSUME NEW s \in Requests, NEW i \in 1..Tasks, task'[s][i] = "queued"
               PROVE  \E k \in 1..Len(queue') : queue'[k] = <<s, i>>
    BY DEF InQueue
  <2>1. <<s, i>> # t /\ task[s][i] = "queued"
    BY <1>7
  <2>2. PICK k \in 1..Len(queue) : queue[k] = <<s, i>>
    BY <1>1, <2>1 DEF InQueue
  <2>3. k # 1
    BY <1>5, <2>1, <2>2
  <2>4. k - 1 \in 1..Len(queue') /\ (k - 1) + 1 = k
    BY <1>3, <2>3
  <2> QED BY <1>3, <2>2, <2>4
<1>16. WithThread'
  <2> SUFFICES ASSUME NEW v \in Workers, NEW s \in Requests, NEW i \in 1..Tasks,
                      worker'[v] = <<s, i>>
               PROVE  task'[s][i] = "running"
    BY DEF WithThread
  <2> QED BY <1>1, <1>7, <1>8, <1>9 DEF WithThread
<1>17. WithCaller'
  <2> SUFFICES ASSUME NEW s \in Requests, pc[s] = "caller"
               PROVE  /\ task'[s][turn[s]] = "running"
                      /\ \A v \in Workers : worker'[v] # <<s, turn[s]>>
    BY <1>2 DEF WithCaller
  <2>1. turn[s] \in 1..Tasks
    BY <1>1, TypeParts
  <2>2. task[s][turn[s]] = "running" /\ \A v \in Workers : worker[v] # <<s, turn[s]>>
    BY <1>1 DEF WithCaller
  <2>3. <<s, turn[s]>> # t
    BY <1>6, <2>2
  <2> QED BY <1>7, <1>9, <2>1, <2>2, <2>3
<1>18. Runs'
  <2> SUFFICES ASSUME NEW s \in Requests, NEW i \in 1..Tasks, task'[s][i] = "running"
               PROVE  \/ \E v \in Workers : worker'[v] = <<s, i>>
                      \/ pc[s] = "caller" /\ turn[s] = i
    BY <1>2 DEF Runs
  <2>1. CASE <<s, i>> = t
    BY <1>9, <2>1
  <2>2. CASE <<s, i>> # t
    <3>1. <<s, i>> \in TaskIds /\ task[s][i] = "running"
      BY <1>7, <2>2 DEF TaskIds
    <3> QED BY <1>1, <1>9, <3>1 DEF Runs
  <2> QED BY <2>1, <2>2
<1>19. Down'
  <2>1. ~shut
    BY <1>1, <1>2 DEF Down
  <2> QED BY <1>1, <1>2, <1>7, <2>1 DEF Down
<1> QED BY <1>10, <1>11, <1>13, <1>14, <1>15, <1>16, <1>17, <1>18, <1>19 DEF PoolInv

\* A full pool leaves the task to the request, and a pool that is shut down drops it.
LEMMA PoolCallerRuns ==
  ASSUME PoolInv, NEW r \in Requests, CallerRuns(r)
  PROVE  PoolInv'
<1>1. /\ TypeOK /\ Submits /\ Queued /\ Distinct /\ InQueue
      /\ WithThread /\ WithCaller /\ Runs /\ Down
  BY DEF PoolInv
<1> DEFINE t == <<r, turn[r]>>
<1>2. UNCHANGED <<left, worker, queue, shut, waited, elapsed>>
  BY DEF CallerRuns, pool, clock
<1>3. CASE shut
  <2>1. Becomes(t, "dropped") /\ Submitted(r, "max")
    BY <1>3 DEF CallerRuns, Current
  <2>2. /\ t \in TaskIds /\ turn[r] \in 1..Tasks
        /\ task[r][turn[r]] = "new" /\ task'[r][turn[r]] = "dropped"
        /\ \A s \in Requests, i \in 1..Tasks : <<s, i>> # t => task'[s][i] = task[s][i]
        /\ task' \in [Requests -> [1..Tasks -> States]]
        /\ pc' \in [Requests -> Labels] /\ turn' \in [Requests -> 1..Tasks]
        /\ pc[r] = "max" /\ pc'[r] # "caller"
        /\ \A s \in Requests \ {r} : pc'[s] = pc[s] /\ turn'[s] = turn[s]
        /\ Submits'
    BY <1>2, <2>1, SubmitOne DEF Current, States
  <2>3. TypeOK'
    BY <1>1, <1>2, <2>2, TypeWhole, TypeParts DEF TypeOK
  <2>4. Queued' /\ Distinct' /\ InQueue'
    BY <1>1, <1>2, <2>2, OthersQueue
  <2>5. WithThread' /\ WithCaller' /\ Runs' /\ Down'
    BY <1>1, <1>2, <1>3, <2>2, SubmittedRest DEF Down
  <2> QED BY <2>2, <2>3, <2>4, <2>5 DEF PoolInv
<1>4. CASE ~shut
  <2>1. /\ Becomes(t, "running") /\ pc[r] = "max" /\ pc' = [pc EXCEPT ![r] = "caller"]
        /\ UNCHANGED turn
    BY <1>4 DEF CallerRuns, Current, Goto
  <2>2. t \in TaskIds /\ turn[r] \in 1..Tasks
    BY <1>1, TypeParts DEF TaskIds
  <2>3. /\ task'[r][turn[r]] = "running"
        /\ \A s \in Requests, i \in 1..Tasks : <<s, i>> # t => task'[s][i] = task[s][i]
        /\ task' \in [Requests -> [1..Tasks -> States]]
    BY <1>1, <2>1, <2>2, BecomesOne DEF States
  <2>4. /\ pc'[r] = "caller" /\ pc' \in [Requests -> Labels]
        /\ \A s \in Requests \ {r} : pc'[s] = pc[s]
    BY <1>1, <2>1, TypeParts DEF Labels
  <2>5. Ahead(r, turn[r]) /\ task[r][turn[r]] = "new"
    BY <1>1, <2>1, <2>2 DEF Ahead, Submits
  <2>6. TypeOK'
    BY <1>1, <1>2, <2>1, <2>3, <2>4, TypeWhole, TypeParts DEF TypeOK
  <2>7. Submits'
    <3> SUFFICES ASSUME NEW s \in Requests, NEW i \in 1..Tasks
                 PROVE  /\ task'[s][i] = "new" <=> Ahead(s, i)'
                        /\ task'[s][i] \in {"new", "queued"} => left[s][i] = Duration
      BY <1>2 DEF Submits
    <3>1. CASE s = r /\ i = turn[r]
      BY <2>1, <2>2, <2>3, <2>4, <3>1 DEF Ahead
    <3>2. CASE s = r /\ i # turn[r]
      <4>1. Ahead(r, i)' <=> Ahead(r, i)
        BY <2>1, <2>2, <2>4, <3>2 DEF Ahead
      <4> QED BY <1>1, <2>3, <3>2, <4>1 DEF Submits
    <3>3. CASE s # r
      <4>1. Ahead(s, i)' <=> Ahead(s, i)
        BY <2>1, <2>4, <3>3 DEF Ahead
      <4> QED BY <1>1, <2>3, <3>3, <4>1 DEF Submits
    <3> QED BY <3>1, <3>2, <3>3
  <2>8. Queued' /\ Distinct' /\ InQueue'
    BY <1>1, <1>2, <2>2, <2>3, <2>5, OthersQueue
  <2>9. WithThread'
    <3>1. \A w \in Workers : worker[w] # t
      BY <1>1, <2>2, <2>5 DEF WithThread
    <3> QED BY <1>1, <1>2, <2>3, <3>1 DEF WithThread
  <2>10. WithCaller'
    <3> SUFFICES ASSUME NEW s \in Requests, pc'[s] = "caller"
                 PROVE  /\ task'[s][turn[s]] = "running"
                        /\ \A w \in Workers : worker[w] # <<s, turn[s]>>
      BY <1>2, <2>1 DEF WithCaller
    <3>1. CASE s = r
      BY <1>1, <2>2, <2>3, <2>5, <3>1 DEF WithThread
    <3>2. CASE s # r
      <4>1. turn[s] \in 1..Tasks
        BY <1>1, TypeParts
      <4> QED BY <1>1, <2>3, <2>4, <3>2, <4>1 DEF WithCaller
    <3> QED BY <3>1, <3>2
  <2>11. Runs'
    <3> SUFFICES ASSUME NEW s \in Requests, NEW i \in 1..Tasks, task'[s][i] = "running"
                 PROVE  \/ \E w \in Workers : worker[w] = <<s, i>>
                        \/ pc'[s] = "caller" /\ turn[s] = i
      BY <1>2, <2>1 DEF Runs
    <3>1. CASE <<s, i>> = t
      BY <2>4, <3>1
    <3>2. CASE <<s, i>> # t
      <4>1. task[s][i] = "running"
        BY <2>3, <3>2
      <4> QED BY <1>1, <2>1, <2>4, <4>1 DEF Runs
    <3> QED BY <3>1, <3>2
  <2>12. Down'
    BY <1>1, <1>2, <2>3, <1>4 DEF Down
  <2> QED BY <2>6, <2>7, <2>8, <2>9, <2>10, <2>11, <2>12 DEF PoolInv
<1> QED BY <1>3, <1>4

\* A task that is done has left its thread, and the other tasks are where they were.
LEMMA PoolDone ==
  ASSUME PoolInv, NEW r \in Requests, CallerDone(r)
  PROVE  PoolInv'
<1>1. /\ TypeOK /\ Submits /\ Queued /\ Distinct /\ InQueue
      /\ WithThread /\ WithCaller /\ Runs /\ Down
  BY DEF PoolInv
<1> DEFINE t == <<r, turn[r]>>
<1>2. /\ Becomes(t, "done") /\ Submitted(r, "caller")
      /\ UNCHANGED <<left, worker, queue, shut, waited, elapsed>>
  BY DEF CallerDone, Current, pool, clock
<1>3. t \in TaskIds /\ turn[r] \in 1..Tasks
  BY <1>1, TypeParts DEF TaskIds
<1>4. /\ task'[r][turn[r]] = "done"
      /\ \A s \in Requests, i \in 1..Tasks : <<s, i>> # t => task'[s][i] = task[s][i]
      /\ task' \in [Requests -> [1..Tasks -> States]]
  BY <1>1, <1>2, <1>3, BecomesOne DEF States
<1>5. /\ pc[r] = "caller" /\ pc' \in [Requests -> Labels] /\ pc'[r] # "caller"
      /\ turn' \in [Requests -> 1..Tasks]
      /\ \A s \in Requests \ {r} : pc'[s] = pc[s] /\ turn'[s] = turn[s]
      /\ \A i \in 1..Tasks : Ahead(r, i)' <=> i > turn[r]
      /\ \A s \in Requests \ {r}, i \in 1..Tasks : Ahead(s, i)' <=> Ahead(s, i)
  BY <1>1, <1>2, SubmittedOne
<1>6. /\ task[r][turn[r]] = "running"
      /\ \A w \in Workers : worker[w] # t
  BY <1>1, <1>5 DEF WithCaller
<1>7. TypeOK'
  BY <1>1, <1>2, <1>4, <1>5, TypeWhole, TypeParts DEF TypeOK
<1>8. Submits'
  <2>1. \A s \in Requests, i \in 1..Tasks : Ahead(s, i)' <=> Ahead(s, i)
    BY <1>5 DEF Ahead
  <2> QED BY <1>1, <1>2, <1>4, <1>6, <2>1 DEF Submits
<1>9. Queued' /\ Distinct' /\ InQueue'
  BY <1>1, <1>2, <1>3, <1>4, <1>6, OthersQueue
<1>10. WithThread'
  BY <1>1, <1>2, <1>4, <1>6 DEF WithThread
<1>11. WithCaller'
  <2> SUFFICES ASSUME NEW s \in Requests, pc'[s] = "caller"
               PROVE  /\ task'[s][turn'[s]] = "running"
                      /\ \A w \in Workers : worker[w] # <<s, turn'[s]>>
    BY <1>2 DEF WithCaller
  <2>1. s # r /\ turn[s] \in 1..Tasks /\ pc[s] = "caller" /\ turn'[s] = turn[s]
    BY <1>1, <1>5, TypeParts
  <2>2. task[s][turn[s]] = "running" /\ \A w \in Workers : worker[w] # <<s, turn[s]>>
    BY <1>1, <2>1 DEF WithCaller
  <2>3. task'[s][turn[s]] = task[s][turn[s]]
    BY <1>4, <2>1
  <2> QED BY <2>1, <2>2, <2>3
<1>12. Runs'
  <2> SUFFICES ASSUME NEW s \in Requests, NEW i \in 1..Tasks, task'[s][i] = "running"
               PROVE  \/ \E w \in Workers : worker[w] = <<s, i>>
                      \/ pc'[s] = "caller" /\ turn'[s] = i
    BY <1>2 DEF Runs
  <2>1. <<s, i>> # t /\ task[s][i] = "running"
    BY <1>4
  <2>2. s = r => i # turn[r]
    BY <2>1
  <2>3. \/ \E w \in Workers : worker[w] = <<s, i>>
        \/ pc[s] = "caller" /\ turn[s] = i
    BY <1>1, <2>1 DEF Runs
  <2>4. pc[s] = "caller" /\ turn[s] = i => s # r
    BY <2>2
  <2> QED BY <1>5, <2>3, <2>4
<1>13. Down'
  BY <1>1, <1>2, <1>4 DEF Down
<1> QED BY <1>7, <1>8, <1>9, <1>10, <1>11, <1>12, <1>13 DEF PoolInv

\* A thread of the pool is done with its task.
LEMMA PoolFinish ==
  ASSUME PoolInv, NEW w \in Workers, Finish(w)
  PROVE  PoolInv'
<1>1. /\ TypeOK /\ Submits /\ Queued /\ Distinct /\ InQueue
      /\ WithThread /\ WithCaller /\ Runs /\ Down
  BY DEF PoolInv
<1>2. /\ worker[w] \in TaskIds /\ Becomes(worker[w], "done")
      /\ worker' = [worker EXCEPT ![w] = Free]
      /\ UNCHANGED <<pc, turn, left, queue, shut, waited, elapsed>>
  BY DEF Finish, TaskIds, clock
<1>3. PICK r \in Requests, j \in 1..Tasks : worker[w] = <<r, j>>
  BY <1>2 DEF TaskIds
<1> DEFINE t == <<r, j>>
<1>4. t \in TaskIds /\ task[r][j] = "running"
  BY <1>1, <1>2, <1>3 DEF WithThread
<1>5. /\ task'[r][j] = "done"
      /\ \A s \in Requests, i \in 1..Tasks : <<s, i>> # t => task'[s][i] = task[s][i]
      /\ task' \in [Requests -> [1..Tasks -> States]]
  BY <1>1, <1>2, <1>3, <1>4, BecomesOne DEF States
<1>6. /\ worker'[w] = Free /\ worker'[w] \notin TaskIds
      /\ \A v \in Workers \ {w} : worker'[v] = worker[v] /\ worker[v] # t
      /\ worker' \in [Workers -> {None, Free, Poll, Take} \cup TaskIds]
  BY <1>1, <1>2, <1>3, NoTask, TypeParts DEF TypeOK
<1>7. TypeOK'
  <2>1. \A v, u \in Workers : worker'[v] = worker'[u] /\ worker'[v] \in TaskIds => v = u
    BY <1>1, <1>6 DEF TypeOK
  <2> QED BY <1>1, <1>2, <1>5, <1>6, <2>1, TypeWhole, TypeParts DEF TypeOK
<1>8. Submits'
  <2>1. \A s \in Requests, i \in 1..Tasks : Ahead(s, i)' <=> Ahead(s, i)
    BY <1>2 DEF Ahead
  <2> QED BY <1>1, <1>2, <1>4, <1>5, <2>1 DEF Submits
<1>9. Queued' /\ Distinct' /\ InQueue'
  BY <1>1, <1>2, <1>4, <1>5, OthersQueue
<1>10. WithThread'
  <2> SUFFICES ASSUME NEW v \in Workers, NEW s \in Requests, NEW i \in 1..Tasks,
                      worker'[v] = <<s, i>>
               PROVE  task'[s][i] = "running"
    BY DEF WithThread
  <2>1. <<s, i>> \in TaskIds
    BY DEF TaskIds
  <2>2. v # w
    BY <1>6, <2>1
  <2>3. worker[v] = <<s, i>> /\ <<s, i>> # t
    BY <1>6, <2>2
  <2>4. task[s][i] = "running"
    BY <1>1, <2>3 DEF WithThread
  <2> QED BY <1>5, <2>3, <2>4
<1>11. WithCaller'
  <2> SUFFICES ASSUME NEW s \in Requests, pc[s] = "caller"
               PROVE  /\ task'[s][turn[s]] = "running"
                      /\ \A v \in Workers : worker'[v] # <<s, turn[s]>>
    BY <1>2 DEF WithCaller
  <2>1. <<s, turn[s]>> \in TaskIds /\ turn[s] \in 1..Tasks
    BY <1>1, TypeParts DEF TaskIds
  <2>2. task[s][turn[s]] = "running" /\ \A v \in Workers : worker[v] # <<s, turn[s]>>
    BY <1>1 DEF WithCaller
  <2>3. <<s, turn[s]>> # t
    BY <1>3, <2>2
  <2>4. task'[s][turn[s]] = "running"
    BY <1>5, <2>1, <2>2, <2>3
  <2>5. \A v \in Workers : worker'[v] # <<s, turn[s]>>
    BY <1>6, <2>1, <2>2
  <2> QED BY <2>4, <2>5
<1>12. Runs'
  <2> SUFFICES ASSUME NEW s \in Requests, NEW i \in 1..Tasks, task'[s][i] = "running"
               PROVE  \/ \E v \in Workers : worker'[v] = <<s, i>>
                      \/ pc[s] = "caller" /\ turn[s] = i
    BY <1>2 DEF Runs
  <2>1. <<s, i>> # t /\ task[s][i] = "running"
    BY <1>5
  <2> QED BY <1>1, <1>3, <1>6, <2>1 DEF Runs
<1>13. Down'
  <2>1. ~shut
    BY <1>1, <1>2, NoTask DEF Down
  <2> QED BY <1>1, <1>2, <1>5, <2>1 DEF Down
<1> QED BY <1>7, <1>8, <1>9, <1>10, <1>11, <1>12, <1>13 DEF PoolInv

\* Shutdown fails the tasks of the pool, and leaves those a request runs itself.
LEMMA PoolShutdown ==
  ASSUME PoolInv, Shutdown
  PROVE  PoolInv'
<1>1. /\ TypeOK /\ Submits /\ Queued /\ Distinct /\ InQueue
      /\ WithThread /\ WithCaller /\ Runs /\ Down
  BY DEF PoolInv
<1>2. /\ UNCHANGED <<pc, turn, left, waited, elapsed>> /\ shut'
      /\ queue' = <<>> /\ \A w \in Workers : worker'[w] = None
      /\ worker' \in [Workers -> {None, Free, Poll, Take} \cup TaskIds]
      /\ worker' = [w \in Workers |-> None]
      /\ task' = [r \in Requests |-> [i \in 1..Tasks |->
                    IF Interrupted(r, i) THEN "failed" ELSE task[r][i]]]
  BY DEF Shutdown, clock
<1>3. /\ task' \in [Requests -> [1..Tasks -> States]]
      /\ \A r \in Requests, i \in 1..Tasks :
           task'[r][i] = IF Interrupted(r, i) THEN "failed" ELSE task[r][i]
  BY <1>1, <1>2, TypeParts DEF States
<1>4. \A r \in Requests, i \in 1..Tasks :
        /\ Interrupted(r, i) => task[r][i] \in {"queued", "running"}
        /\ task'[r][i] # "queued"
  BY <1>1, <1>3 DEF Interrupted, WithThread
<1>5. TypeOK'
  <2>1. shut' \in BOOLEAN /\ queue' \in Seq(TaskIds)
    BY <1>2, EmptySeq DEF Shutdown
  <2>2. \A v, w \in Workers : worker'[v] = worker'[w] /\ worker'[v] \in TaskIds => v = w
    BY <1>2, NoTask
  <2> QED BY <1>1, <1>2, <1>3, <2>1, <2>2, TypeWhole, TypeParts DEF TypeOK
<1>6. Submits'
  <2>1. \A s \in Requests, i \in 1..Tasks : Ahead(s, i)' <=> Ahead(s, i)
    BY <1>2 DEF Ahead
  <2>2. \A s \in Requests, i \in 1..Tasks :
          task'[s][i] \in {"new", "queued"} <=> task[s][i] = "new"
    BY <1>3, <1>4
  <2>3. \A s \in Requests, i \in 1..Tasks : task'[s][i] = "new" <=> task[s][i] = "new"
    BY <1>3, <1>4
  <2> QED BY <1>1, <1>2, <2>1, <2>2, <2>3 DEF Submits
<1>7. Queued' /\ Distinct' /\ InQueue'
  BY <1>2, <1>4 DEF Queued, Distinct, InQueue
<1>8. WithThread'
  <2>1. \A r \in Requests, i \in 1..Tasks : None # <<r, i>>
    BY NoTask DEF TaskIds
  <2> QED BY <1>2, <2>1 DEF WithThread
<1>9. WithCaller'
  <2> SUFFICES ASSUME NEW s \in Requests, pc[s] = "caller"
               PROVE  /\ task'[s][turn[s]] = "running"
                      /\ \A v \in Workers : worker'[v] # <<s, turn[s]>>
    BY <1>2 DEF WithCaller
  <2>1. <<s, turn[s]>> \in TaskIds /\ turn[s] \in 1..Tasks
    BY <1>1, TypeParts DEF TaskIds
  <2>2. task[s][turn[s]] = "running" /\ \A v \in Workers : worker[v] # <<s, turn[s]>>
    BY <1>1 DEF WithCaller
  <2>3. ~Interrupted(s, turn[s])
    BY <2>2 DEF Interrupted
  <2>4. \A v \in Workers : worker'[v] # <<s, turn[s]>>
    BY <1>2, <2>1, NoTask
  <2> QED BY <1>3, <2>1, <2>2, <2>3, <2>4
<1>10. Runs'
  <2> SUFFICES ASSUME NEW s \in Requests, NEW i \in 1..Tasks, task'[s][i] = "running"
               PROVE  pc[s] = "caller" /\ turn[s] = i
    BY <1>2 DEF Runs
  <2>1. ~Interrupted(s, i) /\ task[s][i] = "running"
    BY <1>3
  <2> QED BY <1>1, <2>1 DEF Runs, Interrupted
<1>11. Down'
  BY <1>2 DEF Down
<1> QED BY <1>5, <1>6, <1>7, <1>8, <1>9, <1>10, <1>11 DEF PoolInv

\* How the clocks go on.
LEMMA TickTimes ==
  ASSUME PoolInv, Tick
  PROVE  /\ left' \in [Requests -> [1..Tasks -> 0..Duration]]
         /\ waited' \in [Requests -> 0..Patience]
         /\ elapsed' \in [Requests -> 0..Longest + 1]
         /\ \A r \in Requests, i \in 1..Tasks :
              left'[r][i] = IF Asleep(<<r, i>>) THEN left[r][i] - 1 ELSE left[r][i]
         /\ \A r \in Requests :
              /\ waited'[r] = IF Pending(r) THEN Later(waited[r], Patience) ELSE waited[r]
              /\ elapsed'[r] = IF r \in Active THEN Later(elapsed[r], Longest + 1)
                                               ELSE elapsed[r]
<1>1. TypeOK
  BY DEF PoolInv
<1>2. /\ \A r \in Requests, i \in 1..Tasks :
           left'[r][i] = IF Asleep(<<r, i>>) THEN left[r][i] - 1 ELSE left[r][i]
      /\ \A r \in Requests :
           /\ waited'[r] = IF Pending(r) THEN Later(waited[r], Patience) ELSE waited[r]
           /\ elapsed'[r] = IF r \in Active THEN Later(elapsed[r], Longest + 1)
                                            ELSE elapsed[r]
  BY DEF Tick
<1>3. left' \in [Requests -> [1..Tasks -> 0..Duration]]
  <2>1. \A r \in Requests, i \in 1..Tasks :
          (IF Asleep(<<r, i>>) THEN left[r][i] - 1 ELSE left[r][i]) \in 0..Duration
    <3> SUFFICES ASSUME NEW r \in Requests, NEW i \in 1..Tasks
                 PROVE  (IF Asleep(<<r, i>>) THEN left[r][i] - 1 ELSE left[r][i])
                          \in 0..Duration
      OBVIOUS
    <3>1. left[r][i] \in 0..Duration
      BY <1>1, TypeParts
    <3> QED BY <3>1, BoundsAssumption DEF Asleep
  <2> QED BY <2>1 DEF Tick
<1>4. \A bound \in Nat : \A time \in 0..bound : Later(time, bound) \in 0..bound
  BY DEF Later
<1>5. waited' \in [Requests -> 0..Patience]
  BY <1>1, <1>4, BoundsAssumption DEF Tick, TypeOK
<1>6. elapsed' \in [Requests -> 0..Longest + 1]
  <2>1. Longest + 1 \in Nat
    BY Times
  <2> QED BY <1>1, <1>4, <2>1 DEF Tick, TypeOK
<1> QED BY <1>2, <1>3, <1>5, <1>6

\* Time goes on.
LEMMA PoolTick ==
  ASSUME PoolInv, Tick
  PROVE  PoolInv'
<1>1. /\ TypeOK /\ Submits /\ Queued /\ Distinct /\ InQueue
      /\ WithThread /\ WithCaller /\ Runs /\ Down
  BY DEF PoolInv
<1>2. UNCHANGED <<pc, turn, task, worker, queue, shut>>
  BY DEF Tick, pool
<1>3. TypeOK'
  BY <1>1, <1>2, TickTimes, TypeWhole, TypeParts DEF TypeOK
<1>4. Submits'
  BY <1>1, <1>2, TickTimes DEF Submits, Ahead, Asleep
<1>5. Queued' /\ Distinct' /\ InQueue'
  BY <1>1, <1>2, SameQueue
<1>6. WithThread' /\ WithCaller' /\ Runs' /\ Down'
  BY <1>1, <1>2 DEF WithThread, WithCaller, Runs, Down
<1> QED BY <1>3, <1>4, <1>5, <1>6 DEF PoolInv

\* Nothing happens.
LEMMA PoolStutters == PoolInv /\ UNCHANGED vars => PoolInv'
<1> SUFFICES ASSUME PoolInv, UNCHANGED vars
             PROVE  PoolInv'
  OBVIOUS
<1>1. /\ TypeOK /\ Submits /\ Queued /\ Distinct /\ InQueue
      /\ WithThread /\ WithCaller /\ Runs /\ Down
  BY DEF PoolInv
<1>2. UNCHANGED <<pc, turn, task, left, worker, queue, shut, waited, elapsed>>
  BY DEF vars, pool, clock
<1>3. TypeOK'
  BY <1>1, <1>2 DEF TypeOK
<1>4. Submits' /\ Queued' /\ Distinct' /\ InQueue'
  BY <1>1, <1>2, SameQueue DEF Submits, Ahead
<1>5. WithThread' /\ WithCaller'
  BY <1>1, <1>2 DEF WithThread, WithCaller
<1>6. Runs'
  BY <1>1, <1>2 DEF Runs
<1>7. Down'
  BY <1>1, <1>2 DEF Down
<1> QED BY <1>3, <1>4, <1>5, <1>6, <1>7 DEF PoolInv

\* Every step keeps PoolInv.
LEMMA PoolNext == PoolInv /\ [Next]_vars => PoolInv'
<1> SUFFICES ASSUME PoolInv, [Next]_vars
             PROVE  PoolInv'
  OBVIOUS
<1>1. ASSUME NEW r \in Requests, NEW w \in Workers, AddCore(w, r) \/ AddMax(w, r)
      PROVE  PoolInv'
  BY <1>1, PoolStart
<1>2. ASSUME NEW r \in Requests, Home(r) \/ CoreFull(r) \/ OfferFails(r)
      PROVE  PoolInv'
  BY <1>2, PoolMoves
<1>3. ASSUME NEW r \in Requests, Got(r) \/ GetFails(r) \/ GetTimesOut(r)
      PROVE  PoolInv'
  BY <1>3, PoolMoves
<1>4. ASSUME NEW r \in Requests, Offer(r)
      PROVE  PoolInv'
  BY <1>4, PoolOffer
<1>5. ASSUME NEW r \in Requests, CallerRuns(r) \/ CallerDone(r)
      PROVE  PoolInv'
  BY <1>5, PoolCallerRuns, PoolDone
<1>6. ASSUME NEW w \in Workers, Work(w) \/ KeepAliveEnds(w)
      PROVE  PoolInv'
  BY <1>6, PoolFinish, PoolTake, PoolThreads DEF Work
<1>7. CASE Shutdown
  BY <1>7, PoolShutdown
<1>8. CASE Tick
  BY <1>8, PoolTick
<1>9. CASE UNCHANGED vars
  BY <1>9, PoolStutters
<1>10. CASE Next
  <2>1. \/ \E r \in Requests : Home(r) \/ Proceed(r)
        \/ \E w \in Workers : Work(w) \/ KeepAliveEnds(w)
        \/ Shutdown \/ Tick
    BY <1>10 DEF Next
  <2>2. \A r \in Requests : Home(r) \/ Proceed(r) => PoolInv'
    BY <1>1, <1>2, <1>3, <1>4, <1>5 DEF Proceed
  <2> QED BY <1>6, <1>7, <1>8, <2>1, <2>2
<1> QED BY <1>9, <1>10

\* Which makes it an invariant.
LEMMA PoolAlways == Spec => []PoolInv
<1> QED BY PoolInit, PoolNext, PTL DEF Spec

\* Every request submits, and waits for, a task it has, and no two threads of the
\* pool run the same one.
THEOREM TypeCorrect == Spec => []TypeOK
<1>1. PoolInv => TypeOK
  BY DEF PoolInv
<1> QED BY <1>1, PoolAlways, PTL
-----------------------------------------------------------------------------
\* The threads that wait are finitely many.
LEMMA Counted ==
  ASSUME NEW S \in SUBSET Workers
  PROVE  IsFiniteSet(S) /\ Cardinality(S) \in Nat
  BY ThreadsAssumption, FS_Subset, FS_CardinalityType

\* Only threads of the pool wait.
LEMMA WaitingWorkers == Waiting \in SUBSET Workers /\ Waiting' \in SUBSET Workers
  BY DEF Waiting

\* A thread more that waits does no harm.
LEMMA ReadyMore ==
  ASSUME TypeOK, Ready, Waiting \subseteq Waiting', UNCHANGED queue
  PROVE  Ready'
<1>1. Cardinality(Waiting) <= Cardinality(Waiting')
  BY Counted, WaitingWorkers, FS_Subset
<1>2. Len(queue) \in Nat /\ Cardinality(Waiting) \in Nat /\ Cardinality(Waiting') \in Nat
  BY TypeParts, Counted, WaitingWorkers
<1> QED BY <1>1, <1>2 DEF Ready

\* Nor does one less, if there was one more than tasks, or it has taken one.
LEMMA ReadyLess ==
  ASSUME TypeOK, Ready, NEW w \in Waiting, Waiting \ {w} \subseteq Waiting',
         Len(queue') \in Nat,
         \/ Len(queue') = Len(queue) /\ Len(queue) < Cardinality(Waiting)
         \/ Len(queue') = Len(queue) - 1
  PROVE  Ready'
<1>1. Waiting \ {w} \in SUBSET Workers
  BY WaitingWorkers
<1>2. Cardinality(Waiting \ {w}) = Cardinality(Waiting) - 1
  BY Counted, WaitingWorkers, FS_RemoveElement
<1>3. Cardinality(Waiting \ {w}) <= Cardinality(Waiting')
  BY <1>1, Counted, WaitingWorkers, FS_Subset
<1>4. Len(queue) \in Nat /\ Cardinality(Waiting) \in Nat /\ Cardinality(Waiting') \in Nat
  BY TypeParts, Counted, WaitingWorkers
<1> QED BY <1>2, <1>3, <1>4 DEF Ready

\* No step leaves a task in the queue for which no thread waits.
LEMMA ReadyNext ==
  ASSUME QueueCapacity = 0, PoolInv, Ready, [Next]_vars
  PROVE  Ready'
<1>1. TypeOK
  BY DEF PoolInv
<1>2. CASE UNCHANGED <<worker, queue>>
  BY <1>1, <1>2, ReadyMore DEF Waiting
<1>3. ASSUME NEW r \in Requests, NEW w \in Workers, AddCore(w, r) \/ AddMax(w, r)
      PROVE  Ready'
  <2>1. worker[w] = None /\ worker' = [worker EXCEPT ![w] = Current(r)] /\ UNCHANGED queue
    BY <1>3 DEF AddCore, AddMax, Start
  <2>2. worker[w] \notin {Poll, Take}
    BY <2>1, ThreadsAssumption
  <2>3. Waiting \subseteq Waiting'
    BY <1>1, <2>1, <2>2, TypeParts DEF Waiting
  <2> QED BY <1>1, <2>1, <2>3, ReadyMore
<1>4. ASSUME NEW r \in Requests, Offer(r)
      PROVE  Ready'
  <2>1. /\ Len(queue) < Cardinality(Waiting) + QueueCapacity
        /\ queue' = Append(queue, Current(r)) /\ UNCHANGED worker
    BY <1>4 DEF Offer, Room
  <2>2. queue \in Seq(TaskIds) /\ Current(r) \in TaskIds
    BY <1>1, TypeParts DEF Current, TaskIds
  <2>3. Len(queue') = Len(queue) + 1 /\ Len(queue) \in Nat
    BY <2>1, <2>2
  <2>4. Waiting' = Waiting
    BY <2>1 DEF Waiting
  <2>5. Cardinality(Waiting) \in Nat
    BY Counted, WaitingWorkers
  <2> QED BY QueueCapacity = 0, <2>1, <2>3, <2>4, <2>5 DEF Ready
<1>5. ASSUME NEW w \in Workers, Finish(w) \/ GetTask(w)
      PROVE  Ready'
  <2>1. /\ worker[w] \in TaskIds \cup {Free} /\ UNCHANGED queue
        /\ \E x : worker' = [worker EXCEPT ![w] = x]
    BY <1>5 DEF Finish, GetTask, TaskIds
  <2>2. worker[w] \notin {Poll, Take}
    BY <2>1, NoTask, ThreadsAssumption
  <2>3. Waiting \subseteq Waiting'
    BY <1>1, <2>1, <2>2, TypeParts DEF Waiting
  <2> QED BY <1>1, <2>1, <2>3, ReadyMore
<1>6. ASSUME NEW w \in Workers, TakeTask(w)
      PROVE  Ready'
  <2>1. /\ w \in Waiting /\ queue # <<>> /\ queue' = Tail(queue)
        /\ worker' = [worker EXCEPT ![w] = Head(queue)]
    BY <1>6 DEF TakeTask
  <2>2. Len(queue') = Len(queue) - 1 /\ Len(queue') \in Nat
    BY <1>1, <2>1, TypeParts, EmptySeq, HeadTailProperties
  <2>3. Waiting \ {w} \subseteq Waiting'
    BY <1>1, <2>1, TypeParts DEF Waiting
  <2> QED BY <1>1, <2>1, <2>2, <2>3, ReadyLess
<1>7. ASSUME NEW w \in Workers, KeepAliveEnds(w)
      PROVE  Ready'
  <2>1. /\ worker[w] = Poll /\ Len(queue) < Cardinality(Waiting) /\ UNCHANGED queue
        /\ \E x : worker' = [worker EXCEPT ![w] = x]
    BY <1>7 DEF KeepAliveEnds
  <2>2. w \in Waiting /\ Waiting \ {w} \subseteq Waiting'
    BY <1>1, <2>1, TypeParts DEF Waiting
  <2>3. Len(queue') = Len(queue) /\ Len(queue') \in Nat
    BY <1>1, <2>1, TypeParts
  <2> QED BY <1>1, <2>1, <2>2, <2>3, ReadyLess
<1>8. CASE Shutdown
  <2>1. Len(queue') = 0
    BY <1>8, EmptySeq DEF Shutdown
  <2>2. Cardinality(Waiting') \in Nat
    BY Counted, WaitingWorkers
  <2> QED BY <2>1, <2>2 DEF Ready
<1>9. ASSUME NEW r \in Requests,
             \/ Home(r) \/ CoreFull(r) \/ OfferFails(r) \/ CallerRuns(r) \/ CallerDone(r)
             \/ Got(r) \/ GetFails(r) \/ GetTimesOut(r)
      PROVE  Ready'
  <2>1. UNCHANGED <<worker, queue>>
    BY <1>9 DEF Home, CoreFull, OfferFails, CallerRuns, CallerDone, Got, GetFails,
                GetTimesOut, pool
  <2> QED BY <1>2, <2>1
<1>10. CASE Tick \/ UNCHANGED vars
  <2>1. UNCHANGED <<worker, queue>>
    BY <1>10 DEF Tick, vars, pool
  <2> QED BY <1>2, <2>1
<1>11. \A r \in Requests : Home(r) \/ Proceed(r) => Ready'
  BY <1>3, <1>4, <1>9 DEF Proceed
<1>12. \A w \in Workers : Work(w) \/ KeepAliveEnds(w) => Ready'
  BY <1>5, <1>6, <1>7 DEF Work
<1> QED BY <1>8, <1>10, <1>11, <1>12 DEF Next

\* So when every thread sleeps or waits no task is in the queue, and all that run sleep.
LEMMA QuietTasks ==
  ASSUME PoolInv, Ready, Quiet, NEW r \in Requests, NEW i \in 1..Tasks
  PROVE  task[r][i] # "queued" /\ (task[r][i] = "running" => Asleep(<<r, i>>))
<1>1. TypeOK /\ InQueue /\ Runs
  BY DEF PoolInv
<1>2. queue = <<>>
  <2> SUFFICES ASSUME queue # <<>> PROVE FALSE
    OBVIOUS
  <2>1. Len(queue) \in Nat \ {0}
    BY <1>1, TypeParts, EmptySeq
  <2>2. Cardinality(Waiting) # 0 /\ IsFiniteSet(Waiting)
    BY <2>1, Counted, WaitingWorkers DEF Ready
  <2>3. PICK w \in Workers : worker[w] \in {Poll, Take}
    BY <2>2, FS_EmptySet DEF Waiting
  <2>4. worker[w] # None /\ worker[w] \notin Requests \X (1..Tasks)
    BY <2>3, NoTask, ThreadsAssumption DEF TaskIds
  <2> QED BY <2>4 DEF Quiet
<1>3. task[r][i] # "queued"
  BY <1>1, <1>2, EmptySeq DEF InQueue
<1>4. ASSUME NEW w \in Workers, worker[w] = <<r, i>>
      PROVE  Asleep(<<r, i>>)
  <2>1. worker[w] # None /\ w \notin Waiting
    BY <1>4, NoTask DEF TaskIds, Waiting
  <2> QED BY <1>4, <2>1 DEF Quiet
<1>5. ASSUME pc[r] = "caller", turn[r] = i
      PROVE  Asleep(<<r, i>>)
  BY <1>5 DEF Quiet, Active, Over, Pending, Current
<1> QED BY <1>1, <1>3, <1>4, <1>5 DEF Runs

\* A task that get waits for while the clock goes on is asleep, or was dropped.
LEMMA QuietGets ==
  ASSUME PoolInv, Ready, Quiet, NEW r \in Requests, Pending(r)
  PROVE  Asleep(Current(r)) \/ Dropped(r)
<1>1. TypeOK /\ Submits /\ Down
  BY DEF PoolInv
<1>2. /\ pc[r] = "get" /\ task[r][turn[r]] \notin {"done", "failed"}
      /\ turn[r] \in 1..Tasks /\ task[r][turn[r]] \in States
  BY <1>1, TypeParts DEF Pending
<1>3. task[r][turn[r]] # "new"
  BY <1>1, <1>2 DEF Submits, Ahead
<1>4. task[r][turn[r]] = "dropped" => Dropped(r)
  BY <1>1, <1>2 DEF Down, Dropped
<1> QED BY <1>2, <1>3, <1>4, QuietTasks DEF States, Current

\* What a step that takes no time does to a request, and to one of its tasks.
Kept(r) == UNCHANGED <<pc[r], turn[r], waited[r]>>
Onward(r) == /\ pc[r] \in {"new", "core", "offer", "max"}
             /\ pc'[r] \in {"core", "offer", "max", "caller"}
             /\ UNCHANGED <<turn[r], waited[r]>>
SubmitsOne(r) == /\ pc[r] \in {"core", "offer", "max", "caller"}
                 /\ \/ pc'[r] = "core" /\ turn'[r] = turn[r] + 1
                    \/ pc'[r] = "get"
                 /\ UNCHANGED waited[r]
Gets(r) == /\ pc[r] = "get" /\ pc'[r] \in {"get"} \cup Over
           /\ waited'[r] = 0 \/ UNCHANGED <<turn[r], waited[r]>>
Moves(r) == Kept(r) \/ Onward(r) \/ SubmitsOne(r) \/ Gets(r)

Stays(r, i) == UNCHANGED task[r][i]
RunsOn(r, i) == /\ task[r][i] \in {"queued", "running"}
                /\ task'[r][i] \in {"running", "done", "failed"}
Starts(r, i) == i = turn[r] /\ pc[r] \in {"core", "offer", "max"} /\ task[r][i] = "new"
Goes(r, i) == Stays(r, i) \/ RunsOn(r, i) \/ Starts(r, i)

Timeless == /\ UNCHANGED <<left, elapsed>>
            /\ shut => shut'
            /\ \A r \in Requests : Moves(r) /\ \A i \in 1..Tasks : Goes(r, i)

\* To submit a task is such a step.
LEMMA SubmitTimeless ==
  ASSUME PoolInv, NEW r \in Requests, NEW from \in {"core", "offer", "max"},
         NEW state \in States \ {"new"},
         Submitted(r, from), Becomes(Current(r), state), UNCHANGED <<left, shut, clock>>
  PROVE  Timeless
<1>1. TypeOK /\ UNCHANGED <<left, shut, waited, elapsed>>
  BY DEF PoolInv, clock
<1>2. task[r][turn[r]] = "new"
  BY <1>1, SubmitOne
<1>3. /\ Current(r) \in TaskIds
      /\ \A s \in Requests, i \in 1..Tasks :
           <<s, i>> # <<r, turn[r]>> => task'[s][i] = task[s][i]
  BY <1>1, TypeParts, BecomesOne DEF Current, TaskIds
<1>4. /\ pc[r] = from
      /\ \A s \in Requests \ {r} : pc'[s] = pc[s] /\ turn'[s] = turn[s]
  BY <1>1, SubmittedOne
<1>5. \/ pc'[r] = "core" /\ turn'[r] = turn[r] + 1
      \/ pc'[r] = "get"
  BY <1>1, SubmittedOne
<1>6. \A s \in Requests : Moves(s)
  BY <1>1, <1>4, <1>5 DEF Moves, Kept, SubmitsOne
<1>7. \A s \in Requests, i \in 1..Tasks : Goes(s, i)
  BY <1>2, <1>3, <1>4 DEF Goes, Stays, Starts
<1> QED BY <1>1, <1>6, <1>7 DEF Timeless

\* Every step but that of the clock is one.
LEMMA TimelessNext ==
  ASSUME PoolInv, [Next]_vars, ~Tick
  PROVE  Timeless
<1>1. TypeOK /\ Queued /\ WithThread /\ WithCaller
  BY DEF PoolInv
<1>2. ASSUME NEW r \in Requests, NEW w \in Workers, AddCore(w, r) \/ AddMax(w, r)
      PROVE  Timeless
  <2>1. /\ Submitted(r, "core") \/ Submitted(r, "max")
        /\ Becomes(Current(r), "running") /\ UNCHANGED <<left, shut, clock>>
    BY <1>2 DEF AddCore, AddMax, Start
  <2> QED BY <2>1, SubmitTimeless DEF States
<1>3. ASSUME NEW r \in Requests, Offer(r)
      PROVE  Timeless
  BY <1>3, SubmitTimeless DEF Offer, States
<1>4. ASSUME NEW r \in Requests, CallerRuns(r)
      PROVE  Timeless
  <2>1. CASE shut
    BY <1>4, <2>1, SubmitTimeless DEF CallerRuns, States, pool
  <2>2. CASE ~shut
    <3>1. /\ Becomes(Current(r), "running") /\ pc[r] = "max"
          /\ pc' = [pc EXCEPT ![r] = "caller"]
          /\ UNCHANGED <<turn, left, shut, waited, elapsed>>
      BY <1>4, <2>2 DEF CallerRuns, Goto, pool, clock
    <3>2. Current(r) \in TaskIds /\ turn[r] \in 1..Tasks
      BY <1>1, TypeParts DEF Current, TaskIds
    <3>3. \A s \in Requests, i \in 1..Tasks :
            <<s, i>> # <<r, turn[r]>> => task'[s][i] = task[s][i]
      BY <1>1, <3>1, <3>2, BecomesOne DEF Current, States
    <3>4. task[r][turn[r]] = "new"
      BY <3>1, <3>2 DEF PoolInv, Submits, Ahead
    <3>5. \A s \in Requests : Moves(s)
      BY <1>1, <3>1, TypeParts DEF Moves, Kept, Onward
    <3>6. \A s \in Requests, i \in 1..Tasks : Goes(s, i)
      BY <3>1, <3>3, <3>4 DEF Goes, Stays, Starts
    <3> QED BY <3>1, <3>5, <3>6 DEF Timeless
  <2> QED BY <2>1, <2>2
<1>5. ASSUME NEW r \in Requests, CallerDone(r)
      PROVE  Timeless
  <2>1. /\ Becomes(Current(r), "done") /\ Submitted(r, "caller")
        /\ UNCHANGED <<left, shut, waited, elapsed>>
    BY <1>5 DEF CallerDone, pool, clock
  <2>2. Current(r) \in TaskIds /\ turn[r] \in 1..Tasks
    BY <1>1, TypeParts DEF Current, TaskIds
  <2>3. /\ \A s \in Requests, i \in 1..Tasks :
             <<s, i>> # <<r, turn[r]>> => task'[s][i] = task[s][i]
        /\ task'[r][turn[r]] = "done"
    BY <1>1, <2>1, <2>2, BecomesOne DEF Current, States
  <2>4. /\ pc[r] = "caller"
        /\ \/ pc'[r] = "core" /\ turn'[r] = turn[r] + 1
           \/ pc'[r] = "get"
        /\ \A s \in Requests \ {r} : pc'[s] = pc[s] /\ turn'[s] = turn[s]
    BY <1>1, <2>1, SubmittedOne
  <2>5. task[r][turn[r]] = "running"
    BY <1>1, <2>4 DEF WithCaller
  <2>6. \A s \in Requests : Moves(s)
    BY <2>1, <2>4 DEF Moves, Kept, SubmitsOne
  <2>7. \A s \in Requests, i \in 1..Tasks : Goes(s, i)
    BY <2>3, <2>5 DEF Goes, Stays, RunsOn
  <2> QED BY <2>1, <2>6, <2>7 DEF Timeless
<1>6. ASSUME NEW r \in Requests,
             \/ Home(r) \/ CoreFull(r) \/ OfferFails(r)
             \/ Got(r) \/ GetFails(r) \/ GetTimesOut(r)
      PROVE  Timeless
  <2>1. UNCHANGED <<task, left, shut, elapsed>>
    BY <1>6 DEF Home, CoreFull, OfferFails, Got, GetFails, GetTimesOut, pool, clock
  <2>2. ASSUME Home(r) \/ CoreFull(r) \/ OfferFails(r)
        PROVE  \A s \in Requests : Moves(s)
    BY <1>1, <2>2, TypeParts DEF Home, CoreFull, OfferFails, Goto, clock, Moves, Kept,
                                 Onward
  <2>3. ASSUME Got(r)
        PROVE  \A s \in Requests : Moves(s)
    <3>1. /\ pc[r] = "get" /\ \E x \in {"get"} \cup Over : pc' = [pc EXCEPT ![r] = x]
          /\ \A s \in Requests \ {r} : turn'[s] = turn[s]
          /\ waited' = [waited EXCEPT ![r] = 0]
      BY <1>1, <2>3, TypeParts DEF Got, Goto, Over
    <3>2. waited \in [Requests -> 0..Patience]
      BY <1>1 DEF TypeOK
    <3> QED BY <1>1, <3>1, <3>2, TypeParts DEF Moves, Kept, Gets
  <2>4. ASSUME GetFails(r) \/ GetTimesOut(r)
        PROVE  \A s \in Requests : Moves(s)
    BY <1>1, <2>4, TypeParts DEF GetFails, GetTimesOut, Goto, clock, Moves, Kept, Gets, Over
  <2> QED BY <1>6, <2>1, <2>2, <2>3, <2>4 DEF Timeless, Goes, Stays
<1>7. ASSUME NEW w \in Workers, Finish(w)
      PROVE  Timeless
  <2>1. /\ worker[w] \in TaskIds /\ Becomes(worker[w], "done")
        /\ UNCHANGED <<pc, turn, left, shut, waited, elapsed>>
    BY <1>7 DEF Finish, TaskIds, clock
  <2>2. PICK r \in Requests, j \in 1..Tasks : worker[w] = <<r, j>>
    BY <2>1 DEF TaskIds
  <2>3. /\ task[r][j] = "running" /\ task'[r][j] = "done"
        /\ \A s \in Requests, i \in 1..Tasks :
             <<s, i>> # <<r, j>> => task'[s][i] = task[s][i]
    BY <1>1, <2>1, <2>2, BecomesOne DEF WithThread, States
  <2> QED BY <2>1, <2>3 DEF Timeless, Moves, Kept, Goes, Stays, RunsOn
<1>8. ASSUME NEW w \in Workers, TakeTask(w)
      PROVE  Timeless
  <2>1. /\ queue # <<>> /\ Becomes(Head(queue), "running")
        /\ UNCHANGED <<pc, turn, left, shut, waited, elapsed>>
    BY <1>8 DEF TakeTask, clock
  <2>2. Head(queue) = queue[1] /\ 1 \in 1..Len(queue) /\ queue[1] \in TaskIds
    BY <1>1, <2>1, TypeParts, EmptySeq
  <2>3. PICK r \in Requests, j \in 1..Tasks : queue[1] = <<r, j>>
    BY <2>2 DEF TaskIds
  <2>4. /\ task[r][j] = "queued" /\ task'[r][j] = "running"
        /\ \A s \in Requests, i \in 1..Tasks :
             <<s, i>> # <<r, j>> => task'[s][i] = task[s][i]
    BY <1>1, <2>1, <2>2, <2>3, BecomesOne DEF Queued, States
  <2> QED BY <2>1, <2>4 DEF Timeless, Moves, Kept, Goes, Stays, RunsOn
<1>9. ASSUME NEW w \in Workers, GetTask(w) \/ KeepAliveEnds(w)
      PROVE  Timeless
  BY <1>9 DEF GetTask, KeepAliveEnds, clock, Timeless, Moves, Kept, Goes, Stays
<1>10. CASE Shutdown
  <2>1. UNCHANGED <<pc, turn, left, waited, elapsed>> /\ ~shut
    BY <1>10 DEF Shutdown, clock
  <2>2. \A r \in Requests, i \in 1..Tasks :
          task'[r][i] = IF Interrupted(r, i) THEN "failed" ELSE task[r][i]
    BY <1>10 DEF Shutdown
  <2>3. \A r \in Requests, i \in 1..Tasks :
          Interrupted(r, i) => task[r][i] \in {"queued", "running"}
    BY <1>1 DEF Interrupted, WithThread
  <2> QED BY <2>1, <2>2, <2>3 DEF Timeless, Moves, Kept, Goes, Stays, RunsOn
<1>11. CASE UNCHANGED vars
  BY <1>11 DEF vars, pool, clock, Timeless, Moves, Kept, Goes, Stays
<1>12. \A r \in Requests : Home(r) \/ Proceed(r) => Timeless
  BY <1>2, <1>3, <1>4, <1>5, <1>6 DEF Proceed
<1>13. \A w \in Workers : Work(w) \/ KeepAliveEnds(w) => Timeless
  BY <1>7, <1>8, <1>9 DEF Work
<1> QED BY <1>10, <1>11, <1>12, <1>13 DEF Next

\* A request waits for a task no longer than the task can take.
LEMMA WaitsNext ==
  ASSUME PoolInv, Ready, WaitsInTime, [Next]_vars
  PROVE  WaitsInTime'
<1>1. TypeOK /\ TypeOK' /\ Duration \in Nat /\ Patience \in Nat
  BY PoolNext, BoundsAssumption DEF PoolInv
<1> SUFFICES ASSUME NEW r \in Requests
             PROVE  /\ pc'[r] \in {"new", "core", "offer", "max", "caller"} =>
                         waited'[r] = 0
                    /\ Dropped(r)' \/ waited'[r] + left'[r][turn'[r]] <= Duration
  BY DEF WaitsInTime
<1>2. /\ waited[r] \in 0..Patience /\ waited'[r] \in 0..Patience
      /\ turn[r] \in 1..Tasks /\ turn'[r] \in 1..Tasks
      /\ left[r][turn[r]] \in 0..Duration /\ left'[r][turn'[r]] \in 0..Duration
  <2>1. /\ waited[r] \in 0..Patience /\ turn[r] \in 1..Tasks
        /\ left[r][turn[r]] \in 0..Duration
    <3>1. waited \in [Requests -> 0..Patience]
      BY <1>1 DEF TypeOK
    <3> QED BY <1>1, <3>1, TypeParts
  <2>2. /\ waited' \in [Requests -> 0..Patience]
        /\ turn' \in [Requests -> 1..Tasks]
        /\ left' \in [Requests -> [1..Tasks -> 0..Duration]]
    BY <1>1 DEF TypeOK
  <2> QED BY <2>1, <2>2
<1>3. CASE waited'[r] = 0
  BY <1>1, <1>2, <1>3
<1>4. CASE ~Tick
  <2>1. Timeless
    BY <1>4, TimelessNext
  <2>2. waited'[r] = 0 \/ Kept(r) \/ (Gets(r) /\ UNCHANGED <<turn[r], waited[r]>>)
    BY <2>1 DEF Timeless, Moves, Onward, SubmitsOne, Gets, WaitsInTime
  <2>3. Dropped(r) /\ UNCHANGED turn[r] => Dropped(r)'
    BY <1>2, <2>1 DEF Timeless, Goes, Stays, RunsOn, Starts, Dropped
  <2>4. CASE Kept(r) \/ (Gets(r) /\ UNCHANGED <<turn[r], waited[r]>>)
    BY <1>2, <2>1, <2>3, <2>4 DEF Timeless, Kept, Gets, Over, WaitsInTime
  <2> QED BY <1>3, <2>2, <2>4
<1>5. CASE Tick
  <2>1. /\ UNCHANGED <<pc, turn, task, shut>> /\ Quiet
        /\ left'[r][turn[r]] = IF Asleep(Current(r)) THEN left[r][turn[r]] - 1
                                                     ELSE left[r][turn[r]]
        /\ waited'[r] = IF Pending(r) THEN Later(waited[r], Patience) ELSE waited[r]
    BY <1>2, <1>5, TickTimes DEF Tick, pool, Current
  <2>2. Dropped(r)' <=> Dropped(r)
    BY <2>1 DEF Dropped
  <2>3. CASE Pending(r) /\ ~Dropped(r)
    <3>1. Asleep(Current(r))
      BY <2>1, <2>3, QuietGets
    <3>2. left'[r][turn[r]] = left[r][turn[r]] - 1 /\ waited'[r] <= waited[r] + 1
      BY <1>1, <1>2, <2>1, <2>3, <3>1 DEF Later
    <3>3. waited[r] + left[r][turn[r]] <= Duration
      BY <2>3 DEF WaitsInTime
    <3>4. waited'[r] + left'[r][turn'[r]] <= Duration
      BY <1>1, <1>2, <2>1, <3>2, <3>3
    <3> QED BY <2>1, <2>3, <3>4 DEF Pending
  <2>4. CASE Dropped(r)
    BY <2>1, <2>2, <2>4 DEF WaitsInTime, Pending
  <2>5. CASE ~Pending(r) /\ ~Dropped(r)
    <3>1. waited'[r] = waited[r] /\ left'[r][turn'[r]] <= left[r][turn[r]]
      BY <1>2, <2>1, <2>5
    <3>2. waited[r] + left[r][turn[r]] <= Duration
      BY <2>5 DEF WaitsInTime
    <3>3. waited'[r] + left'[r][turn'[r]] <= Duration
      BY <1>1, <1>2, <3>1, <3>2
    <3> QED BY <2>1, <3>1, <3>3 DEF WaitsInTime
  <2> QED BY <2>3, <2>4, <2>5
<1> QED BY <1>4, <1>5

\* What n tasks take, one after the other.
LEMMA DueTimes ==
  /\ \A i \in 0..Tasks : Due(i) \in Nat /\ Due(i) <= Due(Tasks)
  /\ \A i \in 1..Tasks : Due(i) = Due(i - 1) + Duration
  /\ Due(Tasks) = Longest
<1>1. Tasks \in Nat /\ Duration \in Nat
  BY BoundsAssumption
<1>2. \A i \in 0..Tasks : i * Duration \in Nat /\ i * Duration <= Tasks * Duration
  BY <1>1
<1>3. \A i \in 1..Tasks : i * Duration = (i - 1) * Duration + Duration
  BY <1>1
<1> QED BY <1>2, <1>3 DEF Due, Longest

\* While the pool is up no task of a request is over later than it is due.
LEMMA RunsNext ==
  ASSUME PoolInv, Ready, RunsInTime, [Next]_vars
  PROVE  RunsInTime'
<1>1. TypeOK /\ TypeOK' /\ Duration \in Nat /\ Tasks \in Nat
  BY PoolNext, BoundsAssumption DEF PoolInv
<1> SUFFICES ASSUME ~shut', NEW r \in Requests
             PROVE  /\ elapsed'[r] <= Due(Tasks)
                    /\ pc'[r] \in {"new", "core", "offer", "max"} =>
                         elapsed'[r] <= Due(turn'[r] - 1)
                    /\ \A i \in 1..Tasks : task'[r][i] \in {"queued", "running"} =>
                         elapsed'[r] + left'[r][i] <= Due(i)
  BY DEF RunsInTime, Due
<1>2. /\ turn[r] \in 1..Tasks /\ elapsed[r] \in Nat
      /\ \A i \in 1..Tasks : left[r][i] \in Nat
  <2>1. elapsed \in [Requests -> 0..Longest + 1] /\ Longest \in Nat
    BY <1>1, Times DEF TypeOK
  <2>2. elapsed[r] \in Nat
    BY <2>1
  <2> QED BY <1>1, <2>2, TypeParts
<1>3. ~shut
  BY TimelessNext DEF Timeless, Tick, pool
<1>4. /\ elapsed[r] <= Due(Tasks)
      /\ pc[r] \in {"new", "core", "offer", "max"} => elapsed[r] <= Due(turn[r] - 1)
      /\ \A i \in 1..Tasks : task[r][i] \in {"queued", "running"} =>
           elapsed[r] + left[r][i] <= Due(i)
  BY <1>3 DEF RunsInTime
<1>5. /\ Due(turn[r]) = Due(turn[r] - 1) + Duration
      /\ Due(turn[r]) \in Nat /\ Due(turn[r] - 1) \in Nat
  <2>1. turn[r] - 1 \in 0..Tasks /\ turn[r] \in 0..Tasks
    BY <1>1, <1>2
  <2> QED BY <1>2, <2>1, DueTimes
<1>6. CASE ~Tick
  <2>1. /\ elapsed'[r] = elapsed[r] /\ left' = left
        /\ Moves(r) /\ \A i \in 1..Tasks : Goes(r, i)
    BY <1>6, TimelessNext DEF Timeless
  <2>2. ASSUME pc'[r] \in {"new", "core", "offer", "max"}
        PROVE  elapsed[r] <= Due(turn'[r] - 1)
    <3>1. CASE Kept(r) \/ Onward(r)
      BY <1>4, <2>2, <3>1 DEF Kept, Onward
    <3>2. CASE SubmitsOne(r)
      <4>1. turn'[r] - 1 = turn[r]
        BY <1>2, <2>2, <3>2 DEF SubmitsOne
      <4>2. CASE pc[r] = "caller"
        <5>1. elapsed[r] + left[r][turn[r]] <= Due(turn[r])
          BY <1>2, <1>4, <4>2 DEF PoolInv, WithCaller
        <5> QED BY <1>2, <1>5, <4>1, <5>1
      <4>3. CASE pc[r] # "caller"
        <5>1. elapsed[r] <= Due(turn[r] - 1)
          BY <1>4, <3>2, <4>3 DEF SubmitsOne
        <5> QED BY <1>1, <1>2, <1>5, <4>1, <5>1
      <4> QED BY <4>2, <4>3
    <3>3. CASE Gets(r)
      BY <2>2, <3>3 DEF Gets, Over
    <3> QED BY <2>1, <3>1, <3>2, <3>3 DEF Moves
  <2>3. ASSUME NEW i \in 1..Tasks, task'[r][i] \in {"queued", "running"}
        PROVE  elapsed[r] + left[r][i] <= Due(i)
    <3>1. CASE Stays(r, i) \/ RunsOn(r, i)
      BY <1>4, <2>3, <3>1 DEF Stays, RunsOn
    <3>2. CASE Starts(r, i)
      <4>1. left[r][i] = Duration /\ i = turn[r]
        BY <3>2 DEF Starts, PoolInv, Submits
      <4>2. elapsed[r] <= Due(turn[r] - 1)
        BY <1>4, <3>2 DEF Starts
      <4> QED BY <1>1, <1>2, <1>5, <4>1, <4>2
    <3> QED BY <2>1, <3>1, <3>2 DEF Goes
  <2> QED BY <1>4, <2>1, <2>2, <2>3
<1>7. CASE Tick
  <2>1. /\ UNCHANGED <<pc, turn, task, shut>> /\ Quiet
        /\ \A i \in 1..Tasks :
             left'[r][i] = IF Asleep(<<r, i>>) THEN left[r][i] - 1 ELSE left[r][i]
        /\ elapsed'[r] = IF r \in Active THEN Later(elapsed[r], Longest + 1) ELSE elapsed[r]
    BY <1>7, TickTimes DEF Tick, pool
  <2>2. elapsed'[r] \in Nat /\ elapsed'[r] <= elapsed[r] + 1
    BY <1>2, <2>1 DEF Later
  <2>3. ASSUME NEW i \in 1..Tasks, task[r][i] \in {"queued", "running"}
        PROVE  Asleep(<<r, i>>) /\ elapsed'[r] + left'[r][i] <= Due(i)
    <3>1. Asleep(<<r, i>>)
      BY <2>1, <2>3, QuietTasks
    <3>2. left'[r][i] = left[r][i] - 1
      BY <2>1, <3>1
    <3>3. Due(i) \in Nat
      BY <1>1, DueTimes
    <3> QED BY <1>2, <1>4, <2>2, <2>3, <3>1, <3>2, <3>3
  <2>4. CASE r \in Active
    <3>1. Asleep(Current(r)) /\ pc[r] \in {"caller", "get"}
      <4>1. ~Dropped(r)
        BY <1>3 DEF Dropped
      <4> QED BY <2>1, <2>4, <4>1, QuietGets DEF Quiet, Pending
    <3>2. task[r][turn[r]] = "running" /\ left[r][turn[r]] > 0
      BY <3>1 DEF Asleep, Current
    <3>3. elapsed[r] + left[r][turn[r]] <= Due(turn[r])
      BY <1>2, <1>4, <3>2
    <3>4. Due(turn[r]) <= Due(Tasks) /\ Due(Tasks) \in Nat
      <4>1. turn[r] \in 0..Tasks /\ Tasks \in 0..Tasks
        BY <1>1, <1>2
      <4> QED BY <4>1, DueTimes
    <3>5. elapsed'[r] <= Due(Tasks)
      BY <1>2, <1>5, <2>2, <3>2, <3>3, <3>4
    <3> QED BY <2>1, <2>3, <3>1, <3>5
  <2>5. CASE r \notin Active
    BY <1>4, <2>1, <2>3, <2>5
  <2> QED BY <2>4, <2>5
<1> QED BY <1>6, <1>7

\* All of it holds at first.
LEMMA TimelyInit == Init => Ready /\ WaitsInTime /\ RunsInTime
<1> SUFFICES ASSUME Init PROVE Ready /\ WaitsInTime /\ RunsInTime
  OBVIOUS
<1>1. Ready
  <2>1. Cardinality(Waiting) \in Nat
    BY Counted, WaitingWorkers
  <2> QED BY <2>1, EmptySeq DEF Init, Ready
<1>2. WaitsInTime
  BY Times, BoundsAssumption DEF Init, WaitsInTime
<1>3. RunsInTime
  <2>1. 0 \in 0..Tasks /\ Tasks \in 0..Tasks
    BY BoundsAssumption
  <2>2. Due(0) \in Nat /\ Due(Tasks) \in Nat
    BY <2>1, DueTimes
  <2> QED BY <2>2 DEF Init, RunsInTime
<1> QED BY <1>1, <1>2, <1>3

\* With a queue that takes a task only for a thread that waits, no request waits for
\* a task longer than the task sleeps, unless the pool has dropped it.
THEOREM GetsInTimeHolds ==
  ASSUME QueueCapacity = 0
  PROVE  Spec => []GetsInTime
<1> DEFINE IInv == PoolInv /\ Ready /\ WaitsInTime
<1>1. Init => IInv
  BY PoolInit, TimelyInit
<1>2. IInv /\ [Next]_vars => IInv'
  BY QueueCapacity = 0, PoolNext, ReadyNext, WaitsNext
<1>3. IInv => GetsInTime
  <2> SUFFICES ASSUME IInv, NEW r \in Requests, waited[r] > Duration
               PROVE  Dropped(r)
    BY DEF GetsInTime, Dropped
  <2>1. TypeOK /\ turn[r] \in 1..Tasks /\ left[r][turn[r]] \in Nat /\ waited[r] \in Nat
    <3>1. TypeOK /\ waited \in [Requests -> 0..Patience]
      BY DEF PoolInv, TypeOK
    <3> QED BY <3>1, TypeParts, BoundsAssumption
  <2> QED BY <2>1, BoundsAssumption DEF WaitsInTime
<1> QED BY <1>1, <1>2, <1>3, PTL DEF Spec

\* And while the pool is up it has answered within the time its tasks sleep, one after
\* the other, however many requests and threads there are.
THEOREM AnswersInTimeHolds ==
  ASSUME QueueCapacity = 0
  PROVE  Spec => []AnswersInTime
<1> DEFINE IInv == PoolInv /\ Ready /\ RunsInTime
<1>1. Init => IInv
  BY PoolInit, TimelyInit
<1>2. IInv /\ [Next]_vars => IInv'
  BY QueueCapacity = 0, PoolNext, ReadyNext, RunsNext
<1>3. IInv => AnswersInTime
  BY DueTimes DEF RunsInTime, AnswersInTime
<1> QED BY <1>1, <1>2, <1>3, PTL DEF Spec
==============================================================================
