----------------------------- MODULE TaskExecutor -----------------------------
(***************************************************************************)
(* taskexecutor-demo: requests submit tasks to one ThreadPoolTaskExecutor  *)
(* and then wait for each of them.  The pool has no queue: a task is given *)
(* to a thread that waits, or to a new one, or the request runs it itself. *)
(* Tasks take one second each, and a request waits ten for each of its     *)
(* tasks.  All else takes no time that counts: the clock advances when     *)
(* every thread sleeps or waits.                                           *)
(*                                                                         *)
(* The pool is shut down with the application, while requests are still    *)
(* served.                                                                 *)
(***************************************************************************)
EXTENDS Integers, Sequences, FiniteSets

CONSTANTS Requests,       \* one call of home() each
          Workers,        \* threads the pool may have: MaxPoolSize of them
          CorePoolSize,
          QueueCapacity,
          Tasks,          \* how many tasks home() submits
          Duration,       \* how long a task sleeps
          Patience,       \* how long get waits
          None, Free,     \* a thread that is not there, one that asks for a task,
          Poll, Take      \* one that waits for it with a limit, one without

ASSUME BoundsAssumption == /\ CorePoolSize \in Nat /\ QueueCapacity \in Nat
                           /\ Tasks \in Nat \ {0}
                           /\ Duration \in Nat /\ Patience \in Nat
ASSUME ThreadsAssumption ==
  /\ IsFiniteSet(Workers)
  /\ None \notin {Free, Poll, Take} /\ Free \notin {Poll, Take} /\ Poll # Take
  /\ {None, Free, Poll, Take} \cap (Requests \X (1..Tasks)) = {}

VARIABLES pc,             \* where each request is
          turn,           \* the task it submits, or waits for
          task,           \* what has become of each request's tasks
          left,           \* how long each of them will still sleep
          worker,         \* what each thread of the pool does
          queue,          \* tasks offered to the pool and not yet taken
          shut,           \* the pool is shut down
          waited,         \* how long a request has waited in get
          elapsed         \* and how long it has taken so far

pool == <<worker, queue, shut>>
clock == <<waited, elapsed>>
vars == <<pc, turn, task, left, pool, clock>>

Init == /\ pc = [r \in Requests |-> "new"]
        /\ turn = [r \in Requests |-> 1]
        /\ task = [r \in Requests |-> [i \in 1..Tasks |-> "new"]]
        /\ left = [r \in Requests |-> [i \in 1..Tasks |-> Duration]]
        /\ worker = [w \in Workers |-> None]
        /\ queue = <<>>
        /\ shut = FALSE
        /\ waited = [r \in Requests |-> 0]
        /\ elapsed = [r \in Requests |-> 0]

Goto(r, from, to) == pc[r] = from /\ pc' = [pc EXCEPT ![r] = to]
Current(r) == <<r, turn[r]>>
Becomes(t, state) == task' = [task EXCEPT ![t[1]][t[2]] = state]

Alive == {w \in Workers : worker[w] # None}
Waiting == {w \in Workers : worker[w] \in {Poll, Take}}
-----------------------------------------------------------------------------
\* Mutant: the loop counts to Tasks inclusive, from 0.
OneMore(r) == IF turn[r] <= Tasks THEN "core" ELSE "get"

\* The loop of home(): the next task is submitted, or the first is waited for.
After(r) == IF turn[r] < Tasks THEN "core" ELSE "get"

\* submit() has returned.
Submitted(r, from) == /\ Goto(r, from, After(r))
                      /\ turn' = [turn EXCEPT ![r] = IF After(r) = "core" THEN @ + 1 ELSE 1]

\* A request arrives.
Home(r) == /\ Goto(r, "new", "core")
           /\ UNCHANGED <<turn, task, left, pool, clock>>

\* A new thread, with the task as its first one.
Start(w, r, from) == /\ worker[w] = None
                     /\ worker' = [worker EXCEPT ![w] = Current(r)]
                     /\ Becomes(Current(r), "running")
                     /\ Submitted(r, from)
                     /\ UNCHANGED <<left, queue, shut, clock>>

\* execute(): fewer threads than the core size.
AddCore(w, r) == /\ Cardinality(Alive) < CorePoolSize
                 /\ ~shut
                 /\ Start(w, r, "core")

CoreFull(r) == /\ Goto(r, "core", "offer")
               /\ Cardinality(Alive) >= CorePoolSize \/ shut
               /\ UNCHANGED <<turn, task, left, pool, clock>>

\* Mutant: setQueueCapacity is forgotten; the default is Integer.MAX_VALUE.
Unlimited == Len(queue) + 1

\* A queue without capacity takes a task for a thread that waits for one.
Room == Cardinality(Waiting) + QueueCapacity

Offer(r) == /\ Len(queue) < Room
            /\ ~shut
            /\ queue' = Append(queue, Current(r))
            /\ Becomes(Current(r), "queued")
            /\ Submitted(r, "offer")
            /\ UNCHANGED <<left, worker, shut, clock>>

OfferFails(r) == /\ Goto(r, "offer", "max")
                 /\ Len(queue) >= Room \/ shut
                 /\ UNCHANGED <<turn, task, left, pool, clock>>

\* A thread above the core size.
AddMax(w, r) == ~shut /\ Start(w, r, "max")

\* Mutant: setRejectedExecutionHandler with DiscardPolicy.
Discard(r) == /\ Alive = Workers \/ shut
              /\ Becomes(Current(r), "dropped")
              /\ Submitted(r, "max")
              /\ UNCHANGED <<left, pool, clock>>

\* CallerRunsPolicy: the request's thread runs the task, unless the pool is shut
\* down, when the task is dropped without a word.
CallerRuns(r) == /\ Alive = Workers \/ shut
                 /\ IF shut
                    THEN Becomes(Current(r), "dropped") /\ Submitted(r, "max")
                    ELSE /\ Becomes(Current(r), "running")
                         /\ Goto(r, "max", "caller")
                         /\ UNCHANGED turn
                 /\ UNCHANGED <<left, pool, clock>>

CallerDone(r) == /\ left[r][turn[r]] = 0
                 /\ Becomes(Current(r), "done")
                 /\ Submitted(r, "caller")
                 /\ UNCHANGED <<left, pool, clock>>
-----------------------------------------------------------------------------
\* A thread of the pool has finished its task, and asks for the next one.
Finish(w) == /\ worker[w] \in Requests \X (1..Tasks)
             /\ left[worker[w][1]][worker[w][2]] = 0
             /\ Becomes(worker[w], "done")
             /\ worker' = [worker EXCEPT ![w] = Free]
             /\ UNCHANGED <<pc, turn, left, queue, shut, clock>>

\* Mutant: setKeepAliveSeconds is taken for no limit at all.
Always == Take

\* getTask(): only with more threads than the core size is the wait limited.
Wait == IF Cardinality(Alive) > CorePoolSize THEN Poll ELSE Take

GetTask(w) == /\ worker[w] = Free
              /\ worker' = [worker EXCEPT ![w] = IF shut THEN None ELSE Wait]
              /\ UNCHANGED <<pc, turn, task, left, queue, shut, clock>>

TakeTask(w) == /\ w \in Waiting
               /\ queue # <<>>
               /\ worker' = [worker EXCEPT ![w] = Head(queue)]
               /\ queue' = Tail(queue)
               /\ Becomes(Head(queue), "running")
               /\ UNCHANGED <<pc, turn, left, shut, clock>>

\* keepAliveSeconds are over.  The thread ends if there are still too many.  They are
\* not counted: a wait may be over at any time before a task is handed to it.
KeepAliveEnds(w) ==
  /\ worker[w] = Poll
  /\ Len(queue) < Cardinality(Waiting)
  /\ worker' = [worker EXCEPT ![w] = IF Cardinality(Alive) > CorePoolSize THEN None
                                                                          ELSE Take]
  /\ UNCHANGED <<pc, turn, task, left, queue, shut, clock>>

\* shutdownNow() when the application is stopped: threads are interrupted, and with
\* them the sleep of their tasks; a task that a request runs itself goes on.
Interrupted(r, i) == task[r][i] = "queued" \/ \E w \in Workers : worker[w] = <<r, i>>

Shutdown ==
  /\ ~shut
  /\ shut' = TRUE
  /\ task' = [r \in Requests |-> [i \in 1..Tasks |->
                IF Interrupted(r, i) THEN "failed" ELSE task[r][i]]]
  /\ queue' = <<>>
  /\ worker' = [w \in Workers |-> None]
  /\ UNCHANGED <<pc, turn, left, clock>>
-----------------------------------------------------------------------------
\* f.get(10, SECONDS).
Got(r) == /\ task[r][turn[r]] = "done"
          /\ Goto(r, "get", IF turn[r] = Tasks THEN "done" ELSE "get")
          /\ turn' = [turn EXCEPT ![r] = IF @ = Tasks THEN @ ELSE @ + 1]
          /\ waited' = [waited EXCEPT ![r] = 0]
          /\ UNCHANGED <<task, left, pool, elapsed>>

\* ExecutionException: home() ends, and its other tasks are left alone.
GetFails(r) == /\ task[r][turn[r]] = "failed"
               /\ Goto(r, "get", "failed")
               /\ UNCHANGED <<turn, task, left, pool, clock>>

\* Mutant: get() without a limit.
Endless == Patience + 1

Limit == Patience

\* TimeoutException.
GetTimesOut(r) == /\ task[r][turn[r]] \notin {"done", "failed"}
                  /\ waited[r] = Limit
                  /\ Goto(r, "get", "timeout")
                  /\ UNCHANGED <<turn, task, left, pool, clock>>

Proceed(r) == \/ (\E w \in Workers : AddCore(w, r) \/ AddMax(w, r))
              \/ CoreFull(r) \/ Offer(r) \/ OfferFails(r)
              \/ CallerRuns(r) \/ CallerDone(r)
              \/ Got(r) \/ GetFails(r) \/ GetTimesOut(r)

Work(w) == Finish(w) \/ GetTask(w) \/ TakeTask(w)
-----------------------------------------------------------------------------
Over == {"done", "failed", "timeout"}
Active == {r \in Requests : pc[r] \notin Over \cup {"new"}}
Pending(r) == pc[r] = "get" /\ task[r][turn[r]] \notin {"done", "failed"}
Asleep(t) == task[t[1]][t[2]] = "running" /\ left[t[1]][t[2]] > 0

\* Every thread sleeps or waits.
Quiet == /\ \A r \in Active : \/ pc[r] = "caller" /\ Asleep(Current(r))
                              \/ Pending(r) /\ waited[r] # Limit
         /\ \A w \in Workers : \/ worker[w] = None
                               \/ w \in Waiting /\ queue = <<>>
                               \/ worker[w] \in Requests \X (1..Tasks) /\ Asleep(worker[w])

\* The longest a request should take, and the bound of the clock.
Longest == Tasks * Duration
Later(time, bound) == IF time < bound THEN time + 1 ELSE time

Tick == /\ Quiet /\ Active # {}
        /\ left' = [r \in Requests |-> [i \in 1..Tasks |->
                      IF Asleep(<<r, i>>) THEN left[r][i] - 1 ELSE left[r][i]]]
        /\ waited' = [r \in Requests |->
                        IF Pending(r) THEN Later(waited[r], Patience) ELSE waited[r]]
        /\ elapsed' = [r \in Requests |->
                         IF r \in Active THEN Later(elapsed[r], Longest + 1) ELSE elapsed[r]]
        /\ UNCHANGED <<pc, turn, task, pool>>

Next == \/ \E r \in Requests : Home(r) \/ Proceed(r)
        \/ \E w \in Workers : Work(w) \/ KeepAliveEnds(w)
        \/ Shutdown
        \/ Tick

Spec == Init /\ [][Next]_vars

\* Threads that can run do, and time goes on.  Nobody has to call home() or to stop
\* the application.
FairSpec == /\ Spec
            /\ \A r \in Requests : WF_vars(Proceed(r))
            /\ \A w \in Workers : WF_vars(Work(w)) /\ WF_vars(KeepAliveEnds(w))
            /\ WF_vars(Tick)
-----------------------------------------------------------------------------
TaskIds == Requests \X (1..Tasks)

\* Every request submits, and waits for, a task it has, and no task is with two
\* threads.
TypeOK ==
  /\ pc \in [Requests -> {"new", "core", "offer", "max", "caller", "get"} \cup Over]
  /\ turn \in [Requests -> 1..Tasks]
  /\ task \in [Requests -> [1..Tasks ->
                 {"new", "queued", "running", "done", "failed", "dropped"}]]
  /\ left \in [Requests -> [1..Tasks -> 0..Duration]]
  /\ worker \in [Workers -> {None, Free, Poll, Take} \cup TaskIds]
  /\ \A v, w \in Workers : worker[v] = worker[w] /\ worker[v] \in TaskIds => v = w
  /\ queue \in Seq(TaskIds)
  /\ shut \in BOOLEAN
  /\ waited \in [Requests -> 0..Patience]
  /\ elapsed \in [Requests -> 0..Longest + 1]

\* home() waits ten seconds for each task, and a task takes one.  That is enough
\* however busy the pool is, as nothing waits for a thread: only a task the pool
\* dropped, because it had been shut down, keeps get waiting for longer.
GetsInTime == \A r \in Requests :
  waited[r] > Duration => task[r][turn[r]] = "dropped" /\ shut

\* With the pool full a request runs tasks itself, one after the other.  It still
\* answers within a task's time for each of them, while the pool is up.
AnswersInTime == ~shut => \A r \in Requests : elapsed[r] <= Longest

\* The threads above the core size are given up when no request needs them.
PoolShrinks == <>[](Cardinality(Alive) <= CorePoolSize)

\* home() ends, also when the pool is shut down while it submits or waits.
CallReturns == \A r \in Requests : pc[r] = "core" ~> pc[r] \in Over
=============================================================================
