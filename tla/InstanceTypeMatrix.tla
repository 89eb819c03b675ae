------------------------- MODULE InstanceTypeMatrix -------------------------
(***************************************************************************)
(* InstanceTypeMatrix.java: a table read from an XML file, kept in memory  *)
(* and refreshed by its callers, at most one at a time and not more often  *)
(* than every UPDATE_INTERVAL.  transHTMLtoXML may write the file at any   *)
(* moment, which empties it first, and may die before it is whole again.   *)
(* A table is named by the version of the file it was parsed from.         *)
(*                                                                         *)
(* data and updated_datetime are plain fields that callers read outside    *)
(* the lock: a caller may get a value that another thread has replaced,    *)
(* not one older than it has seen.  Taking the lock shows it the latest.   *)
(***************************************************************************)
EXTENDS Integers, FiniteSets

CONSTANTS Threads,
          NoThread,       \* the lock is free
          Interval,       \* UPDATE_INTERVAL
          MaxWrites,      \* bound: how often the file is written
          MaxFailures     \* bound: how often the file cannot be read or written

ASSUME BoundsAssumption == /\ Interval \in Nat
                           /\ MaxWrites \in Nat
                           /\ MaxFailures \in Nat
ASSUME NoThreadAssumption == NoThread \notin Threads

None == -1                \* null: no table, no date, no modification time

VARIABLES content,        \* the version in the file, the last one that was whole
          state,          \* of the file: "whole", "open" for writing, or "torn"
          mtime,          \* its modification time
          data,           \* the version of the table in memory
          xmlLastModified,
          age,            \* time since updated_datetime, up to Interval + 1
          lock,
          pc,
          parsed,         \* the version initData is working on
          view,           \* the latest table each thread is sure to see
          published,      \* history: values data had
          failures,       \* history: failed attempts
          lost            \* history: the file changed where nobody looks again

file == <<content, state, mtime>>
table == <<data, published, age>>
vars == <<file, table, xmlLastModified, lock, pc, parsed, view, failures, lost>>

Init == /\ content = 0 /\ state = "whole" /\ mtime = 0
        /\ data = None /\ published = {None}
        /\ xmlLastModified = None
        /\ age = None
        /\ lock = NoThread
        /\ pc = [t \in Threads |-> "idle"]
        /\ parsed = [t \in Threads |-> None]
        /\ view = [t \in Threads |-> None]
        /\ failures = 0
        /\ lost = FALSE

Goto(t, from, to) == pc[t] = from /\ pc' = [pc EXCEPT ![t] = to]

\* updated_datetime == null || now - updated_datetime > UPDATE_INTERVAL
Due == age = None \/ age > Interval
-----------------------------------------------------------------------------
\* getInstanceType or getAllInstanceType is called.
Begin(t) == /\ Goto(t, "idle", "outer")
            /\ UNCHANGED <<file, table, xmlLastModified, lock, parsed, view,
                           failures, lost>>

\* The check outside the lock.  Who sees an old date may go on all the same.
Skip(t) == /\ Goto(t, "outer", "read")
           /\ ~Due
           /\ UNCHANGED <<file, table, xmlLastModified, lock, parsed, view,
                          failures, lost>>

Enter(t) == /\ Goto(t, "outer", "try")
            /\ Due \/ view[t] # data
            /\ UNCHANGED <<file, table, xmlLastModified, lock, parsed, view,
                           failures, lost>>

\* Mutant: the result of tryLock is not looked at.
TryLockIgnored(t) == /\ Goto(t, "try", "inner")
                     /\ lock' = t
                     /\ view' = [view EXCEPT ![t] = data]
                     /\ UNCHANGED <<file, table, xmlLastModified, parsed, failures, lost>>

TryLock(t) == /\ Goto(t, "try", "inner")
              /\ lock = NoThread
              /\ lock' = t
              /\ view' = [view EXCEPT ![t] = data]
              /\ UNCHANGED <<file, table, xmlLastModified, parsed, failures, lost>>

\* Somebody else refreshes the table: this caller makes do with what there is.
TryLockFails(t) == /\ Goto(t, "try", "read")
                   /\ lock # NoThread
                   /\ UNCHANGED <<file, table, xmlLastModified, lock, parsed, view,
                                  failures, lost>>

\* Mutant: only the check outside the lock.
NoInnerCheck(t) == /\ Goto(t, "inner", "file")
                   /\ UNCHANGED <<file, table, xmlLastModified, lock, parsed, view,
                                  failures, lost>>

\* The check inside the lock.
Inner(t) == /\ Goto(t, "inner", IF Due THEN "file" ELSE "unlock")
            /\ UNCHANGED <<file, table, xmlLastModified, lock, parsed, view,
                           failures, lost>>

\* canRead() and a modification time that differs from the one remembered.
CheckFile(t) == /\ Goto(t, "file", IF mtime # xmlLastModified THEN "parse"
                                                              ELSE "unlock")
                /\ UNCHANGED <<file, table, xmlLastModified, lock, parsed, view,
                               failures, lost>>

CannotRead(t) == /\ Goto(t, "file", "unlock")
                 /\ failures < MaxFailures
                 /\ failures' = failures + 1
                 /\ UNCHANGED <<file, table, xmlLastModified, lock, parsed, view, lost>>

Parse(t) == /\ Goto(t, "parse", "publish")
            /\ state = "whole"
            /\ parsed' = [parsed EXCEPT ![t] = content]
            /\ lost' = FALSE
            /\ UNCHANGED <<file, table, xmlLastModified, lock, view, failures>>

\* Mutant: the modification time is remembered although parsing failed.
ParseFailsStamped(t) == /\ Goto(t, "parse", "throw")
                        /\ failures < MaxFailures
                        /\ failures' = failures + 1
                        /\ xmlLastModified' = mtime
                        /\ UNCHANGED <<file, table, lock, parsed, view, lost>>

\* parse throws, always for what is not the whole of a document: the lock is released
\* on the way out and the table stays.
ParseFails(t) == /\ Goto(t, "parse", "throw")
                 /\ \/ state # "whole" /\ UNCHANGED failures
                    \/ failures < MaxFailures /\ failures' = failures + 1
                 /\ UNCHANGED <<file, table, xmlLastModified, lock, parsed, view, lost>>

\* data = newData; updated_datetime = now
Publish(t) == /\ Goto(t, "publish", "stamp")
              /\ data' = parsed[t]
              /\ published' = published \cup {parsed[t]}
              /\ view' = [view EXCEPT ![t] = parsed[t]]
              /\ age' = 0
              /\ UNCHANGED <<file, xmlLastModified, lock, parsed, failures, lost>>

\* Mutant: a time after the file's is remembered.
StampLater(t) == /\ Goto(t, "stamp", "unlock")
                 /\ xmlLastModified' = mtime + 1
                 /\ UNCHANGED <<file, table, lock, parsed, view, failures, lost>>

\* xml_last_modified = cpf.lastModified(), asked after the parse.
Stamp(t) == /\ Goto(t, "stamp", "unlock")
            /\ xmlLastModified' = mtime
            /\ UNCHANGED <<file, table, lock, parsed, view, failures, lost>>

\* Mutant: the unlock is not in a finally block.
UnlockUnlessThrown(t) == /\ Goto(t, "unlock", "read")
                         /\ lock' = NoThread
                         /\ UNCHANGED <<file, table, xmlLastModified, parsed, view,
                                        failures, lost>>

\* The finally block.  An exception ends the call, which answers null.
Unlock(t) == /\ \/ Goto(t, "unlock", "read")
                \/ Goto(t, "throw", "idle")
             /\ lock' = NoThread
             /\ UNCHANGED <<file, table, xmlLastModified, parsed, view, failures, lost>>

\* data, or data.get(..), is what the call answers.
Read(t) == /\ Goto(t, "read", "idle")
           /\ \E v \in published : v >= view[t] /\ view' = [view EXCEPT ![t] = v]
           /\ UNCHANGED <<file, table, xmlLastModified, lock, parsed, failures, lost>>
-----------------------------------------------------------------------------
Loading(t) == pc[t] \in {"publish", "stamp"}

\* The time of a change, perhaps within the millisecond of the last one.
Touch == mtime' \in {mtime, mtime + 1}

\* transHTMLtoXML opens the file: it is empty.
Truncate == /\ state # "open"
            /\ content < MaxWrites
            /\ state' = "open"
            /\ Touch
            /\ UNCHANGED <<content, table, xmlLastModified, lock, pc, parsed, view, failures,
                           lost>>

\* The document is written and the file closed.  The change is lost if the time that
\* will be remembered is already its time.
Complete == /\ state = "open"
            /\ state' = "whole"
            /\ content' = content + 1
            /\ Touch
            /\ lost' = (\/ lost
                        \/ \E t \in Threads : Loading(t)
                        \/ mtime' = mtime /\ mtime = xmlLastModified)
            /\ UNCHANGED <<table, xmlLastModified, lock, pc, parsed, view, failures>>

\* transform throws, or the writer dies, and leaves a part of the document.
WriteFails == /\ state = "open"
              /\ failures < MaxFailures
              /\ failures' = failures + 1
              /\ state' = "torn"
              /\ Touch
              /\ UNCHANGED <<content, table, xmlLastModified, lock, pc, parsed, view, lost>>

Tick == /\ age # None /\ age <= Interval
        /\ age' = age + 1
        /\ UNCHANGED <<file, data, published, xmlLastModified, lock, pc, parsed, view,
                       failures, lost>>

Proceed(t) == \/ Skip(t) \/ Enter(t) \/ TryLock(t) \/ TryLockFails(t)
              \/ Inner(t) \/ CheckFile(t) \/ CannotRead(t)
              \/ Parse(t) \/ ParseFails(t) \/ Publish(t) \/ Stamp(t)
              \/ Unlock(t) \/ Read(t)

Next == \/ \E t \in Threads : Begin(t) \/ Proceed(t)
        \/ Truncate \/ Complete \/ WriteFails
        \/ Tick

Spec == Init /\ [][Next]_vars

\* Time passes, calls are executed and a file that was opened is written; whether
\* there are calls is up to others.
FairSpec == /\ Spec
            /\ WF_vars(Tick) /\ WF_vars(Complete)
            /\ \A t \in Threads : WF_vars(Proceed(t))
-----------------------------------------------------------------------------
\* A remembered time is never ahead of the file's.
TypeOK == /\ content \in 0..MaxWrites
          /\ state \in {"whole", "open", "torn"}
          /\ state = "open" => content < MaxWrites
          /\ mtime \in Nat
          /\ data \in (0..MaxWrites) \cup {None}
          /\ published \subseteq (0..MaxWrites) \cup {None}
          /\ data \in published
          /\ xmlLastModified \in (0..mtime) \cup {None}
          /\ age \in (0..(Interval + 1)) \cup {None}
          /\ lock \in Threads \cup {NoThread}
          /\ pc \in [Threads -> {"idle", "outer", "try", "inner", "file", "parse",
                                 "publish", "stamp", "unlock", "throw", "read"}]
          /\ parsed \in [Threads -> (0..MaxWrites) \cup {None}]
          /\ view \in [Threads -> published]
          /\ failures \in 0..MaxFailures
          /\ lost \in BOOLEAN

\* The second check keeps the promise of the first: whoever loads the file does
\* so when the last table is older than the interval, although the first check
\* and the lock are not one step and tables are published in between.
LoaderIsDue ==
  \A t \in Threads : pc[t] \in {"file", "parse", "publish"} => Due

\* The table in memory is the file's unless a reload is still to come, or the file
\* was written between the parse and the look at its modification time, or within
\* the millisecond that was remembered.
StaleExplained ==
  (xmlLastModified = mtime /\ \A t \in Threads : ~Loading(t))
  => data = content \/ lost

\* Tables are replaced by newer ones only, whoever of the callers loads them.
NeverOlder == [][data' >= data]_vars

\* As long as some thread keeps calling, the table catches up with the file, whatever
\* it found of it in between, but for a change that was lost or never completed.
KeepsUp ==
  (\E t \in Threads : []<>(pc[t] = "outer")) => <>[](data = content \/ lost \/ state = "torn")
=============================================================================
