------------------------------ MODULE IdOracle ------------------------------
(***************************************************************************)
(* What a caller of SnowflakeIdGenerator.nextId() relies on, with nothing  *)
(* said of clocks, sequence numbers or locks: every call answers with an   *)
(* identifier nobody got before, and one that is larger than every         *)
(* identifier the same generator had already answered with when the call   *)
(* began.  Overlapping calls may be answered in any order.                 *)
(***************************************************************************)
EXTENDS Integers

CONSTANTS Threads,     \* the callers
          Gens,        \* the generators they call
          Ids,         \* the identifiers that exist
          NoGen        \* not a generator: the caller is between two calls

VARIABLES answers,     \* the answers given so far
          begun,       \* the generator of t's open call, or NoGen
          known        \* the answers already given when t's open call began

vars == <<answers, begun, known>>

Init == /\ answers = {}
        /\ begun = [t \in Threads |-> NoGen]
        /\ known = [t \in Threads |-> {}]

Begin(t, g) == /\ begun[t] = NoGen
               /\ begun' = [begun EXCEPT ![t] = g]
               /\ known' = [known EXCEPT ![t] = answers]
               /\ UNCHANGED answers

\* i is new, and above everything the generator had answered when t called.
Answer(t, i) == /\ begun[t] # NoGen
                /\ \A a \in answers : a.id # i
                /\ \A a \in known[t] : a.gen = begun[t] => a.id < i
                /\ answers' = answers \cup {[gen |-> begun[t], id |-> i]}
                /\ begun' = [begun EXCEPT ![t] = NoGen]
                /\ known' = [known EXCEPT ![t] = {}]

Next == \E t \in Threads : \/ \E g \in Gens : Begin(t, g)
                           \/ \E i \in Ids : Answer(t, i)

Spec == Init /\ [][Next]_vars
=============================================================================
