---------------------------- MODULE MCSnowflake -----------------------------
(***************************************************************************)
(* Snowflake for TLC: the numbers the constructors are called with.        *)
(***************************************************************************)
EXTENDS Snowflake

\* Accepted and refused numbers on both sides of the mask.
AroundTheMask == (-1)..NumSize

\* One generator has these numbers; another has the same, or both exchanged.
First == CHOOSE g \in Gens : TRUE
Low == [dc |-> 0, machine |-> 1]
High == [dc |-> 1, machine |-> 0]
RepeatsInit == /\ Init
               /\ worker[First] = Low
               /\ \A g \in Gens : worker[g] \in {Low, High}
RepeatsSpec == RepeatsInit /\ [][Next]_vars /\ Fairness
=============================================================================
