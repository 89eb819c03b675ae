--------------------------- MODULE MCKafkaOffsets ---------------------------
(***************************************************************************)
(* KafkaOffsets for TLC: two consumers run any two of the five programs.   *)
(* Which of them runs which makes no difference.                           *)
(***************************************************************************)
EXTENDS KafkaOffsets

Rank(k) == CHOOSE n \in 1..5 :
  k = <<"auto", "sync", "async", "syncOffset", "asyncOffset">>[n]

Pairs == {k \in [{1, 2} -> Kinds] : Rank(k[1]) <= Rank(k[2])}

Keepers == {k \in Pairs : k[1] = "asyncOffset"}
=============================================================================
