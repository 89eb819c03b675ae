------------------------- MODULE MCKafkaTransaction -------------------------
(***************************************************************************)
(* KafkaTransaction for TLC.  The copies of the program are alike, and     *)
(* what is checked is safety: they are symmetric.                          *)
(***************************************************************************)
EXTENDS KafkaTransaction, TLC

Symmetry == Permutations(Programs)
=============================================================================
