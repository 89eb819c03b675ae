---------------------------- MODULE MCRedisLock -----------------------------
(***************************************************************************)
(* RedisLock for TLC.  The clients run the same program: they are          *)
(* symmetric in the runs that check safety.                                *)
(***************************************************************************)
EXTENDS RedisLock, TLC

Symmetry == Permutations(Clients)
=============================================================================
