--------------------------- MODULE MCRedisRecords ---------------------------
(* Instances of RedisRecords for TLC. *)
EXTENDS RedisRecords, TLC

CONSTANTS new, old

OldOnly == <<old>>
Both == <<new, old>>

Symmetry ==
  Permutations(Request) \cup Permutations(Replica) \cup Permutations(Value)
=============================================================================
