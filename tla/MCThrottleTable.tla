--------------------------- MODULE MCThrottleTable ---------------------------
(* ThrottleTable with one shard per key.                                   *)
EXTENDS ThrottleTable, TLC

MCShardOf == [k \in Key |-> k]

Symmetry == Permutations(Request) \cup Permutations(Entry) \cup Permutations(Key)
=============================================================================
