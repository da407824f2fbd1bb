---------------------------- MODULE MCCacheIndex ----------------------------
(* Small instances of CacheIndex. *)
EXTENDS CacheIndex, TLC

CONSTANTS small, other, big, p1, p2

OneIsBig == [d \in Digests |-> IF d = big THEN 2 ELSE 1]

Alike == Permutations({p1, p2}) \cup Permutations({small, other})
=============================================================================
