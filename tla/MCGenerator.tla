------------------------------ MODULE MCGenerator ------------------------------
(* Instances of Generator: a cache that is smaller than the requests, and one *)
(* that outlives the second.                                                  *)
EXTENDS Generator, TLC

CONSTANTS c1, c2, c3, a1, a2, x1

SmallCache    == { [ttl |-> 1, max_count |-> 1] }
TwoCaches     == { [ttl |-> 1, max_count |-> 1], [ttl |-> 0, max_count |-> 2] }
LongTtl       == { [ttl |-> 3, max_count |-> 2] }

AnyCall == Permutations(Calls)
===============================================================================
