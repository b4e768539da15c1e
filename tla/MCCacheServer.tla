---------------------------- MODULE MCCacheServer ----------------------------
EXTENDS CacheServer, TLC

CONSTANTS c1, c2, c3, r1, r2, a1, a2, a3

\* One file per key.
MCPathOf == [k \in Keys |-> {k}]

\* a1 and a2 are release/v1 and release__v1: tarballCachePath flattens both
\* to release__v1.tgz.
MCFlatPathOf == [k \in Keys |-> IF k \in {a1, a2} THEN {a1, a2} ELSE {k}]

Interchangeable == Permutations(Clients)

MCSize == [k \in Keys |-> IF k = a3 THEN 2 ELSE 1]
=============================================================================
