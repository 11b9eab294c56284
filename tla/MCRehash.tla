----------------------------- MODULE MCRehash ------------------------------
(* Two keys start at bucket 1 and two near the end, so that probes collide,   *)
(* wrap around, and fall on buckets whose entries have not been moved yet.    *)
EXTENDS Rehash

CONSTANTS k1, k2, k3, k4

MCHash == [k \in {k1, k2, k3, k4} |-> CASE k = k3 -> 3 [] k = k4 -> 7 [] OTHER -> 1]
=============================================================================
