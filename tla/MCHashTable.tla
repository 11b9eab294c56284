---------------------------- MODULE MCHashTable ----------------------------
(* Keys chosen so that probes collide, wrap and cross. *)
EXTENDS HashTable, TLC

CONSTANTS k1, k2, k3, t1, t2

\* k1 and k2 start at bucket 1 of four; k3 starts where their probe goes next.
ThreeHash == [k \in {k1, k2, k3} |-> CASE k = k1 -> 1 [] k = k2 -> 5 [] OTHER -> 2]
TwoHash == [k \in {k1, k2} |-> IF k = k1 THEN 1 ELSE 5]

OneVersion == [k \in {k1, k2, k3} |-> {1}]

\* Two values for one key suffice to see a value replaced.
TwoForFirst == [OneVersion EXCEPT ![k1] = {1, 2}]
=============================================================================
