----------------------------- MODULE MCContext -----------------------------
(* A small instance of Context. *)
EXTENDS Context, TLC

CONSTANT MaxTrouble

\* How many entities are loaded twice at once, steps fail and entities are
\* asked for, all together; a processor without the instruction counts as one.
LittleTrouble ==
    Cardinality(raced) + failures + gets + (IF rdrand THEN 0 ELSE 1) <= MaxTrouble

Symmetry == Permutations(Threads) \cup Permutations(Contexts)
=============================================================================
