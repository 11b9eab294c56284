---------------------------- MODULE LargeChunks ----------------------------
(***************************************************************************)
(* What the tree bins promise: a collection of free chunks known by their  *)
(* sizes, from which a request takes the smallest that fits.               *)
(***************************************************************************)
EXTENDS Integers

CONSTANTS
    Chunk,
    Size,       \* sizes of the chunks held
    Limit       \* the largest of them

VARIABLE free       \* from the chunks held to their sizes

Init == free = <<>>

Without(c) == [d \in DOMAIN free \ {c} |-> free[d]]
With(f, c, n) == [d \in DOMAIN f \cup {c} |-> IF d = c THEN n ELSE f[d]]

\* The chunks of the least size among those of at least n.
BestFits(n) ==
    {c \in DOMAIN free :
        /\ free[c] >= n
        /\ \A d \in DOMAIN free : free[d] >= n => free[c] <= free[d]}

Put == \E c \in Chunk \ DOMAIN free, n \in Size : free' = With(free, c, n)

\* A chunk is taken whole by a request, or by a neighbour that is freed.
Drop == \E c \in DOMAIN free : free' = Without(c)

\* A request takes a best fit, and what it leaves of it comes back.
Take ==
    \E n \in 1 .. Limit, d \in Chunk \ DOMAIN free :
        \E c \in BestFits(n) :
            /\ free[c] - n \in Size
            /\ free' = With(Without(c), d, free[c] - n)

Next == Put \/ Drop \/ Take

Spec == Init /\ [][Next]_free
=============================================================================
