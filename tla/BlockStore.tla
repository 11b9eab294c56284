----------------------------- MODULE BlockStore -----------------------------
(***************************************************************************)
(* What an allocator promises: memory the system lent, and in it the       *)
(* blocks of the callers, which never overlap.  A call gives one block,    *)
(* takes back the blocks it was handed, or puts other blocks in the place  *)
(* of the one it was handed; no other block moves, shrinks or grows.       *)
(***************************************************************************)
EXTENDS Integers

VARIABLES
    memory,     \* the addresses the system lends
    blocks      \* from the address of a block to its size

vars == <<memory, blocks>>

UnitsOf(b) == {b.at + i : i \in 0 .. (b.size - 1)}
Units(f) == UNION {UnitsOf([at |-> a, size |-> f[a]]) : a \in DOMAIN f}

Sound(f, m) ==
    /\ Units(f) \subseteq m
    /\ \A a, b \in DOMAIN f :
        a # b => UnitsOf([at |-> a, size |-> f[a]]) \cap UnitsOf([at |-> b, size |-> f[b]]) = {}

Init == Sound(blocks, memory)

Kept(gone) == \A a \in DOMAIN blocks \ gone : a \in DOMAIN blocks' /\ blocks'[a] = blocks[a]

Give ==
    /\ Kept({})
    /\ \E a \in DOMAIN blocks' \ DOMAIN blocks : DOMAIN blocks' = DOMAIN blocks \cup {a}
TakeBack == DOMAIN blocks' \subseteq DOMAIN blocks /\ Kept(DOMAIN blocks \ DOMAIN blocks')
Replace == \E a \in DOMAIN blocks : Kept({a})
Shift == blocks' = blocks   \* the memory changes behind the blocks

Next == (Give \/ TakeBack \/ Replace \/ Shift) /\ Sound(blocks', memory')

Spec == Init /\ [][Next]_vars
=============================================================================
