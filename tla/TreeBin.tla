------------------------------ MODULE TreeBin ------------------------------
(***************************************************************************)
(* The tree bins of a space (allocator_internal.c): an array of bitwise    *)
(* tries over chunk sizes with a map of the bins in use.  A trie node is a *)
(* free chunk; chunks of its size hang on it in a ring.  Sizes are words   *)
(* of WordBits bits, in units of the alignment.                            *)
(***************************************************************************)
EXTENDS Integers, FiniteSets, FiniteSetsExt

CONSTANTS
    Chunk,          \* chunks (their addresses)
    None,           \* NULL
    Head,           \* "my parent is the bin": the address of the bin itself
    WordBits,       \* 64, less the alignment bits
    TreeShift,      \* log2 of the smallest large size
    TreeBins,       \* number of bins, even (32)
    IndexBits,      \* bits of the word the bin index is computed in (a DWORD: 32)
    Sizes,          \* sizes of the chunks freed
    Requests,       \* padded sizes asked for
    Victims         \* sizes of the designated victim, 0 for none

VARIABLE
    tree            \* bin: root per bin; map: bins marked; node: the chunks held

Power[k \in 0 .. (WordBits + IndexBits)] == IF k = 0 THEN 1 ELSE 2 * Power[k - 1]

Word == Power[WordBits]
Words == 0 .. (Word - 1)
MinLarge == Power[TreeShift]
Bins == 0 .. (TreeBins - 1)

\* A chunk of this size or more gets a bin index with bits of it missing.
MaxLarge == Power[TreeShift + IndexBits]
LargeSizes == {n \in Words : n >= MinLarge /\ n < MaxLarge}

ASSUME TreeBinAssumption ==
    /\ None \notin Chunk /\ Head \notin Chunk /\ None # Head /\ IsFiniteSet(Chunk)
    /\ TreeShift \in Nat /\ TreeShift >= 2
    /\ TreeBins \in Nat \ {0} /\ TreeBins % 2 = 0
    /\ IndexBits \in Nat /\ IndexBits >= TreeBins \div 2
    /\ WordBits \in Nat /\ WordBits > TreeShift + TreeBins \div 2
    /\ Sizes \subseteq LargeSizes /\ Requests \subseteq Words \ {0} /\ Victims \subseteq Words

(***************************************************************************)
(* Words.                                                                  *)
(***************************************************************************)
ShiftLeft(x, k) == (x * Power[k]) % Word
SignBit(x) == (x \div Power[WordBits - 1]) % 2
Difference(x, y) == (x - y) % Word
HighestBit(x) == CHOOSE k \in 0 .. (WordBits - 1) : Power[k] <= x /\ x < Power[k + 1]

\* sm_compute_tree_index: two bins for each power of two.
TreeIndex(n) ==
    LET x == (n \div MinLarge) % Power[IndexBits]
        k == HighestBit(x)
    IN  CASE x = 0 -> 0
          [] x >= Power[TreeBins \div 2] -> TreeBins - 1
          [] OTHER -> (2 * k) + ((n \div Power[k + TreeShift - 1]) % 2)

MinSizeForIndex(i) ==
    Power[i \div 2 + TreeShift] + (i % 2) * Power[i \div 2 + TreeShift - 1]

\* Brings the highest bit in which the sizes of bin i differ to the sign.
LeftShift(i) ==
    IF i = TreeBins - 1 THEN 0 ELSE WordBits - 1 - (i \div 2 + TreeShift - 2)

\* The key a walk for size n starts with; each turn shifts it by one bit.
FirstKey(n) == ShiftLeft(n, LeftShift(TreeIndex(n)))

(***************************************************************************)
(* Every loop over a trie goes down it, and turns once for a chunk at most. *)
(***************************************************************************)
Turns(h) == Cardinality(DOMAIN h.node)

\* Where a loop with the given turn, a function on its states, ends.
After(turn, start, limit) ==
    LET at[k \in 0 .. limit] == IF k = 0 THEN start ELSE turn[at[k - 1]]
    IN  at[limit]

(***************************************************************************)
(* sm_insert_large_chunk.  Spot is where its loop stops: at a node of the  *)
(* same size, or at one whose child on the way is missing.                 *)
(***************************************************************************)
Spot(h, n) ==
    LET child(s) == h.node[s.at].child[SignBit(s.key)]
        turn == [s \in [at : DOMAIN h.node, key : Words] |->
                    IF h.node[s.at].size = n \/ child(s) = None THEN s
                    ELSE [at |-> child(s), key |-> ShiftLeft(s.key, 1)]]
        end == After(turn, [at |-> h.bin[TreeIndex(n)], key |-> FirstKey(n)], Turns(h))
    IN  [at |-> end.at, side |-> SignBit(end.key)]

Node(i, n, parent, forward, backward) ==
    [index |-> i, size |-> n, parent |-> parent, forward |-> forward,
     backward |-> backward, child |-> [side \in {0, 1} |-> None]]

With(h, c, x) ==
    [h EXCEPT !.node = [d \in DOMAIN @ \cup {c} |-> IF d = c THEN x ELSE @[d]]]

\* A mutant: the old neighbour's backward pointer is left.
JoinRingHalf(h, c, i, n, t) ==
    With([h EXCEPT !.node[t].forward = c], c, Node(i, n, None, h.node[t].forward, t))

JoinRing(h, c, i, n, t) ==
    LET f == h.node[t].forward
    IN  With([h EXCEPT !.node[t].forward = c, !.node[f].backward = c],
             c, Node(i, n, None, f, t))

InsertLarge(h, c, n) ==
    LET i == TreeIndex(n)
        spot == Spot(h, n)
    IN  CASE i \notin h.map ->
                With([h EXCEPT !.map = @ \cup {i}, !.bin[i] = c], c, Node(i, n, Head, c, c))
          [] i \in h.map /\ h.node[spot.at].size = n -> JoinRing(h, c, i, n, spot.at)
          [] OTHER ->
                With([h EXCEPT !.node[spot.at].child[spot.side] = c],
                     c, Node(i, n, spot.at, c, c))

(***************************************************************************)
(* sm_unlink_large_chunk.                                                  *)
(***************************************************************************)
\* The child the descent takes: the right one if there is one.
Lower(h, c) ==
    IF h.node[c].child[1] # None THEN h.node[c].child[1] ELSE h.node[c].child[0]

Leaf(h, c) ==
    LET turn == [d \in DOMAIN h.node |-> IF Lower(h, d) = None THEN d ELSE Lower(h, d)]
    IN  After(turn, c, Turns(h))

Unslot(h, r) ==
    LET p == h.node[r].parent
        side == IF h.node[p].child[1] = r THEN 1 ELSE 0
    IN  [h EXCEPT !.node[p].child[side] = None]

\* Takes the chunk that will stand in for c, if any, out of its place.
Detached(h, c) ==
    LET f == h.node[c].forward
        b == h.node[c].backward
    IN  CASE b # c -> [h EXCEPT !.node[b].forward = f, !.node[f].backward = b]
          [] b = c /\ Lower(h, c) # None -> Unslot(h, Leaf(h, c))
          [] OTHER -> h

Replacement(h, c) ==
    CASE h.node[c].backward # c -> h.node[c].backward
      [] h.node[c].backward = c /\ Lower(h, c) # None -> Leaf(h, c)
      [] OTHER -> None

\* The parent, or the bin, of c gets r in its place.
Relink(h, c, r) ==
    LET x == h.node[c]
    IN  IF h.bin[x.index] = c
        THEN [h EXCEPT !.bin[x.index] = r,
                       !.map = IF r = None THEN @ \ {x.index} ELSE @]
        ELSE [h EXCEPT !.node[x.parent].child[IF h.node[x.parent].child[0] = c THEN 0 ELSE 1] = r]

\* A mutant: the left child of c is not handed on.
AdoptRight(h, c, r) ==
    LET kids == {h.node[c].child[1]} \ {None}
    IN  [h EXCEPT !.node = [d \in DOMAIN @ |->
            IF d = r THEN [@[d] EXCEPT !.parent = h.node[c].parent,
                        !.child = [s \in {0, 1} |->
                            IF s = 1 /\ kids # {} THEN h.node[c].child[1] ELSE @[s]]]
            ELSE IF d \in kids THEN [@[d] EXCEPT !.parent = r] ELSE @[d]]]

\* The children of r, once it has those of c.
Inherited(h, c, r) ==
    [s \in {0, 1} |-> IF h.node[c].child[s] # None THEN h.node[c].child[s] ELSE h.node[r].child[s]]

Adopt(h, c, r) ==
    LET kid == h.node[c].child
    IN  [h EXCEPT !.node = [d \in DOMAIN @ |->
            IF d = r THEN [@[d] EXCEPT !.parent = h.node[c].parent, !.child = Inherited(h, c, r)]
            ELSE IF d \in {kid[0], kid[1]} THEN [@[d] EXCEPT !.parent = r] ELSE @[d]]]

UnlinkLarge(h, c) ==
    LET r == Replacement(h, c)
        d == Detached(h, c)
        linked == Relink(d, c, r)
        whole == CASE h.node[c].parent = None -> d
                   [] h.node[c].parent # None /\ r = None -> linked
                   [] OTHER -> Adopt(linked, c, r)
    IN  [whole EXCEPT !.node = [e \in DOMAIN @ \ {c} |-> @[e]]]

(***************************************************************************)
(* sm_tree_allocate_large: down the trie of the request's own bin, noting  *)
(* the last right subtree passed by, then to the left in that subtree, or  *)
(* in the next marked bin.                                                 *)
(***************************************************************************)
Better(h, t, n, best) ==
    IF Difference(h.node[t].size, n) < best.rest
    THEN [at |-> t, rest |-> Difference(h.node[t].size, n)] ELSE best

\* The best so far: a chunk and what it has over, or none.
Bests(h) == [at : DOMAIN h.node \cup {None}, rest : Words]

Nothing(n) == [at |-> None, rest |-> Difference(0, n)]

Descend(h, n) ==
    LET place == DOMAIN h.node \cup {None}
        next(s) == h.node[s.at].child[SignBit(s.key)]
        right(s) == h.node[s.at].child[1]
        turn == [s \in [at : place, key : Words, best : Bests(h), passed : place] |->
            IF s.at = None \/ s.best.rest = 0 THEN s
            ELSE LET now == Better(h, s.at, n, s.best)
                 IN  [at |-> IF now.rest = 0 THEN s.at ELSE next(s),
                      key |-> ShiftLeft(s.key, 1),
                      best |-> now,
                      passed |-> IF right(s) \in {None, next(s)} THEN s.passed ELSE right(s)]]
    IN  After(turn, [at |-> h.bin[TreeIndex(n)], key |-> FirstKey(n),
                     best |-> Nothing(n), passed |-> None], Turns(h))

LeftMostChild(h, t) ==
    IF h.node[t].child[0] # None THEN h.node[t].child[0] ELSE h.node[t].child[1]

LeftMost(h, t, n, best) ==
    LET turn == [s \in [at : DOMAIN h.node \cup {None}, best : Bests(h)] |->
            IF s.at = None THEN s
            ELSE [at |-> LeftMostChild(h, s.at), best |-> Better(h, s.at, n, s.best)]]
    IN  After(turn, [at |-> t, best |-> best], Turns(h)).best

\* Least bit of the map to the left of i.
NextBin(h, i) ==
    LET above == {j \in h.map : j > i} IN IF above = {} THEN None ELSE h.bin[Min(above)]

\* A mutant: the right subtree passed by is forgotten.
StartElsewhere(h, n) ==
    LET down == Descend(h, n)
    IN  IF down.best.at # None THEN down.at ELSE NextBin(h, TreeIndex(n))

\* Where the walk to the left begins: where the descent stopped, in the
\* subtree it passed by, or in the next bin.
Start(h, n) ==
    LET down == Descend(h, n)
    IN  CASE down.at # None -> down.at
          [] down.at = None /\ (down.passed # None \/ down.best.at # None) -> down.passed
          [] OTHER -> NextBin(h, TreeIndex(n))

SearchLarge(h, n) == LeftMost(h, Start(h, n), n, Descend(h, n).best)

\* sm_tree_allocate_small: the first marked bin, and to the left.
SearchSmall(h, n) ==
    LET root == h.bin[Min(h.map)]
    IN  LeftMost(h, LeftMostChild(h, root), n,
                 [at |-> root, rest |-> Difference(h.node[root].size, n)])

\* The designated victim is preferred when it fits as well.
Takes(best, n, dv) == best.at # None /\ best.rest < Difference(dv, n)

(***************************************************************************)
(* The operations.                                                         *)
(***************************************************************************)
Init == tree = [bin |-> [i \in Bins |-> None], map |-> {}, node |-> <<>>]

Insert ==
    \E c \in Chunk \ DOMAIN tree.node, n \in Sizes : tree' = InsertLarge(tree, c, n)

Unlink == \E c \in DOMAIN tree.node : tree' = UnlinkLarge(tree, c)

\* The rest of a split is a chunk of its own; a large one is binned here.
AllocateLarge ==
    \E n \in {r \in Requests : r >= MinLarge}, dv \in Victims :
        LET best == SearchLarge(tree, n)
            left == UnlinkLarge(tree, best.at)
        IN  /\ Takes(best, n, dv)
            /\ IF best.rest < MinLarge THEN tree' = left
               ELSE \E c \in Chunk \ DOMAIN tree.node : tree' = InsertLarge(left, c, best.rest)

\* The rest becomes the designated victim, whatever its size.
AllocateSmall ==
    /\ tree.map # {}
    /\ \E n \in {r \in Requests : r < MinLarge} : tree' = UnlinkLarge(tree, SearchSmall(tree, n).at)

Next == Insert \/ Unlink \/ AllocateLarge \/ AllocateSmall

Spec == Init /\ [][Next]_tree

(***************************************************************************)
(* Properties.                                                             *)
(***************************************************************************)
TypeOK ==
    /\ DOMAIN tree.node \subseteq Chunk
    /\ tree.map \subseteq Bins
    /\ tree.bin \in [Bins -> DOMAIN tree.node \cup {None}]

(***************************************************************************)
(* sm_do_check_tree for one node of a trie and the ring that hangs on it,  *)
(* and sm_do_check_tree_bin: the allocator's own debug assertions.         *)
(***************************************************************************)
Ring(c) == {d \in DOMAIN tree.node : tree.node[d].index = tree.node[c].index
                                  /\ tree.node[d].size = tree.node[c].size}

CheckIndex(c) ==
    LET x == tree.node[c]
    IN  /\ x.index = TreeIndex(x.size)
        /\ x.size >= MinLarge /\ x.size >= MinSizeForIndex(x.index)
        /\ x.index = TreeBins - 1 \/ x.size < MinSizeForIndex(x.index + 1)

CheckRing(c) ==
    LET x == tree.node[c]
    IN  /\ tree.node[x.forward].backward = c /\ tree.node[x.backward].forward = c
        /\ {x.forward, x.backward} \subseteq Ring(c)
        /\ Cardinality({d \in Ring(c) : tree.node[d].parent # None}) = 1

CheckNode(c) ==
    LET x == tree.node[c]
        kids == {x.child[0], x.child[1]} \ {None}
    IN  IF x.parent = None THEN kids = {}
        ELSE /\ x.parent # c
             /\ IF x.parent = Head THEN tree.bin[x.index] = c
                ELSE c \in {tree.node[x.parent].child[0], tree.node[x.parent].child[1]}
             /\ \A k \in kids : k # c /\ tree.node[k].parent = c
             /\ Cardinality(kids) = 2 => tree.node[x.child[0]].size < tree.node[x.child[1]].size

\* The debug assertions of the tree bins hold after every operation: each
\* chunk is in the bin of its size, its ring is a ring with one node of the
\* trie in it, and parents and children agree (sm_do_check_tree, 1619-1684).
TreesCheck ==
    /\ \A c \in DOMAIN tree.node : CheckIndex(c) /\ CheckRing(c) /\ CheckNode(c)
    /\ \A i \in Bins : tree.bin[i] = None <=> i \notin tree.map

\* The nodes have their types and the tries pass the allocator's checks.
TreesSound == TypeOK /\ TreesCheck

\* sm_bin_find: along the bits of the size, then around the ring.
Around(t) ==
    LET turn == [seen \in SUBSET DOMAIN tree.node |->
                    seen \cup {tree.node[d].forward : d \in seen}]
    IN  After(turn, {t}, Turns(tree))

BinFind(c) ==
    LET n == tree.node[c].size
        t == Spot(tree, n).at
    IN  TreeIndex(n) \in tree.map /\ tree.node[t].size = n /\ c \in Around(t)

\* A search by size reaches every chunk that was put in and not taken out,
\* whatever unlinking has done to the shape of the tries (sm_bin_find 1731,
\* which the traversal asserts of every free chunk at 1806).
EveryChunkFound == \A c \in DOMAIN tree.node : BinFind(c)

\* The tries hold the chunks the calls put in, with their sizes, and what a
\* split leaves is what remains of a best fit.
Promise == INSTANCE LargeChunks WITH
    Size <- LargeSizes,
    Limit <- Word - 1,
    free <- [c \in DOMAIN tree.node |-> tree.node[c].size]
PromiseSpec == Promise!Spec

\* Whatever the tries look like, a large request finds a chunk of the least
\* size that fits, and finds none only if the designated victim serves it as
\* well; a small request finds a chunk of the least size there is.  It is
\* what Heap!TreeFit and Heap!FromTreeSmall take the searches to give.
BestFit ==
    /\ \A n \in {r \in Requests : r >= MinLarge}, dv \in Victims :
        LET best == SearchLarge(tree, n)
            fits == {c \in Promise!BestFits(n) : dv < n \/ tree.node[c].size < dv}
        IN  IF Takes(best, n, dv)
            THEN best.at \in fits /\ best.rest = tree.node[best.at].size - n
            ELSE fits = {}
    /\ tree.map # {} =>
        \A n \in {r \in Requests : r < MinLarge} : SearchSmall(tree, n).at \in Promise!BestFits(n)

\* The searches find what is there, by its size or as the best fit.
SearchesFit == EveryChunkFound /\ BestFit
=============================================================================
