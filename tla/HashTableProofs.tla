-------------------------- MODULE HashTableProofs --------------------------
(***************************************************************************)
(* The hash table for all keys, hashes, values and table sizes, in three   *)
(* parts: its buckets lie inside its arrays, a probe visits every bucket,  *)
(* and the table is a finite map.                                          *)
(***************************************************************************)
EXTENDS HashTable, TLAPS, FiniteSetTheorems, WellFoundedInduction

(***************************************************************************)
(* No bucket of the table ever lies outside its two arrays, whatever the   *)
(* threads and how their calls interleave, the keys, the table sizes and   *)
(* the memory calls that fail - as long as the value array can be shrunk:  *)
(* when it cannot, the keys have been shrunk already and the bucket count  *)
(* stays (hash_table.c:899-907).                                           *)
(*                                                                         *)
(* A resize re-hashes inside arrays that are grown before and shrunk after *)
(* it, so the argument follows one table through Grown, Moved and Resized. *)
(***************************************************************************)

Fields == {"buckets", "count", "occupied", "upper", "flags", "keys", "values"}

\* A table with every bucket inside both arrays.
Backed(T) ==
  /\ T = [f \in Fields |-> T[f]]
  /\ T.buckets \in Sizes \cup {0}
  /\ Slots(T.buckets) \subseteq DOMAIN T.keys
  /\ Slots(T.buckets) \subseteq DOMAIN T.values

\* Bucket counts are numbers.
LEMMA SizesAreNumbers == Sizes \cup {0} \subseteq Nat
BY ConstantsAssumption

\* Rounding up, where it is possible, gives a size there is memory for.
LEMMA RoundUpIsSize ==
  ASSUME NEW n, CanRoundUp(n)
  PROVE  RoundUp(n) \in Sizes
BY DEF CanRoundUp, RoundUp

\* Fewer buckets are some of more buckets.
LEMMA SlotsNest ==
  ASSUME NEW a \in Nat, NEW b \in Nat, a <= b
  PROVE  Slots(a) \subseteq Slots(b)
BY DEF Slots

\* The table without buckets has them all inside.
LEMMA EmptyBacked == Backed(EmptyTable)
<1>1. Slots(0) = {}
  BY DEF Slots
<1> QED
  BY <1>1 DEF Backed, EmptyTable, Fields

\* The swaps of the re-hash keep both arrays as long as they are.
LEMMA MovedBacked ==
  ASSUME NEW T, NEW at, Backed(T)
  PROVE  Backed(Moved(T, at)) /\ Moved(T, at).buckets = T.buckets
<1>1. DOMAIN Move(T.keys, T, at) = DOMAIN T.keys
      /\ DOMAIN Move(T.values, T, at) = DOMAIN T.values
  BY DEF Move
<1> DEFINE K == Move(T.keys, T, at)
           V == Move(T.values, T, at)
           M == [T EXCEPT !.keys = K, !.values = V]
<1> HIDE DEF K, V
<1>2. M = [f \in Fields |-> M[f]] /\ M.buckets = T.buckets /\ M.keys = K /\ M.values = V
  BY DEF Backed, Fields
<1>3. M = Moved(T, at)
  BY DEF Moved, K, V
<1> QED
  BY <1>1, <1>2, <1>3 DEF Backed, K, V

\* Lengthening the arrays brings every bucket of either count inside.
LEMMA GrownBacked ==
  ASSUME NEW T, NEW b \in Sizes, Backed(T)
  PROVE  /\ Backed(Grown(T, b)) /\ Grown(T, b).buckets = T.buckets
         /\ T.buckets < b => /\ Slots(b) \subseteq DOMAIN Grown(T, b).keys
                             /\ Slots(b) \subseteq DOMAIN Grown(T, b).values
<1>1. CASE ~(T.buckets < b)
  BY <1>1 DEF Grown
<1>2. CASE T.buckets < b
  <2> DEFINE K == Realloc(T.keys, b)
             V == Realloc(T.values, b)
             G == [T EXCEPT !.keys = K, !.values = V]
  <2>1. DOMAIN K = Slots(b) /\ DOMAIN V = Slots(b)
    BY DEF Realloc
  <2> HIDE DEF K, V
  <2>2. G = [f \in Fields |-> G[f]] /\ G.buckets = T.buckets /\ G.keys = K /\ G.values = V
    BY DEF Backed, Fields
  <2>3. G = Grown(T, b)
    BY <1>2 DEF Grown, K, V
  <2>4. Slots(T.buckets) \subseteq Slots(b)
    <3>1. T.buckets \in Nat /\ b \in Nat
      BY SizesAreNumbers DEF Backed
    <3> QED
      BY <3>1, <1>2, SlotsNest
  <2> QED
    BY <2>1, <2>2, <2>3, <2>4 DEF Backed
<1> QED
  BY <1>1, <1>2

\* What a resize that succeeds leaves.
LEMMA ResizedBacked ==
  ASSUME NEW T, NEW b \in Sizes, NEW at, Backed(T)
  PROVE  Backed(Resized(T, b, at))
<1> DEFINE G == Grown(T, b)
           M == Moved(G, at)
           N == Resized(T, b, at)
<1>1. Backed(M) /\ M.buckets = T.buckets
  BY GrownBacked, MovedBacked
<1>2. DOMAIN M.keys = DOMAIN G.keys /\ DOMAIN M.values = DOMAIN G.values
  <2>1. G = [f \in Fields |-> G[f]]
    BY GrownBacked DEF Backed
  <2> HIDE DEF G
  <2> QED
    BY <2>1 DEF Moved, Move, Fields
<1>3. N.buckets = b /\ N = [f \in Fields |-> N[f]]
  BY DEF Resized, Fields
<1>4. N.keys = (IF T.buckets > b THEN Realloc(M.keys, b) ELSE M.keys)
      /\ N.values = (IF T.buckets > b THEN Realloc(M.values, b) ELSE M.values)
  BY DEF Resized
<1>5. T.buckets \in Nat /\ b \in Nat
  BY SizesAreNumbers DEF Backed
<1>6. Slots(b) \subseteq DOMAIN N.keys /\ Slots(b) \subseteq DOMAIN N.values
  <2>1. CASE T.buckets > b
    BY <2>1, <1>4 DEF Realloc
  <2>2. CASE T.buckets < b
    <3>1. Slots(b) \subseteq DOMAIN G.keys /\ Slots(b) \subseteq DOMAIN G.values
      BY <2>2, GrownBacked
    <3>2. N.keys = M.keys /\ N.values = M.values
      BY <2>2, <1>4, <1>5
    <3> QED
      BY <3>1, <3>2, <1>2
  <2>3. CASE T.buckets = b
    <3>1. N.keys = M.keys /\ N.values = M.values
      BY <2>3, <1>4, <1>5
    <3> QED
      BY <2>3, <3>1, <1>1 DEF Backed
  <2> QED
    BY <2>1, <2>2, <2>3, <1>5
<1> HIDE DEF N
<1> QED
  BY <1>3, <1>6 DEF Backed, N

\* What is left when the keys have been lengthened and the values cannot be.
LEMMA KeysLengthenedBacked ==
  ASSUME NEW T, NEW b \in Sizes, Backed(T), T.buckets < b
  PROVE  Backed([T EXCEPT !.keys = Realloc(T.keys, b)])
<1> DEFINE K == Realloc(T.keys, b)
           N == [T EXCEPT !.keys = K]
<1>1. DOMAIN K = Slots(b)
  BY DEF Realloc
<1>2. T.buckets \in Nat /\ b \in Nat
  BY SizesAreNumbers DEF Backed
<1>3. Slots(T.buckets) \subseteq Slots(b)
  BY <1>2, SlotsNest
<1> HIDE DEF K
<1>4. N = [f \in Fields |-> N[f]] /\ N.buckets = T.buckets /\ N.keys = K /\ N.values = T.values
  BY DEF Backed, Fields
<1> HIDE DEF N
<1>5. Backed(N)
  BY <1>1, <1>3, <1>4 DEF Backed
<1> QED
  BY <1>5 DEF N, K

\* Marking the entries deleted moves no array.
LEMMA WipedBacked ==
  ASSUME NEW T, NEW at, Backed(T)
  PROVE  Backed(Wiped(T, at))
<1> DEFINE M == Moved(T, at)
           F == [i \in Slots(T.buckets) |-> IF T.flags[i] = "live" THEN "deleted" ELSE T.flags[i]]
           N == [M EXCEPT !.flags = F]
<1>1. Backed(M)
  BY MovedBacked
<1> HIDE DEF M, F
<1>2. N = [f \in Fields |-> N[f]] /\ N.buckets = M.buckets /\ N.keys = M.keys /\ N.values = M.values
  BY <1>1 DEF Backed, Fields
<1> HIDE DEF N
<1>3. Backed(N)
  BY <1>1, <1>2 DEF Backed
<1> QED
  BY <1>3 DEF Wiped, N, M, F

\* A resize leaves the buckets inside the arrays, however it ends.
LEMMA ResizeBacked ==
  ASSUME NEW T, NEW n, Backed(T), "shrinkValues" \notin CanFail,
         NEW r \in ResizeOutcomes(T, n)
  PROVE  Backed(r.tab)
<1>1. CASE ~CanRoundUp(n)
  BY <1>1 DEF ResizeOutcomes
<1>2. CASE CanRoundUp(n)
  <2> DEFINE b == RoundUp(n)
  <2>1. b \in Sizes
    BY <1>2, RoundUpIsSize
  <2>2. \/ r.tab = T
        \/ \E at \in Placements(T, b) : r.tab = Resized(T, b, at)
        \/ r.tab \in FailedResizes(T, b)
    BY <1>2 DEF ResizeOutcomes
  <2> HIDE DEF b
  <2>3. ASSUME r.tab \in FailedResizes(T, b)
        PROVE  Backed(r.tab)
    <3>1. \/ r.tab = T
          \/ T.buckets < b /\ r.tab = [T EXCEPT !.keys = Realloc(T.keys, b)]
          \/ \E at \in Placements(T, b) : r.tab = Wiped(T, at)
      BY <2>3 DEF FailedResizes
    <3> QED
      BY <3>1, <2>1, KeysLengthenedBacked, WipedBacked
  <2> QED
    BY <2>1, <2>2, <2>3, ResizedBacked
<1> QED
  BY <1>1, <1>2

\* So does making room for an insert, which resizes or does nothing.
LEMMA MakeRoomBacked ==
  ASSUME NEW T, Backed(T), "shrinkValues" \notin CanFail, NEW r \in MakeRoom(T)
  PROVE  Backed(r.tab)
<1>1. \/ r.tab = T
      \/ r \in ResizeOutcomes(T, T.buckets - 1)
      \/ r \in ResizeOutcomes(T, T.buckets + 1)
  BY DEF MakeRoom
<1> QED
  BY <1>1, ResizeBacked

\* Writing an entry or a flag moves no array.
LEMMA PlacedBacked ==
  ASSUME NEW T, NEW k, NEW v, Backed(T)
  PROVE  Backed(Placed(T, k, v))
<1> DEFINE x == InsertAt(T, k)
           K == [T.keys EXCEPT ![x] = k]
           V == [T.values EXCEPT ![x] = <<k, v>>]
           F == [T.flags EXCEPT ![x] = "live"]
           c == T.count + 1
           o == IF T.flags[x] = "empty" THEN T.occupied + 1 ELSE T.occupied
           N == [T EXCEPT !.keys = K, !.values = V, !.flags = F, !.count = c, !.occupied = o]
<1>1. DOMAIN K = DOMAIN T.keys /\ DOMAIN V = DOMAIN T.values
  OBVIOUS
<1>2. Placed(T, k, v) = T \/ Placed(T, k, v) = N
  BY DEF Placed
<1> HIDE DEF K, V, F, c, o
<1>3. N = [f \in Fields |-> N[f]] /\ N.buckets = T.buckets /\ N.keys = K /\ N.values = V
  BY DEF Backed, Fields
<1> HIDE DEF N
<1> QED
  BY <1>1, <1>2, <1>3 DEF Backed

\* Marking one entry deleted moves no array.
LEMMA RemovedBacked ==
  ASSUME NEW T, NEW i, Backed(T)
  PROVE  Backed(Removed(T, i))
<1> DEFINE F == [T.flags EXCEPT ![i] = "deleted"]
           c == T.count - 1
           N == [T EXCEPT !.flags = F, !.count = c]
<1>1. Removed(T, i) = T \/ Removed(T, i) = N
  BY DEF Removed
<1> HIDE DEF F, c
<1>2. N = [f \in Fields |-> N[f]] /\ N.buckets = T.buckets /\ N.keys = T.keys
      /\ N.values = T.values
  BY DEF Backed, Fields
<1> HIDE DEF N
<1> QED
  BY <1>1, <1>2 DEF Backed

----------------------------------------------------------------------------
(* The steps. *)

\* Every step of every thread keeps the buckets inside the arrays.
LEMMA StepBacked ==
  ASSUME Backed(tab), [Next]_vars, "shrinkValues" \notin CanFail
  PROVE  Backed(tab')
<1>1. CASE Create \/ Destroy
  BY <1>1, EmptyBacked DEF Create, Destroy
<1>2. ASSUME NEW t \in Threads, Clear(t)
      PROVE  Backed(tab')
  <2> DEFINE F == [i \in Slots(tab.buckets) |-> "empty"]
             N == [tab EXCEPT !.flags = F, !.count = 0, !.occupied = 0]
  <2>1. tab' = N
    BY <1>2 DEF Clear
  <2> HIDE DEF F
  <2>2. N = [f \in Fields |-> N[f]] /\ N.buckets = tab.buckets /\ N.keys = tab.keys
        /\ N.values = tab.values
    BY DEF Backed, Fields
  <2> HIDE DEF N
  <2>3. Backed(N)
    BY <2>2 DEF Backed
  <2> QED
    BY <2>1, <2>3
<1>3. ASSUME NEW t \in Threads, NEW b \in Sizes, Resize(t, b)
      PROVE  Backed(tab')
  BY <1>3, ResizeBacked DEF Resize
<1>4. ASSUME NEW t \in Threads, NEW k \in Key, NEW v \in Version[k], Insert(t, k, v)
      PROVE  Backed(tab')
  BY <1>4, MakeRoomBacked, PlacedBacked DEF Insert
<1>5. ASSUME NEW t \in Threads, NEW i \in 0..tab.buckets, RemoveAt(t, i)
      PROVE  Backed(tab')
  BY <1>5, RemovedBacked DEF RemoveAt
<1>6. ASSUME NEW t \in Threads, NEW i \in Live(tab), NEW v \in Version[tab.keys[i]],
             Visit(t, i, v)
      PROVE  Backed(tab')
  <2> DEFINE V == [tab.values EXCEPT ![i] = <<tab.keys[i], v>>]
             N == [tab EXCEPT !.values = V]
  <2>1. tab' = N /\ DOMAIN V = DOMAIN tab.values
    BY <1>6 DEF Visit
  <2> HIDE DEF V
  <2>2. N = [f \in Fields |-> N[f]] /\ N.buckets = tab.buckets /\ N.keys = tab.keys
        /\ N.values = V
    BY DEF Backed, Fields
  <2> HIDE DEF N
  <2> QED
    BY <2>1, <2>2 DEF Backed
<1>7. ASSUME NEW t \in Threads, EndRemove(t)
      PROVE  Backed(tab')
  <2>1. \/ tab' = tab
        \/ \E i \in Int : tab' = Removed(tab, i)
        \/ tab' = [tab EXCEPT !.count = tab.count - 1]
    BY <1>7 DEF EndRemove
  <2> DEFINE c == tab.count - 1
             N == [tab EXCEPT !.count = c]
  <2> HIDE DEF c
  <2>2. N = [f \in Fields |-> N[f]] /\ N.buckets = tab.buckets /\ N.keys = tab.keys
        /\ N.values = tab.values
    BY DEF Backed, Fields
  <2> HIDE DEF N
  <2>3. Backed(N)
    BY <2>2 DEF Backed
  <2> QED
    BY <2>1, <2>3, RemovedBacked DEF N, c
<1>8. CASE UNCHANGED tab
  BY <1>8 DEF Backed, Slots
<1>9. ASSUME NEW t \in Threads, \/ \E op \in {"contains", "get", "remove"}, k \in Key : Lookup(t, op, k)
                               \/ EndGet(t) \/ EndContains(t)
      PROVE  UNCHANGED tab
  BY <1>9 DEF Lookup, EndGet, EndContains
<1> QED
  BY <1>1, <1>2, <1>3, <1>4, <1>5, <1>6, <1>7, <1>8, <1>9 DEF Next, vars

\* No bucket lies outside the key and value arrays (hash_table.c:812-843,
\* 893-908), for any number of threads and through every failure of a resize
\* but that of shrinking the values.
THEOREM Arrays ==
  ASSUME "shrinkValues" \notin CanFail
  PROVE  Spec => []SlotsBacked
<1>1. Init => Backed(tab)
  BY EmptyBacked DEF Init
<1>2. Backed(tab) /\ [Next]_vars => Backed(tab)'
  <2>1. Backed(tab') <=> Backed(tab)'
    BY DEF Backed, Slots
  <2> QED
    BY <2>1, StepBacked
<1>3. Backed(tab) => SlotsBacked
  BY DEF Backed, SlotsBacked
<1> QED
  BY <1>1, <1>2, <1>3, PTL DEF Spec

(***************************************************************************)
(* Where the quadratic probe of the hash table goes and where it ends, for *)
(* every table size and every key: it visits each bucket once before it    *)
(* comes back to the first, so a table with an empty bucket ends it there  *)
(* or at the key (hash_table.c:275-290, 352-380).                          *)
(***************************************************************************)

\* A set of naturals has a least element: the probe has a first stop.
LEMMA Least ==
  ASSUME NEW S \in SUBSET Nat, S # {}
  PROVE  \E m \in S : \A n \in S : m <= n
<1> DEFINE R == {p \in Nat \X Nat : p[1] < p[2]}
<1>1. IsWellFoundedOn(R, Nat)
  BY NatLessThanWellFounded DEF OpToRel
<1>2. \E x \in S : \A y \in S : ~(<<y, x>> \in R)
  <2> HIDE DEF R
  <2> QED BY <1>1, WFMin
<1> QED
  <2>1. PICK x \in S : \A y \in S : ~(<<y, x>> \in R)
    BY <1>2
  <2>2. ASSUME NEW y \in S PROVE x <= y
    <3>1. x \in Nat /\ y \in Nat
      OBVIOUS
    <3>2. ~(y < x)
      BY <2>1, <3>1
    <3> QED BY <3>1, <3>2
  <2> QED BY <2>2

\* A bounded one has a greatest: the last deleted bucket passed.
LEMMA Greatest ==
  ASSUME NEW n \in Nat, NEW S \in SUBSET (0..n), S # {}
  PROVE  \E m \in S : \A k \in S : k <= m
<1> DEFINE D == {n - k : k \in S}
<1>1. \A k \in S : k \in Nat /\ n - k \in Nat
  OBVIOUS
<1>2. D \in SUBSET Nat /\ D # {}
  BY <1>1
<1> HIDE DEF D
<1>3. PICK d \in D : \A e \in D : d <= e
  BY <1>2, Least
<1>4. PICK m \in S : d = n - m
  BY DEF D
<1>5. ASSUME NEW k \in S PROVE k <= m
  <2>1. n - k \in D
    BY DEF D
  <2>2. n - m <= n - k
    BY <1>3, <1>4, <2>1
  <2>3. m \in Nat /\ k \in Nat
    BY <1>1
  <2> HIDE <1>3, <1>4
  <2> QED BY <2>2, <2>3
<1> QED BY <1>5

\* A number below b is the remainder it is added as.
LEMMA Quotient ==
  ASSUME NEW b \in Nat, b > 0, NEW k \in Nat, NEW r \in 0..(b-1)
  PROVE  (b * k + r) % b = r
<1> DEFINE X == b * k + r
           q == X \div b
           s == X % b
<1>1. X \in Nat /\ q \in Int /\ s \in 0..(b-1) /\ X = b * q + s
  OBVIOUS
<1> HIDE DEF X, q, s
<1>2. X = b * k + r
  BY DEF X
<1>3. b * (q - k) = r - s
  BY <1>1, <1>2
<1>4. q - k = 0
  <2>1. r - s < b /\ s - r < b
    BY <1>1
  <2>2. ~(q - k >= 1)
    <3>1. SUFFICES ASSUME q - k >= 1 PROVE FALSE
      OBVIOUS
    <3>2. b * (q - k) >= b
      BY <3>1, <1>1
    <3> QED BY <3>2, <1>3, <2>1, <1>1
  <2>3. ~(q - k <= -1)
    <3>1. SUFFICES ASSUME q - k <= -1 PROVE FALSE
      OBVIOUS
    <3>2. b * (q - k) <= -b
      BY <3>1, <1>1
    <3> QED BY <3>2, <1>3, <2>1, <1>1
  <2> QED BY <2>2, <2>3, <1>1
<1>5. r = s
  <2>1. b * (q - k) = 0
    BY <1>4
  <2> QED BY <2>1, <1>3, <1>1
<1> QED
  BY <1>5 DEF X, s

\* Division with remainder, by name: the provers need it after hiding.
LEMMA Division ==
  ASSUME NEW a \in Nat, NEW b \in Nat, b > 0
  PROVE  a \div b \in Nat /\ a % b \in 0..(b - 1) /\ a = b * (a \div b) + (a % b)
OBVIOUS

\* Adding whole rounds of b moves no bucket (the mask of hash_table.c:281).
LEMMA ModAdd ==
  ASSUME NEW a \in Nat, NEW b \in Nat, b > 0, NEW q \in Nat
  PROVE  (a + b * q) % b = a % b
<1> DEFINE d == a \div b
           r == a % b
<1>1. d \in Nat /\ r \in 0..(b-1) /\ a = b * d + r
  OBVIOUS
<1> HIDE DEF d, r
<1>2. a + b * q = b * (d + q) + r
  BY <1>1
<1>3. (b * (d + q) + r) % b = r
  BY <1>1, Quotient
<1> QED
  BY <1>2, <1>3 DEF r

\* After 2 * b - 1 steps the probe is back where it began.
LEMMA Round ==
  ASSUME NEW h \in Nat, NEW b \in Nat, b > 0
  PROVE  (h + (((2 * b - 1) * ((2 * b - 1) + 1)) \div 2)) % b = h % b
<1>1. (2 * b - 1) * ((2 * b - 1) + 1) = 2 * (b * (2 * b - 1))
  OBVIOUS
<1>2. (2 * (b * (2 * b - 1))) \div 2 = b * (2 * b - 1)
  <2>1. b * (2 * b - 1) \in Nat
    OBVIOUS
  <2> DEFINE c == b * (2 * b - 1)
  <2> HIDE DEF c
  <2> QED BY <2>1 DEF c
<1>3. 2 * b - 1 \in Nat
  OBVIOUS
<1>4. (h + b * (2 * b - 1)) % b = h % b
  BY <1>3, ModAdd
<1> QED
  BY <1>1, <1>2, <1>4

\* A table size is a number from 4.
LEMMA SizeType ==
  ASSUME NEW b \in Sizes
  PROVE  b \in Nat /\ b >= 4 /\ b > 0
<1>1. b \in Nat /\ b >= 4
  BY ConstantsAssumption
<1> QED
  BY <1>1

\* A hash is a number.
LEMMA HashType ==
  ASSUME NEW k \in Key
  PROVE  Hash[k] \in Nat
BY ConstantsAssumption

\* The sum of the steps is a number.
LEMMA Triangle ==
  ASSUME NEW t \in Nat
  PROVE  (t * (t + 1)) \div 2 \in Nat
<1> DEFINE c == t * (t + 1)
<1>1. c \in Nat
  OBVIOUS
<1> HIDE DEF c
<1>2. c \div 2 \in Nat
  BY <1>1
<1> QED
  BY <1>2 DEF c

\* Every step of a probe looks at a bucket of the table.
LEMMA ProbeType ==
  ASSUME NEW b \in Nat, b > 0, NEW k \in Key, NEW t \in Nat
  PROVE  Probe(b, k, t) \in Slots(b)
<1> DEFINE c == (t * (t + 1)) \div 2
<1>1. c \in Nat
  BY Triangle
<1> HIDE DEF c
<1>2. Hash[k] \in Nat
  BY ConstantsAssumption
<1>3. (Hash[k] + c) % b \in Slots(b)
  BY <1>1, <1>2 DEF Slots
<1> QED
  BY <1>3 DEF Probe, c

\* Every bucket is visited within the first b steps, wherever the hash starts.
LEMMA EverySlotProbed ==
  ASSUME NEW b \in Sizes, NEW k \in Key, NEW i \in Slots(b)
  PROVE  \E t \in 0..(b - 1) : Probe(b, k, t) = i
<1>1. b \in Nat /\ b > 0 /\ Hash[k] \in Nat
  BY SizeType, HashType
<1> DEFINE h == Hash[k] % b
           d == Hash[k] \div b
<1>2. h \in 0..(b - 1) /\ d \in Nat /\ Hash[k] = b * d + h
  BY <1>1, Division
<1> HIDE DEF h, d
<1>3. PICK t \in 0..(b - 1) : (h + (t * (t + 1)) \div 2) % b = i
  <2>1. \A x, y \in 0..(b - 1) :
          \E t \in 0..(b - 1) : (x + (t * (t + 1)) \div 2) % b = y
    BY ConstantsAssumption
  <2> QED
    BY <2>1, <1>2 DEF Slots
<1> DEFINE c == (t * (t + 1)) \div 2
<1>4. c \in Nat
  BY Triangle, <1>1
<1>5. (h + c) % b = i
  BY <1>3
<1> HIDE DEF c
<1>6. h + c \in Nat /\ Hash[k] + c = (h + c) + b * d
  BY <1>1, <1>2, <1>4
<1>7. ((h + c) + b * d) % b = (h + c) % b
  BY <1>1, <1>2, <1>6, ModAdd
<1> QED
  BY <1>5, <1>6, <1>7 DEF Probe, c

\* So the first b steps visit different buckets.
LEMMA ProbesDiffer ==
  ASSUME NEW b \in Sizes, NEW k \in Key,
         NEW t \in 0..(b - 1), NEW u \in 0..(b - 1), t # u
  PROVE  Probe(b, k, t) # Probe(b, k, u)
<1> DEFINE S == 0..(b - 1)
           f == [s \in S |-> Probe(b, k, s)]
<1>1. b \in Nat /\ b > 0
  BY SizeType, HashType
<1>2. f \in [S -> S]
  BY <1>1, ProbeType DEF Slots
<1>3. \A i \in S : \E s \in S : f[s] = i
  BY EverySlotProbed DEF Slots
<1>4. IsFiniteSet(S)
  BY <1>1, FS_Interval
<1> HIDE DEF f, S
<1>5. f \in Surjection(S, S)
  BY <1>2, <1>3 DEF Surjection
<1>6. f \in Injection(S, S)
  BY <1>4, <1>5, FS_SurjSameCardinalityImpliesInj
<1>7. f[t] # f[u]
  BY <1>6 DEF Injection, IsInjective, S
<1> QED
  BY <1>7 DEF f, S

\* The loop ends: after 2b - 1 steps it is back where it began.
LEMMA ProbeStops ==
  ASSUME NEW T, T.buckets \in Sizes, NEW k \in Key
  PROVE  \E t \in 0..(2 * T.buckets) : Stops(T, k, t)
<1> DEFINE b == T.buckets
           l == 2 * b - 1
<1>1. b \in Nat /\ b > 0 /\ Hash[k] \in Nat
  BY SizeType, HashType
<1>2. l \in 0..(2 * b) /\ l > 0
  BY <1>1
<1>3. Probe(b, k, l) = Probe(b, k, 0)
  <2>1. (Hash[k] + (l * (l + 1)) \div 2) % b = Hash[k] % b
    BY <1>1, Round
  <2>2. (0 * (0 + 1)) \div 2 = 0
    OBVIOUS
  <2>3. Probe(b, k, 0) = Hash[k] % b
    BY <2>2, <1>1 DEF Probe
  <2> QED
    BY <2>1, <2>3 DEF Probe
<1> QED
  BY <1>2, <1>3 DEF Stops

\* The length of a probe is its first stop, which no earlier step was.
LEMMA ProbeLengthFacts ==
  ASSUME NEW T, T.buckets \in Sizes, NEW k \in Key
  PROVE  /\ ProbeLength(T, k) \in 0..(2 * T.buckets)
         /\ Stops(T, k, ProbeLength(T, k))
         /\ \A u \in 0..(ProbeLength(T, k) - 1) : ~Stops(T, k, u)
         /\ ProbeEnd(T, k) \in Slots(T.buckets)
<1> DEFINE S == {t \in 0..(2 * T.buckets) : Stops(T, k, t)}
<1>1. T.buckets \in Nat /\ T.buckets > 0
  BY SizeType, HashType
<1>2. S \in SUBSET Nat /\ S # {}
  BY ProbeStops
<1>3. PICK m \in S : \A n \in S : m <= n
  <2> HIDE DEF S
  <2> QED BY <1>2, Least
<1>4. \A u \in 0..(m - 1) : ~Stops(T, k, u)
  <2> SUFFICES ASSUME NEW u \in 0..(m - 1), Stops(T, k, u) PROVE FALSE
    OBVIOUS
  <2>1. u \in S
    BY <1>1, <1>3
  <2> QED
    BY <2>1, <1>2, <1>3
<1>5. /\ ProbeLength(T, k) \in 0..(2 * T.buckets)
      /\ Stops(T, k, ProbeLength(T, k))
      /\ \A u \in 0..(ProbeLength(T, k) - 1) : ~Stops(T, k, u)
  BY <1>3, <1>4 DEF ProbeLength
<1> QED
  BY <1>1, <1>5, ProbeType DEF ProbeEnd

\* An insert goes where the probe ended or to a deleted bucket it passed.
LEMMA InsertAtFacts ==
  ASSUME NEW T, T.buckets \in Sizes, NEW k \in Key
  PROVE  /\ \E u \in 0..ProbeLength(T, k) : InsertAt(T, k) = Probe(T.buckets, k, u)
         /\ InsertAt(T, k) \in Slots(T.buckets)
         /\ \/ InsertAt(T, k) = ProbeEnd(T, k)
            \/ T.flags[InsertAt(T, k)] = "deleted" /\ ~Holds(T, ProbeEnd(T, k), k)
<1> DEFINE L == ProbeLength(T, k)
           D == DeletedSteps(T, k)
<1>1. L \in Nat /\ T.buckets \in Nat /\ T.buckets > 0
  BY ProbeLengthFacts, SizeType
<1>2. CASE D = {} \/ Holds(T, ProbeEnd(T, k), k)
  BY <1>1, <1>2, ProbeLengthFacts DEF InsertAt, ProbeEnd
<1>3. CASE ~(D = {} \/ Holds(T, ProbeEnd(T, k), k))
  <2> HIDE DEF L
  <2>1. D \in SUBSET (0..L)
    BY <1>1 DEF DeletedSteps, L
  <2>2. \E u \in D : \A w \in D : w <= u
    <3> HIDE DEF D
    <3> QED BY <1>1, <1>3, <2>1, Greatest
  <2> DEFINE m == CHOOSE u \in D : \A w \in D : w <= u
  <2>3. m \in D
    BY <2>2
  <2>4. InsertAt(T, k) = Probe(T.buckets, k, m)
    BY <1>3 DEF InsertAt
  <2> HIDE DEF m
  <2>5. T.flags[Probe(T.buckets, k, m)] = "deleted"
    BY <2>3 DEF DeletedSteps
  <2>6. m \in 0..L /\ m \in Nat
    BY <2>1, <2>3
  <2>7. Probe(T.buckets, k, m) \in Slots(T.buckets)
    BY <1>1, <2>6, ProbeType
  <2> QED
    BY <1>3, <2>4, <2>5, <2>6, <2>7 DEF L
<1> QED
  BY <1>2, <1>3

----------------------------------------------------------------------------
(* Tables with room. *)

\* With an empty bucket somewhere, the probe ends at one or at the key, before
\* it has gone round.
LEMMA ProbeEnds ==
  ASSUME NEW T, T.buckets \in Sizes, NEW k \in Key,
         NEW e \in Slots(T.buckets), T.flags[e] = "empty"
  PROVE  /\ ProbeLength(T, k) \in 0..(T.buckets - 1)
         /\ T.flags[ProbeEnd(T, k)] = "empty" \/ Holds(T, ProbeEnd(T, k), k)
<1> DEFINE L == ProbeLength(T, k)
           b == T.buckets
<1>1. L \in 0..(2 * b) /\ Stops(T, k, L) /\ (\A u \in 0..(L - 1) : ~Stops(T, k, u))
      /\ b \in Nat /\ b > 0
  BY ProbeLengthFacts, SizeType
<1>2. PICK t \in 0..(b - 1) : Probe(b, k, t) = e
  BY EverySlotProbed
<1>3. Stops(T, k, t)
  BY <1>2 DEF Stops
<1> HIDE DEF L
<1>4. L <= t
  <2> SUFFICES ASSUME ~(L <= t) PROVE FALSE
    OBVIOUS
  <2>1. t \in 0..(L - 1)
    BY <1>1
  <2> QED
    BY <2>1, <1>1, <1>3
<1>5. L \in 0..(b - 1)
  BY <1>1, <1>4
<1>6. L > 0 => Probe(b, k, L) # Probe(b, k, 0)
  BY <1>1, <1>5, ProbesDiffer
<1> QED
  BY <1>1, <1>5, <1>6 DEF L, Stops, ProbeEnd

(***************************************************************************)
(* The hash table is a finite map: its counters are right, its probes      *)
(* reach every entry, and every call changes one entry or clears them all, *)
(* for all keys, hashes, values and table sizes and through every failure  *)
(* of a growing resize.                                                    *)
(*                                                                         *)
(* Assumed: one thread, since with more of them remove uses an iterator    *)
(* that may be stale (hash_table.c:437), and arrays that can be shrunk,    *)
(* since a resize that cannot has lost every entry (hash_table.c:899).     *)
(*                                                                         *)
(* Sound collects what has to hold of a table together: an insert finds a  *)
(* bucket because the counters leave one empty, and the counters stay      *)
(* right because the probe that an insert follows finds an entry that is   *)
(* there.  Everything is stated of a table T; the steps come last.         *)
(***************************************************************************)

\* The types of TypeOK, for a table.
Typed(T) ==
  /\ T.count \in Nat /\ T.occupied \in Nat
  /\ T.upper = IF T.buckets = 0 THEN 0 ELSE Upper(T.buckets)
  /\ T.flags \in [Slots(T.buckets) -> FlagValue]
  /\ \E c \in Sizes \cup {0} : T.keys \in [Slots(c) -> Key \cup {Junk}]
  /\ \E c \in Sizes \cup {0} : T.values \in [Slots(c) -> Entry \cup {Junk}]

Keyed(T) == \A i \in Live(T) : T.keys[i] \in Key

Counted(T) ==
  /\ T.count = Cardinality(Live(T))
  /\ T.occupied = Cardinality(InUse(T))
  /\ T.occupied <= T.upper

\* Every entry lies on its key's probe, behind buckets that are not empty.
OnProbe(T, i) ==
  \E t \in 0..(T.buckets - 1) :
    /\ Probe(T.buckets, T.keys[i], t) = i
    /\ \A u \in 0..(t - 1) : T.flags[Probe(T.buckets, T.keys[i], u)] # "empty"

Reached(T) == \A i \in Live(T) : OnProbe(T, i)

Unique(T) == \A i, j \in Live(T) : T.keys[i] = T.keys[j] => i = j

Sound(T) ==
  Backed(T) /\ Typed(T) /\ Keyed(T) /\ Counted(T) /\ Reached(T) /\ Unique(T)

----------------------------------------------------------------------------
(* Counting buckets. *)

\* The threshold leaves at least one bucket and lets at least one be used.
LEMMA UpperFacts ==
  ASSUME NEW b \in Sizes
  PROVE  Upper(b) \in Nat /\ Upper(b) > 0 /\ Upper(b) < b
BY SizeType DEF Upper

\* A table of b buckets has b of them.
LEMMA SlotsFinite ==
  ASSUME NEW b \in Nat
  PROVE  IsFiniteSet(Slots(b)) /\ Cardinality(Slots(b)) = b
BY FS_Interval DEF Slots

\* The buckets in use and the live ones among them.
LEMMA InUseFinite ==
  ASSUME NEW T, T.buckets \in Nat
  PROVE  /\ IsFiniteSet(Live(T)) /\ IsFiniteSet(InUse(T))
         /\ Cardinality(Live(T)) \in Nat /\ Cardinality(InUse(T)) \in Nat
         /\ Cardinality(Live(T)) <= Cardinality(InUse(T))
         /\ Cardinality(InUse(T)) <= T.buckets
<1>1. InUse(T) \in SUBSET Slots(T.buckets)
  BY DEF InUse
<1>2. Live(T) \in SUBSET InUse(T)
  BY DEF InUse, Live
<1>3. IsFiniteSet(InUse(T)) /\ Cardinality(InUse(T)) <= T.buckets
  BY <1>1, SlotsFinite, FS_Subset
<1>4. IsFiniteSet(Live(T)) /\ Cardinality(Live(T)) <= Cardinality(InUse(T))
  BY <1>2, <1>3, FS_Subset
<1> QED
  BY <1>3, <1>4, FS_CardinalityType

\* A table with fewer buckets in use than it has has an empty one.
LEMMA EmptyBucket ==
  ASSUME NEW T, T.buckets \in Nat, Cardinality(InUse(T)) < T.buckets
  PROVE  \E e \in Slots(T.buckets) : T.flags[e] = "empty"
<1>1. CASE InUse(T) = Slots(T.buckets)
  BY <1>1, SlotsFinite
<1>2. CASE InUse(T) # Slots(T.buckets)
  BY <1>2 DEF InUse
<1> QED
  BY <1>1, <1>2

\* A sound table has an empty bucket, so its probes end.
LEMMA SoundHasRoom ==
  ASSUME NEW T, Sound(T), T.buckets # 0
  PROVE  /\ T.buckets \in Sizes /\ T.upper < T.buckets
         /\ \E e \in Slots(T.buckets) : T.flags[e] = "empty"
<1>1. T.buckets \in Sizes
  BY DEF Sound, Backed
<1>2. T.upper = Upper(T.buckets)
  BY DEF Sound, Typed
<1>3. Cardinality(InUse(T)) < T.buckets
  <2>1. T.occupied <= T.upper /\ T.occupied = Cardinality(InUse(T)) /\ T.occupied \in Nat
    BY DEF Sound, Counted, Typed
  <2> QED
    BY <1>1, <1>2, <2>1, UpperFacts, SizeType
<1> QED
  BY <1>1, <1>2, <1>3, UpperFacts, SizeType, EmptyBucket

----------------------------------------------------------------------------
(* Finding. *)

\* A probe ends at a bucket that is empty or holds its key.
LEMMA EndOfProbe ==
  ASSUME NEW T, Sound(T), T.buckets # 0, NEW k \in Key
  PROVE  /\ ProbeEnd(T, k) \in Slots(T.buckets)
         /\ ProbeLength(T, k) \in 0..(T.buckets - 1)
         /\ T.flags[ProbeEnd(T, k)] = "empty" \/ Holds(T, ProbeEnd(T, k), k)
BY SoundHasRoom, ProbeEnds, ProbeLengthFacts

\* The probe for an entry's key ends at the entry.
LEMMA EntryFound ==
  ASSUME NEW T, Sound(T), NEW i \in Live(T)
  PROVE  /\ ProbeEnd(T, T.keys[i]) = i
         /\ Find(T, T.keys[i]) = i
<1> DEFINE k == T.keys[i]
           b == T.buckets
           L == ProbeLength(T, k)
<1>1. i \in Slots(b) /\ T.flags[i] = "live" /\ k \in Key
  BY DEF Sound, Keyed, Live
<1>2. b \in Sizes
  <2>1. b # 0
    BY <1>1 DEF Slots
  <2> QED
    BY <2>1, SoundHasRoom
<1>3. b \in Nat /\ b > 0
  BY <1>2, SizeType
<1>4. PICK t \in 0..(b - 1) : /\ Probe(b, k, t) = i
                              /\ \A u \in 0..(t - 1) : T.flags[Probe(b, k, u)] # "empty"
  BY DEF Sound, Reached, OnProbe
<1>5. Stops(T, k, t)
  BY <1>1, <1>4 DEF Stops, Holds
<1>6. /\ L \in 0..(b - 1)
      /\ \A u \in 0..(L - 1) : ~Stops(T, k, u)
      /\ ProbeEnd(T, k) \in Slots(b)
      /\ T.flags[ProbeEnd(T, k)] = "empty" \/ Holds(T, ProbeEnd(T, k), k)
  BY <1>1, <1>2, <1>3, EndOfProbe, ProbeLengthFacts
<1> HIDE DEF L
<1>7. L <= t
  <2> SUFFICES ASSUME ~(L <= t) PROVE FALSE
    OBVIOUS
  <2>1. t \in 0..(L - 1)
    BY <1>3, <1>6
  <2> QED
    BY <2>1, <1>5, <1>6
<1>8. ProbeEnd(T, k) = i
  <2>1. CASE L = t
    BY <2>1, <1>4 DEF ProbeEnd, L
  <2>2. CASE L # t
    <3>1. L \in 0..(t - 1)
      BY <2>2, <1>3, <1>6, <1>7
    <3>2. T.flags[ProbeEnd(T, k)] # "empty"
      BY <3>1, <1>4 DEF ProbeEnd, L
    <3>3. Holds(T, ProbeEnd(T, k), k)
      BY <3>2, <1>6
    <3> QED
      BY <3>3, <1>6 DEF Holds, Live, Sound, Unique
  <2> QED
    BY <2>1, <2>2
<1> QED
  BY <1>1, <1>8 DEF Find, Holds

\* What find answers.
LEMMA FindFacts ==
  ASSUME NEW T, Sound(T), T.buckets # 0, NEW k \in Key
  PROVE  /\ Find(T, k) \in 0..T.buckets
         /\ Find(T, k) # T.buckets => Find(T, k) \in Live(T) /\ T.keys[Find(T, k)] = k
         /\ Find(T, k) = T.buckets => /\ \A i \in Live(T) : T.keys[i] # k
                                      /\ T.flags[ProbeEnd(T, k)] = "empty"
<1>1. T.buckets \in Nat
  BY SoundHasRoom, SizeType
<1>2. ProbeEnd(T, k) \in Slots(T.buckets) /\ ProbeEnd(T, k) # T.buckets
  BY <1>1, EndOfProbe DEF Slots
<1>3. Find(T, k) \in 0..T.buckets
  BY <1>1, <1>2 DEF Find, Slots
<1>4. ASSUME Find(T, k) # T.buckets
      PROVE  Find(T, k) \in Live(T) /\ T.keys[Find(T, k)] = k
  BY <1>2, <1>4 DEF Find, Holds, Live
<1>5. ASSUME Find(T, k) = T.buckets
      PROVE  (\A i \in Live(T) : T.keys[i] # k) /\ T.flags[ProbeEnd(T, k)] = "empty"
  <2>1. ~Holds(T, ProbeEnd(T, k), k)
    BY <1>2, <1>5 DEF Find
  <2>2. ASSUME NEW i \in Live(T), T.keys[i] = k PROVE FALSE
    <3>1. ProbeEnd(T, k) = i
      BY <2>2, EntryFound
    <3> QED
      BY <3>1, <2>1, <2>2 DEF Holds, Live
  <2> QED
    BY <2>1, <2>2, EndOfProbe
<1> QED
  BY <1>3, <1>4, <1>5

----------------------------------------------------------------------------
(* The map a table stands for. *)

ContentsOf(T) ==
  [k \in {T.keys[i] : i \in Live(T)} |->
     T.values[CHOOSE i \in Live(T) : T.keys[i] = k]]

\* The map C with k mapped to v, and without k.
With(C, k, v) == [j \in DOMAIN C \cup {k} |-> IF j = k THEN v ELSE C[j]]
Without(C, k) == [j \in DOMAIN C \ {k} |-> C[j]]

\* The map of a table has every entry of it.
LEMMA ContentsFacts ==
  ASSUME NEW T, Unique(T), NEW i \in Live(T)
  PROVE  T.keys[i] \in DOMAIN ContentsOf(T) /\ ContentsOf(T)[T.keys[i]] = T.values[i]
<1> DEFINE k == T.keys[i]
           j == CHOOSE h \in Live(T) : T.keys[h] = k
<1>1. j \in Live(T) /\ T.keys[j] = k
  OBVIOUS
<1>2. j = i
  BY <1>1 DEF Unique
<1> QED
  BY <1>2 DEF ContentsOf

\* A map with these keys and these values is the table's.
LEMMA ContentsAre ==
  ASSUME NEW T, Unique(T), NEW K, NEW f,
         f = [k \in K |-> f[k]],
         \A k \in K : \E i \in Live(T) : T.keys[i] = k,
         \A i \in Live(T) : T.keys[i] \in K /\ f[T.keys[i]] = T.values[i]
  PROVE  ContentsOf(T) = f
<1> DEFINE C == ContentsOf(T)
<1>1. K = {T.keys[i] : i \in Live(T)}
  OBVIOUS
<1>2. C = [k \in K |-> C[k]]
  BY <1>1 DEF ContentsOf
<1>3. ASSUME NEW k \in K PROVE C[k] = f[k]
  <2>1. PICK i \in Live(T) : T.keys[i] = k
    OBVIOUS
  <2> QED
    BY <2>1, ContentsFacts
<1> HIDE DEF C
<1>4. C = f
  BY <1>2, <1>3
<1> QED
  BY <1>4 DEF C

----------------------------------------------------------------------------
(* Inserting. *)

\* N is T with v put under k in bucket x, which held no entry.
Inserts(T, N, k, v, x) ==
  /\ N = [f \in Fields |-> N[f]]
  /\ N.buckets = T.buckets /\ N.upper = T.upper
  /\ T.flags[x] # "live"
  /\ N.flags = [T.flags EXCEPT ![x] = "live"]
  /\ N.keys = [T.keys EXCEPT ![x] = k]
  /\ N.values = [T.values EXCEPT ![x] = <<k, v>>]
  /\ N.count = T.count + 1
  /\ N.occupied = IF T.flags[x] = "empty" THEN T.occupied + 1 ELSE T.occupied
  /\ OnProbe(N, x)

\* What an insert into a table with room for one more does.
LEMMA PlacedFacts ==
  ASSUME NEW T, Sound(T), T.occupied < T.upper, NEW k \in Key, NEW v \in Version[k]
  PROVE  \/ Placed(T, k, v) = T
         \/ /\ \A i \in Live(T) : T.keys[i] # k
            /\ \E x \in Slots(T.buckets) : Inserts(T, Placed(T, k, v), k, v, x)
<1> DEFINE x == InsertAt(T, k)
           b == T.buckets
           F == [T.flags EXCEPT ![x] = "live"]
           K == [T.keys EXCEPT ![x] = k]
           V == [T.values EXCEPT ![x] = <<k, v>>]
           c == T.count + 1
           o == IF T.flags[x] = "empty" THEN T.occupied + 1 ELSE T.occupied
           N == [T EXCEPT !.keys = K, !.values = V, !.flags = F, !.count = c, !.occupied = o]
<1>1. b # 0 /\ b \in Sizes /\ b \in Nat /\ b > 0
  <2>1. b # 0
    <3>1. T.upper # 0
      BY DEF Sound, Typed, Counted
    <3> QED
      BY <3>1 DEF Sound, Typed
  <2> QED
    BY <2>1, SoundHasRoom, SizeType
<1>2. x \in Slots(b)
  BY <1>1, InsertAtFacts
<1>3. CASE T.flags[x] = "live"
  BY <1>3 DEF Placed
<1>4. CASE T.flags[x] # "live"
  <2>1. Placed(T, k, v) = N
    BY <1>4 DEF Placed
  <2>2. ASSUME NEW i \in Live(T), T.keys[i] = k PROVE FALSE
    <3>1. ProbeEnd(T, k) = i /\ Holds(T, i, k)
      BY <2>2, EntryFound DEF Live, Holds
    <3>2. x = i
      BY <3>1, <1>1, InsertAtFacts
    <3> QED
      BY <3>2, <1>4 DEF Live
  <2>3. PICK u \in 0..ProbeLength(T, k) : x = Probe(b, k, u)
    BY <1>1, InsertAtFacts
  <2>4. \A w \in 0..(u - 1) : T.flags[Probe(b, k, w)] # "empty"
    <3>1. ProbeLength(T, k) \in Nat
      BY <1>1, ProbeLengthFacts, SizeType
    <3>2. \A w \in 0..(u - 1) : w \in 0..(ProbeLength(T, k) - 1)
      BY <3>1, <2>3
    <3>3. \A w \in 0..(u - 1) : ~Stops(T, k, w)
      BY <3>2, <1>1, ProbeLengthFacts
    <3> QED
      BY <3>3 DEF Stops
  <2>5. u \in 0..(b - 1)
    BY <1>1, <2>3, EndOfProbe
  <2>6. \A w \in 0..(u - 1) : Probe(b, k, w) \in Slots(b)
    BY <1>1, <2>5, ProbeType
  <2>7. /\ T.flags \in [Slots(b) -> FlagValue]
        /\ x \in DOMAIN T.keys
    BY <1>2 DEF Sound, Typed, Backed
  <2>8. K[x] = k /\ \A w \in 0..(u - 1) : F[Probe(b, k, w)] # "empty"
    BY <2>4, <2>6, <2>7, <1>2
  <2> HIDE DEF x, F, K, V, c, o
  <2>9. /\ N = [f \in Fields |-> N[f]]
        /\ N.buckets = b /\ N.upper = T.upper /\ N.flags = F /\ N.keys = K
        /\ N.values = V /\ N.count = c /\ N.occupied = o
    BY DEF Sound, Backed, Fields
  <2> HIDE DEF N
  <2>10. OnProbe(N, x)
    BY <2>3, <2>5, <2>8, <2>9 DEF OnProbe
  <2> QED
    BY <1>2, <1>4, <2>1, <2>2, <2>9, <2>10 DEF Inserts, F, K, V, c, o
<1> QED
  BY <1>3, <1>4

\* An insert adds its entry and no other, or finds the key and adds none.
LEMMA PlacedSound ==
  ASSUME NEW T, Sound(T), T.occupied < T.upper, NEW k \in Key, NEW v \in Version[k]
  PROVE  /\ Sound(Placed(T, k, v))
         /\ \/ ContentsOf(Placed(T, k, v)) = ContentsOf(T)
            \/ /\ k \notin DOMAIN ContentsOf(T)
               /\ ContentsOf(Placed(T, k, v)) = With(ContentsOf(T), k, <<k, v>>)
<1>1. CASE Placed(T, k, v) = T
  BY <1>1
<1>2. CASE Placed(T, k, v) # T
  <2> DEFINE N == Placed(T, k, v)
  <2>1. /\ \A i \in Live(T) : T.keys[i] # k
        /\ \E x \in Slots(T.buckets) : Inserts(T, N, k, v, x)
    BY <1>2, PlacedFacts
  <2> HIDE DEF N
  <2>2. PICK x \in Slots(T.buckets) : Inserts(T, N, k, v, x)
    BY <2>1
  <2> USE DEF Inserts
  <2> DEFINE b == T.buckets
  <2>3. /\ T.flags \in [Slots(b) -> FlagValue]
        /\ x \in DOMAIN T.keys /\ x \in DOMAIN T.values
        /\ Slots(b) \subseteq DOMAIN T.keys /\ Slots(b) \subseteq DOMAIN T.values
        /\ b \in Nat /\ b \in Sizes \cup {0}
    BY SizesAreNumbers DEF Sound, Typed, Backed
  <2>4. Live(N) = Live(T) \cup {x} /\ x \notin Live(T) /\ Live(T) \subseteq Slots(b)
    BY <2>2, <2>3 DEF Live
  <2>5. InUse(N) = InUse(T) \cup {x} /\ (x \in InUse(T) <=> T.flags[x] # "empty")
    BY <2>2, <2>3 DEF InUse
  <2>6. /\ N.keys[x] = k /\ N.values[x] = <<k, v>>
        /\ \A i \in Live(T) : N.keys[i] = T.keys[i] /\ N.values[i] = T.values[i]
    BY <2>2, <2>3, <2>4
  <2>7. Backed(N)
    BY PlacedBacked DEF Sound, N
  <2>8. Typed(N)
    <3>1. <<k, v>> \in Entry
      BY DEF Entry
    <3>2. N.flags \in [Slots(b) -> FlagValue]
      BY <2>2, <2>3 DEF FlagValue
    <3>3. \E c \in Sizes \cup {0} : N.keys \in [Slots(c) -> Key \cup {Junk}]
      <4>1. PICK c \in Sizes \cup {0} : T.keys \in [Slots(c) -> Key \cup {Junk}]
        BY DEF Sound, Typed
      <4> QED
        BY <4>1, <2>2, <2>3
    <3>4. \E c \in Sizes \cup {0} : N.values \in [Slots(c) -> Entry \cup {Junk}]
      <4>1. PICK c \in Sizes \cup {0} : T.values \in [Slots(c) -> Entry \cup {Junk}]
        BY DEF Sound, Typed
      <4> QED
        BY <4>1, <3>1, <2>2, <2>3
    <3>5. N.count \in Nat /\ N.occupied \in Nat
      BY <2>2 DEF Sound, Typed
    <3>6. N.upper = IF N.buckets = 0 THEN 0 ELSE Upper(N.buckets)
      BY <2>2 DEF Sound, Typed
    <3> QED
      BY <2>2, <3>2, <3>3, <3>4, <3>5, <3>6 DEF Typed
  <2>9. Keyed(N)
    BY <2>4, <2>6 DEF Keyed, Sound
  <2>10. Counted(N)
    <3>1. /\ Cardinality(Live(N)) = Cardinality(Live(T)) + 1
          /\ Cardinality(InUse(N)) = IF T.flags[x] = "empty" THEN Cardinality(InUse(T)) + 1
                                     ELSE Cardinality(InUse(T))
      BY <2>3, <2>4, <2>5, InUseFinite, FS_AddElement
    <3>2. /\ T.count = Cardinality(Live(T)) /\ T.occupied = Cardinality(InUse(T))
          /\ T.occupied \in Nat /\ T.upper \in Nat
      BY UpperFacts DEF Sound, Counted, Typed, Backed
    <3> QED
      BY <3>1, <3>2, <2>2 DEF Counted
  <2>11. Reached(N)
    <3> SUFFICES ASSUME NEW i \in Live(N) PROVE OnProbe(N, i)
      BY DEF Reached
    <3>1. CASE i = x
      BY <3>1, <2>2
    <3>2. CASE i \in Live(T)
      <4> DEFINE l == T.keys[i]
      <4>1. PICK t \in 0..(b - 1) : /\ Probe(b, l, t) = i
                                    /\ \A u \in 0..(t - 1) : T.flags[Probe(b, l, u)] # "empty"
        BY <3>2 DEF Sound, Reached, OnProbe
      <4>2. l \in Key /\ b > 0
        BY <3>2, <2>3, <4>1 DEF Sound, Keyed
      <4>3. ASSUME NEW u \in 0..(t - 1)
            PROVE  N.flags[Probe(b, l, u)] # "empty"
        <5>1. Probe(b, l, u) \in Slots(b)
          BY <4>2, <2>3, ProbeType
        <5> QED
          BY <5>1, <4>1, <2>2, <2>3
      <4>4. N.keys[i] = l
        BY <3>2, <2>6
      <4> QED
        BY <4>1, <4>3, <4>4, <2>2 DEF OnProbe
    <3> QED
      BY <3>1, <3>2, <2>4
  <2>12. Unique(N)
    BY <2>1, <2>4, <2>6 DEF Unique, Sound
  <2>13. Sound(N)
    BY <2>7, <2>8, <2>9, <2>10, <2>11, <2>12 DEF Sound
  <2>14. k \notin DOMAIN ContentsOf(T)
    BY <2>1 DEF ContentsOf
  <2>15. ContentsOf(N) = With(ContentsOf(T), k, <<k, v>>)
    <3> DEFINE D == DOMAIN ContentsOf(T) \cup {k}
               f == [j \in D |-> IF j = k THEN <<k, v>> ELSE ContentsOf(T)[j]]
    <3>1. \A j \in D : \E i \in Live(N) : N.keys[i] = j
      BY <2>4, <2>6 DEF ContentsOf
    <3>2. ASSUME NEW i \in Live(N)
          PROVE  N.keys[i] \in D /\ f[N.keys[i]] = N.values[i]
      <4>1. CASE i = x
        BY <4>1, <2>6
      <4>2. CASE i \in Live(T)
        <5>1. T.keys[i] \in DOMAIN ContentsOf(T) /\ ContentsOf(T)[T.keys[i]] = T.values[i]
          BY <4>2, ContentsFacts DEF Sound
        <5> QED
          BY <5>1, <4>2, <2>1, <2>6
      <4> QED
        BY <4>1, <4>2, <2>4
    <3>3. f = [j \in D |-> f[j]]
      OBVIOUS
    <3> HIDE DEF f, D
    <3>4. ContentsOf(N) = f
      BY <3>1, <3>2, <3>3, <2>12, ContentsAre
    <3> QED
      BY <3>4 DEF With, f, D
  <2> QED
    BY <2>13, <2>14, <2>15 DEF N
<1> QED
  BY <1>1, <1>2

----------------------------------------------------------------------------
(* Removing, clearing, storing through an iteration. *)

\* A bucket that stays in use keeps an entry's probe whole.
LEMMA StillOnProbe ==
  ASSUME NEW T, NEW N, NEW i \in Slots(T.buckets), OnProbe(T, i), T.keys[i] \in Key,
         T.buckets \in Nat, N.buckets = T.buckets, N.keys[i] = T.keys[i],
         \A x \in Slots(T.buckets) : T.flags[x] # "empty" => N.flags[x] # "empty"
  PROVE  OnProbe(N, i)
<1> DEFINE b == T.buckets
           k == T.keys[i]
<1>1. PICK t \in 0..(b - 1) : /\ Probe(b, k, t) = i
                              /\ \A u \in 0..(t - 1) : T.flags[Probe(b, k, u)] # "empty"
  BY DEF OnProbe
<1>2. ASSUME NEW u \in 0..(t - 1)
      PROVE  N.flags[Probe(b, k, u)] # "empty"
  <2>1. Probe(b, k, u) \in Slots(b)
    BY <1>1, ProbeType
  <2> QED
    BY <2>1, <1>1
<1> QED
  BY <1>1, <1>2 DEF OnProbe

\* Removing a bucket takes its entry out of the map and cuts off no other.
LEMMA RemovedSound ==
  ASSUME NEW T, Sound(T), NEW i \in 0..T.buckets
  PROVE  /\ Sound(Removed(T, i))
         /\ \/ ContentsOf(Removed(T, i)) = ContentsOf(T)
            \/ /\ i \in Live(T)
               /\ ContentsOf(Removed(T, i)) = Without(ContentsOf(T), T.keys[i])
<1>1. CASE ~(i # T.buckets /\ T.flags[i] = "live")
  BY <1>1 DEF Removed
<1>2. CASE i # T.buckets /\ T.flags[i] = "live"
  <2> DEFINE b == T.buckets
             F == [T.flags EXCEPT ![i] = "deleted"]
             c == T.count - 1
             N == [T EXCEPT !.flags = F, !.count = c]
  <2>1. Removed(T, i) = N
    BY <1>2 DEF Removed
  <2>2. /\ T.flags \in [Slots(b) -> FlagValue] /\ b \in Nat /\ i \in Slots(b)
        /\ T.occupied \in Nat /\ T.count \in Nat
    <3>1. b \in Nat
      BY SizesAreNumbers DEF Sound, Backed
    <3>2. i \in Slots(b)
      BY <1>2, <3>1 DEF Slots
    <3> QED
      BY <3>1, <3>2 DEF Sound, Typed
  <2> HIDE DEF F, c
  <2>3. /\ N = [f \in Fields |-> N[f]]
        /\ N.buckets = b /\ N.upper = T.upper /\ N.flags = F /\ N.keys = T.keys
        /\ N.values = T.values /\ N.count = c /\ N.occupied = T.occupied
    BY DEF Sound, Backed, Fields
  <2> HIDE DEF N
  <2>4. Live(N) = Live(T) \ {i} /\ i \in Live(T)
    BY <1>2, <2>2, <2>3 DEF Live, F
  <2>5. InUse(N) = InUse(T)
    BY <1>2, <2>2, <2>3 DEF InUse, F
  <2>6. Backed(N)
    BY <2>3 DEF Backed, Sound
  <2>7. Keyed(N) /\ Unique(N)
    BY <2>3, <2>4 DEF Keyed, Unique, Sound
  <2>8. Counted(N) /\ N.count \in Nat
    <3>1. /\ Cardinality(Live(N)) = Cardinality(Live(T)) - 1
          /\ Cardinality(Live(N)) \in Nat
      BY <2>2, <2>3, <2>4, InUseFinite, FS_RemoveElement
    <3> QED
      BY <3>1, <2>3, <2>5 DEF Counted, Sound, c
  <2>9. Typed(N)
    <3>1. N.flags \in [Slots(b) -> FlagValue]
      BY <2>2, <2>3 DEF F, FlagValue
    <3> QED
      BY <3>1, <2>3, <2>8 DEF Typed, Sound
  <2>10. Reached(N)
    <3> SUFFICES ASSUME NEW j \in Live(N) PROVE OnProbe(N, j)
      BY DEF Reached
    <3>1. j \in Slots(b) /\ OnProbe(T, j) /\ T.keys[j] \in Key
      BY <2>4 DEF Sound, Reached, Keyed, Live
    <3>2. \A x \in Slots(b) : T.flags[x] # "empty" => N.flags[x] # "empty"
      BY <2>2, <2>3 DEF F
    <3> QED
      BY <3>1, <3>2, <2>2, <2>3, StillOnProbe
  <2>11. Sound(N)
    BY <2>6, <2>7, <2>8, <2>9, <2>10 DEF Sound
  <2>12. ContentsOf(N) = Without(ContentsOf(T), T.keys[i])
    <3> DEFINE D == DOMAIN ContentsOf(T) \ {T.keys[i]}
               f == [j \in D |-> ContentsOf(T)[j]]
    <3>1. \A j \in D : \E x \in Live(N) : N.keys[x] = j
      BY <2>3, <2>4 DEF ContentsOf
    <3>2. ASSUME NEW x \in Live(N)
          PROVE  N.keys[x] \in D /\ f[N.keys[x]] = N.values[x]
      <4>1. x \in Live(T) /\ T.keys[x] # T.keys[i]
        BY <2>4 DEF Sound, Unique
      <4>2. T.keys[x] \in DOMAIN ContentsOf(T) /\ ContentsOf(T)[T.keys[x]] = T.values[x]
        BY <4>1, ContentsFacts DEF Sound
      <4> QED
        BY <4>1, <4>2, <2>3
    <3>3. f = [j \in D |-> f[j]]
      OBVIOUS
    <3> HIDE DEF f, D
    <3>4. ContentsOf(N) = f
      BY <3>1, <3>2, <3>3, <2>7, ContentsAre
    <3> QED
      BY <3>4 DEF Without, f, D
  <2> QED
    BY <2>1, <2>4, <2>11, <2>12
<1> QED
  BY <1>1, <1>2

\* A table with no bucket in use.
LEMMA NothingInUse ==
  ASSUME NEW T, \A i \in Slots(T.buckets) : T.flags[i] = "empty"
  PROVE  /\ Live(T) = {} /\ InUse(T) = {}
         /\ Cardinality(Live(T)) = 0 /\ Cardinality(InUse(T)) = 0
         /\ Keyed(T) /\ Reached(T) /\ Unique(T)
         /\ ContentsOf(T) = [k \in {} |-> {}]
<1>1. Live(T) = {} /\ InUse(T) = {}
  BY DEF Live, InUse
<1>2. ContentsOf(T) = [k \in {} |-> {}]
  <2>1. {T.keys[i] : i \in Live(T)} = {}
    BY <1>1
  <2> QED
    BY <2>1 DEF ContentsOf
<1> QED
  BY <1>1, <1>2, FS_EmptySet DEF Keyed, Reached, Unique

\* The table before its first insert is sound and stands for the empty map.
LEMMA EmptySound ==
  Sound(EmptyTable) /\ ContentsOf(EmptyTable) = [k \in {} |-> {}]
<1> DEFINE N == EmptyTable
<1>1. /\ N.buckets = 0 /\ N.count = 0 /\ N.occupied = 0 /\ N.upper = 0
      /\ N.flags = [i \in {} |-> "empty"] /\ N.keys = [i \in {} |-> Junk]
      /\ N.values = [i \in {} |-> Junk]
  BY DEF EmptyTable
<1>2. Slots(0) = {}
  BY DEF Slots
<1> HIDE DEF N
<1>3. Typed(N)
  <2>1. N.flags \in [Slots(0) -> FlagValue] /\ N.keys \in [Slots(0) -> Key \cup {Junk}]
        /\ N.values \in [Slots(0) -> Entry \cup {Junk}]
    BY <1>1, <1>2
  <2> QED
    BY <2>1, <1>1 DEF Typed
<1>4. Counted(N) /\ Keyed(N) /\ Reached(N) /\ Unique(N) /\ ContentsOf(N) = [k \in {} |-> {}]
  BY <1>1, <1>2, NothingInUse DEF Counted
<1> QED
  BY <1>3, <1>4, EmptyBacked DEF Sound, N

\* Clearing a table empties its map.
LEMMA ClearedSound ==
  ASSUME NEW T, Sound(T)
  PROVE  LET N == [T EXCEPT !.flags = [i \in Slots(T.buckets) |-> "empty"],
                            !.count = 0, !.occupied = 0]
         IN  Sound(N) /\ ContentsOf(N) = [k \in {} |-> {}]
<1> DEFINE F == [i \in Slots(T.buckets) |-> "empty"]
           N == [T EXCEPT !.flags = F, !.count = 0, !.occupied = 0]
<1> HIDE DEF F
<1>1. /\ N = [f \in Fields |-> N[f]]
      /\ N.buckets = T.buckets /\ N.upper = T.upper /\ N.flags = F /\ N.keys = T.keys
      /\ N.values = T.values /\ N.count = 0 /\ N.occupied = 0
  BY DEF Sound, Backed, Fields
<1> HIDE DEF N
<1>2. Backed(N)
  BY <1>1 DEF Backed, Sound
<1>3. Typed(N)
  <2>1. N.flags \in [Slots(T.buckets) -> FlagValue]
    BY <1>1 DEF F, FlagValue
  <2> QED
    BY <2>1, <1>1 DEF Typed, Sound
<1>4. Counted(N) /\ Keyed(N) /\ Reached(N) /\ Unique(N) /\ ContentsOf(N) = [k \in {} |-> {}]
  <2>1. \A i \in Slots(N.buckets) : N.flags[i] = "empty"
    BY <1>1 DEF F
  <2>2. 0 <= N.upper
    BY <1>1, UpperFacts DEF Sound, Typed, Backed
  <2> QED
    BY <2>1, <2>2, <1>1, NothingInUse DEF Counted
<1>5. Sound(N) /\ ContentsOf(N) = [k \in {} |-> {}]
  BY <1>2, <1>3, <1>4 DEF Sound
<1> QED
  BY <1>5 DEF N, F

\* Storing through the value pointer changes that one value.
LEMMA VisitedSound ==
  ASSUME NEW T, Sound(T), NEW i \in Live(T), NEW v \in Version[T.keys[i]]
  PROVE  LET N == [T EXCEPT !.values[i] = <<T.keys[i], v>>]
         IN  /\ Sound(N)
             /\ ContentsOf(N) = [ContentsOf(T) EXCEPT ![T.keys[i]] = <<T.keys[i], v>>]
<1> DEFINE b == T.buckets
           k == T.keys[i]
           V == [T.values EXCEPT ![i] = <<k, v>>]
           N == [T EXCEPT !.values = V]
<1>1. N = [T EXCEPT !.values[i] = <<k, v>>]
  OBVIOUS
<1> HIDE DEF V
<1>2. /\ N = [f \in Fields |-> N[f]]
      /\ N.buckets = b /\ N.upper = T.upper /\ N.flags = T.flags /\ N.keys = T.keys
      /\ N.values = V /\ N.count = T.count /\ N.occupied = T.occupied
  BY DEF Sound, Backed, Fields
<1> HIDE DEF N
<1>3. Live(N) = Live(T) /\ InUse(N) = InUse(T) /\ i \in Slots(b) /\ i \in DOMAIN T.values
      /\ Live(T) \subseteq DOMAIN T.values
  BY <1>2 DEF Live, InUse, Sound, Backed
<1>4. Backed(N)
  BY <1>2 DEF Backed, Sound, V
<1>5. Typed(N)
  <2>1. <<k, v>> \in Entry
    BY DEF Entry, Sound, Keyed
  <2>2. PICK c \in Sizes \cup {0} : T.values \in [Slots(c) -> Entry \cup {Junk}]
    BY DEF Sound, Typed
  <2>3. V \in [Slots(c) -> Entry \cup {Junk}]
    BY <2>1, <2>2 DEF V
  <2> QED
    BY <2>3, <1>2 DEF Typed, Sound
<1>6. Counted(N) /\ Keyed(N) /\ Unique(N)
  BY <1>2, <1>3 DEF Counted, Keyed, Unique, Sound
<1>7. Reached(N)
  BY <1>2, <1>3 DEF Reached, OnProbe, Sound
<1>8. Sound(N)
  BY <1>4, <1>5, <1>6, <1>7 DEF Sound
<1>9. ContentsOf(N) = [ContentsOf(T) EXCEPT ![k] = <<k, v>>]
  <2> DEFINE D == DOMAIN ContentsOf(T)
             f == [ContentsOf(T) EXCEPT ![k] = <<k, v>>]
  <2>1. ContentsOf(T) = [j \in D |-> ContentsOf(T)[j]]
    BY DEF ContentsOf
  <2>2. f = [j \in D |-> f[j]]
    BY <2>1
  <2>3. \A j \in D : \E x \in Live(N) : N.keys[x] = j
    BY <1>2, <1>3 DEF ContentsOf
  <2>4. ASSUME NEW x \in Live(N)
        PROVE  N.keys[x] \in D /\ f[N.keys[x]] = N.values[x]
    <3>1. T.keys[x] \in D /\ ContentsOf(T)[T.keys[x]] = T.values[x]
      BY <1>3, ContentsFacts DEF Sound
    <3>2. CASE x = i
      BY <3>1, <3>2, <1>2, <1>3 DEF V
    <3>3. CASE x # i
      <4>1. T.keys[x] # k
        BY <3>3, <1>3 DEF Sound, Unique
      <4> QED
        BY <4>1, <3>1, <3>3, <1>2, <1>3 DEF V
    <3> QED
      BY <3>2, <3>3
  <2> HIDE DEF f, D
  <2>5. ContentsOf(N) = f
    BY <2>2, <2>3, <2>4, <1>6, ContentsAre
  <2> QED
    BY <2>5 DEF f
<1> QED
  BY <1>1, <1>8, <1>9

----------------------------------------------------------------------------
(* Resizing. *)

\* A reallocated array has its new length and holds what it held or junk.
LEMMA ReallocType ==
  ASSUME NEW S, Junk \in S, NEW c, NEW f \in [Slots(c) -> S], NEW b
  PROVE  Realloc(f, b) \in [Slots(b) -> S]
BY DEF Realloc

\* The swaps of the re-hash bring nothing new into an array, and put each entry
\* where Placements has it.
LEMMA MoveFacts ==
  ASSUME NEW f, NEW T, NEW at, Live(T) \subseteq DOMAIN f,
         \A i, j \in Live(T) : at[i] = at[j] => i = j
  PROVE  /\ Move(f, T, at) = [x \in DOMAIN f |-> Move(f, T, at)[x]]
         /\ \A x \in DOMAIN f : \E y \in DOMAIN f : Move(f, T, at)[x] = f[y]
         /\ \A i \in Live(T) : at[i] \in DOMAIN f => Move(f, T, at)[at[i]] = f[i]
<1>1. ASSUME NEW x \in DOMAIN f
      PROVE  \E y \in DOMAIN f : Move(f, T, at)[x] = f[y]
  <2>1. CASE \E j \in Live(T) : at[j] = x
    <3>1. (CHOOSE j \in Live(T) : at[j] = x) \in Live(T)
      BY <2>1
    <3> QED
      BY <2>1, <3>1 DEF Move
  <2>2. CASE ~\E j \in Live(T) : at[j] = x
    BY <2>2 DEF Move
  <2> QED
    BY <2>1, <2>2
<1>2. ASSUME NEW i \in Live(T), at[i] \in DOMAIN f
      PROVE  Move(f, T, at)[at[i]] = f[i]
  <2> DEFINE j == CHOOSE h \in Live(T) : at[h] = at[i]
  <2>1. j \in Live(T) /\ at[j] = at[i]
    OBVIOUS
  <2>2. j = i
    BY <2>1
  <2> QED
    BY <1>2, <2>2 DEF Move
<1>3. Move(f, T, at) = [x \in DOMAIN f |-> Move(f, T, at)[x]]
  BY DEF Move
<1> QED
  BY <1>1, <1>2, <1>3

\* One of the arrays through a resize: longer first, moved, shorter last.
GrownArray(f, T, b) == IF T.buckets < b THEN Realloc(f, b) ELSE f

ResizedArray(f, T, b, at) ==
  LET m == Move(GrownArray(f, T, b), T, at)
  IN  IF T.buckets > b THEN Realloc(m, b) ELSE m

\* An array after a resize: every entry sits where the re-hash put it.
LEMMA ArrayResized ==
  ASSUME NEW S, Junk \in S, NEW c \in Sizes \cup {0}, NEW f \in [Slots(c) -> S],
         NEW T, T.buckets \in Sizes \cup {0}, Slots(T.buckets) \subseteq Slots(c),
         NEW b \in Sizes, NEW at \in [Live(T) -> Slots(b)],
         \A i, j \in Live(T) : at[i] = at[j] => i = j
  PROVE  /\ \E d \in Sizes \cup {0} : ResizedArray(f, T, b, at) \in [Slots(d) -> S]
         /\ \A i \in Live(T) : ResizedArray(f, T, b, at)[at[i]] = f[i]
<1> DEFINE g == GrownArray(f, T, b)
           r == ResizedArray(f, T, b, at)
<1>0. /\ g = (IF T.buckets < b THEN Realloc(f, b) ELSE f)
      /\ r = (IF T.buckets > b THEN Realloc(Move(g, T, at), b) ELSE Move(g, T, at))
  BY DEF GrownArray, ResizedArray
<1> HIDE DEF g, r
<1> SUFFICES (\E d \in Sizes \cup {0} : r \in [Slots(d) -> S]) /\ \A i \in Live(T) : r[at[i]] = f[i]
  BY DEF r
<1>1. /\ T.buckets \in Nat /\ b \in Nat
      /\ Live(T) \subseteq Slots(T.buckets) /\ Live(T) \subseteq Slots(c)
      /\ \A i \in Live(T) : at[i] \in Slots(b)
  BY SizesAreNumbers DEF Live
<1> DEFINE m == Move(g, T, at)
<1>2. CASE T.buckets < b
  <2>1. g = Realloc(f, b) /\ g \in [Slots(b) -> S]
    BY <1>0, <1>2, ReallocType
  <2>2. Live(T) \subseteq DOMAIN g
    <3>1. Slots(T.buckets) \subseteq Slots(b)
      BY <1>1, <1>2, SlotsNest
    <3> QED
      BY <3>1, <2>1, <1>1
  <2>3. m \in [Slots(b) -> S] /\ \A i \in Live(T) : m[at[i]] = g[i]
    <3>1. /\ m = [x \in DOMAIN g |-> m[x]]
          /\ \A x \in DOMAIN g : \E y \in DOMAIN g : m[x] = g[y]
          /\ \A i \in Live(T) : at[i] \in DOMAIN g => m[at[i]] = g[i]
      BY <2>2, MoveFacts
    <3> HIDE DEF m
    <3> QED
      BY <3>1, <2>1, <1>1
  <2>4. \A i \in Live(T) : g[i] = f[i]
    BY <1>1, <2>1, <2>2 DEF Realloc
  <2>5. r = m
    BY <1>0, <1>1, <1>2
  <2> HIDE DEF m
  <2> QED
    BY <2>3, <2>4, <2>5
<1>3. CASE ~(T.buckets < b)
  <2>1. g = f /\ Slots(b) \subseteq Slots(c)
    <3>1. Slots(b) \subseteq Slots(T.buckets)
      BY <1>1, <1>3, SlotsNest
    <3> QED
      BY <3>1, <1>0, <1>3
  <2>2. m \in [Slots(c) -> S] /\ \A i \in Live(T) : m[at[i]] = f[i]
    <3>1. DOMAIN f = Slots(c)
      OBVIOUS
    <3>2. /\ m = [x \in DOMAIN f |-> m[x]]
          /\ \A x \in DOMAIN f : \E y \in DOMAIN f : m[x] = f[y]
          /\ \A i \in Live(T) : at[i] \in DOMAIN f => m[at[i]] = f[i]
      BY <3>1, <2>1, <1>1, MoveFacts
    <3> HIDE DEF m
    <3> QED
      BY <3>2, <2>1, <1>1
  <2> HIDE DEF m
  <2>3. CASE T.buckets > b
    <3>1. r = Realloc(m, b)
      BY <2>3, <1>0 DEF m
    <3>2. r \in [Slots(b) -> S]
      BY <3>1, <2>2, ReallocType
    <3>3. \A i \in Live(T) : r[at[i]] = m[at[i]]
      BY <3>1, <2>1, <2>2, <1>1 DEF Realloc
    <3> QED
      BY <3>2, <3>3, <2>2
  <2>4. CASE ~(T.buckets > b)
    <3>1. r = m
      BY <2>4, <1>0 DEF m
    <3> QED
      BY <3>1, <2>2
  <2> QED
    BY <2>3, <2>4
<1> QED
  BY <1>2, <1>3

\* What a resize that succeeds leaves.
LEMMA ResizedSound ==
  ASSUME NEW T, Sound(T), NEW b \in Sizes, T.count < Upper(b), NEW at \in Placements(T, b)
  PROVE  /\ Sound(Resized(T, b, at))
         /\ ContentsOf(Resized(T, b, at)) = ContentsOf(T)
         /\ Resized(T, b, at).buckets = b
         /\ Resized(T, b, at).occupied < Resized(T, b, at).upper
<1> DEFINE N == Resized(T, b, at)
           G == Grown(T, b)
           g(f) == GrownArray(f, T, b)
           r(f) == ResizedArray(f, T, b, at)
<1>1. /\ at \in [Live(T) -> Slots(b)]
      /\ \A i, j \in Live(T) : at[i] = at[j] => i = j
      /\ \A i \in Live(T) :
           \E t \in 0..(Cardinality(Live(T)) - 1) :
             /\ at[i] = Probe(b, T.keys[i], t)
             /\ \A u \in 0..(t - 1) : \E j \in Live(T) : at[j] = Probe(b, T.keys[i], u)
  BY DEF Placements
<1>2. /\ G.buckets = T.buckets /\ G.flags = T.flags
      /\ G.keys = g(T.keys) /\ G.values = g(T.values) /\ G = [f \in Fields |-> G[f]]
  <2>1. CASE T.buckets < b
    <3> DEFINE K == Realloc(T.keys, b)
               V == Realloc(T.values, b)
               H == [T EXCEPT !.keys = K, !.values = V]
    <3>1. G = H /\ g(T.keys) = K /\ g(T.values) = V
      BY <2>1 DEF Grown, GrownArray
    <3> HIDE DEF K, V, g, G
    <3>2. H.buckets = T.buckets /\ H.flags = T.flags /\ H.keys = K /\ H.values = V
          /\ H = [f \in Fields |-> H[f]]
      BY DEF Sound, Backed, Fields
    <3> QED
      BY <3>1, <3>2
  <2>2. CASE ~(T.buckets < b)
    BY <2>2 DEF Grown, GrownArray, Sound, Backed
  <2> QED
    BY <2>1, <2>2
<1>3. /\ Moved(G, at).keys = Move(g(T.keys), T, at)
      /\ Moved(G, at).values = Move(g(T.values), T, at)
  <2>1. Live(G) = Live(T)
    BY <1>2 DEF Live
  <2>2. \A f : Move(f, G, at) = Move(f, T, at)
    BY <2>1 DEF Move
  <2> DEFINE K == Move(G.keys, G, at)
             V == Move(G.values, G, at)
             H == [G EXCEPT !.keys = K, !.values = V]
  <2>3. H = Moved(G, at)
    BY DEF Moved
  <2> HIDE DEF K, V, G
  <2>4. H.keys = K /\ H.values = V
    BY <1>2 DEF Fields
  <2> QED
    BY <2>2, <2>3, <2>4, <1>2 DEF K, V
<1>4. /\ N.buckets = b /\ N.count = T.count /\ N.occupied = T.count /\ N.upper = Upper(b)
      /\ N.flags = [i \in Slots(b) |->
                      IF \E j \in Live(T) : at[j] = i THEN "live" ELSE "empty"]
      /\ N.keys = r(T.keys) /\ N.values = r(T.values)
  BY <1>3 DEF Resized, ResizedArray
<1>5. b \in Nat /\ b > 0 /\ T.buckets \in Sizes \cup {0} /\ T.buckets \in Nat
  BY SizeType, SizesAreNumbers DEF Sound, Backed
<1>6. Backed(N)
  BY ResizedBacked DEF Sound
<1>7. /\ \E d \in Sizes \cup {0} : N.keys \in [Slots(d) -> Key \cup {Junk}]
      /\ \A i \in Live(T) : N.keys[at[i]] = T.keys[i]
  <2>1. PICK c \in Sizes \cup {0} : T.keys \in [Slots(c) -> Key \cup {Junk}]
    BY DEF Sound, Typed
  <2>2. Slots(T.buckets) \subseteq Slots(c)
    BY <2>1 DEF Sound, Backed
  <2>3. N.keys = ResizedArray(T.keys, T, b, at)
    BY <1>4
  <2> HIDE DEF N
  <2> DEFINE S == Key \cup {Junk}
             f == T.keys
  <2>4. Junk \in S /\ f \in [Slots(c) -> S]
    BY <2>1
  <2> HIDE DEF S, f
  <2>5. /\ \E d \in Sizes \cup {0} : ResizedArray(f, T, b, at) \in [Slots(d) -> S]
        /\ \A i \in Live(T) : ResizedArray(f, T, b, at)[at[i]] = f[i]
    BY <2>2, <2>4, <1>1, <1>5, ArrayResized
  <2> QED
    BY <2>3, <2>5 DEF S, f
<1>8. /\ \E d \in Sizes \cup {0} : N.values \in [Slots(d) -> Entry \cup {Junk}]
      /\ \A i \in Live(T) : N.values[at[i]] = T.values[i]
  <2>1. PICK c \in Sizes \cup {0} : T.values \in [Slots(c) -> Entry \cup {Junk}]
    BY DEF Sound, Typed
  <2>2. Slots(T.buckets) \subseteq Slots(c)
    BY <2>1 DEF Sound, Backed
  <2>3. N.values = ResizedArray(T.values, T, b, at)
    BY <1>4
  <2> HIDE DEF N
  <2> DEFINE S == Entry \cup {Junk}
             f == T.values
  <2>4. Junk \in S /\ f \in [Slots(c) -> S]
    BY <2>1
  <2> HIDE DEF S, f
  <2>5. /\ \E d \in Sizes \cup {0} : ResizedArray(f, T, b, at) \in [Slots(d) -> S]
        /\ \A i \in Live(T) : ResizedArray(f, T, b, at)[at[i]] = f[i]
    BY <2>2, <2>4, <1>1, <1>5, ArrayResized
  <2> QED
    BY <2>3, <2>5 DEF S, f
<1> HIDE DEF N, G, g, r
<1>9. /\ \A x : x \in Live(N) <=> \E i \in Live(T) : at[i] = x
      /\ InUse(N) = Live(N)
      /\ \A i \in Live(T) : N.flags[at[i]] = "live"
  BY <1>1, <1>4 DEF Live, InUse
<1>10. Typed(N)
  <2>1. N.flags \in [Slots(b) -> FlagValue]
    BY <1>4 DEF FlagValue
  <2>2. N.count \in Nat /\ N.occupied \in Nat
    BY <1>4 DEF Sound, Typed
  <2>3. N.upper = IF N.buckets = 0 THEN 0 ELSE Upper(N.buckets)
    BY <1>4, <1>5
  <2> QED
    BY <2>1, <2>2, <2>3, <1>4, <1>7, <1>8 DEF Typed
<1>11. Keyed(N)
  BY <1>7, <1>9 DEF Keyed, Sound
<1>12. Cardinality(Live(N)) = Cardinality(Live(T))
  <2>1. at \in [Live(T) -> Live(N)]
    BY <1>1, <1>9
  <2>2. at \in Bijection(Live(T), Live(N))
    BY <2>1, <1>1, <1>9 DEF Bijection, Injection, Surjection, IsInjective
  <2> QED
    BY <2>2, <1>5, InUseFinite, FS_Bijection DEF ExistsBijection
<1>13. N.occupied < N.upper /\ Counted(N)
  <2>1. T.count = Cardinality(Live(T)) /\ T.count \in Nat
    BY DEF Sound, Counted, Typed
  <2> QED
    BY <2>1, <1>4, <1>9, <1>12, UpperFacts DEF Counted
<1>14. Reached(N)
  <2> SUFFICES ASSUME NEW i \in Live(T) PROVE OnProbe(N, at[i])
    BY <1>9 DEF Reached
  <2>1. PICK t \in 0..(Cardinality(Live(T)) - 1) :
          /\ at[i] = Probe(b, T.keys[i], t)
          /\ \A u \in 0..(t - 1) : \E j \in Live(T) : at[j] = Probe(b, T.keys[i], u)
    BY <1>1
  <2>2. t \in 0..(b - 1)
    <3>1. Cardinality(Live(T)) \in Nat /\ Cardinality(Live(T)) < b
      BY <1>5, UpperFacts DEF Sound, Counted, Typed
    <3> QED
      BY <3>1, <1>5
  <2>3. \A u \in 0..(t - 1) : N.flags[Probe(b, T.keys[i], u)] # "empty"
    BY <2>1, <1>9
  <2> QED
    BY <2>1, <2>2, <2>3, <1>4, <1>7 DEF OnProbe
<1>15. Unique(N)
  BY <1>7, <1>9 DEF Unique, Sound
<1>16. Sound(N)
  BY <1>6, <1>10, <1>11, <1>13, <1>14, <1>15 DEF Sound
<1>17. ContentsOf(N) = ContentsOf(T)
  <2> DEFINE f == ContentsOf(T)
             D == DOMAIN f
  <2>1. f = [k \in D |-> f[k]]
    BY DEF ContentsOf
  <2>2. \A k \in D : \E x \in Live(N) : N.keys[x] = k
    BY <1>7, <1>9 DEF ContentsOf
  <2>3. ASSUME NEW x \in Live(N)
        PROVE  N.keys[x] \in D /\ f[N.keys[x]] = N.values[x]
    <3>1. PICK i \in Live(T) : at[i] = x
      BY <1>9
    <3>2. T.keys[i] \in D /\ f[T.keys[i]] = T.values[i]
      BY ContentsFacts DEF Sound
    <3> QED
      BY <3>1, <3>2, <1>7, <1>8
  <2> HIDE DEF f, D
  <2>4. ContentsOf(N) = f
    BY <2>1, <2>2, <2>3, <1>15, ContentsAre
  <2> QED
    BY <2>4 DEF f
<1> QED
  BY <1>4, <1>13, <1>16, <1>17 DEF N

\* Longer keys with the values as they were: what a failed growth leaves.
LEMMA KeysLengthenedSound ==
  ASSUME NEW T, Sound(T), NEW b \in Sizes, T.buckets < b
  PROVE  LET N == [T EXCEPT !.keys = Realloc(T.keys, b)]
         IN  Sound(N) /\ ContentsOf(N) = ContentsOf(T)
<1> DEFINE K == Realloc(T.keys, b)
           N == [T EXCEPT !.keys = K]
<1>1. Backed(N)
  BY KeysLengthenedBacked DEF Sound
<1>2. K \in [Slots(b) -> Key \cup {Junk}]
  <2>1. PICK c \in Sizes \cup {0} : T.keys \in [Slots(c) -> Key \cup {Junk}]
    BY DEF Sound, Typed
  <2> QED
    BY <2>1, ReallocType
<1>3. \A i \in Live(T) : K[i] = T.keys[i]
  <2>1. T.buckets \in Nat /\ b \in Nat
    BY SizesAreNumbers DEF Sound, Backed
  <2>2. Slots(T.buckets) \subseteq Slots(b)
    BY <2>1, SlotsNest
  <2>3. Live(T) \subseteq Slots(b) /\ Live(T) \subseteq DOMAIN T.keys
    BY <2>2 DEF Live, Sound, Backed
  <2> QED
    BY <2>3 DEF Realloc
<1> HIDE DEF K
<1>4. /\ N.buckets = T.buckets /\ N.upper = T.upper /\ N.flags = T.flags /\ N.keys = K
      /\ N.values = T.values /\ N.count = T.count /\ N.occupied = T.occupied
  BY DEF Sound, Backed, Fields
<1> HIDE DEF N
<1>5. Live(N) = Live(T) /\ InUse(N) = InUse(T)
  BY <1>4 DEF Live, InUse
<1>6. Typed(N)
  BY <1>2, <1>4 DEF Typed, Sound
<1>7. Counted(N) /\ Keyed(N) /\ Unique(N)
  BY <1>3, <1>4, <1>5 DEF Counted, Keyed, Unique, Sound
<1>8. Reached(N)
  BY <1>3, <1>4, <1>5 DEF Reached, OnProbe, Sound
<1>9. Sound(N)
  BY <1>1, <1>6, <1>7, <1>8 DEF Sound
<1>10. ContentsOf(N) = ContentsOf(T)
  <2> DEFINE f == ContentsOf(T)
             D == DOMAIN f
  <2>1. f = [k \in D |-> f[k]]
    BY DEF ContentsOf
  <2>2. \A k \in D : \E x \in Live(N) : N.keys[x] = k
    BY <1>3, <1>4, <1>5 DEF ContentsOf
  <2>3. ASSUME NEW x \in Live(N)
        PROVE  N.keys[x] \in D /\ f[N.keys[x]] = N.values[x]
    BY <1>3, <1>4, <1>5, ContentsFacts DEF Sound
  <2> HIDE DEF f, D
  <2>4. ContentsOf(N) = f
    BY <2>1, <2>2, <2>3, <1>7, ContentsAre
  <2> QED
    BY <2>4 DEF f
<1> QED
  BY <1>9, <1>10 DEF N, K

NoShrinkFails == CanFail \cap {"shrinkKeys", "shrinkValues"} = {}

\* A resize keeps the map, however it ends; when it has done its work the
\* table has room, unless it was asked for too little.
LEMMA ResizeSound ==
  ASSUME NEW T, Sound(T), NEW n, NoShrinkFails, NEW r \in ResizeOutcomes(T, n)
  PROVE  /\ Sound(r.tab) /\ ContentsOf(r.tab) = ContentsOf(T)
         /\ r.done => \/ r.tab.occupied < r.tab.upper
                      \/ CanRoundUp(n) /\ T.count >= Upper(RoundUp(n))
<1>1. CASE ~CanRoundUp(n)
  BY <1>1 DEF ResizeOutcomes
<1>2. CASE CanRoundUp(n)
  <2> DEFINE b == RoundUp(n)
  <2>1. b \in Sizes
    BY <1>2, RoundUpIsSize
  <2>2. CASE T.count >= Upper(b)
    BY <1>2, <2>2 DEF ResizeOutcomes
  <2>3. CASE ~(T.count >= Upper(b))
    <3>1. T.count < Upper(b)
      BY <2>1, <2>3, UpperFacts DEF Sound, Typed
    <3>2. \/ \E at \in Placements(T, b) : r = [done |-> TRUE, tab |-> Resized(T, b, at)]
          \/ \E F \in FailedResizes(T, b) : r = [done |-> FALSE, tab |-> F]
      BY <1>2, <2>3 DEF ResizeOutcomes
    <3> HIDE DEF b
    <3>3. ASSUME NEW at \in Placements(T, b), r = [done |-> TRUE, tab |-> Resized(T, b, at)]
          PROVE  /\ Sound(r.tab) /\ ContentsOf(r.tab) = ContentsOf(T)
                 /\ r.tab.occupied < r.tab.upper
      <4>1. r.tab = Resized(T, b, at)
        BY <3>3
      <4> QED
        BY <4>1, <2>1, <3>1, ResizedSound
    <3>4. ASSUME NEW F \in FailedResizes(T, b), r = [done |-> FALSE, tab |-> F]
          PROVE  Sound(r.tab) /\ ContentsOf(r.tab) = ContentsOf(T) /\ ~r.done
      <4>1. \/ F = T
            \/ T.buckets < b /\ F = [T EXCEPT !.keys = Realloc(T.keys, b)]
        BY DEF FailedResizes, NoShrinkFails
      <4>2. Sound(F) /\ ContentsOf(F) = ContentsOf(T)
        BY <4>1, <2>1, KeysLengthenedSound
      <4> QED
        BY <4>2, <3>4
    <3> QED
      BY <3>2, <3>3, <3>4
  <2> QED
    BY <2>2, <2>3
<1> QED
  BY <1>1, <1>2

\* Rounding a table's size up by one doubles it, down by one keeps it, and
\* either way there is more room than the table has entries.
LEMMA AsksForEnough ==
  ASSUME NEW T, Sound(T)
  PROVE  /\ T.buckets > 2 * T.count /\ CanRoundUp(T.buckets - 1)
              => T.count < Upper(RoundUp(T.buckets - 1))
         /\ CanRoundUp(T.buckets + 1) => T.count < Upper(RoundUp(T.buckets + 1))
<1> DEFINE b == T.buckets
<1>1. b \in Nat /\ T.count \in Nat /\ b \in Sizes \cup {0}
  BY SizesAreNumbers DEF Sound, Backed, Typed
<1>2. ASSUME NEW n \in Int, CanRoundUp(n)
      PROVE  /\ RoundUp(n) \in Sizes /\ RoundUp(n) >= n
             /\ RoundUp(n) \in Nat /\ RoundUp(n) >= 4
             /\ b < RoundUp(n) => 2 * b <= RoundUp(n)
             /\ RoundUp(n) < b => 2 * RoundUp(n) <= b
  <2>1. RoundUp(n) \in Sizes /\ RoundUp(n) >= n
    BY <1>2 DEF CanRoundUp, RoundUp, LeastFor
  <2>2. RoundUp(n) \in Nat /\ RoundUp(n) >= 4
    BY <2>1, SizeType
  <2>3. \A c, d \in Sizes : c < d => 2 * c <= d
    BY ConstantsAssumption
  <2> HIDE DEF b
  <2> QED
    BY <1>1, <2>1, <2>2, <2>3
<1>3. ASSUME b > 2 * T.count, CanRoundUp(b - 1)
      PROVE  T.count < Upper(RoundUp(b - 1))
  <2> DEFINE d == RoundUp(b - 1)
  <2>1. d >= b - 1 /\ d \in Nat /\ d >= 4 /\ (d < b => 2 * d <= b)
    BY <1>1, <1>2, <1>3
  <2> HIDE DEF b, d
  <2>2. d >= b
    BY <1>1, <2>1
  <2>3. T.count < Upper(d)
    BY <1>1, <1>3, <2>1, <2>2 DEF Upper
  <2> QED
    BY <2>3 DEF b, d
<1>4. ASSUME CanRoundUp(b + 1)
      PROVE  T.count < Upper(RoundUp(b + 1))
  <2> DEFINE d == RoundUp(b + 1)
  <2>1. d >= b + 1 /\ d \in Nat /\ d >= 4 /\ (b < d => 2 * b <= d)
    BY <1>1, <1>2, <1>4
  <2>2. T.count <= T.upper
    <3>1. T.count <= T.occupied
      BY <1>1, InUseFinite DEF Sound, Counted
    <3>2. T.occupied <= T.upper /\ T.occupied \in Nat /\ T.upper \in Nat
      BY UpperFacts DEF Sound, Counted, Typed, Backed
    <3> QED
      BY <3>1, <3>2, <1>1
  <2>3. T.upper = IF b = 0 THEN 0 ELSE Upper(b)
    BY DEF Sound, Typed
  <2> HIDE DEF b, d
  <2>4. T.count < Upper(d)
    <3>1. CASE b = 0
      BY <3>1, <1>1, <2>1, <2>2, <2>3 DEF Upper
    <3>2. CASE b # 0
      BY <3>2, <1>1, <2>1, <2>2, <2>3 DEF Upper
    <3> QED
      BY <3>1, <3>2
  <2> QED
    BY <2>4 DEF b, d
<1> QED
  BY <1>3, <1>4

\* Before an insert there is room for one more entry, or the insert fails.
LEMMA MakeRoomSound ==
  ASSUME NEW T, Sound(T), NoShrinkFails, NEW r \in MakeRoom(T)
  PROVE  /\ Sound(r.tab) /\ ContentsOf(r.tab) = ContentsOf(T)
         /\ r.done => r.tab.occupied < r.tab.upper
<1>1. CASE T.occupied < T.upper
  BY <1>1 DEF MakeRoom
<1>2. CASE ~(T.occupied < T.upper) /\ T.buckets > 2 * T.count
  <2>1. r \in ResizeOutcomes(T, T.buckets - 1)
    BY <1>2 DEF MakeRoom
  <2>2. ~(CanRoundUp(T.buckets - 1) /\ T.count >= Upper(RoundUp(T.buckets - 1)))
    BY <1>2, AsksForEnough, RoundUpIsSize, UpperFacts DEF Sound, Typed
  <2> QED
    BY <2>1, <2>2, ResizeSound
<1>3. CASE ~(T.occupied < T.upper) /\ ~(T.buckets > 2 * T.count)
  <2>1. r \in ResizeOutcomes(T, T.buckets + 1)
    BY <1>3 DEF MakeRoom
  <2>2. ~(CanRoundUp(T.buckets + 1) /\ T.count >= Upper(RoundUp(T.buckets + 1)))
    BY AsksForEnough, RoundUpIsSize, UpperFacts DEF Sound, Typed
  <2> QED
    BY <2>1, <2>2, ResizeSound
<1> QED
  BY <1>1, <1>2, <1>3

----------------------------------------------------------------------------
(* The steps. *)

OneThread == \A s, t \in Threads : s = t

CallType ==
  [op : {"idle", "contains", "get", "remove"}, key : Key \cup {Junk}, at : Nat]

ReturnType ==
  [op : {"idle", "contains", "get", "remove"}, key : Key \cup {Junk},
   rc : {"NO_ERROR", "NOT_FOUND"}, value : Entry \cup {Junk}, found : BOOLEAN]

\* The iterator of a call under way is still what find answers.
Pending(t) ==
  call[t].op # "idle" =>
    /\ open /\ tab.buckets # 0
    /\ call[t].key \in Key /\ call[t].at = Find(tab, call[t].key)

Inv ==
  /\ open \in BOOLEAN
  /\ Sound(tab)
  /\ call \in [Threads -> CallType]
  /\ ret \in [Threads -> ReturnType]
  /\ \A t \in Threads : Pending(t)

\* The defaults of a call and of its result have their types.
LEMMA NoReturnType == NoReturn \in ReturnType /\ NoCall \in CallType
BY DEF NoReturn, ReturnType, NoCall, CallType

\* The program starts with an empty table and no call.
LEMMA InvInit ==
  ASSUME Init
  PROVE  Inv
<1>1. Sound(tab)
  BY EmptySound DEF Init
<1>2. \A t \in Threads : call[t] = NoCall
  BY DEF Init
<1>3. \A t \in Threads : Pending(t)
  BY <1>2 DEF Pending, NoCall
<1> QED
  BY <1>1, <1>3, NoReturnType DEF Init, Inv

\* What a step may do to the map: C before it, N after it.
MapStep(C, N) ==
  \/ N = C
  \/ N = [k \in {} |-> {}]
  \/ \E k \in Key : k \in DOMAIN C /\ N = Without(C, k)
  \/ \E k \in Key, v \in Entry : k \notin DOMAIN C /\ N = With(C, k, v)
  \/ \E k \in Key, v \in Entry : k \in DOMAIN C /\ N = [C EXCEPT ![k] = v]

\* Sound and Find, before and after a step, are of the table before and after.
LEMMA PrimedTable ==
  /\ Sound(tab)' <=> Sound(tab')
  /\ \A k : Find(tab, k)' = Find(tab', k)
<1>1. Sound(tab)' <=> Sound(tab')
  BY DEF Sound, Backed, Typed, Keyed, Counted, Reached, OnProbe, Unique, Live, InUse, Slots,
         Probe
<1>2. \A k : Find(tab, k)' = Find(tab', k)
  BY DEF Find, ProbeEnd, ProbeLength, Stops, Holds, Probe
<1> QED
  BY <1>1, <1>2

\* A call that does all its work in one section runs when no call is under way.
LEMMA OneSectionKeeps ==
  ASSUME Inv, OneThread, NEW t \in Threads, OneSection(t), Sound(tab')
  PROVE  Inv'
<1>1. open' = open /\ call' = call /\ ret' = [ret EXCEPT ![t] = NoReturn]
  BY DEF OneSection, Return
<1>2. ret' \in [Threads -> ReturnType]
  BY <1>1, NoReturnType DEF Inv
<1>3. \A s \in Threads : call'[s].op = "idle"
  BY <1>1 DEF OneSection, Idle, OneThread
<1>4. \A s \in Threads : Pending(s)'
  BY <1>3 DEF Pending
<1>5. Sound(tab)'
  BY PrimedTable
<1> QED
  BY <1>1, <1>2, <1>4, <1>5 DEF Inv

\* sm_hash_table_clear.
LEMMA ClearKeeps ==
  ASSUME Inv, OneThread, NEW t \in Threads, Clear(t)
  PROVE  Inv' /\ MapStep(ContentsOf(tab), ContentsOf(tab'))
<1>1. Sound(tab') /\ ContentsOf(tab') = [k \in {} |-> {}]
  BY ClearedSound DEF Clear, Inv
<1> QED
  BY <1>1, OneSectionKeeps DEF Clear, MapStep

\* sm_hash_table_resize, done or failed.
LEMMA ResizeKeeps ==
  ASSUME Inv, OneThread, NoShrinkFails, NEW t \in Threads, NEW b \in Sizes, Resize(t, b)
  PROVE  Inv' /\ MapStep(ContentsOf(tab), ContentsOf(tab'))
<1>1. Sound(tab') /\ ContentsOf(tab') = ContentsOf(tab)
  BY ResizeSound DEF Resize, Inv
<1> QED
  BY <1>1, OneSectionKeeps DEF Resize, MapStep

\* sm_hash_table_insert: the resize that makes room, then the placing.
LEMMA InsertKeeps ==
  ASSUME Inv, OneThread, NoShrinkFails,
         NEW t \in Threads, NEW k \in Key, NEW v \in Version[k], Insert(t, k, v)
  PROVE  Inv' /\ MapStep(ContentsOf(tab), ContentsOf(tab'))
<1>1. PICK r \in MakeRoom(tab) : tab' = IF r.done THEN Placed(r.tab, k, v) ELSE r.tab
  BY DEF Insert
<1>2. /\ Sound(r.tab) /\ ContentsOf(r.tab) = ContentsOf(tab)
      /\ r.done => r.tab.occupied < r.tab.upper
  BY MakeRoomSound DEF Inv
<1>3. CASE ~r.done
  BY <1>1, <1>2, <1>3, OneSectionKeeps DEF Insert, MapStep
<1>4. CASE r.done
  <2> DEFINE T == r.tab
             N == Placed(T, k, v)
  <2>1. Sound(T) /\ T.occupied < T.upper
    BY <1>2, <1>4
  <2>2. Sound(N)
    BY <2>1, PlacedSound
  <2>3. \/ ContentsOf(N) = ContentsOf(T)
        \/ /\ k \notin DOMAIN ContentsOf(T)
           /\ ContentsOf(N) = With(ContentsOf(T), k, <<k, v>>)
    BY <2>1, PlacedSound
  <2>4. tab' = N /\ ContentsOf(T) = ContentsOf(tab) /\ <<k, v>> \in Entry
    BY <1>1, <1>2, <1>4 DEF Entry
  <2> HIDE DEF N, T
  <2>5. MapStep(ContentsOf(tab), ContentsOf(tab'))
    BY <2>3, <2>4 DEF MapStep
  <2> QED
    BY <2>2, <2>4, <2>5, OneSectionKeeps DEF Insert
<1> QED
  BY <1>3, <1>4

\* The removal of bucket i.
LEMMA RemovedStep ==
  ASSUME Inv, NEW i \in 0..tab.buckets, tab' = Removed(tab, i)
  PROVE  Sound(tab') /\ MapStep(ContentsOf(tab), ContentsOf(tab'))
<1>1. /\ Sound(tab')
      /\ \/ ContentsOf(tab') = ContentsOf(tab)
         \/ /\ i \in Live(tab)
            /\ ContentsOf(tab') = Without(ContentsOf(tab), tab.keys[i])
  BY RemovedSound DEF Inv
<1>2. i \in Live(tab) => tab.keys[i] \in Key /\ tab.keys[i] \in DOMAIN ContentsOf(tab)
  BY ContentsFacts DEF Inv, Sound, Keyed
<1> QED
  BY <1>1, <1>2 DEF MapStep

\* sm_hash_table_remove_at.
LEMMA RemoveAtKeeps ==
  ASSUME Inv, OneThread, NEW t \in Threads, NEW i \in 0..tab.buckets, RemoveAt(t, i)
  PROVE  Inv' /\ MapStep(ContentsOf(tab), ContentsOf(tab'))
BY RemovedStep, OneSectionKeeps DEF RemoveAt

\* sm_hash_table_iterate.
LEMMA VisitKeeps ==
  ASSUME Inv, OneThread, NEW t \in Threads, NEW i \in Live(tab),
         NEW v \in Version[tab.keys[i]], Visit(t, i, v)
  PROVE  Inv' /\ MapStep(ContentsOf(tab), ContentsOf(tab'))
<1> DEFINE k == tab.keys[i]
<1>1. /\ Sound(tab')
      /\ ContentsOf(tab') = [ContentsOf(tab) EXCEPT ![k] = <<k, v>>]
  BY VisitedSound DEF Visit, Inv
<1>2. k \in Key /\ k \in DOMAIN ContentsOf(tab) /\ <<k, v>> \in Entry
  BY ContentsFacts DEF Inv, Sound, Keyed, Entry
<1> HIDE DEF k
<1> QED
  BY <1>1, <1>2, OneSectionKeeps DEF Visit, MapStep

\* sm_hash_table_create and sm_hash_table_destroy.
LEMMA CreateKeeps ==
  ASSUME Inv, OneThread, Create \/ Destroy
  PROVE  Inv' /\ MapStep(ContentsOf(tab), ContentsOf(tab'))
<1>1. tab' = EmptyTable
  BY DEF Create, Destroy
<1>2. Sound(tab') /\ ContentsOf(tab') = [k \in {} |-> {}]
  BY <1>1, EmptySound
<1>3. Sound(tab)'
  BY <1>2, PrimedTable
<1>4. \A t \in Threads : call'[t].op = "idle"
  BY DEF Create, Destroy, Idle, Inv, Pending
<1>5. \A t \in Threads : Pending(t)'
  BY <1>4 DEF Pending
<1>6. ret' \in [Threads -> ReturnType] /\ call' = call /\ open' \in BOOLEAN
  BY NoReturnType DEF Create, Destroy, Inv
<1> QED
  BY <1>2, <1>3, <1>5, <1>6 DEF Inv, MapStep

\* The first section of contains, get and remove fixes a true iterator.
LEMMA LookupKeeps ==
  ASSUME Inv, OneThread, NEW t \in Threads, NEW k \in Key,
         NEW op \in {"contains", "get", "remove"}, Lookup(t, op, k)
  PROVE  Inv'
<1>1. tab' = tab /\ open' = open /\ open
  BY DEF Lookup, Idle
<1>2. Sound(tab)'
  BY <1>1, PrimedTable DEF Inv
<1>3. \A s \in Threads : s = t
  BY DEF OneThread
<1>4. CASE tab.buckets = 0
  <2> DEFINE r == [NoReturn EXCEPT !.op = op, !.key = k, !.rc = "NOT_FOUND"]
  <2>1. r \in ReturnType
    BY DEF NoReturn, ReturnType
  <2>2. call' = call /\ ret' = [ret EXCEPT ![t] = r]
    BY <1>4 DEF Lookup, Return
  <2> HIDE DEF r
  <2>3. ret' \in [Threads -> ReturnType]
    BY <2>1, <2>2 DEF Inv
  <2>4. \A s \in Threads : Pending(s)'
    BY <1>3, <2>2 DEF Lookup, Idle, Pending
  <2> QED
    BY <1>1, <1>2, <2>2, <2>3, <2>4 DEF Inv
<1>5. CASE tab.buckets # 0
  <2> DEFINE c == [op |-> op, key |-> k, at |-> Find(tab, k)]
  <2>1. Find(tab, k) \in Nat
    BY <1>5, FindFacts, SizesAreNumbers DEF Inv, Sound, Backed
  <2>2. call' = [call EXCEPT ![t] = c] /\ ret' = [ret EXCEPT ![t] = NoReturn]
    BY <1>5 DEF Lookup, Return
  <2>3. call' \in [Threads -> CallType] /\ call'[t] = c
    BY <2>1, <2>2 DEF Inv, CallType
  <2>4. ret' \in [Threads -> ReturnType]
    BY <2>2, NoReturnType DEF Inv
  <2>5. Find(tab, k)' = Find(tab, k)
    BY <1>1, PrimedTable
  <2>6. \A s \in Threads : Pending(s)'
    BY <1>1, <1>3, <1>5, <2>3, <2>5 DEF Pending
  <2> QED
    BY <1>1, <1>2, <2>3, <2>4, <2>6 DEF Inv
<1> QED
  BY <1>4, <1>5

\* The second section of a call ends it.
LEMMA EndCallKeeps ==
  ASSUME Inv, OneThread, NEW t \in Threads, NEW op \in {"contains", "get", "remove"},
         NEW r \in ReturnType, EndCall(t, op, r), Sound(tab')
  PROVE  Inv'
<1>1. open' = open /\ call' = [call EXCEPT ![t] = NoCall]
      /\ ret' = [ret EXCEPT ![t] = [r EXCEPT !.op = op, !.key = call[t].key]]
  BY DEF EndCall, Return
<1>2. [r EXCEPT !.op = op, !.key = call[t].key] \in ReturnType
  BY DEF Inv, CallType, ReturnType
<1>3. ret' \in [Threads -> ReturnType]
  BY <1>1, <1>2 DEF Inv
<1>4. call' \in [Threads -> CallType] /\ call'[t] = NoCall
  BY <1>1, NoReturnType DEF Inv
<1>5. \A s \in Threads : Pending(s)'
  BY <1>4 DEF OneThread, Pending, NoCall
<1>6. Sound(tab)'
  BY PrimedTable
<1> QED
  BY <1>1, <1>3, <1>4, <1>5, <1>6 DEF Inv

\* The second section of remove takes out the bucket the first one found.
LEMMA EndRemoveKeeps ==
  ASSUME Inv, OneThread, NEW t \in Threads, EndRemove(t)
  PROVE  Inv' /\ MapStep(ContentsOf(tab), ContentsOf(tab'))
<1>1. call[t].op = "remove" /\ EndCall(t, "remove", NoReturn)
  BY DEF EndRemove, EndCall
<1>2. call[t].at \in 0..tab.buckets
  BY <1>1, FindFacts DEF Inv, Pending
<1>3. tab' = Removed(tab, call[t].at)
  BY <1>2 DEF EndRemove
<1>4. Sound(tab') /\ MapStep(ContentsOf(tab), ContentsOf(tab'))
  BY <1>2, <1>3, RemovedStep
<1> QED
  BY <1>1, <1>4, EndCallKeeps, NoReturnType

\* The second section of get reads only.
LEMMA EndGetKeeps ==
  ASSUME Inv, OneThread, NEW t \in Threads, EndGet(t)
  PROVE  Inv' /\ tab' = tab
<1> DEFINE i == call[t].at
           x == IF i \in DOMAIN tab.values THEN tab.values[i] ELSE Junk
           r == [NoReturn EXCEPT !.value = x]
<1>1. x \in Entry \cup {Junk}
  BY DEF Inv, Sound, Typed
<1>2. EndCall(t, "get", r) /\ tab' = tab
  BY DEF EndGet
<1> HIDE DEF x
<1>3. r \in ReturnType
  BY <1>1 DEF NoReturn, ReturnType
<1>4. Sound(tab')
  BY <1>2 DEF Inv
<1> QED
  BY <1>2, <1>3, <1>4, EndCallKeeps

\* The second section of contains reads only.
LEMMA EndContainsKeeps ==
  ASSUME Inv, OneThread, NEW t \in Threads, EndContains(t)
  PROVE  Inv' /\ tab' = tab
<1>1. PICK f : EndCall(t, "contains", [NoReturn EXCEPT !.found = (f = "live")])
  BY DEF EndContains
<1>2. [NoReturn EXCEPT !.found = (f = "live")] \in ReturnType
  BY DEF NoReturn, ReturnType
<1>3. tab' = tab /\ Sound(tab')
  BY DEF EndContains, Inv
<1> QED
  BY <1>1, <1>2, <1>3, EndCallKeeps

\* Every step keeps the table sound and is a step of the map or leaves it.
LEMMA StepKeeps ==
  ASSUME Inv, OneThread, NoShrinkFails, [Next]_vars
  PROVE  Inv' /\ MapStep(ContentsOf(tab), ContentsOf(tab'))
<1>1. CASE Create \/ Destroy
  BY <1>1, CreateKeeps
<1>2. ASSUME NEW t \in Threads, Clear(t)
      PROVE  Inv' /\ MapStep(ContentsOf(tab), ContentsOf(tab'))
  BY <1>2, ClearKeeps
<1>3. ASSUME NEW t \in Threads, NEW b \in Sizes, Resize(t, b)
      PROVE  Inv' /\ MapStep(ContentsOf(tab), ContentsOf(tab'))
  BY <1>3, ResizeKeeps
<1>4. ASSUME NEW t \in Threads, NEW k \in Key, NEW v \in Version[k], Insert(t, k, v)
      PROVE  Inv' /\ MapStep(ContentsOf(tab), ContentsOf(tab'))
  BY <1>4, InsertKeeps
<1>5. ASSUME NEW t \in Threads, NEW i \in 0..tab.buckets, RemoveAt(t, i)
      PROVE  Inv' /\ MapStep(ContentsOf(tab), ContentsOf(tab'))
  BY <1>5, RemoveAtKeeps
<1>6. ASSUME NEW t \in Threads, NEW i \in Live(tab), NEW v \in Version[tab.keys[i]],
             Visit(t, i, v)
      PROVE  Inv' /\ MapStep(ContentsOf(tab), ContentsOf(tab'))
  BY <1>6, VisitKeeps
<1>7. ASSUME NEW t \in Threads, NEW op \in {"contains", "get", "remove"}, NEW k \in Key,
             Lookup(t, op, k)
      PROVE  Inv' /\ tab' = tab
  BY <1>7, LookupKeeps DEF Lookup
<1>8. ASSUME NEW t \in Threads, EndRemove(t)
      PROVE  Inv' /\ MapStep(ContentsOf(tab), ContentsOf(tab'))
  BY <1>8, EndRemoveKeeps
<1>9. ASSUME NEW t \in Threads, EndGet(t) \/ EndContains(t)
      PROVE  Inv' /\ tab' = tab
  BY <1>9, EndGetKeeps, EndContainsKeeps
<1>10. CASE UNCHANGED vars
  <2>1. open' = open /\ tab' = tab /\ call' = call /\ ret' = ret
    BY <1>10 DEF vars
  <2>2. \A t \in Threads : Pending(t)'
    BY <2>1, PrimedTable DEF Inv, Pending
  <2>3. Sound(tab)'
    BY <2>1, PrimedTable DEF Inv
  <2> QED
    BY <2>1, <2>2, <2>3 DEF Inv, MapStep
<1>11. tab' = tab => MapStep(ContentsOf(tab), ContentsOf(tab'))
  BY DEF MapStep
<1> QED
  BY <1>1, <1>2, <1>3, <1>4, <1>5, <1>6, <1>7, <1>8, <1>9, <1>10, <1>11 DEF Next

----------------------------------------------------------------------------
(* The theorems. *)

\* The map of the model is the map of its table, before a step and after.
LEMMA ContentsIs == Contents = ContentsOf(tab) /\ Contents' = ContentsOf(tab')
BY DEF Contents, ContentsOf, Live, Slots

\* Types and counters agree after every call and every failed one: the number
\* of entries, the number of buckets in use, and the threshold that keeps a
\* bucket of every table empty (hash_table.c:343, 363-391, 429-434).
THEOREM Consistent ==
  ASSUME OneThread, NoShrinkFails
  PROVE  Spec => []TableConsistent
<1>1. Init => Inv
  BY InvInit
<1>2. Inv /\ [Next]_vars => Inv'
  BY StepKeeps
<1>3. Inv => TableConsistent
  <2> SUFFICES ASSUME Inv PROVE TableConsistent
    OBVIOUS
  <2>1. /\ tab.buckets \in Sizes \cup {0}
        /\ tab.upper = IF tab.buckets = 0 THEN 0 ELSE Upper(tab.buckets)
    BY DEF Inv, Sound, Backed, Typed
  <2>2. tab.upper \in Nat /\ (tab.buckets # 0 => tab.upper < tab.buckets)
    BY <2>1, UpperFacts
  <2>3. TypeOK
    BY <2>1, <2>2 DEF TypeOK, Inv, Sound, Typed, CallType, ReturnType
  <2>4. CountersAgree
    BY <2>2 DEF CountersAgree, Inv, Sound, Counted
  <2> QED
    BY <2>3, <2>4 DEF TableConsistent
<1> QED
  BY <1>1, <1>2, <1>3, PTL DEF Spec

\* Whatever was inserted, removed and re-hashed, find reaches every entry and
\* a probe for an absent key ends at an empty bucket (hash_table.c:264-290).
THEOREM Probing ==
  ASSUME OneThread, NoShrinkFails
  PROVE  Spec => []ProbesReach
<1>1. Init => Inv
  BY InvInit
<1>2. Inv /\ [Next]_vars => Inv'
  BY StepKeeps
<1>3. Inv => ProbesReach
  BY EntryFound, FindFacts DEF Inv, ProbesReach, EveryEntryFound, AbsentKeyFindsRoom
<1> QED
  BY <1>1, <1>2, <1>3, PTL DEF Spec

\* The table implements the finite map: every call of hash_table.c, whole or
\* failed half-way, inserts, updates or removes one entry, clears them all or
\* leaves the map alone.
THEOREM RefinesMap ==
  ASSUME OneThread, NoShrinkFails
  PROVE  Spec => MapSpec
<1>1. Init => Inv /\ Map!Init
  <2> SUFFICES ASSUME Init PROVE Inv /\ Map!Init
    OBVIOUS
  <2>1. Contents = [k \in {} |-> {}]
    BY EmptySound, ContentsIs DEF Init
  <2> QED
    BY <2>1, InvInit DEF Map!Init
<1>2. Inv /\ [Next]_vars => Inv' /\ [Map!Next]_Contents
  <2> SUFFICES ASSUME Inv, [Next]_vars PROVE Inv' /\ [Map!Next]_Contents
    OBVIOUS
  <2>1. Inv' /\ MapStep(Contents, Contents')
    BY StepKeeps, ContentsIs
  <2>2. [Map!Next]_Contents
    <3>1. CASE Contents' = Contents
      BY <3>1
    <3>2. CASE Contents' = [k \in {} |-> {}]
      BY <3>2 DEF Map!Next, Map!Clear
    <3>3. ASSUME NEW k \in Key, k \in DOMAIN Contents, Contents' = Without(Contents, k)
          PROVE  Map!Next
      BY <3>3 DEF Map!Next, Map!Remove, Without
    <3>4. ASSUME NEW k \in Key, NEW v \in Entry, k \notin DOMAIN Contents,
                 Contents' = With(Contents, k, v)
          PROVE  Map!Next
      BY <3>4 DEF Map!Next, Map!Insert, With
    <3>5. ASSUME NEW k \in Key, NEW v \in Entry, k \in DOMAIN Contents,
                 Contents' = [Contents EXCEPT ![k] = v]
          PROVE  Map!Next
      BY <3>5 DEF Map!Next, Map!Update
    <3> QED
      BY <2>1, <3>1, <3>2, <3>3, <3>4, <3>5 DEF MapStep
  <2> QED
    BY <2>1, <2>2
<1> QED
  BY <1>1, <1>2, PTL DEF Spec, MapSpec, Map!Spec

\* Below 16 buckets all flags share a word, so the iterator that stands for
\* an absent key reads as empty (hash_table.c:272).
SmallTables == \A b \in Sizes : b < 16

\* The answers of AnswersFromMap, and none from before the table existed.
Answered ==
  /\ ~open => \A t \in Threads : ret[t] = NoReturn
  /\ AnswersFromMap

\* A removed bucket's key is in no other bucket.
LEMMA RemovedKeyGone ==
  ASSUME NEW T, Sound(T), NEW i \in Live(T)
  PROVE  T.keys[i] \notin DOMAIN ContentsOf(Removed(T, i))
<1> DEFINE N == [T EXCEPT !.flags[i] = "deleted", !.count = @ - 1]
<1>1. i \in Slots(T.buckets) /\ T.flags[i] = "live" /\ T.buckets \in Nat
  BY SizesAreNumbers DEF Live, Sound, Backed
<1>2. Removed(T, i) = N
  BY <1>1 DEF Removed, Slots
<1>3. N.buckets = T.buckets /\ N.keys = T.keys
      /\ N.flags = [T.flags EXCEPT ![i] = "deleted"]
  BY DEF Sound, Typed
<1> HIDE DEF N
<1>4. ASSUME NEW j \in Live(N)
      PROVE  j \in Live(T) /\ j # i
  BY <1>1, <1>3, <1>4 DEF Live, Sound, Backed, Typed
<1>5. ASSUME NEW j \in Live(N), T.keys[j] = T.keys[i]
      PROVE  FALSE
  BY <1>4, <1>5 DEF Sound, Unique
<1> QED
  BY <1>2, <1>3, <1>5 DEF ContentsOf

\* Every step leaves the last answer true of the map.
LEMMA StepAnswers ==
  ASSUME Inv, Answered, OneThread, NoShrinkFails, SmallTables, [Next]_vars
  PROVE  Answered'
<1> USE ContentsIs
<1>1. \A s, t \in Threads : s = t
  BY DEF OneThread
<1>2. CASE Create \/ Destroy
  <2>1. \A t \in Threads : ret'[t] = NoReturn
    BY <1>2 DEF Create, Destroy, Answered
  <2>2. \A t \in Threads : ret'[t].op = "idle"
    BY <2>1 DEF NoReturn
  <2> QED
    BY <2>1, <2>2 DEF Answered, AnswersFromMap
<1>3. ASSUME NEW t \in Threads, OneSection(t)
      PROVE  Answered'
  <2>1. open' /\ ret'[t] = NoReturn
    BY <1>3 DEF OneSection, Idle, Return, Inv
  <2> QED
    BY <1>1, <2>1 DEF Answered, AnswersFromMap, NoReturn
<1>4. ASSUME NEW t \in Threads, NEW op \in {"contains", "get", "remove"}, NEW k \in Key,
             Lookup(t, op, k)
      PROVE  Answered'
  <2>1. /\ open'
        /\ \/ ret'[t] = NoReturn
           \/ /\ tab.buckets = 0
              /\ ret'[t] = [NoReturn EXCEPT !.op = op, !.key = k, !.rc = "NOT_FOUND"]
    BY <1>4 DEF Lookup, Idle, Return, Inv
  <2>2. /\ NoReturn.op = "idle"
        /\ LET r == [NoReturn EXCEPT !.op = op, !.key = k, !.rc = "NOT_FOUND"]
           IN  r.found = FALSE
    BY DEF NoReturn
  <2>3. Contents' = ContentsOf(tab)
    BY <1>4 DEF Lookup
  <2>4. ASSUME tab.buckets = 0, NEW j
        PROVE  j \notin DOMAIN Contents'
    <3>1. \A i : i \notin Live(tab)
      BY <2>4 DEF Live, Slots
    <3> QED
      BY <2>3, <3>1 DEF ContentsOf
  <2> QED
    BY <1>1, <2>1, <2>2, <2>4 DEF Answered, AnswersFromMap
<1>5. ASSUME NEW t \in Threads, EndRemove(t)
      PROVE  Answered'
  <2> DEFINE i == call[t].at
             k == call[t].key
  <2>1. /\ open' = open /\ call[t].op = "remove"
        /\ ret'[t] = [NoReturn EXCEPT !.op = "remove", !.key = k]
    BY <1>5 DEF EndRemove, EndCall, Return, Inv
  <2>2. open' /\ ret'[t].op = "remove" /\ ret'[t].key = k
    BY <2>1 DEF Inv, Pending, NoReturn
  <2>3. tab.buckets # 0 /\ k \in Key /\ i = Find(tab, k) /\ Sound(tab)
    BY <2>1 DEF Inv, Pending
  <2>4. /\ i \in 0..tab.buckets
        /\ i # tab.buckets => i \in Live(tab) /\ tab.keys[i] = k
        /\ i = tab.buckets => \A j \in Live(tab) : tab.keys[j] # k
    BY <2>3, FindFacts
  <2>5. tab' = Removed(tab, i)
    BY <1>5, <2>4 DEF EndRemove
  <2> HIDE DEF i, k
  <2>6. CASE i = tab.buckets
    <3>1. tab' = tab
      BY <2>5, <2>6 DEF Removed
    <3>2. k \notin DOMAIN ContentsOf(tab)
      BY <2>4, <2>6 DEF ContentsOf
    <3> QED
      BY <1>1, <2>2, <3>1, <3>2 DEF Answered, AnswersFromMap
  <2>7. CASE i # tab.buckets
    <3>1. k \notin DOMAIN ContentsOf(tab')
      BY <2>3, <2>4, <2>5, <2>7, RemovedKeyGone
    <3> QED
      BY <1>1, <2>2, <3>1 DEF Answered, AnswersFromMap
  <2> QED
    BY <2>6, <2>7
<1>6. ASSUME NEW t \in Threads, EndGet(t)
      PROVE  Answered'
  <2> DEFINE i == call[t].at
             k == call[t].key
             x == IF i \in DOMAIN tab.values THEN tab.values[i] ELSE Junk
  <2>1. /\ open' = open /\ tab' = tab /\ call[t].op = "get"
        /\ ret'[t] = [NoReturn EXCEPT !.value = x, !.op = "get", !.key = k]
    BY <1>6 DEF EndGet, EndCall, Return, Inv
  <2>2. /\ open' /\ ret'[t].op = "get" /\ ret'[t].key = k /\ ret'[t].value = x
        /\ ret'[t].rc = "NO_ERROR"
    BY <2>1 DEF Inv, Pending, NoReturn
  <2>3. ASSUME k \in DOMAIN ContentsOf(tab)
        PROVE  x = ContentsOf(tab)[k]
    <3>1. PICK j \in Live(tab) : tab.keys[j] = k
      BY <2>3 DEF ContentsOf
    <3>2. i = j
      BY <2>1, <3>1, EntryFound DEF Inv, Pending
    <3>3. j \in DOMAIN tab.values
      BY DEF Inv, Sound, Backed, Live
    <3> QED
      BY <3>1, <3>2, <3>3, ContentsFacts DEF Inv, Sound
  <2> HIDE DEF x, k, i
  <2>4. ret'[t].key \in DOMAIN Contents' => ret'[t].value = Contents'[ret'[t].key]
    BY <2>1, <2>2, <2>3
  <2> QED
    BY <1>1, <2>2, <2>4 DEF Answered, AnswersFromMap
<1>7. ASSUME NEW t \in Threads, EndContains(t)
      PROVE  Answered'
  <2> DEFINE i == call[t].at
             k == call[t].key
  <2>1. PICK f \in FlagReads(tab, i) :
          EndCall(t, "contains", [NoReturn EXCEPT !.found = (f = "live")])
    BY <1>7 DEF EndContains
  <2>2. /\ open' = open /\ tab' = tab /\ call[t].op = "contains"
        /\ ret'[t] = [NoReturn EXCEPT !.found = (f = "live"), !.op = "contains", !.key = k]
    BY <1>7, <2>1 DEF EndContains, EndCall, Return, Inv
  <2>3. /\ open' /\ ret'[t].op = "contains" /\ ret'[t].key = k
        /\ ret'[t].found = (f = "live")
    BY <2>2 DEF Inv, Pending, NoReturn
  <2>4. f = "live" <=> k \in DOMAIN ContentsOf(tab)
    <3>1. tab.buckets # 0 /\ k \in Key /\ i = Find(tab, k) /\ Sound(tab)
      BY <2>2 DEF Inv, Pending
    <3>2. tab.buckets \in Nat /\ tab.buckets < 16
      BY <3>1, SoundHasRoom, SizeType DEF SmallTables
    <3>3. /\ i # tab.buckets => i \in Live(tab) /\ tab.keys[i] = k
          /\ i = tab.buckets => \A j \in Live(tab) : tab.keys[j] # k
      BY <3>1, FindFacts
    <3>4. CASE i = tab.buckets
      <4>1. f = "empty"
        BY <2>1, <3>2, <3>4 DEF FlagReads, Slots
      <4> QED
        BY <4>1, <3>3, <3>4 DEF ContentsOf
    <3>5. CASE i # tab.buckets
      <4>1. f = "live"
        BY <2>1, <3>3, <3>5 DEF FlagReads, Live
      <4> QED
        BY <4>1, <3>3, <3>5 DEF ContentsOf
    <3> QED
      BY <3>4, <3>5
  <2> HIDE DEF k, i
  <2>5. ret'[t].found <=> ret'[t].key \in DOMAIN Contents'
    BY <2>2, <2>3, <2>4
  <2> QED
    BY <1>1, <2>3, <2>5 DEF Answered, AnswersFromMap
<1>8. CASE UNCHANGED vars
  <2>1. open' = open /\ ret' = ret /\ Contents' = Contents
    BY <1>8 DEF vars
  <2> QED
    BY <2>1 DEF Answered, AnswersFromMap
<1>9. ASSUME NEW t \in Threads,
             \/ Clear(t)
             \/ \E b \in Sizes : Resize(t, b)
             \/ \E k \in Key : \E v \in Version[k] : Insert(t, k, v)
             \/ \E i \in 0..tab.buckets : RemoveAt(t, i)
             \/ \E i \in Live(tab) : \E v \in Version[tab.keys[i]] : Visit(t, i, v)
      PROVE  OneSection(t)
  BY <1>9 DEF Clear, Resize, Insert, RemoveAt, Visit
<1> QED
  BY <1>2, <1>3, <1>4, <1>5, <1>6, <1>7, <1>8, <1>9 DEF Next

\* contains answers TRUE for the keys of the map and for no other, get returns
\* the map's value of every key in it, and remove leaves its key out, in tables
\* that fit one word of flags: above, contains may read other memory
\* (hash_table.c:272).
THEOREM Answers ==
  ASSUME OneThread, NoShrinkFails, SmallTables
  PROVE  Spec => []AnswersFromMap
<1>1. Init => Inv /\ Answered
  <2> SUFFICES ASSUME Init PROVE Inv /\ Answered
    OBVIOUS
  <2>1. \A t \in Threads : ret[t] = NoReturn
    BY DEF Init
  <2>2. \A t \in Threads : ret[t].op = "idle"
    BY <2>1 DEF NoReturn
  <2> QED
    BY <2>1, <2>2, InvInit DEF Answered, AnswersFromMap
<1>2. Inv /\ Answered /\ [Next]_vars => (Inv /\ Answered)'
  BY StepKeeps, StepAnswers
<1>3. Answered => AnswersFromMap
  BY DEF Answered
<1> QED
  BY <1>1, <1>2, <1>3, PTL DEF Spec
=============================================================================
