--------------------------- MODULE TreeBinProofs ---------------------------
(***************************************************************************)
(* The tree bins: what a well-formed forest of tries is, that putting a chunk*)
(* in and taking one out keep it, that the searches find what is there, and*)
(* that the bins implement the collection of chunks of module LargeChunks. *)
(***************************************************************************)
EXTENDS TreeBin, TLAPS, FiniteSetTheorems, WellFoundedInduction

----------------------------------------------------------------------------
(* Loops: what After computes. *)

\* A set of numbers has a least one.
LEMMA Least ==
  ASSUME NEW S \in SUBSET Nat, S # {}
  PROVE  \E m \in S : \A n \in S : m <= n
<1> DEFINE R == {p \in Nat \X Nat : p[1] < p[2]}
<1>1. IsWellFoundedOn(R, Nat)
  BY NatLessThanWellFounded DEF OpToRel
<1>2. \E x \in S : \A y \in S : ~(<<y, x>> \in R)
  <2> HIDE DEF R
  <2> QED BY <1>1, WFMin
<1>3. PICK x \in S : \A y \in S : ~(<<y, x>> \in R)
  BY <1>2
<1>4. \A y \in S : x \in Nat /\ y \in Nat /\ ~(y < x)
  BY <1>3
<1> QED
  BY <1>4

\* One turn after the other from start on, for every k up to n.
Course(f, turn, start, n) ==
  f = [k \in 0 .. n |-> IF k = 0 THEN start ELSE turn[f[k - 1]]]

\* Every loop has a course.
LEMMA CourseExists ==
  ASSUME NEW turn, NEW start, NEW n \in Nat
  PROVE  \E f : Course(f, turn, start, n)
<1> DEFINE bad == {m \in Nat : ~\E f : Course(f, turn, start, m)}
<1> SUFFICES ASSUME bad # {} PROVE FALSE
  OBVIOUS
<1>1. PICK m \in bad : \A k \in bad : m <= k
  <2>1. bad \in SUBSET Nat
    OBVIOUS
  <2> HIDE DEF bad
  <2> QED
    BY <2>1, Least
<1>2. m \in Nat /\ ~\E f : Course(f, turn, start, m)
  BY <1>1
<1>3. CASE m = 0
  <2> DEFINE f == [k \in 0 .. m |-> start]
  <2>1. f = [k \in 0 .. m |-> IF k = 0 THEN start ELSE turn[f[k - 1]]]
    BY <1>3
  <2> HIDE DEF f
  <2> QED
    BY <1>2, <2>1 DEF Course
<1>4. CASE m # 0
  <2>1. m - 1 \in Nat /\ m - 1 \notin bad
    BY <1>1, <1>2, <1>4
  <2>2. PICK f : Course(f, turn, start, m - 1)
    BY <2>1
  <2>3. \A k \in 0 .. (m - 1) : f[k] = IF k = 0 THEN start ELSE turn[f[k - 1]]
    BY <2>1, <2>2 DEF Course
  <2> HIDE DEF bad
  <2> DEFINE g == [k \in 0 .. m |-> IF k < m THEN f[k] ELSE turn[f[m - 1]]]
  <2>4. (\A k \in 0 .. (m - 1) : g[k] = f[k]) /\ g[m] = turn[f[m - 1]]
    BY <1>2, <1>4
  <2>5. g = [k \in 0 .. m |-> g[k]]
    OBVIOUS
  <2> HIDE DEF g
  <2>6. ASSUME NEW k \in 0 .. m PROVE g[k] = IF k = 0 THEN start ELSE turn[g[k - 1]]
    <3>1. CASE k < m
      <4>1. k \in 0 .. (m - 1) /\ (k # 0 => k - 1 \in 0 .. (m - 1))
        BY <1>2, <3>1
      <4> QED
        BY <2>3, <2>4, <4>1
    <3>2. CASE ~(k < m)
      <4>1. k = m /\ k # 0 /\ m - 1 \in 0 .. (m - 1)
        BY <1>2, <1>4, <2>1, <3>2
      <4> QED
        BY <2>4, <4>1
    <3> QED
      BY <3>1, <3>2
  <2>7. Course(g, turn, start, m)
    BY <2>5, <2>6 DEF Course
  <2> QED
    BY <1>2, <2>7
<1> QED
  BY <1>3, <1>4

\* After is where the course ends.
LEMMA AfterIs ==
  ASSUME NEW turn, NEW start, NEW n \in Nat
  PROVE  \E f : /\ After(turn, start, n) = f[n] /\ f[0] = start
                /\ \A k \in 0 .. n : k # 0 => f[k] = turn[f[k - 1]]
<1> DEFINE f == CHOOSE f : f = [k \in 0 .. n |-> IF k = 0 THEN start ELSE turn[f[k - 1]]]
<1>1. \E g : g = [k \in 0 .. n |-> IF k = 0 THEN start ELSE turn[g[k - 1]]]
  <2>1. PICK g : Course(g, turn, start, n)
    BY CourseExists
  <2>2. g = [k \in 0 .. n |-> IF k = 0 THEN start ELSE turn[g[k - 1]]]
    BY <2>1 DEF Course
  <2> QED
    BY <2>2
<1>2. f = [k \in 0 .. n |-> IF k = 0 THEN start ELSE turn[f[k - 1]]]
  BY <1>1
<1>3. After(turn, start, n) = f[n]
  BY DEF After
<1> HIDE DEF f
<1>4. \A k \in 0 .. n : f[k] = IF k = 0 THEN start ELSE turn[f[k - 1]]
  BY ONLY <1>2
<1>5. f[0] = start
  BY <1>4
<1> QED
  BY <1>3, <1>4, <1>5

\* What every turn keeps holds where the loop ends.
LEMMA AfterKeeps ==
  ASSUME NEW turn, NEW start, NEW n \in Nat, NEW P, start \in P, \A s \in P : turn[s] \in P
  PROVE  After(turn, start, n) \in P
<1>1. PICK f : /\ After(turn, start, n) = f[n] /\ f[0] = start
               /\ \A k \in 0 .. n : k # 0 => f[k] = turn[f[k - 1]]
  BY AfterIs
<1> DEFINE bad == {k \in 0 .. n : f[k] \notin P}
<1>2. bad = {}
  <2> SUFFICES ASSUME bad # {} PROVE FALSE
    OBVIOUS
  <2>1. PICK k \in bad : \A m \in bad : k <= m
    <3>1. bad \in SUBSET Nat
      OBVIOUS
    <3> HIDE DEF bad
    <3> QED
      BY <3>1, Least
  <2>2. k \in 0 .. n /\ k # 0 /\ k - 1 \in 0 .. n
    BY <1>1, <2>1
  <2>3. f[k - 1] \in P
    BY <2>1, <2>2
  <2> QED
    BY <1>1, <2>1, <2>2, <2>3
<1>3. n \in 0 .. n
  OBVIOUS
<1> QED
  BY <1>1, <1>2, <1>3

\* A loop in which every turn that changes something brings its measure down has come to rest
\* after as many turns as the measure was at the start.
LEMMA AfterRests ==
  ASSUME NEW turn, NEW start, NEW n \in Nat, NEW P, start \in P, NEW m,
         \A s \in P : /\ turn[s] \in P /\ m[s] \in Nat
                      /\ turn[s] # s => m[turn[s]] < m[s],
         m[start] <= n
  PROVE  turn[After(turn, start, n)] = After(turn, start, n)
<1>1. PICK f : /\ After(turn, start, n) = f[n] /\ f[0] = start
               /\ \A k \in 0 .. n : k # 0 => f[k] = turn[f[k - 1]]
  BY AfterIs
\* Either it rests, or the measure has come down with every turn.
<1> DEFINE bad == {k \in 0 .. n : ~(/\ f[k] \in P
                                    /\ turn[f[k]] = f[k] \/ m[f[k]] + k <= n)}
<1>2. bad = {}
  <2> SUFFICES ASSUME bad # {} PROVE FALSE
    OBVIOUS
  <2>1. PICK k \in bad : \A j \in bad : k <= j
    <3>1. bad \in SUBSET Nat
      OBVIOUS
    <3> HIDE DEF bad
    <3> QED
      BY <3>1, Least
  <2>2. k # 0
    <3>1. f[0] \in P /\ m[f[0]] + 0 <= n
      BY <1>1
    <3> QED
      BY <2>1, <3>1
  <2>3. k \in 0 .. n /\ k - 1 \in 0 .. n /\ k - 1 \notin bad
    BY <2>1, <2>2
  <2>4. f[k - 1] \in P /\ (turn[f[k - 1]] = f[k - 1] \/ m[f[k - 1]] + (k - 1) <= n)
    BY <2>3
  <2>5. f[k] = turn[f[k - 1]] /\ f[k] \in P /\ m[f[k]] \in Nat /\ m[f[k - 1]] \in Nat
    BY <1>1, <2>2, <2>3, <2>4
  <2>6. CASE turn[f[k - 1]] = f[k - 1]
    BY <2>1, <2>5, <2>6
  <2>7. CASE turn[f[k - 1]] # f[k - 1]
    <3>1. m[f[k]] < m[f[k - 1]]
      BY <2>4, <2>5, <2>7
    <3>2. m[f[k]] + k <= n
      BY <2>3, <2>4, <2>5, <2>7, <3>1
    <3> QED
      BY <2>1, <2>5, <3>2
  <2> QED
    BY <2>6, <2>7
<1>3. f[n] \in P /\ (turn[f[n]] = f[n] \/ m[f[n]] + n <= n)
  <2>1. n \in 0 .. n
    OBVIOUS
  <2> QED
    BY <1>2, <2>1
<1>4. CASE turn[f[n]] # f[n]
  <2>1. m[turn[f[n]]] \in Nat /\ m[f[n]] \in Nat /\ m[turn[f[n]]] < m[f[n]] /\ m[f[n]] + n <= n
    BY <1>3, <1>4
  <2> QED
    BY <2>1
<1> QED
  BY <1>1, <1>3, <1>4

----------------------------------------------------------------------------
(* Words. *)

\* What division gives.
LEMMA DivIs ==
  ASSUME NEW p \in Nat \ {0}, NEW q \in Nat, NEW r \in Nat, r < p
  PROVE  (q * p + r) \div p = q /\ (q * p + r) % p = r
BY SMTT(30)

\* A number is its quotient times the divisor and the remainder.
LEMMA DivMod ==
  ASSUME NEW p \in Nat \ {0}, NEW n \in Nat
  PROVE  n = ((n \div p) * p) + (n % p) /\ n \div p \in Nat /\ n % p \in 0 .. (p - 1)
BY SMTT(30)

\* Products are ordered as their factors are.
LEMMA Products ==
  ASSUME NEW k \in Nat, NEW m \in Nat, NEW g \in Nat \ {0}
  PROVE  k * g \in Nat /\ (k < m <=> k * g < m * g)
<1>1. k * g \in Nat /\ m * g \in Nat
  BY SMTT(30)
<1>2. ASSUME k < m PROVE k * g < m * g
  <2>1. k * g + g <= m * g
    BY <1>2, SMTT(30)
  <2> QED
    BY <1>1, <2>1
<1>3. ASSUME m <= k PROVE m * g <= k * g
  BY <1>3, SMTT(30)
<1> QED
  BY <1>1, <1>2, <1>3

\* Where the table of powers is defined.
Powers == 0 .. (WordBits + IndexBits)

\* The powers double.
LEMMA PowerIs ==
  /\ Power[0] = 1
  /\ \A k \in Powers : Power[k] \in Nat \ {0} /\ (k # 0 => Power[k] = 2 * Power[k - 1])
<1> DEFINE n == WordBits + IndexBits
           turn == [x \in Nat \ {0} |-> 2 * x]
<1>1. n \in Nat
  BY TreeBinAssumption
<1> HIDE DEF n
<1>2. \E f : f = [k \in 0 .. n |-> IF k = 0 THEN 1 ELSE 2 * f[k - 1]]
  <2>1. PICK f : Course(f, turn, 1, n)
    BY <1>1, CourseExists
  <2>2. \A k \in 0 .. n : f[k] = IF k = 0 THEN 1 ELSE turn[f[k - 1]]
    BY <2>1 DEF Course
  <2>3. f = [k \in 0 .. n |-> f[k]]
    BY <2>1 DEF Course
  <2> DEFINE bad == {k \in 0 .. n : f[k] \notin Nat \ {0}}
  <2>4. bad = {}
    <3> SUFFICES ASSUME bad # {} PROVE FALSE
      OBVIOUS
    <3>1. PICK k \in bad : \A j \in bad : k <= j
      <4>1. bad \in SUBSET Nat
        OBVIOUS
      <4> HIDE DEF bad
      <4> QED
        BY <4>1, Least
    <3>2. CASE k = 0
      <4>1. f[0] = 1
        <5> HIDE DEF turn, bad
        <5>1. 0 \in 0 .. n
          BY <1>1
        <5> QED
          BY <2>2, <5>1
      <4> QED
        BY <3>1, <3>2, <4>1
    <3>3. CASE k # 0
      <4>1. k \in 0 .. n /\ k - 1 \in 0 .. n /\ k - 1 \notin bad
        BY <1>1, <3>1, <3>3
      <4>2. f[k - 1] \in Nat \ {0} /\ f[k] = turn[f[k - 1]]
        BY <2>2, <3>3, <4>1
      <4>3. f[k] = 2 * f[k - 1]
        BY <4>2
      <4> QED
        BY <3>1, <4>2, <4>3
    <3> QED
      BY <3>2, <3>3
  <2>5. \A k \in 0 .. n : k # 0 => turn[f[k - 1]] = 2 * f[k - 1]
    BY <1>1, <2>4
  <2>6. f = [k \in 0 .. n |-> IF k = 0 THEN 1 ELSE 2 * f[k - 1]]
    <3> HIDE DEF turn, bad
    <3>1. \A k \in 0 .. n : f[k] = IF k = 0 THEN 1 ELSE 2 * f[k - 1]
      BY <2>2, <2>5
    <3> QED
      BY <2>3, <3>1
  <2> QED
    BY <2>6
<1>3. Power = [k \in 0 .. n |-> IF k = 0 THEN 1 ELSE 2 * Power[k - 1]]
  BY <1>2 DEF Power, n
<1>4. \A k \in 0 .. n : Power[k] = IF k = 0 THEN 1 ELSE 2 * Power[k - 1]
  BY ONLY <1>3
<1> DEFINE bad == {k \in 0 .. n : Power[k] \notin Nat \ {0}}
<1>5. bad = {}
  <2> SUFFICES ASSUME bad # {} PROVE FALSE
    OBVIOUS
  <2>1. PICK k \in bad : \A j \in bad : k <= j
    <3>1. bad \in SUBSET Nat
      OBVIOUS
    <3> HIDE DEF bad
    <3> QED
      BY <3>1, Least
  <2>2. CASE k = 0
    BY <1>4, <2>1, <2>2
  <2>3. CASE k # 0
    <3>1. k \in 0 .. n /\ k - 1 \in 0 .. n /\ k - 1 \notin bad
      BY <1>1, <2>1, <2>3
    <3>2. Power[k - 1] \in Nat \ {0} /\ Power[k] = 2 * Power[k - 1]
      BY <1>4, <2>3, <3>1
    <3> QED
      BY <2>1, <3>2
  <2> QED
    BY <2>2, <2>3
<1> QED
  BY <1>1, <1>4, <1>5 DEF Powers, n

\* Powers multiply.
LEMMA PowerAdd ==
  ASSUME NEW a \in Nat, NEW b \in Nat, a + b \in Powers
  PROVE  Power[a + b] = Power[a] * Power[b]
<1> DEFINE bad == {k \in Nat : a + k \in Powers /\ Power[a + k] # Power[a] * Power[k]}
<1> SUFFICES ASSUME bad # {} PROVE FALSE
  OBVIOUS
<1>1. PICK k \in bad : \A j \in bad : k <= j
  <2>1. bad \in SUBSET Nat
    OBVIOUS
  <2> HIDE DEF bad
  <2> QED
    BY <2>1, Least
<1>2. k \in Nat /\ a + k \in Powers /\ a \in Powers /\ k \in Powers
  BY <1>1, TreeBinAssumption DEF Powers
<1>3. k # 0
  <2>1. k = 0 => a + k = a
    OBVIOUS
  <2>2. Power[a] \in Nat /\ Power[0] = 1 /\ Power[a] * 1 = Power[a]
    BY <1>2, PowerIs
  <2> QED
    BY <1>1, <2>1, <2>2
<1>4. k - 1 \in Nat /\ a + (k - 1) \in Powers /\ k - 1 \in Powers /\ k - 1 \notin bad /\ a + k # 0
  BY <1>1, <1>2, <1>3, TreeBinAssumption DEF Powers
<1>5. Power[a + (k - 1)] = Power[a] * Power[k - 1]
  BY <1>4
<1>6. Power[a + k] = 2 * Power[(a + k) - 1] /\ Power[k] = 2 * Power[k - 1]
  BY <1>2, <1>3, <1>4, PowerIs
<1>7. (a + k) - 1 = a + (k - 1)
  BY <1>2
<1>8. Power[a] \in Nat /\ Power[k - 1] \in Nat
  BY <1>2, <1>4, PowerIs
<1>9. 2 * (Power[a] * Power[k - 1]) = Power[a] * (2 * Power[k - 1])
  BY <1>8, SMTT(30)
<1> QED
  BY <1>1, <1>5, <1>6, <1>7, <1>9

\* And they grow.
LEMMA PowerGrows ==
  ASSUME NEW a \in Powers, NEW b \in Powers, a <= b
  PROVE  Power[a] <= Power[b] /\ (a < b => 2 * Power[a] <= Power[b])
<1>1. a \in Nat /\ b - a \in Nat /\ a + (b - a) = b /\ b - a \in Powers
  BY TreeBinAssumption DEF Powers
<1>2. Power[b] = Power[a] * Power[b - a] /\ Power[a] \in Nat /\ Power[b - a] \in Nat \ {0}
  BY <1>1, PowerAdd, PowerIs
<1>3. a < b => Power[b - a] >= 2
  <2>1. a < b => b - a # 0 /\ (b - a) - 1 \in Powers
    BY <1>1, TreeBinAssumption DEF Powers
  <2> QED
    BY <1>1, <2>1, PowerIs
<1>4. ASSUME NEW p \in Nat, NEW q \in Nat PROVE (q # 0 => p <= p * q) /\ (q >= 2 => 2 * p <= p * q)
  BY SMTT(30)
<1> QED
  BY <1>2, <1>3, <1>4

----------------------------------------------------------------------------
(* Bins and their sizes. *)

\* The weight of the sign bit.
Half == Power[WordBits - 1]
\* Two bins for each power of two.
Pairs == TreeBins \div 2

\* The numbers the widths stand for.
LEMMA Numbers ==
  /\ WordBits \in Nat /\ IndexBits \in Nat /\ TreeShift \in Nat /\ TreeShift >= 2
  /\ Pairs \in Nat \ {0} /\ TreeBins = 2 * Pairs /\ IndexBits >= Pairs
  /\ WordBits > TreeShift + Pairs
  /\ Half \in Nat \ {0} /\ Word = 2 * Half
  /\ MinLarge \in Nat \ {0} /\ MaxLarge \in Nat /\ MaxLarge = MinLarge * Power[IndexBits]
  /\ Power[IndexBits] \in Nat \ {0}
  /\ LargeSizes \subseteq Words /\ Words \subseteq Nat
<1>1. WordBits \in Nat /\ IndexBits \in Nat /\ TreeShift \in Nat /\ TreeShift >= 2 /\ TreeBins \in Nat \ {0} /\ TreeBins % 2 = 0
  BY TreeBinAssumption
<1>2. Pairs \in Nat \ {0} /\ TreeBins = 2 * Pairs
  BY <1>1 DEF Pairs
<1>3. IndexBits >= Pairs /\ WordBits > TreeShift + Pairs
  BY TreeBinAssumption DEF Pairs
<1>4. /\ WordBits \in Powers /\ WordBits - 1 \in Powers /\ WordBits # 0 /\ TreeShift \in Powers
      /\ IndexBits \in Powers /\ TreeShift + IndexBits \in Powers
  BY <1>1, <1>2, <1>3 DEF Powers
<1>5. Half \in Nat \ {0} /\ Word = 2 * Half
  BY <1>4, PowerIs DEF Half, Word
<1>6. MinLarge \in Nat \ {0} /\ MaxLarge \in Nat /\ Power[IndexBits] \in Nat \ {0}
  BY <1>4, PowerIs DEF MinLarge, MaxLarge
<1>7. MaxLarge = MinLarge * Power[IndexBits]
  BY <1>1, <1>4, PowerAdd DEF MinLarge, MaxLarge
<1>8. LargeSizes \subseteq Words /\ Words \subseteq Nat
  BY <1>5 DEF LargeSizes, Words
<1> QED
  BY <1>1, <1>2, <1>3, <1>5, <1>6, <1>7, <1>8

\* The sign bit and the shift by one of a word.
LEMMA Signs ==
  ASSUME NEW x \in Words
  PROVE  /\ SignBit(x) = IF x < Half THEN 0 ELSE 1
         /\ ShiftLeft(x, 1) = IF x < Half THEN 2 * x ELSE 2 * x - Word
         /\ ShiftLeft(x, 1) \in Words
<1>1. x \in Nat /\ x < 2 * Half /\ Half \in Nat \ {0} /\ Word = 2 * Half
  BY Numbers DEF Words
<1>2. CASE x < Half
  <2>1. (0 * Half + x) \div Half = 0
    BY <1>1, <1>2, DivIs
  <2>2. 0 * Half + x = x
    BY <1>1
  <2>3. SignBit(x) = 0
    BY <2>1, <2>2 DEF SignBit, Half
  <2>4. (0 * Word + 2 * x) % Word = 2 * x
    <3> DEFINE y == 2 * x
    <3>1. Word \in Nat \ {0} /\ 0 \in Nat /\ y \in Nat /\ y < Word
      BY <1>1, <1>2
    <3> HIDE DEF y
    <3>2. (0 * Word + y) % Word = y
      BY ONLY <3>1, DivIs
    <3> QED
      BY <3>2 DEF y
  <2>5. 0 * Word + 2 * x = x * 2
    BY <1>1
  <2>6. ShiftLeft(x, 1) = 2 * x
    <3>1. 1 \in Powers /\ Power[0] = 1
      BY Numbers, PowerIs DEF Powers
    <3>2. Power[1] = 2
      BY <3>1, PowerIs
    <3> QED
      BY <2>4, <2>5, <3>2 DEF ShiftLeft
  <2> QED
    BY <1>1, <1>2, <2>3, <2>6 DEF Words
<1>3. CASE ~(x < Half)
  <2>1. (1 * Half + (x - Half)) \div Half = 1
    BY <1>1, <1>3, DivIs
  <2>2. 1 * Half + (x - Half) = x
    BY <1>1
  <2>3. SignBit(x) = 1
    BY <2>1, <2>2 DEF SignBit, Half
  <2>4. (1 * Word + (2 * x - Word)) % Word = 2 * x - Word
    <3> DEFINE y == 2 * x - Word
    <3>1. y \in Nat /\ y < Word /\ Word \in Nat \ {0}
      BY <1>1, <1>3
    <3> HIDE DEF y
    <3>2. (1 * Word + y) % Word = y
      BY <3>1, DivIs
    <3> QED
      BY <3>2 DEF y
  <2>5. 1 * Word + (2 * x - Word) = x * 2
    BY <1>1
  <2>6. ShiftLeft(x, 1) = 2 * x - Word
    <3>1. 1 \in Powers /\ Power[0] = 1
      BY Numbers, PowerIs DEF Powers
    <3>2. Power[1] = 2
      BY <3>1, PowerIs
    <3> QED
      BY <2>4, <2>5, <3>2 DEF ShiftLeft
  <2> QED
    BY <1>1, <1>3, <2>3, <2>6 DEF Words
<1> QED
  BY <1>2, <1>3

\* The shift of bin i, with the power that makes a word of it.
LEMMA Shifts ==
  ASSUME NEW i \in Bins
  PROVE  /\ i \div 2 \in 0 .. (Pairs - 1) /\ i % 2 \in {0, 1} /\ i = (2 * (i \div 2)) + (i % 2)
         /\ i \div 2 + TreeShift - 1 \in Powers /\ LeftShift(i) \in Powers
         /\ i # TreeBins - 1 =>
              /\ Word = Power[i \div 2 + TreeShift - 1] * Power[LeftShift(i)]
         /\ i = TreeBins - 1 => Power[LeftShift(i)] = 1
<1>1. i \in Nat /\ i < 2 * Pairs
  BY Numbers DEF Bins
<1>2. i \div 2 \in 0 .. (Pairs - 1) /\ i % 2 \in {0, 1} /\ i = (2 * (i \div 2)) + (i % 2)
  BY <1>1, Numbers
<1> DEFINE k == i \div 2
<1>3. k \in 0 .. (Pairs - 1)
  BY <1>2
<1> HIDE DEF k
<1>4. k + TreeShift - 1 \in Powers /\ k + TreeShift - 1 \in Nat
  BY <1>3, Numbers DEF Powers
<1>5. CASE i = TreeBins - 1
  <2>1. LeftShift(i) = 0
    BY <1>5 DEF LeftShift
  <2>2. 0 \in Powers
    BY Numbers DEF Powers
  <2> QED
    BY <1>2, <1>4, <1>5, <2>1, <2>2, PowerIs DEF k
<1>6. CASE i # TreeBins - 1
  <2>1. LeftShift(i) = WordBits - 1 - (k + TreeShift - 2)
    BY <1>6 DEF LeftShift, k
  <2>2. LeftShift(i) \in Nat /\ LeftShift(i) \in Powers /\ (k + TreeShift - 1) + LeftShift(i) = WordBits
    BY <1>3, <2>1, Numbers DEF Powers
  <2>3. WordBits \in Powers
    BY Numbers DEF Powers
  <2>4. Word = Power[k + TreeShift - 1] * Power[LeftShift(i)]
    BY <1>4, <2>2, <2>3, PowerAdd DEF Word
  <2> QED
    BY <1>2, <1>4, <1>6, <2>2, <2>4 DEF k
<1> QED
  BY <1>5, <1>6

\* The least sizes of two neighbouring bins.
LEMMA MinSizes ==
  ASSUME NEW i \in Bins, NEW p, p = Power[i \div 2 + TreeShift - 1]
  PROVE  /\ p \in Nat \ {0}
         /\ MinSizeForIndex(i) = (2 + (i % 2)) * p
         /\ MinSizeForIndex(i + 1) = (3 + (i % 2)) * p
<1> DEFINE k == i \div 2
<1>1. k \in 0 .. (Pairs - 1) /\ i % 2 \in {0, 1} /\ i = (2 * k) + (i % 2) /\ k + TreeShift - 1 \in Powers
  BY Shifts
<1>2. p = Power[k + TreeShift - 1] /\ MinSizeForIndex(i) = Power[k + TreeShift] + (i % 2) * p
  BY DEF MinSizeForIndex
<1> HIDE DEF k
<1>5. i % 2 = 0 => (i + 1) \div 2 = k /\ (i + 1) % 2 = 1
  <2>1. (k * 2 + 1) \div 2 = k /\ (k * 2 + 1) % 2 = 1
    BY <1>1, DivIs
  <2> QED
    BY <1>1, <2>1
<1>6. i % 2 = 1 => (i + 1) \div 2 = k + 1 /\ (i + 1) % 2 = 0
  <2>1. ((k + 1) * 2 + 0) \div 2 = k + 1 /\ ((k + 1) * 2 + 0) % 2 = 0
    BY <1>1, DivIs
  <2> QED
    BY <1>1, <2>1
<1>3. /\ k + TreeShift \in Powers /\ k + 1 + TreeShift \in Powers
      /\ (k + TreeShift) - 1 = k + TreeShift - 1 /\ (k + 1 + TreeShift) - 1 = k + TreeShift
      /\ k + TreeShift # 0 /\ k + 1 + TreeShift # 0
  BY <1>1, Numbers DEF Powers
<1>4. p \in Nat \ {0} /\ Power[k + TreeShift] = 2 * p /\ Power[k + 1 + TreeShift] = 4 * p
  BY <1>1, <1>2, <1>3, PowerIs
<1>7. CASE i % 2 = 0
  <2>1. MinSizeForIndex(i + 1) = Power[k + TreeShift] + 1 * p
    BY <1>2, <1>5, <1>7 DEF MinSizeForIndex
  <2> QED
    BY <1>2, <1>4, <1>7, <2>1
<1>8. CASE i % 2 = 1
  <2>1. MinSizeForIndex(i + 1) = Power[k + 1 + TreeShift] + 0 * Power[k + 1 + TreeShift - 1]
    BY <1>6, <1>8 DEF MinSizeForIndex
  <2>2. Power[k + 1 + TreeShift - 1] \in Nat
    <3>1. k + 1 + TreeShift - 1 = k + TreeShift
      BY <1>1, Numbers
    <3> QED
      BY <1>3, <3>1, PowerIs
  <2>3. 0 * Power[k + 1 + TreeShift - 1] = 0
    BY <2>2
  <2> QED
    BY <1>2, <1>4, <1>8, <2>1, <2>3
<1> QED
  BY <1>1, <1>4, <1>7, <1>8

\* The highest bit of a number below a power.
LEMMA HighestIs ==
  ASSUME NEW b \in 0 .. WordBits, NEW x \in Nat \ {0}, x < Power[b]
  PROVE  /\ HighestBit(x) \in 0 .. (b - 1)
         /\ Power[HighestBit(x)] <= x /\ x < Power[HighestBit(x) + 1]
<1>1. WordBits \in Nat /\ 0 .. WordBits \subseteq Powers /\ Power[0] = 1
  BY Numbers, PowerIs DEF Powers
<1> DEFINE S == {j \in 0 .. WordBits : x < Power[j]}
<1>2. PICK j \in S : \A m \in S : j <= m
  <2>1. S \in SUBSET Nat /\ b \in S
    BY <1>1
  <2> HIDE DEF S
  <2> QED
    BY <2>1, Least
<1>3. j # 0 /\ j \in 0 .. WordBits /\ x < Power[j]
  BY <1>1, <1>2
<1>4. j - 1 \in 0 .. (WordBits - 1) /\ j - 1 \in 0 .. WordBits /\ j - 1 \notin S /\ (j - 1) + 1 = j
  BY <1>1, <1>2, <1>3
<1>5. Power[j - 1] <= x /\ x < Power[(j - 1) + 1]
  <2>1. Power[j - 1] \in Nat
    BY <1>1, <1>4, PowerIs
  <2> QED
    BY <1>3, <1>4, <2>1
<1>6. HighestBit(x) \in 0 .. (WordBits - 1) /\ Power[HighestBit(x)] <= x /\ x < Power[HighestBit(x) + 1]
  <2>1. \E k \in 0 .. (WordBits - 1) : Power[k] <= x /\ x < Power[k + 1]
    BY <1>4, <1>5
  <2> QED
    BY <2>1 DEF HighestBit
<1> DEFINE k == HighestBit(x)
<1> HIDE DEF k
<1>7. ~(k >= b)
  <2> SUFFICES ASSUME k >= b PROVE FALSE
    OBVIOUS
  <2>1. k \in Powers /\ b \in Powers /\ b <= k
    BY <1>1, <1>6 DEF k
  <2>2. Power[b] <= Power[k] /\ Power[b] \in Nat /\ Power[k] \in Nat
    BY <2>1, PowerGrows, PowerIs
  <2> QED
    BY <1>6, <2>2 DEF k
<1> QED
  BY <1>1, <1>6, <1>7 DEF k

\* The bin index of a word is one; a large size is among the sizes of its bin
\* (sm_compute_tree_index 1267-1288, sm_min_size_for_tree_index 1297).
LEMMA IndexIs ==
  ASSUME NEW n \in Words
  PROVE  /\ TreeIndex(n) \in Bins
         /\ n \in LargeSizes =>
              /\ MinSizeForIndex(TreeIndex(n)) <= n
              /\ TreeIndex(n) = TreeBins - 1 \/ n < MinSizeForIndex(TreeIndex(n) + 1)
<1> DEFINE x == (n \div MinLarge) % Power[IndexBits]
           k == HighestBit(x)
           bit == (n \div Power[k + TreeShift - 1]) % 2
<1>1. n \in Nat /\ n \div MinLarge \in Nat /\ x \in Nat
  <2>1. n \in Nat /\ MinLarge \in Nat \ {0} /\ Power[IndexBits] \in Nat \ {0}
    BY Numbers
  <2>2. n \div MinLarge \in Nat
    BY <2>1, DivMod
  <2> DEFINE q == n \div MinLarge
  <2> HIDE DEF q
  <2>3. q % Power[IndexBits] \in Nat
    <3>1. q \in Nat
      BY <2>2 DEF q
    <3>2. q % Power[IndexBits] \in 0 .. (Power[IndexBits] - 1)
      BY <2>1, <3>1, DivMod
    <3> QED
      BY <2>1, <3>2
  <2> QED
    BY <2>1, <2>2, <2>3 DEF q
<1>2. TreeIndex(n) = CASE x = 0 -> 0 [] x >= Power[Pairs] -> TreeBins - 1 [] OTHER -> (2 * k) + bit
  BY DEF TreeIndex, Pairs
<1>3. Pairs \in Powers /\ Pairs \in 0 .. WordBits /\ Power[Pairs] \in Nat \ {0}
  <2>1. Pairs \in Powers /\ Pairs \in 0 .. WordBits
    BY Numbers DEF Powers
  <2> QED
    BY <2>1, PowerIs
\* A large size loses no bit.
<1>4. ASSUME n \in LargeSizes PROVE x = n \div MinLarge /\ x # 0 /\ x * MinLarge <= n /\ n < (x + 1) * MinLarge
  <2> DEFINE q == n \div MinLarge
             r == n % MinLarge
             t == Power[IndexBits]
  <2>1. n = (q * MinLarge) + r /\ q \in Nat /\ r \in 0 .. (MinLarge - 1)
    BY <1>1, Numbers, DivMod
  <2>2. n >= MinLarge /\ n < MinLarge * t /\ t \in Nat \ {0} /\ MinLarge \in Nat \ {0}
    BY <1>4, Numbers DEF LargeSizes
  <2> HIDE DEF q, r, t
  <2>3. q # 0
    <3>1. q = 0 => n = r
      BY <2>1, <2>2
    <3> QED
      BY <2>1, <2>2, <3>1
  <2>4. q < t
    <3>1. q * MinLarge < t * MinLarge
      <4>1. q * MinLarge \in Nat /\ t * MinLarge = MinLarge * t
        BY <2>1, <2>2, SMTT(30)
      <4> QED
        BY <1>1, <2>1, <2>2, <4>1
    <3> QED
      BY <2>1, <2>2, <3>1, Products
  <2>5. q % t = q
    <3>1. (0 * t + q) % t = q
      BY <2>1, <2>2, <2>4, DivIs
    <3> QED
      BY <2>1, <2>2, <3>1
  <2>6. (q + 1) * MinLarge = q * MinLarge + MinLarge /\ q * MinLarge \in Nat
    BY <2>1, <2>2, SMTT(30)
  <2>7. x = q
    BY <2>5 DEF q, t
  <2> QED
    BY <2>1, <2>2, <2>3, <2>6, <2>7 DEF q
<1> HIDE DEF x
<1>5. CASE x = 0
  BY <1>2, <1>4, <1>5, Numbers DEF Bins
<1>6. CASE x # 0 /\ x >= Power[Pairs]
  <2>1. TreeIndex(n) = TreeBins - 1
    BY <1>2, <1>6
  <2>2. TreeBins - 1 \in Bins
    BY Numbers DEF Bins
  <2>3. ASSUME n \in LargeSizes PROVE MinSizeForIndex(TreeBins - 1) <= n
    <3> DEFINE i == TreeBins - 1
               p == Power[i \div 2 + TreeShift - 1]
    <3>1. i \div 2 = Pairs - 1 /\ i % 2 = 1
      BY Numbers
    <3>2. MinSizeForIndex(i) = (2 + (i % 2)) * p /\ p \in Nat
      BY <2>2, MinSizes
    <3>3. i \div 2 + TreeShift - 1 = Pairs + TreeShift - 2
      BY <3>1, Numbers
    <3>4. /\ Pairs + TreeShift - 2 \in Powers /\ Pairs + TreeShift - 1 \in Powers /\ Pairs + TreeShift \in Powers
          /\ (Pairs + TreeShift) - 1 = Pairs + TreeShift - 1 /\ (Pairs + TreeShift - 1) - 1 = Pairs + TreeShift - 2
          /\ Pairs + TreeShift # 0 /\ Pairs + TreeShift - 1 # 0
      BY Numbers DEF Powers
    <3>5. Power[Pairs + TreeShift] = 4 * p
      BY <3>2, <3>3, <3>4, PowerIs
    <3>6. Power[Pairs + TreeShift] = Power[Pairs] * MinLarge
      BY <3>4, Numbers, PowerAdd DEF MinLarge
    <3>7. Power[Pairs] * MinLarge <= x * MinLarge /\ x * MinLarge \in Nat
      <4>1. x \in Nat /\ MinLarge \in Nat \ {0} /\ ~(x < Power[Pairs])
        BY <1>1, <1>3, <1>6, Numbers
      <4>2. ~(x * MinLarge < Power[Pairs] * MinLarge) /\ x * MinLarge \in Nat /\ Power[Pairs] * MinLarge \in Nat
        BY <1>3, <4>1, Products
      <4> QED
        BY <4>2
    <3>8. 4 * p <= n
      BY <1>1, <1>4, <2>3, <3>2, <3>5, <3>6, <3>7
    <3>9. (2 + (i % 2)) * p = 3 * p
      BY <3>1
    <3> HIDE DEF p, i
    <3>10. MinSizeForIndex(i) <= n
      BY <1>1, <3>2, <3>8, <3>9
    <3> QED
      BY <3>10 DEF i
  <2> QED
    BY <2>1, <2>2, <2>3
<1>7. CASE x # 0 /\ ~(x >= Power[Pairs])
  <2>1. k \in 0 .. (Pairs - 1) /\ Power[k] <= x /\ x < Power[k + 1]
    BY <1>1, <1>3, <1>7, HighestIs
  <2>2. TreeIndex(n) = (2 * k) + bit
    BY <1>2, <1>7
  <2> DEFINE p == Power[k + TreeShift - 1]
  <2>3. /\ k + TreeShift - 1 \in Powers /\ k + TreeShift \in Powers /\ k + 1 + TreeShift \in Powers
        /\ (k + TreeShift) - 1 = k + TreeShift - 1 /\ (k + 1 + TreeShift) - 1 = k + TreeShift
        /\ k + TreeShift # 0 /\ k + 1 + TreeShift # 0
    BY <2>1, Numbers DEF Powers
  <2>4. p \in Nat \ {0} /\ Power[k + TreeShift] = 2 * p /\ Power[k + 1 + TreeShift] = 4 * p
    BY <2>3, PowerIs
  <2> HIDE DEF k
  <2>5. bit = (n \div p) % 2 /\ bit \in {0, 1}
    <3>1. n \div p \in Nat
      BY <1>1, <2>4, DivMod
    <3> HIDE DEF p
    <3> QED
      BY <3>1 DEF p
  <2> HIDE DEF bit
  <2>6. TreeIndex(n) \in Bins /\ TreeIndex(n) \div 2 = k /\ TreeIndex(n) % 2 = bit
    <3>1. (k * 2 + bit) \div 2 = k /\ (k * 2 + bit) % 2 = bit
      <4>1. k \in Nat /\ bit \in Nat /\ bit < 2 /\ 2 \in Nat \ {0}
        BY <2>1, <2>5
      <4> HIDE DEF p
      <4> QED
        BY ONLY <4>1, DivIs
    <3>2. TreeIndex(n) = k * 2 + bit
      BY <2>1, <2>2, <2>5
    <3>3. k * 2 + bit \in 0 .. (2 * Pairs - 1)
      BY <2>1, <2>5, Numbers
    <3> QED
      BY <3>1, <3>2, <3>3, Numbers DEF Bins
  <2>7. MinSizeForIndex(TreeIndex(n)) = (2 + bit) * p /\ MinSizeForIndex(TreeIndex(n) + 1) = (3 + bit) * p
    BY <2>6, MinSizes
  <2>8. ASSUME n \in LargeSizes PROVE (2 + bit) * p <= n /\ n < (3 + bit) * p
    <3>1. Power[k + TreeShift] = Power[k] * MinLarge /\ Power[k + 1 + TreeShift] = Power[k + 1] * MinLarge
      BY <2>1, <2>3, Numbers, PowerAdd DEF MinLarge
    <3>2. k \in Powers /\ k + 1 \in Powers
      BY <2>1, Numbers DEF Powers
    <3>3. Power[k] \in Nat /\ Power[k + 1] \in Nat
      BY <3>2, PowerIs
    <3>4. Power[k] * MinLarge <= x * MinLarge
      <4>1. ~(x * MinLarge < Power[k] * MinLarge) /\ x * MinLarge \in Nat /\ Power[k] * MinLarge \in Nat
        BY <1>1, <2>1, <3>3, Numbers, Products
      <4> QED
        BY <4>1
    <3>5. (x + 1) * MinLarge <= Power[k + 1] * MinLarge
      <4>1. x + 1 \in Nat /\ ~(Power[k + 1] < x + 1)
        BY <1>1, <2>1, <3>3
      <4>2. ~(Power[k + 1] * MinLarge < (x + 1) * MinLarge) /\ (x + 1) * MinLarge \in Nat /\ Power[k + 1] * MinLarge \in Nat
        BY <3>3, <4>1, Numbers, Products
      <4> QED
        BY <4>2
    <3>6. 2 * p <= n /\ n < 4 * p
      <4>1. x * MinLarge \in Nat /\ (x + 1) * MinLarge \in Nat
        BY <1>1, Numbers, Products
      <4> QED
        BY <1>1, <1>4, <2>4, <2>8, <3>1, <3>4, <3>5, <4>1
    <3> HIDE DEF p
    <3>7. CASE n < 3 * p
      <4>1. (2 * p + (n - 2 * p)) \div p = 2
        <5>1. n - 2 * p \in Nat /\ n - 2 * p < p
          BY <1>1, <2>4, <3>6, <3>7
        <5> QED
          BY <2>4, <5>1, DivIs
      <4>2. 2 * p + (n - 2 * p) = n
        BY <1>1, <2>4
      <4>3. bit = 0
        BY <2>5, <4>1, <4>2
      <4> QED
        BY <2>4, <3>6, <3>7, <4>3
    <3>8. CASE ~(n < 3 * p)
      <4>1. (3 * p + (n - 3 * p)) \div p = 3
        <5>1. n - 3 * p \in Nat /\ n - 3 * p < p
          BY <1>1, <2>4, <3>6, <3>8
        <5> QED
          BY <2>4, <5>1, DivIs
      <4>2. 3 * p + (n - 3 * p) = n
        BY <1>1, <2>4
      <4>3. bit = 1
        BY <2>5, <4>1, <4>2
      <4> QED
        BY <1>1, <2>4, <3>6, <3>8, <4>3
    <3> QED
      BY <3>7, <3>8
  <2> QED
    BY <2>6, <2>7, <2>8
<1> QED
  BY <1>5, <1>6, <1>7

\* The bins hold sizes in their order.
LEMMA LaterBins ==
  ASSUME NEW m \in LargeSizes, NEW n \in LargeSizes, TreeIndex(m) < TreeIndex(n)
  PROVE  m < n
<1> DEFINE i == TreeIndex(m)
           j == TreeIndex(n)
           p == Power[i \div 2 + TreeShift - 1]
           q == Power[j \div 2 + TreeShift - 1]
<1>1. m \in Words /\ n \in Words /\ m \in Nat /\ n \in Nat
  BY Numbers
<1>2. i \in Bins /\ j \in Bins /\ i < j /\ i # TreeBins - 1
  BY <1>1, IndexIs, Numbers DEF Bins
<1>3. m < MinSizeForIndex(i + 1) /\ MinSizeForIndex(j) <= n
  BY <1>1, <1>2, IndexIs
<1> HIDE DEF i, j
<1>4. /\ p \in Nat \ {0} /\ MinSizeForIndex(i + 1) = (3 + (i % 2)) * p
      /\ q \in Nat \ {0} /\ MinSizeForIndex(j) = (2 + (j % 2)) * q
  BY <1>2, MinSizes
<1>5. /\ i \div 2 \in 0 .. (Pairs - 1) /\ i % 2 \in {0, 1} /\ i = (2 * (i \div 2)) + (i % 2)
      /\ j \div 2 \in 0 .. (Pairs - 1) /\ j % 2 \in {0, 1} /\ j = (2 * (j \div 2)) + (j % 2)
      /\ i \div 2 + TreeShift - 1 \in Powers /\ j \div 2 + TreeShift - 1 \in Powers
  BY <1>2, Shifts
<1> DEFINE a == i \div 2
           b == j \div 2
           u == i % 2
           v == j % 2
<1>6. a < b \/ (a = b /\ u = 0 /\ v = 1)
  <2> HIDE DEF a, b, u, v
  <2>1. a \in Nat /\ b \in Nat /\ u \in {0, 1} /\ v \in {0, 1} /\ i = 2 * a + u /\ j = 2 * b + v /\ i < j
    BY <1>2, <1>5 DEF a, b, u, v
  <2> QED
    BY <2>1
<1>7. CASE a < b
  <2>1. 2 * p <= q
    <3>1. a + TreeShift - 1 < b + TreeShift - 1
      BY <1>5, <1>7, Numbers
    <3> QED
      BY <1>5, <3>1, PowerGrows, Numbers DEF Powers
  <2>2. (3 + u) * p <= 4 * p /\ 2 * q <= (2 + v) * q
    <3> HIDE DEF p, q, u, v
    <3>1. u \in {0, 1} /\ v \in {0, 1}
      BY <1>5 DEF u, v
    <3> QED
      BY <1>4, <3>1
  <2> HIDE DEF p, q, u, v, a, b
  <2>3. (3 + u) * p \in Nat /\ (2 + v) * q \in Nat
    <3>1. u \in {0, 1} /\ v \in {0, 1}
      BY <1>5 DEF u, v
    <3> QED
      BY <1>4, <3>1
  <2>4. MinSizeForIndex(i + 1) <= MinSizeForIndex(j) /\ MinSizeForIndex(i + 1) \in Nat /\ MinSizeForIndex(j) \in Nat
    <3>1. MinSizeForIndex(i + 1) = (3 + u) * p /\ MinSizeForIndex(j) = (2 + v) * q
      BY <1>4 DEF u, v
    <3> QED
      BY <1>4, <2>1, <2>2, <2>3, <3>1
  <2> QED
    BY <1>1, <1>3, <2>4
<1>8. CASE a = b /\ u = 0 /\ v = 1
  <2>1. p = q
    BY <1>8
  <2>2. MinSizeForIndex(i + 1) = 3 * p /\ MinSizeForIndex(j) = 3 * p
    BY <1>4, <1>8, <2>1
  <2> HIDE DEF p, q
  <2> QED
    BY <1>1, <1>3, <1>4, <2>2
<1> QED
  BY <1>6, <1>7, <1>8

\* Within a bin the keys have the order of the sizes.
LEMMA KeysOrder ==
  ASSUME NEW m \in LargeSizes, NEW n \in LargeSizes, TreeIndex(m) = TreeIndex(n)
  PROVE  FirstKey(m) < FirstKey(n) <=> m < n
<1> DEFINE i == TreeIndex(n)
           q == Power[LeftShift(i)]
<1>1. m \in Words /\ n \in Words /\ m \in Nat /\ n \in Nat /\ m < Word /\ n < Word
  BY Numbers DEF Words
<1>2. i \in Bins /\ LeftShift(i) \in Powers
  BY <1>1, IndexIs, Shifts
<1>3. FirstKey(m) = (m * q) % Word /\ FirstKey(n) = (n * q) % Word /\ q \in Nat \ {0}
  BY <1>2, PowerIs DEF FirstKey, ShiftLeft
<1>4. CASE i = TreeBins - 1
  <2>1. q = 1
    BY <1>2, <1>4, Shifts
  <2>2. (0 * Word + m) % Word = m /\ (0 * Word + n) % Word = n
    <3>1. Word \in Nat \ {0}
      BY Numbers
    <3>2. (0 * Word + m) % Word = m
      BY <1>1, <3>1, DivIs
    <3>3. (0 * Word + n) % Word = n
      BY <1>1, <3>1, DivIs
    <3> QED
      BY <3>2, <3>3
  <2>3. 0 * Word + m = m * q /\ 0 * Word + n = n * q
    BY <1>1, <2>1, Numbers
  <2> QED
    BY <1>3, <2>2, <2>3
<1>5. CASE i # TreeBins - 1
  <2> DEFINE p == Power[i \div 2 + TreeShift - 1]
             z == 2 + (i % 2)
  <2>1. p \in Nat \ {0} /\ MinSizeForIndex(i) = z * p /\ MinSizeForIndex(i + 1) = (3 + (i % 2)) * p
    BY <1>2, MinSizes
  <2>2. /\ MinSizeForIndex(i) <= n /\ n < MinSizeForIndex(i + 1)
        /\ MinSizeForIndex(i) <= m /\ m < MinSizeForIndex(i + 1)
    BY <1>1, <1>5, IndexIs
  <2>3. i % 2 \in {0, 1} /\ Word = p * q
    BY <1>2, <1>5, Shifts
  <2>4. z \in Nat /\ z * p \in Nat /\ (3 + (i % 2)) * p = z * p + p
    <3> HIDE DEF p
    <3> QED
      BY <2>1, <2>3
  <2> DEFINE c == z * p
  <2> HIDE DEF p, q, i
  <2>5. m - c \in Nat /\ m - c < p /\ n - c \in Nat /\ n - c < p /\ c \in Nat
    BY <1>1, <2>1, <2>2, <2>4
  <2>6. ASSUME NEW x \in Nat, x - c \in Nat, x - c < p PROVE (x * q) % Word = (x - c) * q
    <3> DEFINE r == x - c
    <3> HIDE DEF c, z
    <3>1. r \in Nat /\ r < p /\ x = c + r /\ c \in Nat
      BY <2>5, <2>6
    <3> HIDE DEF r
    <3>2. r * q \in Nat /\ r * q < p * q
      BY <1>3, <2>1, <3>1, Products
    <3>3. x * q = (c * q) + (r * q)
      BY <1>3, <3>1, SMTT(30)
    <3>4. c * q = z * Word
      <4>1. (z * p) * q = z * (p * q)
        BY <1>3, <2>1, <2>4, SMTT(30)
      <4> QED
        BY <2>3, <4>1 DEF c
    <3>5. (z * Word + r * q) % Word = r * q
      <4> DEFINE w == r * q
      <4>1. Word \in Nat \ {0} /\ z \in Nat /\ w \in Nat /\ w < Word
        BY <2>3, <2>4, <3>2, Numbers
      <4> HIDE DEF w
      <4>2. (z * Word + w) % Word = w
        BY ONLY <4>1, DivIs
      <4> QED
        BY <4>2 DEF w
    <3> QED
      BY <3>3, <3>4, <3>5 DEF r
  <2>7. FirstKey(m) = (m - c) * q /\ FirstKey(n) = (n - c) * q
    BY <1>1, <1>3, <2>5, <2>6
  <2>8. (m - c) * q < (n - c) * q <=> m - c < n - c
    BY <1>3, <2>5, Products
  <2> HIDE DEF c
  <2> QED
    BY <1>1, <2>5, <2>7, <2>8
<1> QED
  BY <1>4, <1>5

\* A walk starts with a word.
LEMMA FirstIs ==
  ASSUME NEW n \in Words
  PROVE  FirstKey(n) \in Words
<1> DEFINE q == Power[LeftShift(TreeIndex(n))]
<1>1. q \in Nat \ {0} /\ n \in Nat
  BY IndexIs, Shifts, PowerIs, Numbers
<1> HIDE DEF q
<1>2. n * q \in Nat
  BY <1>1, SMTT(30)
<1>3. (n * q) % Word \in 0 .. (Word - 1)
  <2> DEFINE y == n * q
  <2>1. y \in Nat /\ Word \in Nat \ {0}
    BY <1>2, Numbers
  <2> HIDE DEF y
  <2>2. y % Word \in 0 .. (Word - 1)
    BY <2>1, DivMod
  <2> QED
    BY <2>2 DEF y
<1> QED
  BY <1>3 DEF FirstKey, ShiftLeft, Words, q

\* One turn more.
LEMMA AfterMore ==
  ASSUME NEW turn, NEW start, NEW n \in Nat
  PROVE  /\ After(turn, start, 0) = start
         /\ After(turn, start, n + 1) = turn[After(turn, start, n)]
<1>1. PICK f : /\ After(turn, start, n) = f[n] /\ f[0] = start
               /\ \A k \in 0 .. n : k # 0 => f[k] = turn[f[k - 1]]
  BY AfterIs
<1>2. PICK g : /\ After(turn, start, n + 1) = g[n + 1] /\ g[0] = start
               /\ \A k \in 0 .. (n + 1) : k # 0 => g[k] = turn[g[k - 1]]
  <2>1. n + 1 \in Nat
    OBVIOUS
  <2> QED
    BY <2>1, AfterIs
<1>3. PICK z : After(turn, start, 0) = z[0] /\ z[0] = start
  <2>1. 0 \in Nat
    OBVIOUS
  <2> QED
    BY <2>1, AfterIs
<1> DEFINE bad == {k \in 0 .. n : f[k] # g[k]}
<1>4. bad = {}
  <2> SUFFICES ASSUME bad # {} PROVE FALSE
    OBVIOUS
  <2>1. PICK k \in bad : \A m \in bad : k <= m
    <3>1. bad \in SUBSET Nat
      OBVIOUS
    <3> HIDE DEF bad
    <3> QED
      BY <3>1, Least
  <2>2. k # 0 /\ k \in 0 .. n /\ k \in 0 .. (n + 1) /\ k - 1 \in 0 .. n
    BY <1>1, <1>2, <2>1
  <2>3. k - 1 \notin bad
    BY <2>1, <2>2
  <2>4. f[k - 1] = g[k - 1]
    BY <2>2, <2>3
  <2> QED
    BY <1>1, <1>2, <2>1, <2>2, <2>4
<1>5. f[n] = g[n]
  BY <1>4
<1>6. n + 1 \in 0 .. (n + 1) /\ n + 1 # 0 /\ (n + 1) - 1 = n
  OBVIOUS
<1>7. g[n + 1] = turn[g[n]]
  BY <1>2, <1>6
<1> QED
  BY <1>1, <1>2, <1>3, <1>5, <1>7

----------------------------------------------------------------------------
(* The way of a size down the trie of its bin. *)

\* The key of size n after k turns, and the bit it turns on next.
KeyAt(n, k) == After([x \in Words |-> ShiftLeft(x, 1)], FirstKey(n), k)
Bit(n, k) == SignBit(KeyAt(n, k))

\* Two sizes go the same way for k turns.
Agree(m, n, k) == \A j \in 0 .. (k - 1) : Bit(m, j) = Bit(n, j)

\* Keys are words, and a turn shifts the key.
LEMMA Keys ==
  ASSUME NEW n \in Words, NEW k \in Nat
  PROVE  /\ KeyAt(n, k) \in Words /\ Bit(n, k) \in {0, 1}
         /\ KeyAt(n, 0) = FirstKey(n) /\ KeyAt(n, k + 1) = ShiftLeft(KeyAt(n, k), 1)
<1> DEFINE turn == [x \in Words |-> ShiftLeft(x, 1)]
<1>1. \A x \in Words : turn[x] \in Words
  BY Signs
<1>2. After(turn, FirstKey(n), k) \in Words
  <2> HIDE DEF turn
  <2> QED
    BY <1>1, FirstIs, AfterKeeps
<1>3. After(turn, FirstKey(n), 0) = FirstKey(n) /\ After(turn, FirstKey(n), k + 1) = turn[After(turn, FirstKey(n), k)]
  <2> HIDE DEF turn
  <2> QED
    BY AfterMore
<1>4. KeyAt(n, k) \in Words /\ KeyAt(n, 0) = FirstKey(n) /\ KeyAt(n, k + 1) = ShiftLeft(KeyAt(n, k), 1)
  BY <1>2, <1>3 DEF KeyAt
<1> QED
  BY <1>4, Signs DEF Bit

\* A step where the ways are the same keeps the order of the keys.
LEMMA SameSign ==
  ASSUME NEW x \in Words, NEW y \in Words, SignBit(x) = SignBit(y), ShiftLeft(x, 1) < ShiftLeft(y, 1)
  PROVE  x < y
<1>1. /\ SignBit(x) = (IF x < Half THEN 0 ELSE 1) /\ SignBit(y) = (IF y < Half THEN 0 ELSE 1)
      /\ ShiftLeft(x, 1) = (IF x < Half THEN 2 * x ELSE 2 * x - Word)
      /\ ShiftLeft(y, 1) = (IF y < Half THEN 2 * y ELSE 2 * y - Word)
  BY Signs
<1>2. x \in Nat /\ y \in Nat /\ Half \in Nat /\ Word \in Nat
  BY Numbers
<1>3. x < Half <=> y < Half
  <2>1. (x < Half => SignBit(x) = 0) /\ (~(x < Half) => SignBit(x) = 1)
    BY Signs
  <2>2. (y < Half => SignBit(y) = 0) /\ (~(y < Half) => SignBit(y) = 1)
    BY Signs
  <2> QED
    BY <2>1, <2>2
<1>4. 2 * x < 2 * y
  <2>1. CASE x < Half
    BY <1>1, <1>3, <2>1
  <2>2. CASE ~(x < Half)
    <3>1. 2 * x - Word < 2 * y - Word
      BY <1>1, <1>3, <2>2
    <3> QED
      BY <1>2, <3>1
  <2> QED
    BY <2>1, <2>2
<1> QED
  BY <1>2, <1>4

\* Of two sizes of a bin the one that turns left first is the smaller.
LEMMA LeftIsLess ==
  ASSUME NEW m \in LargeSizes, NEW n \in LargeSizes, TreeIndex(m) = TreeIndex(n),
         NEW k \in Nat, Agree(m, n, k), Bit(m, k) = 0, Bit(n, k) = 1
  PROVE  m < n
<1>1. m \in Words /\ n \in Words
  BY Numbers
<1> DEFINE bad == {d \in Nat : d <= k /\ ~(KeyAt(m, k - d) < KeyAt(n, k - d))}
<1>2. bad = {}
  <2> SUFFICES ASSUME bad # {} PROVE FALSE
    OBVIOUS
  <2>1. PICK d \in bad : \A e \in bad : d <= e
    <3>1. bad \in SUBSET Nat
      OBVIOUS
    <3> HIDE DEF bad
    <3> QED
      BY <3>1, Least
  <2>2. CASE d = 0
    <3>1. k - d = k /\ KeyAt(m, k) \in Words /\ KeyAt(n, k) \in Words
      BY <1>1, <2>2, Keys
    <3>2. KeyAt(m, k) < Half /\ ~(KeyAt(n, k) < Half)
      <4>1. /\ SignBit(KeyAt(m, k)) = IF KeyAt(m, k) < Half THEN 0 ELSE 1
            /\ SignBit(KeyAt(n, k)) = IF KeyAt(n, k) < Half THEN 0 ELSE 1
        BY <3>1, Signs
      <4> QED
        BY <4>1 DEF Bit
    <3>3. KeyAt(m, k) \in Nat /\ KeyAt(n, k) \in Nat /\ Half \in Nat
      BY <3>1, Numbers
    <3> QED
      BY <2>1, <3>1, <3>2, <3>3
  <2>3. CASE d # 0
    <3> DEFINE j == k - d
    <3>1. j \in Nat /\ j \in 0 .. (k - 1) /\ d - 1 \in Nat /\ d - 1 <= k /\ k - (d - 1) = j + 1 /\ d - 1 \notin bad
      BY <2>1, <2>3
    <3>2. KeyAt(m, j + 1) < KeyAt(n, j + 1)
      BY <3>1
    <3>3. Bit(m, j) = Bit(n, j)
      BY <3>1 DEF Agree
    <3>4. ~(KeyAt(m, j) < KeyAt(n, j))
      BY <2>1
    <3> HIDE DEF j, bad
    <3>5. /\ KeyAt(m, j + 1) = ShiftLeft(KeyAt(m, j), 1) /\ KeyAt(m, j) \in Words
          /\ KeyAt(n, j + 1) = ShiftLeft(KeyAt(n, j), 1) /\ KeyAt(n, j) \in Words
      BY <1>1, <3>1, Keys
    <3>6. SignBit(KeyAt(m, j)) = SignBit(KeyAt(n, j)) /\ ShiftLeft(KeyAt(m, j), 1) < ShiftLeft(KeyAt(n, j), 1)
      BY <3>2, <3>3, <3>5 DEF Bit
    <3>7. KeyAt(m, j) < KeyAt(n, j)
      BY <3>5, <3>6, SameSign
    <3> QED
      BY <3>4, <3>7
  <2> QED
    BY <2>2, <2>3
<1>3. k \notin bad
  BY <1>2
<1>4. KeyAt(m, 0) < KeyAt(n, 0)
  <2>1. KeyAt(m, k - k) < KeyAt(n, k - k)
    BY <1>3
  <2> HIDE DEF bad
  <2>2. k - k = 0
    OBVIOUS
  <2> QED
    BY <2>1, <2>2
<1>5. FirstKey(m) < FirstKey(n)
  <2>1. KeyAt(m, 0) = FirstKey(m) /\ KeyAt(n, 0) = FirstKey(n)
    BY <1>1, Keys
  <2> QED
    BY <1>4, <2>1
<1> QED
  BY <1>5, KeysOrder

\* Agreement is an equivalence, and weaker for fewer turns.
LEMMA Agreements ==
  ASSUME NEW l, NEW m, NEW n, NEW k \in Nat
  PROVE  /\ Agree(m, m, k) /\ Agree(m, n, 0) /\ (Agree(m, n, k) => Agree(n, m, k))
         /\ Agree(l, m, k) /\ Agree(m, n, k) => Agree(l, n, k)
         /\ Agree(m, n, k + 1) <=> Agree(m, n, k) /\ Bit(m, k) = Bit(n, k)
         /\ \A j \in 0 .. k : Agree(m, n, k) => Agree(m, n, j)
<1>1. 0 .. k = (0 .. (k - 1)) \cup {k}
  OBVIOUS
<1>2. (k + 1) - 1 = k /\ \A j \in 0 .. k : 0 .. (j - 1) \subseteq 0 .. (k - 1)
  OBVIOUS
<1>3. 0 .. (0 - 1) = {}
  OBVIOUS
<1> QED
  BY <1>1, <1>2, <1>3 DEF Agree

----------------------------------------------------------------------------
(* What well-formed tree bins are. *)

Held(h) == DOMAIN h.node

\* A chunk of a trie, and not only of a ring that hangs on one.
InTrie(h, c) == h.node[c].parent # None

\* A node of the trie, with its pointers among N.
NodeFields == {"index", "size", "parent", "forward", "backward", "child"}

IsNode(x, N) ==
  /\ x = [f \in NodeFields |-> x[f]]
  /\ x.size \in LargeSizes /\ x.index = TreeIndex(x.size)
  /\ x.parent \in N \cup {Head, None} /\ x.forward \in N /\ x.backward \in N
  /\ x.child = [s \in {0, 1} |-> x.child[s]]
  /\ x.child[0] \in N \cup {None} /\ x.child[1] \in N \cup {None}

\* The bins and the chunks have their types; the map says which bins hold some.
Typed(h) ==
  /\ h = [f \in {"bin", "map", "node"} |-> h[f]]
  /\ Held(h) \subseteq Chunk /\ h.node = [c \in Held(h) |-> h.node[c]]
  /\ h.bin \in [Bins -> Held(h) \cup {None}]
  /\ h.map = {i \in Bins : h.bin[i] # None}
  /\ \A c \in Held(h) : IsNode(h.node[c], Held(h))

\* Forward and backward are each other's inverse, and keep the size; a chunk that is not in
\* the trie has no children.
Linked(h, c) ==
  LET x == h.node[c]
  IN  /\ h.node[x.forward].backward = c /\ h.node[x.backward].forward = c
      /\ h.node[x.forward].size = x.size /\ h.node[x.backward].size = x.size
      /\ x.parent = None => x.child[0] = None /\ x.child[1] = None

\* A set that the forward pointers do not leave.
Closed(h, S) == \A d \in S : h.node[d].forward \in S

\* Chunks of one size.
SameSize(h, c, d) == h.node[c].size = h.node[d].size

\* The chunks of a size are one ring, with one chunk of the trie in it.
Rings(h) ==
  /\ \A c \in Held(h) : Linked(h, c) /\ \E d \in Held(h) : InTrie(h, d) /\ SameSize(h, d, c)
  /\ \A c, d \in Held(h) : InTrie(h, c) /\ InTrie(h, d) /\ SameSize(h, c, d) => c = d
  /\ \A c, d \in Held(h), S \in SUBSET Held(h) :
        c \in S /\ Closed(h, S) /\ SameSize(h, c, d) => d \in S

\* Parents and children agree, and roots and bins.
Links(h) ==
  /\ \A i \in Bins : h.bin[i] # None =>
        h.node[h.bin[i]].parent = Head /\ h.node[h.bin[i]].index = i
  /\ \A c \in Held(h) : h.node[c].parent = Head => h.bin[h.node[c].index] = c
  /\ \A c \in Held(h) : h.node[c].parent \in Held(h) =>
        LET p == h.node[c].parent
        IN  /\ InTrie(h, p) /\ h.node[p].index = h.node[c].index
            /\ c = h.node[p].child[0] \/ c = h.node[p].child[1]
  /\ \A c \in Held(h), s \in {0, 1} : h.node[c].child[s] # None =>
        h.node[h.node[c].child[s]].parent = c

\* D is the depth in the trie; a child goes its parent's way so far, and then its side.
Deep(h, D) ==
  /\ \A c \in Held(h) : D[c] \in Nat /\ (h.node[c].parent = Head => D[c] = 0)
  /\ \A c \in Held(h), s \in {0, 1} :
        LET k == h.node[c].child[s]
        IN  k # None => /\ D[k] = D[c] + 1
                        /\ Agree(h.node[k].size, h.node[c].size, D[c])
                        /\ Bit(h.node[k].size, D[c]) = s

\* A forest of tries that is as it should be: the inductive invariant of the bins.
Trees(h) == Typed(h) /\ Rings(h) /\ Links(h) /\ \E D : Deep(h, D)

\* d is a chunk of the trie of the bin of t, as deep as t or deeper, and went t's way to t.
Under(h, D, t, d) ==
  /\ InTrie(h, d) /\ h.node[d].index = h.node[t].index
  /\ D[d] >= D[t] /\ Agree(h.node[d].size, h.node[t].size, D[t])

\* The parent of a chunk of a trie that is not the root.
LEMMA Parents ==
  ASSUME NEW h, Typed(h), Links(h), NEW D, Deep(h, D), NEW c \in Held(h), InTrie(h, c), D[c] # 0
  PROVE  \E p \in Held(h), s \in {0, 1} :
            /\ h.node[c].parent = p /\ h.node[p].child[s] = c /\ InTrie(h, p)
            /\ h.node[p].index = h.node[c].index
            /\ D[c] = D[p] + 1 /\ D[p] \in Nat /\ D[p] = D[c] - 1
            /\ Agree(h.node[c].size, h.node[p].size, D[p]) /\ Bit(h.node[c].size, D[p]) = s
<1> DEFINE p == h.node[c].parent
<1>1. p \in Held(h)
  BY DEF Typed, IsNode, InTrie, Deep
<1>2. InTrie(h, p) /\ h.node[p].index = h.node[c].index /\ (c = h.node[p].child[0] \/ c = h.node[p].child[1])
  BY <1>1 DEF Links
<1>3. PICK s \in {0, 1} : c = h.node[p].child[s]
  BY <1>2
<1>4. c # None
  BY TreeBinAssumption DEF Typed
<1>5. D[c] = D[p] + 1 /\ Agree(h.node[c].size, h.node[p].size, D[p]) /\ Bit(h.node[c].size, D[p]) = s /\ D[p] \in Nat
  BY <1>1, <1>3, <1>4 DEF Deep
<1>6. D[p] = D[c] - 1
  BY <1>5
<1> HIDE DEF p
<1> WITNESS p \in Held(h), s \in {0, 1}
<1> QED
  BY <1>2, <1>3, <1>5, <1>6 DEF p

\* A place in a trie is taken once.
LEMMA PlacesDiffer ==
  ASSUME NEW h, Typed(h), Links(h), NEW D, Deep(h, D), NEW c \in Held(h), NEW d \in Held(h),
         InTrie(h, c), InTrie(h, d), h.node[c].index = h.node[d].index, D[c] = D[d],
         Agree(h.node[c].size, h.node[d].size, D[c])
  PROVE  c = d
<1> DEFINE Pair(k, a, b) ==
              /\ InTrie(h, a) /\ InTrie(h, b) /\ h.node[a].index = h.node[b].index
              /\ D[a] = k /\ D[b] = k /\ Agree(h.node[a].size, h.node[b].size, k) /\ a # b
           bad == {k \in Nat : \E a, b \in Held(h) : Pair(k, a, b)}
<1> SUFFICES ASSUME c # d PROVE FALSE
  OBVIOUS
<1>1. D[c] \in bad
  BY DEF Deep
<1>2. PICK k \in bad : \A m \in bad : k <= m
  <2>1. bad \in SUBSET Nat /\ bad # {}
    BY <1>1
  <2> HIDE DEF bad
  <2> QED
    BY <2>1, Least
<1>3. PICK a, b \in Held(h) : Pair(k, a, b)
  BY <1>2
<1>4. k \in Nat
  BY <1>2
<1>5. CASE k = 0
  <2>1. ASSUME NEW e \in Held(h), InTrie(h, e), D[e] = 0 PROVE h.node[e].parent = Head
    <3>1. SUFFICES ASSUME h.node[e].parent \in Held(h) PROVE FALSE
      BY <2>1 DEF Typed, IsNode, InTrie
    <3> DEFINE p == h.node[e].parent
    <3>2. PICK s \in {0, 1} : e = h.node[p].child[s]
      BY <3>1 DEF Links
    <3>3. e # None
      BY TreeBinAssumption DEF Typed
    <3>4. D[e] = D[p] + 1 /\ D[p] \in Nat
      BY <3>1, <3>2, <3>3 DEF Deep
    <3> QED
      BY <2>1, <3>4
  <2>2. h.node[a].parent = Head /\ h.node[b].parent = Head
    BY <1>3, <1>5, <2>1
  <2> QED
    BY <1>3, <2>2 DEF Links
<1>6. CASE k # 0
  <2>1. PICK p \in Held(h), s \in {0, 1} :
            /\ h.node[a].parent = p /\ h.node[p].child[s] = a /\ InTrie(h, p)
            /\ h.node[p].index = h.node[a].index
            /\ D[a] = D[p] + 1 /\ D[p] \in Nat /\ D[p] = D[a] - 1
            /\ Agree(h.node[a].size, h.node[p].size, D[p]) /\ Bit(h.node[a].size, D[p]) = s
    BY <1>3, <1>6, Parents
  <2>2. PICK q \in Held(h), t \in {0, 1} :
            /\ h.node[b].parent = q /\ h.node[q].child[t] = b /\ InTrie(h, q)
            /\ h.node[q].index = h.node[b].index
            /\ D[b] = D[q] + 1 /\ D[q] \in Nat /\ D[q] = D[b] - 1
            /\ Agree(h.node[b].size, h.node[q].size, D[q]) /\ Bit(h.node[b].size, D[q]) = t
    BY <1>3, <1>6, Parents
  <2>3. k - 1 \in Nat /\ D[p] = k - 1 /\ D[q] = k - 1 /\ (k - 1) + 1 = k
    BY <1>3, <1>4, <2>1, <2>2
  <2>4. Agree(h.node[a].size, h.node[b].size, k - 1) /\ Bit(h.node[a].size, k - 1) = Bit(h.node[b].size, k - 1)
    BY <1>3, <2>3, Agreements
  <2>5. Agree(h.node[p].size, h.node[q].size, k - 1)
    <3>1. Agree(h.node[p].size, h.node[a].size, k - 1)
      BY <2>1, <2>3, Agreements
    <3>2. Agree(h.node[p].size, h.node[b].size, k - 1)
      BY <2>3, <2>4, <3>1, Agreements
    <3> QED
      BY <2>2, <2>3, <3>2, Agreements
  <2>6. p = q
    <3>1. k - 1 \notin bad
      BY <1>2, <1>4, <2>3
    <3>2. ~Pair(k - 1, p, q)
      BY <2>3, <3>1
    <3> QED
      BY <1>3, <2>1, <2>2, <2>3, <2>5, <3>2
  <2>7. s = t
    BY <2>1, <2>2, <2>3, <2>4
  <2> QED
    BY <1>3, <2>1, <2>2, <2>6, <2>7
<1> QED
  BY <1>5, <1>6

\* What is under a chunk, and not the chunk, is under the child on its way.
LEMMA Below ==
  ASSUME NEW h, Typed(h), Links(h), NEW D, Deep(h, D), NEW t \in Held(h), NEW d \in Held(h),
         InTrie(h, t), Under(h, D, t, d), d # t
  PROVE  LET k == h.node[t].child[Bit(h.node[d].size, D[t])]
         IN  k # None /\ k \in Held(h) /\ InTrie(h, k) /\ Under(h, D, k, d)
<1> DEFINE On(e) == /\ InTrie(h, e) /\ h.node[e].index = h.node[t].index /\ D[e] > D[t] /\ D[e] <= D[d]
                    /\ Agree(h.node[d].size, h.node[e].size, D[e])
           S == {D[e] : e \in {x \in Held(h) : On(x)}}
<1>1. D[t] \in Nat /\ D[d] \in Nat
  BY DEF Deep
<1>2. D[d] # D[t]
  <2>1. D[d] = D[t] => Agree(h.node[d].size, h.node[t].size, D[d])
    BY DEF Under
  <2> QED
    BY <2>1, PlacesDiffer DEF Under
<1>3. On(d)
  BY <1>1, <1>2, Agreements DEF Under
<1>4. PICK e \in Held(h) : On(e) /\ \A x \in Held(h) : On(x) => D[e] <= D[x]
  <2>1. S \in SUBSET Nat /\ S # {}
    BY <1>3 DEF Deep
  <2>2. PICK m \in S : \A x \in S : m <= x
    <3> HIDE DEF S
    <3> QED
      BY <2>1, Least
  <2>3. PICK e \in Held(h) : On(e) /\ D[e] = m
    BY <2>2
  <2>4. \A x \in Held(h) : On(x) => D[x] \in S
    OBVIOUS
  <2> HIDE DEF On, S
  <2> QED
    BY <2>2, <2>3, <2>4
<1>5. D[e] \in Nat /\ D[e] # 0
  BY <1>1, <1>4 DEF Deep
<1>6. PICK p \in Held(h), s \in {0, 1} :
            /\ h.node[e].parent = p /\ h.node[p].child[s] = e /\ InTrie(h, p)
            /\ h.node[p].index = h.node[e].index
            /\ D[e] = D[p] + 1 /\ D[p] \in Nat /\ D[p] = D[e] - 1
            /\ Agree(h.node[e].size, h.node[p].size, D[p]) /\ Bit(h.node[e].size, D[p]) = s
  BY <1>4, <1>5, Parents
<1>7. Agree(h.node[d].size, h.node[e].size, D[p]) /\ Bit(h.node[d].size, D[p]) = Bit(h.node[e].size, D[p])
  BY <1>4, <1>6, Agreements
<1>8. Agree(h.node[d].size, h.node[p].size, D[p])
  BY <1>6, <1>7, Agreements
<1>9. D[p] = D[t]
  <2>1. D[p] >= D[t] /\ D[p] <= D[d] /\ D[p] < D[e]
    BY <1>1, <1>4, <1>6
  <2>2. ~On(p)
    <3>1. On(p) => D[e] <= D[p]
      BY <1>4
    <3> HIDE DEF On
    <3> QED
      BY <1>5, <1>6, <2>1, <3>1
  <2> QED
    BY <1>1, <1>4, <1>6, <1>8, <2>1, <2>2
<1>10. p = t
  <2>1. Agree(h.node[p].size, h.node[d].size, D[p])
    BY <1>6, <1>8, Agreements
  <2>2. Agree(h.node[p].size, h.node[t].size, D[p])
    <3>1. Agree(h.node[d].size, h.node[t].size, D[p])
      BY <1>9 DEF Under
    <3> QED
      BY <1>6, <2>1, <3>1, Agreements
  <2> QED
    BY <1>4, <1>6, <1>9, <2>2, PlacesDiffer
<1>11. e # None
  BY TreeBinAssumption DEF Typed
<1>12. Under(h, D, e, d)
  BY <1>1, <1>4, <1>5 DEF Under
<1> QED
  BY <1>4, <1>6, <1>7, <1>10, <1>11, <1>12

\* No chunk of a trie is deeper than there are chunks.
LEMMA Shallow ==
  ASSUME NEW h, Typed(h), Links(h), NEW D, Deep(h, D), NEW c \in Held(h), InTrie(h, c)
  PROVE  IsFiniteSet(Held(h)) /\ Turns(h) \in Nat /\ D[c] < Turns(h)
<1>1. IsFiniteSet(Held(h)) /\ Turns(h) \in Nat
  BY TreeBinAssumption, FS_Subset, FS_CardinalityType DEF Typed, Turns, Held
<1> DEFINE m == D[c]
           bad == {k \in Nat : k <= m /\ ~\E e \in Held(h) : InTrie(h, e) /\ D[e] = m - k}
<1>2. m \in Nat
  BY DEF Deep
<1>3. bad = {}
  <2> SUFFICES ASSUME bad # {} PROVE FALSE
    OBVIOUS
  <2>1. PICK k \in bad : \A j \in bad : k <= j
    <3>1. bad \in SUBSET Nat
      OBVIOUS
    <3> HIDE DEF bad
    <3> QED
      BY <3>1, Least
  <2>2. k # 0
    <3>1. m - 0 = m
      BY <1>2
    <3> QED
      BY <2>1, <3>1
  <2>3. k - 1 \in Nat /\ k - 1 <= m /\ k - 1 \notin bad
    BY <1>2, <2>1, <2>2
  <2>4. PICK e \in Held(h) : InTrie(h, e) /\ D[e] = m - (k - 1)
    BY <2>3
  <2>5. D[e] # 0 /\ D[e] - 1 = m - k
    BY <1>2, <2>1, <2>4
  <2>6. \E p \in Held(h) : InTrie(h, p) /\ D[p] = D[e] - 1
    BY <2>4, <2>5, Parents
  <2> QED
    BY <2>1, <2>5, <2>6
<1> DEFINE I == {D[e] : e \in Held(h)}
<1>4. 0 .. m \subseteq I
  <2> SUFFICES ASSUME NEW j \in 0 .. m PROVE j \in I
    OBVIOUS
  <2>1. m - j \in Nat /\ m - j <= m /\ m - (m - j) = j
    BY <1>2
  <2>2. m - j \notin bad
    BY <1>3
  <2>3. PICK e \in Held(h) : D[e] = m - (m - j)
    BY <2>1, <2>2
  <2> QED
    BY <2>1, <2>3
<1>5. IsFiniteSet(I) /\ Cardinality(I) <= Turns(h)
  <2> DEFINE f == [e \in Held(h) |-> D[e]]
  <2>1. f \in Surjection(Held(h), I)
    BY DEF Surjection
  <2> HIDE DEF f, I
  <2> QED
    BY <1>1, <2>1, FS_Surjection DEF Turns, Held
<1>6. Cardinality(0 .. m) = m + 1 /\ Cardinality(0 .. m) <= Cardinality(I)
  <2> HIDE DEF I, m
  <2>1. Cardinality(0 .. m) = m + 1
    BY <1>2, FS_Interval
  <2> QED
    BY <1>4, <1>5, <2>1, FS_Subset
<1>7. Cardinality(I) \in Nat
  BY <1>5, FS_CardinalityType
<1> QED
  BY <1>1, <1>2, <1>5, <1>6, <1>7

----------------------------------------------------------------------------
(* The walk for a size. *)

\* Every chunk of a trie is under the root.
LEMMA FromRoot ==
  ASSUME NEW h, Typed(h), Links(h), NEW D, Deep(h, D), NEW i \in Bins, h.bin[i] # None
  PROVE  /\ h.bin[i] \in Held(h) /\ InTrie(h, h.bin[i]) /\ D[h.bin[i]] = 0
         /\ h.node[h.bin[i]].index = i
         /\ \A d \in Held(h) : InTrie(h, d) /\ h.node[d].index = i => Under(h, D, h.bin[i], d)
<1>1. h.bin[i] \in Held(h) /\ h.node[h.bin[i]].parent = Head /\ h.node[h.bin[i]].index = i
  BY DEF Typed, Links
<1>2. InTrie(h, h.bin[i]) /\ D[h.bin[i]] = 0
  BY <1>1, TreeBinAssumption DEF InTrie, Deep
<1>3. ASSUME NEW d \in Held(h) PROVE D[d] \in Nat /\ Agree(h.node[d].size, h.node[h.bin[i]].size, 0)
  BY Agreements DEF Deep
<1> QED
  BY <1>1, <1>2, <1>3 DEF Under

\* A turn of the loop that goes down to where size n belongs.
SpotTurn(h, n) ==
  [s \in [at : DOMAIN h.node, key : Words] |->
      IF h.node[s.at].size = n \/ h.node[s.at].child[SignBit(s.key)] = None THEN s
      ELSE [at |-> h.node[s.at].child[SignBit(s.key)], key |-> ShiftLeft(s.key, 1)]]

\* A child is held and one step deeper.
ChildFits(h, D, c, s) ==
  LET k == h.node[c].child[s]
  IN  /\ k \in Held(h) /\ InTrie(h, k) /\ h.node[k].index = h.node[c].index
      /\ h.node[k].parent = c /\ D[c] \in Nat /\ D[k] = D[c] + 1 /\ D[k] \in Nat
      /\ Agree(h.node[k].size, h.node[c].size, D[c]) /\ Bit(h.node[k].size, D[c]) = s

\* A child fits its parent.
LEMMA Children ==
  ASSUME NEW h, Typed(h), Links(h), NEW D, Deep(h, D), NEW c \in Held(h), InTrie(h, c),
         NEW s \in {0, 1}, h.node[c].child[s] # None
  PROVE  ChildFits(h, D, c, s)
<1> DEFINE k == h.node[c].child[s]
<1>1. k \in Held(h)
  BY DEF Typed, IsNode
<1>2. h.node[k].parent = c
  BY <1>1 DEF Links
<1>3. InTrie(h, k) /\ h.node[k].index = h.node[c].index
  BY <1>1, <1>2, TreeBinAssumption DEF InTrie, Links, Typed
<1>4. D[c] \in Nat /\ D[k] = D[c] + 1 /\ Agree(h.node[k].size, h.node[c].size, D[c]) /\ Bit(h.node[k].size, D[c]) = s
  BY <1>1 DEF Deep
<1>5. D[k] \in Nat
  BY <1>4
<1> HIDE DEF k
<1> QED
  BY <1>1, <1>2, <1>3, <1>4, <1>5 DEF ChildFits, k

\* Where the walk for size n stops: at the only chunk of a trie of that size, or where one
\* would be put (sm_insert_large_chunk 2022-2046, sm_bin_find 1755-1763).
LEMMA SpotIs ==
  ASSUME NEW h, Typed(h), Rings(h), Links(h), NEW D, Deep(h, D), NEW n \in LargeSizes,
         h.bin[TreeIndex(n)] # None
  PROVE  LET t == Spot(h, n).at
             b == Spot(h, n).side
         IN  /\ t \in Held(h) /\ InTrie(h, t) /\ h.node[t].index = TreeIndex(n)
             /\ D[t] \in Nat /\ Agree(n, h.node[t].size, D[t]) /\ b = Bit(n, D[t]) /\ b \in {0, 1}
             /\ h.node[t].size = n \/ h.node[t].child[b] = None
             /\ \A d \in Held(h) : InTrie(h, d) /\ h.node[d].size = n => d = t
<1> DEFINE i == TreeIndex(n)
           places == [at : Held(h), key : Words]
           turn == SpotTurn(h, n)
           start == [at |-> h.bin[i], key |-> FirstKey(n)]
           On(s) == /\ InTrie(h, s.at) /\ h.node[s.at].index = i
                    /\ Agree(n, h.node[s.at].size, D[s.at]) /\ s.key = KeyAt(n, D[s.at])
                    /\ \A d \in Held(h) : InTrie(h, d) /\ h.node[d].size = n => Under(h, D, s.at, d)
           P == {s \in places : On(s)}
           m == [s \in places |-> Turns(h) - D[s.at]]
           end == After(turn, start, Turns(h))
<1>1. n \in Words /\ i \in Bins
  BY IndexIs, Numbers
<1>2. \A d \in Held(h) : h.node[d].size = n => h.node[d].index = i
  BY DEF Typed, IsNode
<1>kids. ASSUME NEW t \in Held(h), InTrie(h, t), NEW u \in {0, 1}, h.node[t].child[u] # None
      PROVE  ChildFits(h, D, t, u)
  BY <1>kids, Children
<1>3. start \in P
  <2>1. /\ h.bin[i] \in Held(h) /\ InTrie(h, h.bin[i]) /\ D[h.bin[i]] = 0
        /\ h.node[h.bin[i]].index = i
        /\ \A d \in Held(h) : InTrie(h, d) /\ h.node[d].index = i => Under(h, D, h.bin[i], d)
    BY <1>1, FromRoot
  <2>2. start.at = h.bin[i] /\ start.key = FirstKey(n) /\ start \in places
    BY <1>1, <2>1, FirstIs
  <2>3. KeyAt(n, 0) = FirstKey(n) /\ Agree(n, h.node[h.bin[i]].size, 0)
    BY <1>1, Keys, Agreements
  <2> HIDE DEF start, places
  <2> QED
    BY <1>2, <2>1, <2>2, <2>3
<1>4. ASSUME NEW s \in P
      PROVE  /\ turn[s] \in P
             /\ turn[s] # s => D[turn[s].at] = D[s.at] + 1
             /\ turn[s] = s => h.node[s.at].size = n \/ h.node[s.at].child[SignBit(s.key)] = None
  <2>1. PICK t \in Held(h), key \in Words : s = [at |-> t, key |-> key]
    OBVIOUS
  <2>2. On(s) /\ s.at = t /\ s.key = key
    BY <2>1
  <2> DEFINE b == SignBit(key)
             k == h.node[t].child[b]
             next == [at |-> k, key |-> ShiftLeft(key, 1)]
  <2>3. turn[s] = IF h.node[t].size = n \/ k = None THEN s ELSE next
    BY <2>1, <2>2 DEF SpotTurn, Held
  <2>4. D[t] \in Nat /\ b = Bit(n, D[t]) /\ b \in {0, 1}
    BY <1>1, <2>1, <2>2, Keys DEF Bit, Deep
  <2>5. CASE h.node[t].size = n \/ k = None
    BY <2>2, <2>3, <2>5
  <2>6. CASE ~(h.node[t].size = n \/ k = None)
    <3>1. turn[s] = next
      BY <2>3, <2>6
    <3> HIDE DEF b, turn
    <3>2. /\ k \in Held(h) /\ InTrie(h, k) /\ h.node[k].index = h.node[t].index
          /\ D[k] = D[t] + 1 /\ D[k] \in Nat
          /\ Agree(h.node[k].size, h.node[t].size, D[t]) /\ Bit(h.node[k].size, D[t]) = b
      <4>1. InTrie(h, t) /\ h.node[t].child[b] # None
        BY <2>2, <2>6
      <4>2. ChildFits(h, D, t, b)
        BY <1>kids, <2>4, <4>1
      <4> QED
        BY <4>2 DEF ChildFits
    <3> HIDE DEF k
    <3>3. Agree(n, h.node[k].size, D[k])
      <4>1. Agree(n, h.node[t].size, D[t]) /\ Agree(h.node[t].size, h.node[k].size, D[t])
        BY <2>2, <2>4, <3>2, Agreements
      <4>2. Agree(n, h.node[k].size, D[t])
        BY <2>4, <4>1, Agreements
      <4>3. Bit(n, D[t]) = Bit(h.node[k].size, D[t])
        BY <2>4, <3>2
      <4>4. Agree(n, h.node[k].size, D[t] + 1)
        BY <2>4, <4>2, <4>3, Agreements
      <4> QED
        BY <3>2, <4>4
    <3>4. ShiftLeft(key, 1) = KeyAt(n, D[k]) /\ ShiftLeft(key, 1) \in Words
      <4>1. key = KeyAt(n, D[t])
        BY <2>2
      <4>2. KeyAt(n, D[t] + 1) = ShiftLeft(KeyAt(n, D[t]), 1) /\ KeyAt(n, D[t] + 1) \in Words
        <5>1. D[t] + 1 \in Nat
          BY <2>4
        <5> QED
          BY <1>1, <2>4, <5>1, Keys
      <4> QED
        BY <3>2, <4>1, <4>2
    <3>5. ASSUME NEW d \in Held(h), InTrie(h, d), h.node[d].size = n PROVE Under(h, D, k, d)
      <4>1. Under(h, D, t, d) /\ d # t
        BY <2>2, <2>6, <3>5
      <4>2. Under(h, D, h.node[t].child[Bit(h.node[d].size, D[t])], d)
        BY <2>2, <3>5, <4>1, Below
      <4> QED
        BY <2>4, <3>5, <4>2 DEF k
    <3>6. next.at = k /\ next.key = ShiftLeft(key, 1) /\ next \in places
      BY <3>2, <3>4
    <3> HIDE DEF next, places
    <3>7. next \in P
      BY <2>2, <3>2, <3>3, <3>4, <3>5, <3>6
    <3>8. next # s
      <4>1. D[k] # D[t]
        BY <2>4, <3>2
      <4> QED
        BY <2>2, <3>6, <4>1
    <3> HIDE DEF P
    <3> QED
      BY <2>2, <3>1, <3>2, <3>6, <3>7, <3>8
  <2> QED
    BY <2>5, <2>6
<1>5. Turns(h) \in Nat /\ \A s \in P : D[s.at] \in Nat /\ D[s.at] < Turns(h)
  <2>1. ASSUME NEW s \in P PROVE D[s.at] \in Nat /\ Turns(h) \in Nat /\ D[s.at] < Turns(h)
    BY Shallow DEF Deep
  <2> QED
    BY <1>3, <2>1
<1>6. end \in P
  <2> HIDE DEF turn, start, P
  <2> QED
    BY <1>3, <1>4, <1>5, AfterKeeps
<1>7. turn[end] = end
  <2>1. \A s \in P : m[s] = Turns(h) - D[s.at]
    OBVIOUS
  <2> HIDE DEF turn, start, P, m
  <2>2. \A s \in P : turn[s] \in P /\ m[s] \in Nat /\ (turn[s] # s => m[turn[s]] < m[s])
    BY <1>4, <1>5, <2>1
  <2>3. m[start] <= Turns(h)
    BY <1>3, <1>5, <2>1
  <2> QED
    BY <1>3, <1>5, <2>2, <2>3, AfterRests
<1>8. Spot(h, n).at = end.at /\ Spot(h, n).side = SignBit(end.key)
  BY DEF Spot, SpotTurn
<1> HIDE DEF turn, start, end
<1>9. end.at \in Held(h) /\ On(end)
  BY <1>6
<1>10. h.node[end.at].size = n \/ h.node[end.at].child[SignBit(end.key)] = None
  BY <1>4, <1>6, <1>7
<1>11. D[end.at] \in Nat /\ SignBit(end.key) = Bit(n, D[end.at]) /\ SignBit(end.key) \in {0, 1}
  BY <1>1, <1>5, <1>6, <1>9, Keys DEF Bit
<1>12. ASSUME NEW d \in Held(h), InTrie(h, d), h.node[d].size = n PROVE d = end.at
  <2>1. CASE h.node[end.at].size = n
    BY <1>9, <1>12, <2>1 DEF Rings, SameSize
  <2>2. CASE h.node[end.at].child[SignBit(end.key)] = None
    <3> SUFFICES ASSUME d # end.at PROVE FALSE
      OBVIOUS
    <3>1. h.node[end.at].child[Bit(h.node[d].size, D[end.at])] # None
      BY <1>9, <1>12, Below
    <3> QED
      BY <1>11, <1>12, <2>2, <3>1
  <2> QED
    BY <1>10, <2>1, <2>2
<1> QED
  BY <1>8, <1>9, <1>10, <1>11, <1>12

----------------------------------------------------------------------------
(* Insertion. *)

\* What every record of bins is, and every function of nodes.
Shaped(h) == h = [f \in {"bin", "map", "node"} |-> h[f]] /\ h.node = [c \in Held(h) |-> h.node[c]]

\* c with size n has come to the chunks held.
Puts(h, g, c, n) ==
  /\ Trees(g) /\ Held(g) = Held(h) \cup {c} /\ g.node[c].size = n
  /\ \A d \in Held(h) : g.node[d].size = h.node[d].size

\* No chunk has size n.
Fresh(h, n) == \A d \in Held(h) : h.node[d].size # n

\* What With writes.
LEMMA WithIs ==
  ASSUME NEW h, Shaped(h), NEW c, NEW x
  PROVE  LET g == With(h, c, x)
         IN  /\ Shaped(g) /\ g.bin = h.bin /\ g.map = h.map
             /\ Held(g) = Held(h) \cup {c} /\ g.node[c] = x
             /\ \A d \in Held(h) \ {c} : g.node[d] = h.node[d]
<1> DEFINE g == With(h, c, x)
           node == [d \in Held(h) \cup {c} |-> IF d = c THEN x ELSE h.node[d]]
<1>1. g = [f \in {"bin", "map", "node"} |-> IF f = "node" THEN node ELSE h[f]]
  BY DEF With, Shaped, Held
<1>2. g.node = node /\ g.bin = h.bin /\ g.map = h.map /\ g = [f \in {"bin", "map", "node"} |-> g[f]]
  <2> HIDE DEF node
  <2> QED
    BY <1>1
<1> HIDE DEF g
<1>3. Held(g) = Held(h) \cup {c}
  BY <1>2 DEF Held
<1>4. g.node = [d \in Held(g) |-> g.node[d]]
  BY <1>2, <1>3
<1>5. g.node[c] = x /\ \A d \in Held(h) \ {c} : g.node[d] = h.node[d]
  BY <1>2
<1> QED
  BY <1>2, <1>3, <1>4, <1>5 DEF g, Shaped

\* The new node.
LEMMA NodeIs ==
  ASSUME NEW i, NEW n, NEW p, NEW f, NEW b
  PROVE  LET x == Node(i, n, p, f, b)
         IN  /\ x = [a \in NodeFields |-> x[a]]
             /\ x.index = i /\ x.size = n /\ x.parent = p /\ x.forward = f /\ x.backward = b
             /\ x.child = [s \in {0, 1} |-> x.child[s]] /\ x.child[0] = None /\ x.child[1] = None
  BY DEF Node, NodeFields

\* A bin with a chunk in it has a root.
LEMMA Rooted ==
  ASSUME NEW h, Typed(h), Links(h), NEW D, Deep(h, D), NEW c \in Held(h), InTrie(h, c)
  PROVE  h.node[c].index \in Bins /\ h.bin[h.node[c].index] # None
<1> DEFINE Less(e) == InTrie(h, e) /\ h.node[e].index = h.node[c].index
           S == {D[e] : e \in {x \in Held(h) : Less(x)}}
<1>1. PICK e \in Held(h) : Less(e) /\ \A x \in Held(h) : Less(x) => D[e] <= D[x]
  <2>1. S \in SUBSET Nat /\ S # {}
    BY DEF Deep
  <2>2. PICK m \in S : \A x \in S : m <= x
    <3> HIDE DEF S
    <3> QED
      BY <2>1, Least
  <2>3. PICK e \in Held(h) : Less(e) /\ D[e] = m
    BY <2>2
  <2>4. \A x \in Held(h) : Less(x) => D[x] \in S
    OBVIOUS
  <2> HIDE DEF Less, S
  <2> QED
    BY <2>2, <2>3, <2>4
<1>2. D[e] = 0
  <2> SUFFICES ASSUME D[e] # 0 PROVE FALSE
    OBVIOUS
  <2>1. PICK p \in Held(h) : InTrie(h, p) /\ h.node[p].index = h.node[e].index /\ D[p] \in Nat /\ D[e] = D[p] + 1
    BY <1>1, Parents
  <2>2. Less(p)
    BY <1>1, <2>1
  <2> HIDE DEF Less
  <2> QED
    BY <1>1, <2>1, <2>2
<1>3. h.node[e].parent = Head
  <2> SUFFICES ASSUME h.node[e].parent \in Held(h) PROVE FALSE
    BY <1>1 DEF Typed, IsNode, InTrie
  <2>1. PICK s \in {0, 1} : e = h.node[h.node[e].parent].child[s]
    BY DEF Links
  <2>2. e # None
    BY TreeBinAssumption DEF Typed
  <2>3. D[e] = D[h.node[e].parent] + 1 /\ D[h.node[e].parent] \in Nat
    BY <2>1, <2>2 DEF Deep
  <2> QED
    BY <1>2, <2>3
<1>4. h.bin[h.node[c].index] = e /\ e # None
  BY <1>1, <1>3, TreeBinAssumption DEF Links, Typed
<1>5. h.node[c].index \in Bins
  <2>1. h.node[c].size \in LargeSizes /\ h.node[c].index = TreeIndex(h.node[c].size)
    BY DEF Typed, IsNode
  <2>2. h.node[c].size \in Words
    BY <2>1, Numbers
  <2> QED
    BY <2>1, <2>2, IndexIs
<1> QED
  BY <1>4, <1>5

\* Rings when a chunk of a new size comes, in a ring of its own.
LEMMA NewRing ==
  ASSUME NEW h, Typed(h), Rings(h), NEW g, NEW c, c \notin Held(h), NEW n, Fresh(h, n),
         Held(g) = Held(h) \cup {c}, g.node[c].size = n, g.node[c].parent # None,
         g.node[c].forward = c, g.node[c].backward = c,
         \A d \in Held(h) : /\ g.node[d].size = h.node[d].size /\ g.node[d].parent = h.node[d].parent
                            /\ g.node[d].forward = h.node[d].forward /\ g.node[d].backward = h.node[d].backward
                            /\ g.node[d].parent = None => g.node[d].child = h.node[d].child
  PROVE  Rings(g)
<1>1. \A d \in Held(h) : h.node[d].forward \in Held(h) /\ h.node[d].backward \in Held(h)
  BY DEF Typed, IsNode
<1>2. ASSUME NEW d \in Held(g)
      PROVE  Linked(g, d) /\ \E e \in Held(g) : InTrie(g, e) /\ SameSize(g, e, d)
  <2>1. CASE d = c
    BY <2>1 DEF Linked, InTrie, SameSize
  <2>2. CASE d \in Held(h)
    <3>1. Linked(h, d) /\ \E e \in Held(h) : InTrie(h, e) /\ SameSize(h, e, d)
      BY <2>2 DEF Rings
    <3>2. Linked(g, d)
      BY <1>1, <2>2, <3>1 DEF Linked
    <3> QED
      BY <2>2, <3>1, <3>2 DEF InTrie, SameSize
  <2> QED
    BY <2>1, <2>2
<1>3. ASSUME NEW a \in Held(g), NEW b \in Held(g), InTrie(g, a), InTrie(g, b), SameSize(g, a, b) PROVE a = b
  <2>1. CASE a = c \/ b = c
    BY <1>3, <2>1 DEF SameSize, Fresh
  <2>2. CASE a \in Held(h) /\ b \in Held(h)
    BY <1>3, <2>2 DEF SameSize, InTrie, Rings
  <2> QED
    BY <2>1, <2>2
<1>4. ASSUME NEW a \in Held(g), NEW b \in Held(g), NEW S \in SUBSET Held(g), a \in S, Closed(g, S), SameSize(g, a, b)
      PROVE  b \in S
  <2>1. CASE a = c \/ b = c
    BY <1>4, <2>1 DEF SameSize, Fresh
  <2>2. CASE a \in Held(h) /\ b \in Held(h)
    <3> DEFINE T == S \ {c}
    <3>1. T \in SUBSET Held(h) /\ a \in T
      BY <1>4, <2>2
    <3>2. Closed(h, T)
      BY <1>1, <1>4, <3>1 DEF Closed
    <3>3. SameSize(h, a, b)
      BY <1>4, <2>2 DEF SameSize
    <3> HIDE DEF T
    <3>4. b \in T
      BY <2>2, <3>1, <3>2, <3>3 DEF Rings
    <3> QED
      BY <3>4 DEF T
  <2> QED
    BY <2>1, <2>2
<1> QED
  BY <1>2, <1>3, <1>4 DEF Rings

\* Into an empty bin.
LEMMA InsertRoot ==
  ASSUME NEW h, Trees(h), NEW c \in Chunk \ Held(h), NEW n \in LargeSizes, h.bin[TreeIndex(n)] = None
  PROVE  Puts(h, InsertLarge(h, c, n), c, n)
<1> DEFINE i == TreeIndex(n)
           b == [h EXCEPT !.map = @ \cup {i}, !.bin[i] = c]
           x == Node(i, n, Head, c, c)
           g == With(b, c, x)
           N == Held(h) \cup {c}
<1>1. Typed(h) /\ Rings(h) /\ Links(h)
  BY DEF Trees
<1>2. PICK D : Deep(h, D)
  BY DEF Trees
<1>3. i \in Bins /\ c # None /\ c # Head /\ c \in Chunk /\ c \notin Held(h)
  BY IndexIs, Numbers, TreeBinAssumption
<1>4. i \notin h.map
  BY <1>1 DEF Typed
<1>5. InsertLarge(h, c, n) = g
  BY <1>4 DEF InsertLarge
<1>6. Shaped(b) /\ b.node = h.node /\ b.map = h.map \cup {i} /\ b.bin = [h.bin EXCEPT ![i] = c] /\ Held(b) = Held(h)
  <2>1. h = [f \in {"bin", "map", "node"} |-> h[f]] /\ h.node = [d \in Held(h) |-> h.node[d]]
    BY <1>1 DEF Typed
  <2>2. b.node = h.node /\ b.map = h.map \cup {i} /\ b.bin = [h.bin EXCEPT ![i] = c]
    BY <2>1
  <2>3. b = [f \in {"bin", "map", "node"} |-> b[f]]
    BY <2>1
  <2> HIDE DEF b
  <2> QED
    BY <2>1, <2>2, <2>3 DEF Shaped, Held
<1>7. /\ x = [a \in NodeFields |-> x[a]]
      /\ x.index = i /\ x.size = n /\ x.parent = Head /\ x.forward = c /\ x.backward = c
      /\ x.child = [s \in {0, 1} |-> x.child[s]] /\ x.child[0] = None /\ x.child[1] = None
  BY NodeIs
<1> HIDE DEF b, x
<1>8. /\ Shaped(g) /\ g.bin = [h.bin EXCEPT ![i] = c] /\ g.map = h.map \cup {i} /\ Held(g) = N
      /\ g.node[c] = x /\ \A d \in Held(h) : g.node[d] = h.node[d]
  BY <1>3, <1>6, WithIs
<1> HIDE DEF g, i
<1>9. g.bin[i] = c /\ \A j \in Bins \ {i} : g.bin[j] = h.bin[j]
  BY <1>1, <1>3, <1>8 DEF Typed
<1>10. Typed(g)
  <2>1. ASSUME NEW d \in N PROVE IsNode(g.node[d], N)
    <3>1. CASE d = c
      BY <1>7, <1>8, <3>1 DEF IsNode, i
    <3>2. CASE d \in Held(h)
      <4>1. g.node[d] = h.node[d] /\ IsNode(h.node[d], Held(h))
        BY <1>1, <1>8, <3>2 DEF Typed
      <4> QED
        BY <4>1 DEF IsNode
    <3> QED
      BY <3>1, <3>2
  <2>2. g.bin \in [Bins -> N \cup {None}]
    BY <1>1, <1>3, <1>8 DEF Typed
  <2>3. g.map = {j \in Bins : g.bin[j] # None}
    BY <1>1, <1>3, <1>8, <1>9 DEF Typed
  <2>4. N \subseteq Chunk
    BY <1>1, <1>3 DEF Typed
  <2> QED
    BY <1>8, <2>1, <2>2, <2>3, <2>4 DEF Typed, Shaped
<1>11. Fresh(h, n)
  <2> SUFFICES ASSUME NEW d \in Held(h), h.node[d].size = n PROVE FALSE
    BY DEF Fresh
  <2>1. PICK e \in Held(h) : InTrie(h, e) /\ SameSize(h, e, d)
    BY <1>1 DEF Rings
  <2>2. h.node[e].index = i
    BY <1>1, <2>1 DEF Typed, IsNode, SameSize, i
  <2> QED
    BY <1>1, <1>2, <2>1, <2>2, Rooted DEF i
<1>12. Rings(g)
  BY <1>1, <1>3, <1>7, <1>8, <1>11, NewRing, TreeBinAssumption
<1>13. Links(g)
  <2>1. \A d \in Held(h) : h.node[d].index \in Bins /\ d # c
    <3>1. \A d \in Held(h) : h.node[d].size \in Words /\ h.node[d].index = TreeIndex(h.node[d].size)
      BY <1>1, Numbers DEF Typed, IsNode
    <3> QED
      BY <1>3, <3>1, IndexIs
  <2>2. ASSUME NEW d \in Held(h) PROVE InTrie(h, d) => h.node[d].index # i
    BY <1>1, <1>2, Rooted DEF i
  <2>3. ASSUME NEW j \in Bins, g.bin[j] # None PROVE g.node[g.bin[j]].parent = Head /\ g.node[g.bin[j]].index = j
    <3>1. CASE j = i
      BY <1>7, <1>8, <1>9, <3>1
    <3>2. CASE j # i
      BY <1>1, <1>8, <1>9, <2>3, <3>2 DEF Typed, Links
    <3> QED
      BY <3>1, <3>2
  <2>4. ASSUME NEW d \in Held(g), g.node[d].parent = Head PROVE g.bin[g.node[d].index] = d
    <3>1. CASE d = c
      BY <1>7, <1>8, <1>9, <3>1
    <3>2. CASE d \in Held(h)
      <4>1. h.node[d].index # i
        BY <1>8, <2>2, <2>4, <3>2, TreeBinAssumption DEF InTrie
      <4> QED
        BY <1>1, <1>8, <1>9, <2>1, <2>4, <3>2, <4>1 DEF Links
    <3> QED
      BY <1>8, <3>1, <3>2
  <2>5. ASSUME NEW d \in Held(g), g.node[d].parent \in Held(g)
        PROVE  LET p == g.node[d].parent
               IN  /\ InTrie(g, p) /\ g.node[p].index = g.node[d].index
                   /\ d = g.node[p].child[0] \/ d = g.node[p].child[1]
    <3>1. d # c
      BY <1>1, <1>3, <1>7, <1>8, <2>5, TreeBinAssumption DEF Typed
    <3>2. d \in Held(h) /\ g.node[d] = h.node[d] /\ h.node[d].parent \in Held(h)
      <4>1. d \in Held(h) /\ g.node[d] = h.node[d]
        BY <1>8, <2>5, <3>1
      <4>2. h.node[d].parent \in Held(h) \cup {Head, None}
        BY <1>1, <4>1 DEF Typed, IsNode
      <4>3. h.node[d].parent \in Held(h) \cup {c} /\ Held(h) \cup {c} \subseteq Chunk
        BY <1>1, <1>3, <1>8, <2>5, <4>1 DEF Typed
      <4>4. h.node[d].parent # Head /\ h.node[d].parent # None
        BY <4>3, TreeBinAssumption
      <4> QED
        BY <4>1, <4>2, <4>4
    <3> DEFINE p == h.node[d].parent
    <3>3. p \in Held(h) /\ InTrie(h, p) /\ h.node[p].index = h.node[d].index /\ (d = h.node[p].child[0] \/ d = h.node[p].child[1])
      BY <1>1, <3>2 DEF Links
    <3>4. g.node[p] = h.node[p] /\ g.node[d].parent = p
      BY <1>8, <3>2, <3>3
    <3> HIDE DEF p
    <3> QED
      BY <3>2, <3>3, <3>4 DEF InTrie
  <2>6. ASSUME NEW d \in Held(g), NEW s \in {0, 1}, g.node[d].child[s] # None PROVE g.node[g.node[d].child[s]].parent = d
    <3>1. d \in Held(h) /\ g.node[d] = h.node[d]
      BY <1>7, <1>8, <2>6
    <3>2. h.node[d].child[s] \in Held(h)
      BY <1>1, <2>6, <3>1 DEF Typed, IsNode
    <3> QED
      BY <1>1, <1>8, <2>6, <3>1, <3>2 DEF Links
  <2> QED
    BY <2>3, <2>4, <2>5, <2>6 DEF Links
<1>14. \E E : Deep(g, E)
  <2> DEFINE E == [d \in N |-> IF d = c THEN 0 ELSE D[d]]
  <2>1. E[c] = 0 /\ \A d \in Held(h) : E[d] = D[d]
    BY <1>3
  <2> HIDE DEF E
  <2>2. ASSUME NEW d \in Held(g) PROVE E[d] \in Nat /\ (g.node[d].parent = Head => E[d] = 0)
    BY <1>2, <1>8, <2>1 DEF Deep
  <2>3. ASSUME NEW d \in Held(g), NEW s \in {0, 1}, g.node[d].child[s] # None
        PROVE  LET k == g.node[d].child[s]
               IN  /\ E[k] = E[d] + 1
                   /\ Agree(g.node[k].size, g.node[d].size, E[d]) /\ Bit(g.node[k].size, E[d]) = s
    <3>1. d \in Held(h) /\ g.node[d] = h.node[d]
      BY <1>7, <1>8, <2>3
    <3>2. h.node[d].child[s] \in Held(h)
      BY <1>1, <2>3, <3>1 DEF Typed, IsNode
    <3> QED
      BY <1>2, <1>8, <2>1, <2>3, <3>1, <3>2 DEF Deep
  <2> QED
    BY <2>2, <2>3 DEF Deep
<1> QED
  BY <1>5, <1>7, <1>8, <1>10, <1>12, <1>13, <1>14 DEF Puts, Trees

\* Below a chunk of the trie whose child on the way is missing.
LEMMA InsertLeaf ==
  ASSUME NEW h, Trees(h), NEW c \in Chunk \ Held(h), NEW n \in LargeSizes, h.bin[TreeIndex(n)] # None,
         h.node[Spot(h, n).at].size # n
  PROVE  Puts(h, InsertLarge(h, c, n), c, n)
<1> DEFINE i == TreeIndex(n)
           p == Spot(h, n).at
           u == Spot(h, n).side
           b == [h EXCEPT !.node[p].child[u] = c]
           x == Node(i, n, p, c, c)
           g == With(b, c, x)
           N == Held(h) \cup {c}
<1>1. Typed(h) /\ Rings(h) /\ Links(h)
  BY DEF Trees
<1>2. PICK D : Deep(h, D)
  BY DEF Trees
<1>3. i \in Bins /\ c # None /\ c # Head /\ c \in Chunk /\ c \notin Held(h) /\ None \notin N /\ Head \notin N
  BY <1>1, IndexIs, Numbers, TreeBinAssumption DEF Typed
<1>4. i \in h.map
  BY <1>1, <1>3 DEF Typed
<1>5. InsertLarge(h, c, n) = g
  BY <1>4 DEF InsertLarge
<1>6. /\ p \in Held(h) /\ InTrie(h, p) /\ h.node[p].index = i
      /\ D[p] \in Nat /\ Agree(n, h.node[p].size, D[p]) /\ u = Bit(n, D[p]) /\ u \in {0, 1}
      /\ h.node[p].child[u] = None
      /\ \A d \in Held(h) : InTrie(h, d) /\ h.node[d].size = n => d = p
  BY <1>1, <1>2, SpotIs
<1> HIDE DEF p, u, i
<1>7. /\ Shaped(b) /\ b.map = h.map /\ b.bin = h.bin /\ Held(b) = Held(h)
      /\ \A d \in Held(h) \ {p} : b.node[d] = h.node[d]
      /\ b.node[p] = [h.node[p] EXCEPT !.child[u] = c]
  <2>1. h = [f \in {"bin", "map", "node"} |-> h[f]] /\ h.node = [d \in Held(h) |-> h.node[d]]
    BY <1>1 DEF Typed
  <2>2. b.node = [h.node EXCEPT ![p].child[u] = c] /\ b.map = h.map /\ b.bin = h.bin
    BY <2>1
  <2>3. b = [f \in {"bin", "map", "node"} |-> b[f]]
    BY <2>1
  <2> HIDE DEF b
  <2>4. Held(b) = Held(h) /\ b.node = [d \in Held(b) |-> b.node[d]]
    BY <2>1, <2>2 DEF Held
  <2>5. (\A d \in Held(h) \ {p} : b.node[d] = h.node[d]) /\ b.node[p] = [h.node[p] EXCEPT !.child[u] = c]
    BY <1>6, <2>1, <2>2 DEF Held
  <2> QED
    BY <2>2, <2>3, <2>4, <2>5 DEF Shaped
<1>8. /\ x = [a \in NodeFields |-> x[a]]
      /\ x.index = i /\ x.size = n /\ x.parent = p /\ x.forward = c /\ x.backward = c
      /\ x.child = [s \in {0, 1} |-> x.child[s]] /\ x.child[0] = None /\ x.child[1] = None
  BY NodeIs
<1> HIDE DEF b, x
<1>9. /\ Shaped(g) /\ g.bin = h.bin /\ g.map = h.map /\ Held(g) = N /\ g.node[c] = x
      /\ \A d \in Held(h) \ {p} : g.node[d] = h.node[d]
      /\ g.node[p] = [h.node[p] EXCEPT !.child[u] = c]
  BY <1>3, <1>6, <1>7, WithIs
<1> HIDE DEF g
<1>10. /\ g.node[p] = [a \in NodeFields |-> g.node[p][a]]
       /\ g.node[p].index = i /\ g.node[p].size = h.node[p].size /\ g.node[p].parent = h.node[p].parent
       /\ g.node[p].forward = h.node[p].forward /\ g.node[p].backward = h.node[p].backward
       /\ g.node[p].child = [s \in {0, 1} |-> IF s = u THEN c ELSE h.node[p].child[s]]
  <2>1. IsNode(h.node[p], Held(h))
    BY <1>1, <1>6 DEF Typed
  <2>2. h.node[p] = [a \in NodeFields |-> h.node[p][a]] /\ h.node[p].child = [s \in {0, 1} |-> h.node[p].child[s]]
    BY <2>1 DEF IsNode
  <2>3. g.node[p] = [a \in NodeFields |-> IF a = "child" THEN [h.node[p].child EXCEPT ![u] = c] ELSE h.node[p][a]]
    BY <1>9, <2>2 DEF NodeFields
  <2>4. [h.node[p].child EXCEPT ![u] = c] = [s \in {0, 1} |-> IF s = u THEN c ELSE h.node[p].child[s]]
    BY <1>6, <2>2
  <2> QED
    BY <1>6, <2>3, <2>4 DEF NodeFields
<1>11. \A d \in Held(h) : /\ g.node[d].size = h.node[d].size /\ g.node[d].index = h.node[d].index
                          /\ g.node[d].parent = h.node[d].parent
                          /\ g.node[d].forward = h.node[d].forward /\ g.node[d].backward = h.node[d].backward
                          /\ \A s \in {0, 1} : g.node[d].child[s] = IF d = p /\ s = u THEN c ELSE h.node[d].child[s]
  <2> SUFFICES ASSUME NEW d \in Held(h)
               PROVE  /\ g.node[d].size = h.node[d].size /\ g.node[d].index = h.node[d].index
                      /\ g.node[d].parent = h.node[d].parent
                      /\ g.node[d].forward = h.node[d].forward /\ g.node[d].backward = h.node[d].backward
                      /\ \A s \in {0, 1} : g.node[d].child[s] = IF d = p /\ s = u THEN c ELSE h.node[d].child[s]
    OBVIOUS
  <2>1. CASE d = p
    BY <1>6, <1>10, <2>1
  <2>2. CASE d # p
    BY <1>9, <2>2
  <2> QED
    BY <2>1, <2>2
<1>12. Typed(g)
  <2>1. ASSUME NEW d \in N PROVE IsNode(g.node[d], N)
    <3>1. CASE d = c
      BY <1>6, <1>8, <1>9, <3>1 DEF IsNode, i
    <3>2. CASE d \in Held(h) \ {p}
      <4>1. g.node[d] = h.node[d] /\ IsNode(h.node[d], Held(h))
        BY <1>1, <1>9, <3>2 DEF Typed
      <4> QED
        BY <4>1 DEF IsNode
    <3>3. CASE d = p
      <4>1. IsNode(h.node[p], Held(h))
        BY <1>1, <1>6 DEF Typed
      <4>2. g.node[p].child[0] \in N \cup {None} /\ g.node[p].child[1] \in N \cup {None}
            /\ g.node[p].child = [s \in {0, 1} |-> g.node[p].child[s]]
        BY <1>10, <4>1 DEF IsNode
      <4> QED
        BY <1>6, <1>10, <3>3, <4>1, <4>2 DEF IsNode
    <3> QED
      BY <3>1, <3>2, <3>3
  <2>2. N \subseteq Chunk /\ g.bin \in [Bins -> N \cup {None}] /\ g.map = {j \in Bins : g.bin[j] # None}
    BY <1>1, <1>3, <1>9 DEF Typed
  <2> QED
    BY <1>9, <2>1, <2>2 DEF Typed, Shaped
<1>13. Fresh(h, n)
  <2> SUFFICES ASSUME NEW d \in Held(h), h.node[d].size = n PROVE FALSE
    BY DEF Fresh
  <2>1. PICK e \in Held(h) : InTrie(h, e) /\ SameSize(h, e, d)
    BY <1>1 DEF Rings
  <2>2. e = p
    BY <1>6, <2>1 DEF SameSize
  <2> QED
    BY <2>1, <2>2 DEF SameSize, p
<1>14. Rings(g)
  <2>1. g.node[c].size = n /\ g.node[c].parent # None /\ g.node[c].forward = c /\ g.node[c].backward = c
    BY <1>3, <1>6, <1>8, <1>9
  <2>2. \A d \in Held(h) : /\ g.node[d].size = h.node[d].size /\ g.node[d].parent = h.node[d].parent
                           /\ g.node[d].forward = h.node[d].forward /\ g.node[d].backward = h.node[d].backward
                           /\ g.node[d].parent = None => g.node[d].child = h.node[d].child
    BY <1>6, <1>9, <1>11 DEF InTrie
  <2> QED
    BY <1>1, <1>3, <1>9, <1>13, <2>1, <2>2, NewRing
<1>15. Links(g)
  <2>1. ASSUME NEW j \in Bins, g.bin[j] # None PROVE g.node[g.bin[j]].parent = Head /\ g.node[g.bin[j]].index = j
    <3>1. g.bin[j] = h.bin[j] /\ h.bin[j] \in Held(h)
      BY <1>1, <1>9, <2>1 DEF Typed
    <3> QED
      BY <1>1, <1>11, <2>1, <3>1 DEF Links
  <2>2. ASSUME NEW d \in Held(g), g.node[d].parent = Head PROVE g.bin[g.node[d].index] = d
    <3>1. d \in Held(h)
      BY <1>3, <1>6, <1>8, <1>9, <2>2
    <3> QED
      BY <1>1, <1>9, <1>11, <2>2, <3>1 DEF Links
  <2>3. ASSUME NEW d \in Held(g), g.node[d].parent \in Held(g)
        PROVE  LET q == g.node[d].parent
               IN  /\ InTrie(g, q) /\ g.node[q].index = g.node[d].index
                   /\ d = g.node[q].child[0] \/ d = g.node[q].child[1]
    <3>1. CASE d = c
      <4>1. g.node[d].parent = p /\ g.node[d].index = i
        BY <1>8, <1>9, <3>1
      <4>2. InTrie(g, p) /\ g.node[p].index = i
        BY <1>6, <1>11 DEF InTrie
      <4>3. c = g.node[p].child[0] \/ c = g.node[p].child[1]
        BY <1>6, <1>11
      <4> QED
        BY <3>1, <4>1, <4>2, <4>3
    <3>2. CASE d \in Held(h)
      <4> DEFINE q == h.node[d].parent
      <4>1. q \in Held(h) /\ g.node[d].parent = q /\ g.node[d].index = h.node[d].index
        <5>1. g.node[d].parent = q /\ q \in Held(h) \cup {Head, None}
          BY <1>1, <1>11, <3>2 DEF Typed, IsNode
        <5> QED
          BY <1>3, <1>9, <1>11, <2>3, <3>2, <5>1
      <4>2. InTrie(h, q) /\ h.node[q].index = h.node[d].index /\ (d = h.node[q].child[0] \/ d = h.node[q].child[1])
        BY <1>1, <3>2, <4>1 DEF Links
      <4> HIDE DEF q
      <4>3. d # None
        BY <1>3, <3>2
      <4>4. d = g.node[q].child[0] \/ d = g.node[q].child[1]
        BY <1>6, <1>11, <4>1, <4>2, <4>3
      <4> QED
        BY <1>11, <4>1, <4>2, <4>4 DEF InTrie
    <3> QED
      BY <1>9, <3>1, <3>2
  <2>4. ASSUME NEW d \in Held(g), NEW s \in {0, 1}, g.node[d].child[s] # None PROVE g.node[g.node[d].child[s]].parent = d
    <3>1. d \in Held(h)
      BY <1>8, <1>9, <2>4
    <3>2. CASE d = p /\ s = u
      BY <1>8, <1>9, <1>11, <3>1, <3>2
    <3>3. CASE ~(d = p /\ s = u)
      <4>1. g.node[d].child[s] = h.node[d].child[s] /\ h.node[d].child[s] \in Held(h)
        BY <1>1, <1>11, <2>4, <3>1, <3>3 DEF Typed, IsNode
      <4> QED
        BY <1>1, <1>11, <2>4, <3>1, <4>1 DEF Links
    <3> QED
      BY <3>2, <3>3
  <2> QED
    BY <2>1, <2>2, <2>3, <2>4 DEF Links
<1>16. \E E : Deep(g, E)
  <2> DEFINE E == [d \in N |-> IF d = c THEN D[p] + 1 ELSE D[d]]
  <2>1. E[c] = D[p] + 1 /\ \A d \in Held(h) : E[d] = D[d]
    BY <1>3
  <2> HIDE DEF E
  <2>2. ASSUME NEW d \in Held(g) PROVE E[d] \in Nat /\ (g.node[d].parent = Head => E[d] = 0)
    <3>1. CASE d = c
      BY <1>3, <1>6, <1>8, <1>9, <2>1, <3>1
    <3>2. CASE d \in Held(h)
      BY <1>2, <1>11, <2>1, <3>2 DEF Deep
    <3> QED
      BY <1>9, <3>1, <3>2
  <2>3. ASSUME NEW d \in Held(g), NEW s \in {0, 1}, g.node[d].child[s] # None
        PROVE  LET k == g.node[d].child[s]
               IN  /\ E[k] = E[d] + 1
                   /\ Agree(g.node[k].size, g.node[d].size, E[d]) /\ Bit(g.node[k].size, E[d]) = s
    <3>1. d \in Held(h)
      BY <1>8, <1>9, <2>3
    <3>2. CASE d = p /\ s = u
      <4>1. g.node[d].child[s] = c /\ g.node[c].size = n /\ g.node[p].size = h.node[p].size
        BY <1>6, <1>8, <1>9, <1>11, <3>1, <3>2
      <4>2. E[c] = D[p] + 1 /\ E[p] = D[p]
        BY <1>6, <2>1
      <4> QED
        BY <1>6, <3>2, <4>1, <4>2
    <3>3. CASE ~(d = p /\ s = u)
      <4>1. g.node[d].child[s] = h.node[d].child[s] /\ h.node[d].child[s] \in Held(h)
        BY <1>1, <1>11, <2>3, <3>1, <3>3 DEF Typed, IsNode
      <4> QED
        BY <1>2, <1>11, <2>1, <2>3, <3>1, <4>1 DEF Deep
    <3> QED
      BY <3>2, <3>3
  <2> QED
    BY <2>2, <2>3 DEF Deep
<1> QED
  BY <1>5, <1>8, <1>9, <1>11, <1>12, <1>14, <1>15, <1>16 DEF Puts, Trees

\* x is before v, and y after w.
Joined(h, x, y, v, w) == [h EXCEPT !.node[x].forward = v, !.node[y].backward = w]

\* What is written when two neighbours in a ring are made known to each other.
LEMMA RingWrites ==
  ASSUME NEW h, Typed(h), NEW x \in Held(h), NEW y \in Held(h), NEW v, NEW w
  PROVE  LET g == Joined(h, x, y, v, w)
         IN  /\ Shaped(g) /\ g.bin = h.bin /\ g.map = h.map /\ Held(g) = Held(h)
             /\ \A d \in Held(h) : g.node[d] = [a \in NodeFields |-> g.node[d][a]]
             /\ \A d \in Held(h) :
                  /\ g.node[d].forward = IF d = x THEN v ELSE h.node[d].forward
                  /\ g.node[d].backward = IF d = y THEN w ELSE h.node[d].backward
                  /\ g.node[d].size = h.node[d].size /\ g.node[d].index = h.node[d].index
                  /\ g.node[d].parent = h.node[d].parent /\ g.node[d].child = h.node[d].child
<1> DEFINE m == [h.node EXCEPT ![x].forward = v]
           g == Joined(h, x, y, v, w)
<1>1. /\ h = [f \in {"bin", "map", "node"} |-> h[f]] /\ h.node = [d \in Held(h) |-> h.node[d]]
      /\ \A d \in Held(h) : h.node[d] = [a \in NodeFields |-> h.node[d][a]]
  BY DEF Typed, IsNode
<1>2. g.node = [m EXCEPT ![y].backward = w] /\ g.bin = h.bin /\ g.map = h.map
  BY <1>1 DEF Joined
<1>3. g = [f \in {"bin", "map", "node"} |-> g[f]]
  BY <1>1 DEF Joined
<1> HIDE DEF g
<1>4. m = [d \in Held(h) |-> m[d]]
  BY <1>1 DEF Held
<1>5. \A d \in Held(h) : m[d] = [a \in NodeFields |-> IF a = "forward" /\ d = x THEN v ELSE h.node[d][a]]
  <2> SUFFICES ASSUME NEW d \in Held(h)
               PROVE  m[d] = [a \in NodeFields |-> IF a = "forward" /\ d = x THEN v ELSE h.node[d][a]]
    OBVIOUS
  <2>1. CASE d = x
    <3>1. m[d] = [h.node[x] EXCEPT !.forward = v]
      BY <1>1, <2>1 DEF Held
    <3> HIDE DEF m
    <3> QED
      BY <1>1, <2>1, <3>1
  <2>2. CASE d # x
    <3>1. m[d] = h.node[d]
      BY <1>1, <2>2 DEF Held
    <3> HIDE DEF m
    <3> QED
      BY <1>1, <2>2, <3>1
  <2> QED
    BY <2>1, <2>2
<1> HIDE DEF m
<1>6. g.node = [d \in Held(h) |-> g.node[d]]
  BY <1>2, <1>4
<1>7. ASSUME NEW d \in Held(h)
      PROVE  g.node[d] = [a \in NodeFields |-> IF a = "forward" /\ d = x THEN v
                                               ELSE IF a = "backward" /\ d = y THEN w ELSE h.node[d][a]]
  <2>1. CASE d = y
    <3>1. g.node[d] = [m[y] EXCEPT !.backward = w]
      BY <1>2, <1>4, <2>1
    <3>2. m[y] = [a \in NodeFields |-> IF a = "forward" /\ y = x THEN v ELSE h.node[y][a]]
      BY <1>5
    <3>3. [m[y] EXCEPT !.backward = w] = [a \in NodeFields |-> IF a = "backward" THEN w ELSE m[y][a]]
      BY <3>2 DEF NodeFields
    <3>4. \A a \in NodeFields : m[y][a] = IF a = "forward" /\ y = x THEN v ELSE h.node[y][a]
      BY <3>2
    <3>5. g.node[d] = [a \in NodeFields |-> IF a = "backward" THEN w ELSE m[y][a]]
      BY <3>1, <3>3
    <3> QED
      BY <2>1, <3>4, <3>5
  <2>2. CASE d # y
    <3>1. g.node[d] = m[d]
      BY <1>2, <1>4, <2>2
    <3> QED
      BY <1>5, <2>2, <3>1
  <2> QED
    BY <2>1, <2>2
<1>8. Held(g) = Held(h) /\ Shaped(g)
  <2>1. Held(g) = Held(h)
    BY <1>6 DEF Held
  <2> QED
    BY <1>3, <1>6, <2>1 DEF Shaped
<1>10. \A d \in Held(h) : g.node[d] = [a \in NodeFields |-> g.node[d][a]]
  BY <1>7
<1>9. \A d \in Held(h) :
                  /\ g.node[d].forward = IF d = x THEN v ELSE h.node[d].forward
                  /\ g.node[d].backward = IF d = y THEN w ELSE h.node[d].backward
                  /\ g.node[d].size = h.node[d].size /\ g.node[d].index = h.node[d].index
                  /\ g.node[d].parent = h.node[d].parent /\ g.node[d].child = h.node[d].child
  <2> SUFFICES ASSUME NEW d \in Held(h)
               PROVE
                  /\ g.node[d].forward = IF d = x THEN v ELSE h.node[d].forward
                  /\ g.node[d].backward = IF d = y THEN w ELSE h.node[d].backward
                  /\ g.node[d].size = h.node[d].size /\ g.node[d].index = h.node[d].index
                  /\ g.node[d].parent = h.node[d].parent /\ g.node[d].child = h.node[d].child
    OBVIOUS
  <2> DEFINE F == [a \in NodeFields |-> IF a = "forward" /\ d = x THEN v
                                         ELSE IF a = "backward" /\ d = y THEN w ELSE h.node[d][a]]
  <2>1. g.node[d] = F
    BY <1>7
  <2>2. /\ F.forward = IF d = x THEN v ELSE h.node[d].forward
        /\ F.backward = IF d = y THEN w ELSE h.node[d].backward
        /\ F.size = h.node[d].size /\ F.index = h.node[d].index
        /\ F.parent = h.node[d].parent /\ F.child = h.node[d].child
    BY DEF NodeFields
  <2> HIDE DEF F
  <2> QED
    BY <2>1, <2>2
<1> QED
  BY <1>2, <1>8, <1>9, <1>10 DEF g

\* Into the ring of the chunk of its size.
LEMMA InsertRing ==
  ASSUME NEW h, Trees(h), NEW c \in Chunk \ Held(h), NEW n \in LargeSizes, h.bin[TreeIndex(n)] # None,
         h.node[Spot(h, n).at].size = n
  PROVE  Puts(h, InsertLarge(h, c, n), c, n)
<1> DEFINE i == TreeIndex(n)
           t == Spot(h, n).at
           f == h.node[t].forward
           b == Joined(h, t, f, c, c)
           x == Node(i, n, None, f, t)
           g == With(b, c, x)
           N == Held(h) \cup {c}
<1>1. Typed(h) /\ Rings(h) /\ Links(h)
  BY DEF Trees
<1>2. PICK D : Deep(h, D)
  BY DEF Trees
<1>3. i \in Bins /\ c # None /\ c # Head /\ c \in Chunk /\ c \notin Held(h) /\ None \notin N /\ Head \notin N
  BY <1>1, IndexIs, Numbers, TreeBinAssumption DEF Typed
<1>4. i \in h.map
  BY <1>1, <1>3 DEF Typed
<1>5. InsertLarge(h, c, n) = g
  BY <1>4 DEF InsertLarge, JoinRing, Joined
<1>6. t \in Held(h) /\ InTrie(h, t) /\ h.node[t].size = n /\ f \in Held(h) /\ h.node[f].size = n
      /\ h.node[f].backward = t
  <2>1. t \in Held(h) /\ InTrie(h, t)
    BY <1>1, <1>2, SpotIs
  <2> HIDE DEF t
  <2>2. f \in Held(h) /\ h.node[f].size = h.node[t].size /\ h.node[f].backward = t
    BY <1>1, <2>1 DEF Typed, IsNode, Rings, Linked
  <2> QED
    BY <2>1, <2>2 DEF t
<1> HIDE DEF t, f, i
<1>7. /\ Shaped(b) /\ b.bin = h.bin /\ b.map = h.map /\ Held(b) = Held(h)
      /\ \A d \in Held(h) : b.node[d] = [a \in NodeFields |-> b.node[d][a]]
      /\ \A d \in Held(h) :
           /\ b.node[d].forward = IF d = t THEN c ELSE h.node[d].forward
           /\ b.node[d].backward = IF d = f THEN c ELSE h.node[d].backward
           /\ b.node[d].size = h.node[d].size /\ b.node[d].index = h.node[d].index
           /\ b.node[d].parent = h.node[d].parent /\ b.node[d].child = h.node[d].child
  <2>1. f \in Held(h) /\ t \in Held(h) /\ Typed(h)
    BY <1>1, <1>6
  <2> QED
    BY ONLY <2>1, RingWrites DEF b
<1>8. /\ x = [a \in NodeFields |-> x[a]]
      /\ x.index = i /\ x.size = n /\ x.parent = None /\ x.forward = f /\ x.backward = t
      /\ x.child = [s \in {0, 1} |-> x.child[s]] /\ x.child[0] = None /\ x.child[1] = None
  BY NodeIs
<1> HIDE DEF b, x
<1>9. /\ Shaped(g) /\ g.bin = h.bin /\ g.map = h.map /\ Held(g) = N /\ g.node[c] = x
      /\ \A d \in Held(h) : g.node[d] = b.node[d]
  BY <1>3, <1>7, WithIs
<1> HIDE DEF g
<1>16. \A d \in Held(h) : g.node[d] = [a \in NodeFields |-> g.node[d][a]]
  BY <1>7, <1>9
<1>10. \A d \in Held(h) :
           /\ g.node[d].forward = IF d = t THEN c ELSE h.node[d].forward
           /\ g.node[d].backward = IF d = f THEN c ELSE h.node[d].backward
           /\ g.node[d].size = h.node[d].size /\ g.node[d].index = h.node[d].index
           /\ g.node[d].parent = h.node[d].parent /\ g.node[d].child = h.node[d].child
  BY <1>7, <1>9
<1>11. Typed(g)
  <2>1. ASSUME NEW d \in N PROVE IsNode(g.node[d], N)
    <3>1. CASE d = c
      BY <1>6, <1>8, <1>9, <3>1 DEF IsNode, i
    <3>2. CASE d \in Held(h)
      <4>1. IsNode(h.node[d], Held(h))
        BY <1>1, <3>2 DEF Typed
      <4> QED
        BY <1>10, <1>16, <3>2, <4>1 DEF IsNode
    <3> QED
      BY <3>1, <3>2
  <2>2. N \subseteq Chunk /\ g.bin \in [Bins -> N \cup {None}] /\ g.map = {j \in Bins : g.bin[j] # None}
    BY <1>1, <1>3, <1>9 DEF Typed
  <2> QED
    BY <1>9, <2>1, <2>2 DEF Typed, Shaped
<1>12. \A d \in Held(h) : h.node[d].forward \in Held(h) /\ h.node[d].backward \in Held(h) /\ Linked(h, d)
  BY <1>1 DEF Typed, IsNode, Rings
<1>13. Rings(g)
  <2>1. ASSUME NEW d \in Held(g)
        PROVE  Linked(g, d) /\ \E e \in Held(g) : InTrie(g, e) /\ SameSize(g, e, d)
    <3>1. CASE d = c
      <4>1. Linked(g, c)
        BY <1>3, <1>6, <1>8, <1>9, <1>10 DEF Linked
      <4>2. InTrie(g, t) /\ SameSize(g, t, c)
        BY <1>6, <1>8, <1>9, <1>10 DEF InTrie, SameSize
      <4> QED
        BY <1>6, <1>9, <3>1, <4>1, <4>2
    <3>2. CASE d \in Held(h)
      <4>1. Linked(h, d) /\ h.node[d].forward \in Held(h) /\ h.node[d].backward \in Held(h)
        BY <1>12, <3>2
      <4>2. \E e \in Held(g) : InTrie(g, e) /\ SameSize(g, e, d)
        BY <1>1, <1>9, <1>10, <3>2 DEF Rings, InTrie, SameSize
      <4>3. g.node[g.node[d].forward].backward = d /\ g.node[g.node[d].forward].size = g.node[d].size
        <5>1. CASE d = t
          BY <1>6, <1>8, <1>9, <1>10, <5>1
        <5>2. CASE d # t
          <6>1. h.node[d].forward # f
            BY <1>6, <4>1, <5>2 DEF Linked
          <6> QED
            BY <1>10, <3>2, <4>1, <5>2, <6>1 DEF Linked
        <5> QED
          BY <5>1, <5>2
      <4>4. g.node[g.node[d].backward].forward = d /\ g.node[g.node[d].backward].size = g.node[d].size
        <5>1. CASE d = f
          BY <1>6, <1>8, <1>9, <1>10, <5>1
        <5>2. CASE d # f
          <6>1. h.node[d].backward # t
            BY <4>1, <5>2 DEF Linked, f
          <6> QED
            BY <1>10, <3>2, <4>1, <5>2, <6>1 DEF Linked
        <5> QED
          BY <5>1, <5>2
      <4>5. g.node[d].parent = None => g.node[d].child[0] = None /\ g.node[d].child[1] = None
        BY <1>10, <3>2, <4>1 DEF Linked
      <4> QED
        BY <4>2, <4>3, <4>4, <4>5 DEF Linked
    <3> QED
      BY <1>9, <3>1, <3>2
  <2>2. ASSUME NEW d \in Held(g), NEW e \in Held(g), InTrie(g, d), InTrie(g, e), SameSize(g, d, e) PROVE d = e
    <3>1. d \in Held(h) /\ e \in Held(h)
      BY <1>8, <1>9, <2>2 DEF InTrie
    <3> QED
      BY <1>1, <1>10, <2>2, <3>1 DEF Rings, InTrie, SameSize
  <2>3. ASSUME NEW d \in Held(g), NEW e \in Held(g), NEW S \in SUBSET Held(g), d \in S, Closed(g, S), SameSize(g, d, e)
        PROVE  e \in S
    <3> DEFINE T == S \ {c}
               a == IF d = c THEN f ELSE d
    <3>1. c \in S => f \in S
      BY <1>8, <1>9, <2>3 DEF Closed
    <3>2. T \in SUBSET Held(h) /\ a \in T /\ a \in Held(h) /\ h.node[a].size = g.node[d].size
      <4>1. T \in SUBSET Held(h) /\ f # c
        BY <1>3, <1>6, <1>9
      <4>2. CASE d = c
        BY <1>6, <1>8, <1>9, <2>3, <3>1, <4>1, <4>2
      <4>3. CASE d # c
        BY <1>9, <1>10, <2>3, <4>1, <4>3
      <4> QED
        BY <4>2, <4>3
    <3>3. Closed(h, T)
      <4> SUFFICES ASSUME NEW y \in T PROVE h.node[y].forward \in T
        BY DEF Closed
      <4>1. y \in Held(h) /\ y \in S /\ g.node[y].forward \in S
        BY <2>3, <3>2 DEF Closed
      <4>2. CASE y = t
        BY <1>3, <1>6, <1>10, <3>1, <4>1, <4>2 DEF f
      <4>3. CASE y # t
        <5>1. h.node[y].forward \in S /\ h.node[y].forward \in Held(h)
          BY <1>10, <1>12, <4>1, <4>3
        <5> QED
          BY <1>3, <5>1
      <4> QED
        BY <4>2, <4>3
    <3> HIDE DEF T, a
    <3>4. \A z \in Held(h) : h.node[z].size = g.node[d].size => z \in T
      <4> SUFFICES ASSUME NEW z \in Held(h), h.node[z].size = g.node[d].size PROVE z \in T
        OBVIOUS
      <4>1. SameSize(h, a, z)
        BY <3>2 DEF SameSize
      <4> QED
        BY <1>1, <3>2, <3>3, <4>1 DEF Rings
    <3>5. CASE e = c
      <4>1. g.node[d].size = n
        BY <1>8, <1>9, <2>3, <3>5 DEF SameSize
      <4>2. t \in T
        BY <1>6, <3>4, <4>1
      <4>3. t \in S /\ g.node[t].forward = c
        BY <1>6, <1>10, <4>2 DEF T
      <4> QED
        BY <2>3, <3>5, <4>3 DEF Closed
    <3>6. CASE e \in Held(h)
      <4>1. h.node[e].size = g.node[d].size
        BY <1>10, <2>3, <3>6 DEF SameSize
      <4> QED
        BY <3>4, <3>6, <4>1 DEF T
    <3> QED
      BY <1>9, <3>5, <3>6
  <2> QED
    BY <2>1, <2>2, <2>3 DEF Rings
<1>14. Links(g)
  <2>1. ASSUME NEW j \in Bins, g.bin[j] # None PROVE g.node[g.bin[j]].parent = Head /\ g.node[g.bin[j]].index = j
    <3>1. g.bin[j] = h.bin[j] /\ h.bin[j] \in Held(h)
      BY <1>1, <1>9, <2>1 DEF Typed
    <3> QED
      BY <1>1, <1>10, <2>1, <3>1 DEF Links
  <2>2. ASSUME NEW d \in Held(g), g.node[d].parent # None PROVE d \in Held(h)
    BY <1>8, <1>9, <2>2
  <2>3. ASSUME NEW d \in Held(g), g.node[d].parent = Head PROVE g.bin[g.node[d].index] = d
    <3>1. d \in Held(h)
      BY <2>2, <2>3, TreeBinAssumption
    <3> QED
      BY <1>1, <1>9, <1>10, <2>3, <3>1 DEF Links
  <2>4. ASSUME NEW d \in Held(g), g.node[d].parent \in Held(g)
        PROVE  LET q == g.node[d].parent
               IN  /\ InTrie(g, q) /\ g.node[q].index = g.node[d].index
                   /\ d = g.node[q].child[0] \/ d = g.node[q].child[1]
    <3> DEFINE q == h.node[d].parent
    <3>1. d \in Held(h) /\ g.node[d].parent = q
      BY <1>3, <1>9, <1>10, <2>2, <2>4
    <3>2. q \in Held(h) \cup {Head, None}
      BY <1>1, <3>1 DEF Typed, IsNode
    <3>3. q \in Held(h)
      BY <1>3, <1>9, <2>4, <3>1, <3>2
    <3>4. InTrie(h, q) /\ h.node[q].index = h.node[d].index /\ (d = h.node[q].child[0] \/ d = h.node[q].child[1])
      BY <1>1, <3>1, <3>3 DEF Links
    <3> HIDE DEF q
    <3> QED
      BY <1>10, <3>1, <3>3, <3>4 DEF InTrie
  <2>5. ASSUME NEW d \in Held(g), NEW s \in {0, 1}, g.node[d].child[s] # None PROVE g.node[g.node[d].child[s]].parent = d
    <3>1. d \in Held(h)
      BY <1>8, <1>9, <2>5
    <3>2. g.node[d].child[s] = h.node[d].child[s] /\ IsNode(h.node[d], Held(h))
      BY <1>1, <1>10, <3>1 DEF Typed
    <3>3. h.node[d].child[s] \in Held(h)
      BY <2>5, <3>2 DEF IsNode
    <3> QED
      BY <1>1, <1>10, <2>5, <3>1, <3>2, <3>3 DEF Links
  <2> QED
    BY <2>1, <2>3, <2>4, <2>5 DEF Links
<1>15. \E E : Deep(g, E)
  <2> DEFINE E == [d \in N |-> IF d = c THEN 0 ELSE D[d]]
  <2>1. E[c] = 0 /\ \A d \in Held(h) : E[d] = D[d]
    BY <1>3
  <2> HIDE DEF E
  <2>2. ASSUME NEW d \in Held(g) PROVE E[d] \in Nat /\ (g.node[d].parent = Head => E[d] = 0)
    <3>1. CASE d = c
      BY <2>1, <3>1
    <3>2. CASE d \in Held(h)
      BY <1>2, <1>10, <2>1, <3>2 DEF Deep
    <3> QED
      BY <1>9, <3>1, <3>2
  <2>3. ASSUME NEW d \in Held(g), NEW s \in {0, 1}, g.node[d].child[s] # None
        PROVE  LET k == g.node[d].child[s]
               IN  /\ E[k] = E[d] + 1
                   /\ Agree(g.node[k].size, g.node[d].size, E[d]) /\ Bit(g.node[k].size, E[d]) = s
    <3>1. d \in Held(h)
      BY <1>8, <1>9, <2>3
    <3>2. g.node[d].child[s] = h.node[d].child[s] /\ IsNode(h.node[d], Held(h))
      BY <1>1, <1>10, <3>1 DEF Typed
    <3>3. h.node[d].child[s] \in Held(h)
      BY <2>3, <3>2 DEF IsNode
    <3> QED
      BY <1>2, <1>10, <2>1, <2>3, <3>1, <3>2, <3>3 DEF Deep
  <2> QED
    BY <2>2, <2>3 DEF Deep
<1> QED
  BY <1>5, <1>8, <1>9, <1>10, <1>11, <1>13, <1>14, <1>15 DEF Puts, Trees

\* Wherever it goes, the tries stay well-formed (sm_insert_large_chunk 2000-2069).
THEOREM Inserting ==
  ASSUME NEW h, Trees(h), NEW c \in Chunk \ Held(h), NEW n \in LargeSizes
  PROVE  Puts(h, InsertLarge(h, c, n), c, n)
  BY InsertRoot, InsertLeaf, InsertRing

----------------------------------------------------------------------------
(* What an unlinking writes. *)

\* Records and functions are what they are written as.
Shapes(h) ==
  /\ Shaped(h) /\ h.bin = [i \in Bins |-> h.bin[i]]
  /\ \A d \in Held(h) : h.node[d] = [a \in NodeFields |-> h.node[d][a]]
                     /\ h.node[d].child = [s \in {0, 1} |-> h.node[d].child[s]]

\* The fields of d but for its children, and for its parent.
SameRing(h, g, d) ==
  /\ g.node[d].index = h.node[d].index /\ g.node[d].size = h.node[d].size
  /\ g.node[d].forward = h.node[d].forward /\ g.node[d].backward = h.node[d].backward

\* The fields of d but for its children.
SameUp(h, g, d) == SameRing(h, g, d) /\ g.node[d].parent = h.node[d].parent

\* Typed bins have the shape the writes need.
LEMMA TypedShapes ==
  ASSUME NEW h, Typed(h)
  PROVE  Shapes(h)
  BY DEF Typed, IsNode, Shapes, Shaped

\* The child of p on side u is v.
ChildSet(h, p, u, v) == [h EXCEPT !.node[p].child[u] = v]

\* A child is written.
LEMMA ChildWrite ==
  ASSUME NEW h, Shapes(h), NEW p \in Held(h), NEW u \in {0, 1}, NEW v
  PROVE  LET g == ChildSet(h, p, u, v)
         IN  /\ Shapes(g) /\ Held(g) = Held(h) /\ g.bin = h.bin /\ g.map = h.map
             /\ \A d \in Held(h) : SameUp(h, g, d)
             /\ \A d \in Held(h), s \in {0, 1} :
                   g.node[d].child[s] = IF d = p /\ s = u THEN v ELSE h.node[d].child[s]
<1> DEFINE g == ChildSet(h, p, u, v)
           x == h.node[p]
           y == [x EXCEPT !.child[u] = v]
<1>1. h = [f \in {"bin", "map", "node"} |-> h[f]] /\ h.node = [d \in Held(h) |-> h.node[d]]
  BY DEF Shapes, Shaped
<1>2. g.node = [h.node EXCEPT ![p].child[u] = v] /\ g.map = h.map /\ g.bin = h.bin
  BY <1>1 DEF ChildSet
<1>3. g = [f \in {"bin", "map", "node"} |-> g[f]]
  BY <1>1 DEF ChildSet
<1> HIDE DEF g
<1>4. Held(g) = Held(h) /\ g.node = [d \in Held(g) |-> g.node[d]]
  BY <1>1, <1>2 DEF Held
<1>5. (\A d \in Held(h) \ {p} : g.node[d] = h.node[d]) /\ g.node[p] = y
  BY <1>1, <1>2 DEF Held
<1>6. x = [a \in NodeFields |-> x[a]] /\ x.child = [s \in {0, 1} |-> x.child[s]]
  BY DEF Shapes
<1> DEFINE w == [s \in {0, 1} |-> IF s = u THEN v ELSE x.child[s]]
<1>7. y = [a \in NodeFields |-> IF a = "child" THEN w ELSE x[a]]
  <2>1. [x.child EXCEPT ![u] = v] = w
    BY <1>6
  <2>2. y = [a \in NodeFields |-> IF a = "child" THEN [x.child EXCEPT ![u] = v] ELSE x[a]]
    BY <1>6 DEF NodeFields
  <2> QED
    BY <2>1, <2>2
<1>8. /\ y = [a \in NodeFields |-> y[a]] /\ y.child = w
      /\ y.index = x.index /\ y.size = x.size /\ y.parent = x.parent /\ y.forward = x.forward /\ y.backward = x.backward
  <2> HIDE DEF y, w
  <2> QED
    BY <1>7 DEF NodeFields
<1>9. w = [s \in {0, 1} |-> w[s]] /\ \A s \in {0, 1} : w[s] = IF s = u THEN v ELSE x.child[s]
  OBVIOUS
<1> HIDE DEF y, w
<1>10. ASSUME NEW d \in Held(h)
       PROVE  /\ SameUp(h, g, d)
              /\ \A s \in {0, 1} : g.node[d].child[s] = IF d = p /\ s = u THEN v ELSE h.node[d].child[s]
              /\ g.node[d] = [a \in NodeFields |-> g.node[d][a]]
              /\ g.node[d].child = [s \in {0, 1} |-> g.node[d].child[s]]
  <2>1. CASE d = p
    BY <1>5, <1>8, <1>9, <2>1 DEF SameUp, SameRing
  <2>2. CASE d # p
    BY <1>5, <2>2 DEF SameUp, SameRing, Shapes
  <2> QED
    BY <2>1, <2>2
<1>11. Shapes(g)
  BY <1>2, <1>3, <1>4, <1>10 DEF Shapes, Shaped
<1> QED
  BY <1>2, <1>4, <1>10, <1>11 DEF g

\* c is in one place: its bin, or one side of its parent.
Placed(h, c) ==
  LET x == h.node[c]
  IN  /\ x.index \in Bins
      /\ \A i \in Bins : h.bin[i] = c <=> i = x.index /\ x.parent = Head
      /\ \A e \in Held(h), s \in {0, 1} : h.node[e].child[s] = c => e = x.parent
      /\ x.parent # Head =>
            x.parent \in Held(h) /\ \E s \in {0, 1} : \A u \in {0, 1} : h.node[x.parent].child[u] = c <=> u = s

\* r where c was.
For(x, c, r) == IF x = c THEN r ELSE x

\* The pointer to c is one to r now.
Relinks(h, g, c, r) ==
  /\ Shapes(g) /\ Held(g) = Held(h)
  /\ g.map = IF r = None THEN {i \in h.map : i \notin Bins \/ h.bin[i] # c} ELSE h.map
  /\ \A i \in Bins : g.bin[i] = For(h.bin[i], c, r)
  /\ \A d \in Held(h) : SameUp(h, g, d)
  /\ \A d \in Held(h), s \in {0, 1} : g.node[d].child[s] = For(h.node[d].child[s], c, r)

\* What pointing to r in place of c writes.
LEMMA RelinkIs ==
  ASSUME NEW h, Shapes(h), Head \notin Held(h), NEW c \in Held(h), Placed(h, c), NEW r
  PROVE  Relinks(h, Relink(h, c, r), c, r)
<1> DEFINE g == Relink(h, c, r)
           x == h.node[c]
<1>1. CASE x.parent = Head
  <2> DEFINE b == [h EXCEPT !.bin[x.index] = r, !.map = IF r = None THEN @ \ {x.index} ELSE @]
  <2>1. h.bin[x.index] = c
    BY <1>1 DEF Placed
  <2>2. g = b
    BY <2>1 DEF Relink
  <2>3. h = [f \in {"bin", "map", "node"} |-> h[f]]
    BY DEF Shapes, Shaped
  <2>4. b.bin = [h.bin EXCEPT ![x.index] = r] /\ b.node = h.node /\ b.map = IF r = None THEN h.map \ {x.index} ELSE h.map
    BY <2>3
  <2>5. b = [f \in {"bin", "map", "node"} |-> b[f]]
    BY <2>3
  <2> HIDE DEF b, g
  <2>6. Held(b) = Held(h)
    BY <2>4 DEF Held
  <2>7. h.bin = [i \in Bins |-> h.bin[i]] /\ x.index \in Bins
    BY DEF Shapes, Placed
  <2>8. b.bin = [i \in Bins |-> b.bin[i]] /\ \A i \in Bins : b.bin[i] = IF i = x.index THEN r ELSE h.bin[i]
    BY <2>4, <2>7
  <2>9. \A i \in Bins : h.bin[i] = c <=> i = x.index
    BY <1>1 DEF Placed
  <2>10. Shapes(b)
    <3>1. b.node = h.node
      BY <2>4
    <3>2. h.node = [d \in Held(h) |-> h.node[d]]
      BY DEF Shapes, Shaped
    <3>3. Shaped(b)
      BY <2>5, <2>6, <3>1, <3>2 DEF Shaped
    <3> QED
      BY <2>6, <2>8, <3>1, <3>3 DEF Shapes
  <2>11. \A d \in Held(h), s \in {0, 1} : h.node[d].child[s] # c
    <3> SUFFICES ASSUME NEW d \in Held(h), NEW s \in {0, 1}, h.node[d].child[s] = c PROVE FALSE
      OBVIOUS
    <3>1. x.parent = d
      BY DEF Placed
    <3> QED
      BY <1>1, <3>1
  <2>12. \A i \in Bins : b.bin[i] = For(h.bin[i], c, r)
    BY <2>8, <2>9 DEF For
  <2>13. b.map = IF r = None THEN {i \in h.map : i \notin Bins \/ h.bin[i] # c} ELSE h.map
    <3>1. \A i : i = x.index <=> ~(i \notin Bins \/ h.bin[i] # c)
      BY <2>7, <2>9
    <3>2. h.map \ {x.index} = {i \in h.map : i \notin Bins \/ h.bin[i] # c}
      BY <3>1
    <3> QED
      BY <2>4, <3>2
  <2>14. \A d \in Held(h) : SameUp(h, b, d)
    BY <2>4 DEF SameUp, SameRing
  <2>15. \A d \in Held(h), s \in {0, 1} : b.node[d].child[s] = For(h.node[d].child[s], c, r)
    BY <2>4, <2>11 DEF For
  <2> QED
    BY <2>2, <2>6, <2>10, <2>12, <2>13, <2>14, <2>15 DEF g, Relinks
<1>2. CASE x.parent # Head
  <2> DEFINE p == x.parent
  <2>1. PICK s \in {0, 1} : \A u \in {0, 1} : h.node[p].child[u] = c <=> u = s
    BY <1>2 DEF Placed
  <2>2. p \in Held(h) /\ x.index \in Bins
    BY <1>2 DEF Placed
  <2>3. h.bin[x.index] # c
    BY <1>2, <2>2 DEF Placed
  <2> DEFINE b == ChildSet(h, p, s, r)
  <2>4. g = b
    <3>1. (IF h.node[p].child[0] = c THEN 0 ELSE 1) = s
      BY <2>1
    <3> QED
      BY <2>3, <3>1 DEF Relink, ChildSet
  <2>5. /\ Shapes(b) /\ Held(b) = Held(h) /\ b.bin = h.bin /\ b.map = h.map
        /\ \A d \in Held(h) : SameUp(h, b, d)
        /\ \A d \in Held(h), u \in {0, 1} :
              b.node[d].child[u] = IF d = p /\ u = s THEN r ELSE h.node[d].child[u]
    BY <2>2, ChildWrite
  <2> HIDE DEF b, g
  <2>6. \A d \in Held(h), u \in {0, 1} : h.node[d].child[u] = c <=> d = p /\ u = s
    BY <2>1, <2>2 DEF Placed
  <2>7. \A i \in Bins : h.bin[i] # c
    BY <1>2 DEF Placed
  <2>8. \A i \in Bins : b.bin[i] = For(h.bin[i], c, r)
    BY <2>5, <2>7 DEF For
  <2>9. \A d \in Held(h), u \in {0, 1} : b.node[d].child[u] = For(h.node[d].child[u], c, r)
    BY <2>5, <2>6 DEF For
  <2>10. b.map = IF r = None THEN {i \in h.map : i \notin Bins \/ h.bin[i] # c} ELSE h.map
    BY <2>5, <2>7
  <2> QED
    BY <2>4, <2>5, <2>8, <2>9, <2>10 DEF g, Relinks
<1> QED
  BY <1>1, <1>2

\* r gets the children of c, and its parent.
LEMMA AdoptIs ==
  ASSUME NEW h, Shapes(h), NEW c \in Held(h), NEW r \in Held(h), r # c
  PROVE  LET g == Adopt(h, c, r)
             kid == h.node[c].child
         IN  /\ Shapes(g) /\ Held(g) = Held(h) /\ g.bin = h.bin /\ g.map = h.map
             /\ \A d \in Held(h) : SameRing(h, g, d)
             /\ \A d \in Held(h) : g.node[d].parent = IF d = r THEN h.node[c].parent
                                                     ELSE IF d \in {kid[0], kid[1]} THEN r ELSE h.node[d].parent
             /\ \A d \in Held(h), s \in {0, 1} :
                   g.node[d].child[s] = IF d = r /\ kid[s] # None THEN kid[s] ELSE h.node[d].child[s]
<1> DEFINE g == Adopt(h, c, r)
           kid == h.node[c].child
           kids == {kid[0], kid[1]}
           new(d) == IF d = r THEN [h.node[d] EXCEPT !.parent = h.node[c].parent, !.child = Inherited(h, c, r)]
                     ELSE IF d \in kids THEN [h.node[d] EXCEPT !.parent = r] ELSE h.node[d]
           node == [d \in Held(h) |-> new(d)]
<1>1. h = [f \in {"bin", "map", "node"} |-> h[f]]
  BY DEF Shapes, Shaped
<1>2. \A d \in Held(h) : h.node[d] = [a \in NodeFields |-> h.node[d][a]]
  BY DEF Shapes
<1>3. g = [h EXCEPT !.node = node]
  BY DEF Adopt, Held
<1> HIDE DEF node
<1>4. g.node = node /\ g.bin = h.bin /\ g.map = h.map /\ g = [f \in {"bin", "map", "node"} |-> g[f]]
  BY <1>1, <1>3
<1> HIDE DEF g, kids
<1>5. Held(g) = Held(h) /\ g.node = [d \in Held(h) |-> g.node[d]]
  BY <1>4 DEF Held, node
<1>6. ASSUME NEW d \in Held(h) PROVE g.node[d] = new(d)
  BY <1>4 DEF node
<1>7. ASSUME NEW d \in Held(h)
      PROVE  /\ g.node[d] = [a \in NodeFields |-> g.node[d][a]]
             /\ g.node[d].child = [s \in {0, 1} |-> g.node[d].child[s]]
             /\ SameRing(h, g, d)
             /\ g.node[d].parent = IF d = r THEN h.node[c].parent ELSE IF d \in kids THEN r ELSE h.node[d].parent
             /\ \A s \in {0, 1} : g.node[d].child[s] = IF d = r /\ kid[s] # None THEN kid[s] ELSE h.node[d].child[s]
  <2> DEFINE x == h.node[d]
  <2>1. x = [a \in NodeFields |-> x[a]] /\ x.child = [s \in {0, 1} |-> x.child[s]]
    BY DEF Shapes
  <2>2. CASE d = r
    <3> DEFINE w == Inherited(h, c, r)
               y == [x EXCEPT !.parent = h.node[c].parent, !.child = w]
               z == [a \in NodeFields |-> IF a = "parent" THEN h.node[c].parent ELSE IF a = "child" THEN w ELSE x[a]]
    <3>1. g.node[d] = y
      BY <1>6, <2>2
    <3>2. w = [s \in {0, 1} |-> w[s]] /\ \A s \in {0, 1} : w[s] = IF kid[s] # None THEN kid[s] ELSE x.child[s]
      BY <2>2 DEF Inherited
    <3> HIDE DEF w, x
    <3>3. y = z
      BY <2>1 DEF NodeFields
    <3> HIDE DEF y
    <3>4. /\ z = [a \in NodeFields |-> z[a]] /\ z.child = w /\ z.parent = h.node[c].parent
          /\ z.index = x.index /\ z.size = x.size /\ z.forward = x.forward /\ z.backward = x.backward
      BY DEF NodeFields
    <3> HIDE DEF z
    <3> QED
      BY <2>2, <3>1, <3>2, <3>3, <3>4 DEF SameRing, x
  <2>3. CASE d # r /\ d \in kids
    <3> DEFINE y == [x EXCEPT !.parent = r]
               z == [a \in NodeFields |-> IF a = "parent" THEN r ELSE x[a]]
    <3>1. g.node[d] = y
      BY <1>6, <2>3
    <3> HIDE DEF x
    <3>3. y = z
      BY <2>1 DEF NodeFields
    <3> HIDE DEF y
    <3>4. /\ z = [a \in NodeFields |-> z[a]] /\ z.child = x.child /\ z.parent = r
          /\ z.index = x.index /\ z.size = x.size /\ z.forward = x.forward /\ z.backward = x.backward
      BY DEF NodeFields
    <3> HIDE DEF z
    <3> QED
      BY <2>1, <2>3, <3>1, <3>3, <3>4 DEF SameRing, x
  <2>4. CASE d # r /\ d \notin kids
    <3>1. g.node[d] = x
      BY <1>6, <2>4
    <3> QED
      BY <2>1, <2>4, <3>1 DEF SameRing
  <2> QED
    BY <2>2, <2>3, <2>4
<1>8. Shapes(g)
  <2>1. g.bin = [i \in Bins |-> g.bin[i]]
    BY <1>4 DEF Shapes
  <2> QED
    BY <1>4, <1>5, <1>7, <2>1 DEF Shapes, Shaped
<1> QED
  BY <1>4, <1>5, <1>7, <1>8 DEF g, kids

\* c is not held any more.
Without(h, c) == [h EXCEPT !.node = [e \in DOMAIN @ \ {c} |-> @[e]]]

\* Forgetting a chunk leaves the others as they are.
LEMMA WithoutIs ==
  ASSUME NEW h, Shapes(h), NEW c
  PROVE  LET g == Without(h, c)
         IN  /\ Shapes(g) /\ Held(g) = Held(h) \ {c} /\ g.bin = h.bin /\ g.map = h.map
             /\ \A d \in Held(g) : g.node[d] = h.node[d]
<1> DEFINE g == Without(h, c)
           node == [e \in Held(h) \ {c} |-> h.node[e]]
<1>1. h = [f \in {"bin", "map", "node"} |-> h[f]]
  BY DEF Shapes, Shaped
<1>2. g = [h EXCEPT !.node = node]
  BY DEF Without, Held
<1> HIDE DEF node
<1>3. g.node = node /\ g.bin = h.bin /\ g.map = h.map /\ g = [f \in {"bin", "map", "node"} |-> g[f]]
  BY <1>1, <1>2
<1> HIDE DEF g
<1>4. Held(g) = Held(h) \ {c} /\ g.node = [d \in Held(g) |-> g.node[d]] /\ \A d \in Held(g) : g.node[d] = h.node[d]
  BY <1>3 DEF Held, node
<1>5. g.bin = [i \in Bins |-> g.bin[i]]
  BY <1>3 DEF Shapes
<1>6. Shaped(g)
  BY <1>3, <1>4 DEF Shaped
<1>7. \A d \in Held(g) : /\ g.node[d] = [a \in NodeFields |-> g.node[d][a]]
                         /\ g.node[d].child = [s \in {0, 1} |-> g.node[d].child[s]]
  <2>1. \A d \in Held(h) : /\ h.node[d] = [a \in NodeFields |-> h.node[d][a]]
                           /\ h.node[d].child = [s \in {0, 1} |-> h.node[d].child[s]]
    BY DEF Shapes
  <2>2. ASSUME NEW d \in Held(g)
        PROVE  /\ g.node[d] = [a \in NodeFields |-> g.node[d][a]]
               /\ g.node[d].child = [s \in {0, 1} |-> g.node[d].child[s]]
    <3>1. d \in Held(h) /\ g.node[d] = h.node[d]
      BY <1>4
    <3> QED
      BY <2>1, <3>1
  <2> QED
    BY <2>2
<1>8. Shapes(g)
  BY <1>5, <1>6, <1>7 DEF Shapes
<1> QED
  BY <1>3, <1>4, <1>8 DEF g

\* A chunk of a trie is in one place.
LEMMA PlacedIs ==
  ASSUME NEW h, Typed(h), Links(h), NEW D, Deep(h, D), NEW c \in Held(h), InTrie(h, c)
  PROVE  Placed(h, c) /\ Head \notin Held(h) /\ None \notin Held(h)
<1> DEFINE x == h.node[c]
<1>1. Head \notin Held(h) /\ None \notin Held(h) /\ c # None
  BY TreeBinAssumption DEF Typed
<1>2. x.index \in Bins
  <2>1. x.size \in LargeSizes /\ x.index = TreeIndex(x.size)
    BY DEF Typed, IsNode
  <2> QED
    BY <2>1, IndexIs, Numbers
<1>3. ASSUME NEW i \in Bins PROVE h.bin[i] = c <=> (i = x.index /\ x.parent = Head)
  BY <1>1 DEF Links
<1>4. ASSUME NEW e \in Held(h), NEW s \in {0, 1}, h.node[e].child[s] = c PROVE e = x.parent
  BY <1>1, <1>4 DEF Links
<1>5. ASSUME x.parent # Head
      PROVE  x.parent \in Held(h) /\ \E s \in {0, 1} : \A u \in {0, 1} : h.node[x.parent].child[u] = c <=> u = s
  <2>1. x.parent \in Held(h)
    BY <1>5 DEF Typed, IsNode, InTrie
  <2>2. PICK s \in {0, 1} : h.node[x.parent].child[s] = c
    BY <2>1 DEF Links
  <2>3. ASSUME NEW u \in {0, 1}, h.node[x.parent].child[u] = c PROVE u = s
    <3>1. Bit(h.node[c].size, D[x.parent]) = u /\ Bit(h.node[c].size, D[x.parent]) = s
      BY <1>1, <2>1, <2>2, <2>3 DEF Deep
    <3> QED
      BY <3>1
  <2> QED
    BY <2>1, <2>2, <2>3
<1> QED
  BY <1>1, <1>2, <1>3, <1>4, <1>5 DEF Placed

\* The fields of a node of well-formed bins.
LEMMA Fields ==
  ASSUME NEW h, Typed(h), NEW d \in Held(h)
  PROVE  LET x == h.node[d]
         IN  /\ x.size \in LargeSizes /\ x.index = TreeIndex(x.size)
             /\ x.parent \in Held(h) \cup {Head, None} /\ x.forward \in Held(h) /\ x.backward \in Held(h)
             /\ \A s \in {0, 1} : x.child[s] \in Held(h) \cup {None}
  BY DEF Typed, IsNode

\* The fields make well-formed types.
LEMMA TypedIs ==
  ASSUME NEW g, Shapes(g), Held(g) \subseteq Chunk,
         \A i \in Bins : g.bin[i] \in Held(g) \cup {None}, g.map = {i \in Bins : g.bin[i] # None},
         \A d \in Held(g) :
             /\ g.node[d].size \in LargeSizes /\ g.node[d].index = TreeIndex(g.node[d].size)
             /\ g.node[d].parent \in Held(g) \cup {Head, None}
             /\ g.node[d].forward \in Held(g) /\ g.node[d].backward \in Held(g)
             /\ \A s \in {0, 1} : g.node[d].child[s] \in Held(g) \cup {None}
  PROVE  Typed(g)
<1>1. ASSUME NEW d \in Held(g) PROVE IsNode(g.node[d], Held(g))
  BY DEF IsNode, Shapes
<1>2. g.bin \in [Bins -> Held(g) \cup {None}]
  BY DEF Shapes
<1> QED
  BY <1>1, <1>2 DEF Typed, Shapes, Shaped

\* A chunk without children comes out of its trie.
LEMMA Pruned ==
  ASSUME NEW h, Typed(h), Links(h), NEW D, Deep(h, D), NEW c \in Held(h), InTrie(h, c),
         h.node[c].child[0] = None, h.node[c].child[1] = None,
         NEW g, Shapes(g), Held(g) = Held(h), g.map = {i \in Bins : g.bin[i] # None},
         \A i \in Bins : g.bin[i] = For(h.bin[i], c, None),
         \A d \in Held(h) : SameRing(h, g, d) /\ g.node[d].parent = IF d = c THEN None ELSE h.node[d].parent,
         \A d \in Held(h), s \in {0, 1} : g.node[d].child[s] = For(h.node[d].child[s], c, None)
  PROVE  Typed(g) /\ Links(g) /\ Deep(g, D) /\ ~InTrie(g, c)
<1>1. Placed(h, c) /\ Head \notin Held(h) /\ None \notin Held(h) /\ c # None
  BY PlacedIs
<1>2. ASSUME NEW i \in Bins PROVE h.bin[i] \in Held(h) \cup {None}
  BY DEF Typed
<1>3. ASSUME NEW d \in Held(h)
      PROVE  /\ g.node[d].size \in LargeSizes /\ g.node[d].index = TreeIndex(g.node[d].size)
             /\ g.node[d].parent \in Held(g) \cup {Head, None}
             /\ g.node[d].forward \in Held(g) /\ g.node[d].backward \in Held(g)
             /\ \A s \in {0, 1} : g.node[d].child[s] \in Held(g) \cup {None}
  BY Fields DEF SameRing, For
<1>4. Typed(g)
  <2>1. \A i \in Bins : g.bin[i] \in Held(g) \cup {None}
    BY <1>2 DEF For
  <2>2. Held(g) \subseteq Chunk
    BY DEF Typed
  <2> QED
    BY <1>3, <2>1, <2>2, TypedIs
<1>5. ~InTrie(g, c)
  BY DEF InTrie
<1>6. ASSUME NEW d \in Held(h), NEW s \in {0, 1}, g.node[d].child[s] # None
      PROVE  /\ d # c /\ g.node[d].child[s] = h.node[d].child[s]
             /\ h.node[d].child[s] # c /\ h.node[d].child[s] \in Held(h)
  <2>1. h.node[d].child[s] # c /\ g.node[d].child[s] = h.node[d].child[s]
    BY <1>6 DEF For
  <2>2. d # c
    BY <1>6, <2>1
  <2> QED
    BY <1>6, <2>1, <2>2, Fields
<1>7. Links(g)
  <2>1. ASSUME NEW i \in Bins, g.bin[i] # None PROVE g.node[g.bin[i]].parent = Head /\ g.node[g.bin[i]].index = i
    <3>1. g.bin[i] = h.bin[i] /\ h.bin[i] # c /\ h.bin[i] \in Held(h)
      BY <1>2, <2>1 DEF For
    <3>2. h.node[h.bin[i]].parent = Head /\ h.node[h.bin[i]].index = i
      BY <2>1, <3>1 DEF Links
    <3> QED
      BY <3>1, <3>2 DEF SameRing
  <2>2. ASSUME NEW d \in Held(h), g.node[d].parent = Head PROVE g.bin[g.node[d].index] = d
    <3>1. d # c /\ h.node[d].parent = Head
      BY <2>2, TreeBinAssumption
    <3>2. h.bin[h.node[d].index] = d /\ h.node[d].index \in Bins
      <4>1. h.node[d].size \in Words /\ h.node[d].index = TreeIndex(h.node[d].size)
        BY Fields, Numbers
      <4> QED
        BY <3>1, <4>1, IndexIs DEF Links
    <3>3. g.node[d].index = h.node[d].index
      BY DEF SameRing
    <3> QED
      BY <3>1, <3>2, <3>3 DEF For
  <2>3. ASSUME NEW d \in Held(h), g.node[d].parent \in Held(h)
        PROVE  LET p == g.node[d].parent
               IN  /\ InTrie(g, p) /\ g.node[p].index = g.node[d].index
                   /\ (d = g.node[p].child[0] \/ d = g.node[p].child[1])
    <3> DEFINE p == h.node[d].parent
    <3>1. d # c /\ g.node[d].parent = p /\ p \in Held(h)
      BY <1>1, <2>3
    <3>2. InTrie(h, p) /\ h.node[p].index = h.node[d].index /\ (d = h.node[p].child[0] \/ d = h.node[p].child[1])
      BY <3>1 DEF Links
    <3> HIDE DEF p
    <3>3. p # c
      BY <1>1, <3>1, <3>2
    <3>4. g.node[p].child[0] = For(h.node[p].child[0], c, None) /\ g.node[p].child[1] = For(h.node[p].child[1], c, None)
      BY <3>1
    <3>5. g.node[p].parent = h.node[p].parent /\ g.node[p].index = h.node[p].index /\ g.node[d].index = h.node[d].index
      BY <3>1, <3>3 DEF SameRing
    <3> QED
      BY <3>1, <3>2, <3>4, <3>5 DEF For, InTrie
  <2>4. ASSUME NEW d \in Held(h), NEW s \in {0, 1}, g.node[d].child[s] # None PROVE g.node[g.node[d].child[s]].parent = d
    <3>1. h.node[h.node[d].child[s]].parent = d
      BY <1>6, <2>4 DEF Links
    <3> QED
      BY <1>6, <2>4, <3>1
  <2> QED
    BY <2>1, <2>2, <2>3, <2>4 DEF Links
<1>8. Deep(g, D)
  <2>1. ASSUME NEW d \in Held(h) PROVE D[d] \in Nat /\ (g.node[d].parent = Head => D[d] = 0)
    BY TreeBinAssumption DEF Deep
  <2>2. ASSUME NEW d \in Held(h), NEW s \in {0, 1}, g.node[d].child[s] # None
        PROVE  LET k == g.node[d].child[s]
               IN  /\ D[k] = D[d] + 1
                   /\ Agree(g.node[k].size, g.node[d].size, D[d]) /\ Bit(g.node[k].size, D[d]) = s
    <3> DEFINE k == h.node[d].child[s]
    <3>1. g.node[d].child[s] = k /\ k \in Held(h) /\ k # None
      BY <1>6, <2>2
    <3>2. D[k] = D[d] + 1 /\ Agree(h.node[k].size, h.node[d].size, D[d]) /\ Bit(h.node[k].size, D[d]) = s
      BY <3>1 DEF Deep
    <3> HIDE DEF k
    <3>3. g.node[k].size = h.node[k].size /\ g.node[d].size = h.node[d].size
      BY <3>1 DEF SameRing
    <3> QED
      BY <3>1, <3>2, <3>3
  <2> QED
    BY <2>1, <2>2 DEF Deep
<1> QED
  BY <1>4, <1>5, <1>7, <1>8

\* A chunk that is not in the trie goes.
LEMMA Dropped ==
  ASSUME NEW h, Typed(h), Links(h), NEW D, Deep(h, D), NEW c \in Held(h), ~InTrie(h, c),
         NEW g, Shapes(g), Held(g) = Held(h) \ {c}, g.map = h.map, g.bin = h.bin,
         \A d \in Held(g) : SameUp(h, g, d) /\ g.node[d].forward # c /\ g.node[d].backward # c,
         \A d \in Held(g), s \in {0, 1} : g.node[d].child[s] = h.node[d].child[s]
  PROVE  Typed(g) /\ Links(g) /\ Deep(g, D)
<1>1. Head \notin Held(h) /\ None \notin Held(h) /\ c # None /\ c # Head
  BY TreeBinAssumption DEF Typed
<1>2. \A d \in Held(h) : h.node[d].parent # c
  BY <1>1, Fields DEF Links, InTrie
<1>3. \A d \in Held(h), s \in {0, 1} : h.node[d].child[s] # c
  BY <1>1 DEF Links, InTrie
<1>4. \A i \in Bins : h.bin[i] \in Held(h) \cup {None} /\ h.bin[i] # c
  <2>1. \A i \in Bins : h.bin[i] # c
    BY <1>1, TreeBinAssumption DEF Links, InTrie
  <2> QED
    BY <2>1 DEF Typed
<1>5. ASSUME NEW d \in Held(g)
      PROVE  /\ g.node[d].size \in LargeSizes /\ g.node[d].index = TreeIndex(g.node[d].size)
             /\ g.node[d].parent \in Held(g) \cup {Head, None}
             /\ g.node[d].forward \in Held(g) /\ g.node[d].backward \in Held(g)
             /\ \A s \in {0, 1} : g.node[d].child[s] \in Held(g) \cup {None}
  BY <1>2, <1>3, Fields DEF SameRing, SameUp
<1>6. Typed(g)
  <2>1. Held(g) \subseteq Chunk /\ \A i \in Bins : g.bin[i] \in Held(g) \cup {None}
    BY <1>4 DEF Typed
  <2>2. g.map = {i \in Bins : g.bin[i] # None}
    BY DEF Typed
  <2> QED
    BY <1>5, <2>1, <2>2, TypedIs
<1>7. Links(g)
  <2>1. ASSUME NEW i \in Bins, g.bin[i] # None PROVE g.node[g.bin[i]].parent = Head /\ g.node[g.bin[i]].index = i
    <3>1. h.bin[i] \in Held(g)
      BY <1>4, <2>1
    <3> QED
      BY <2>1, <3>1 DEF SameUp, SameRing, Links
  <2>2. ASSUME NEW d \in Held(g), g.node[d].parent = Head PROVE g.bin[g.node[d].index] = d
    BY <2>2 DEF SameUp, SameRing, Links
  <2>3. ASSUME NEW d \in Held(g), g.node[d].parent \in Held(g)
        PROVE  LET p == g.node[d].parent
               IN  /\ InTrie(g, p) /\ g.node[p].index = g.node[d].index
                   /\ (d = g.node[p].child[0] \/ d = g.node[p].child[1])
    <3> DEFINE p == h.node[d].parent
    <3>1. g.node[d].parent = p /\ p \in Held(g)
      BY <2>3 DEF SameUp
    <3>2. InTrie(h, p) /\ h.node[p].index = h.node[d].index /\ (d = h.node[p].child[0] \/ d = h.node[p].child[1])
      BY <3>1 DEF Links
    <3> HIDE DEF p
    <3>3. g.node[p].parent = h.node[p].parent /\ g.node[p].index = h.node[p].index /\ g.node[d].index = h.node[d].index
      BY <3>1 DEF SameUp, SameRing
    <3> QED
      BY <3>1, <3>2, <3>3 DEF InTrie
  <2>4. ASSUME NEW d \in Held(g), NEW s \in {0, 1}, g.node[d].child[s] # None PROVE g.node[g.node[d].child[s]].parent = d
    <3>1. g.node[d].child[s] = h.node[d].child[s] /\ h.node[d].child[s] \in Held(g)
      BY <1>5, <2>4
    <3>2. h.node[h.node[d].child[s]].parent = d
      BY <2>4, <3>1 DEF Links
    <3> QED
      BY <3>1, <3>2 DEF SameUp
  <2> QED
    BY <2>1, <2>2, <2>3, <2>4 DEF Links
<1>8. Deep(g, D)
  <2>1. ASSUME NEW d \in Held(g) PROVE D[d] \in Nat /\ (g.node[d].parent = Head => D[d] = 0)
    BY DEF Deep, SameUp
  <2>2. ASSUME NEW d \in Held(g), NEW s \in {0, 1}, g.node[d].child[s] # None
        PROVE  LET k == g.node[d].child[s]
               IN  /\ D[k] = D[d] + 1
                   /\ Agree(g.node[k].size, g.node[d].size, D[d]) /\ Bit(g.node[k].size, D[d]) = s
    <3> DEFINE k == h.node[d].child[s]
    <3>1. g.node[d].child[s] = k /\ k \in Held(g) /\ k # None
      BY <1>5, <2>2
    <3>2. D[k] = D[d] + 1 /\ Agree(h.node[k].size, h.node[d].size, D[d]) /\ Bit(h.node[k].size, D[d]) = s
      BY <3>1 DEF Deep
    <3> HIDE DEF k
    <3>3. g.node[k].size = h.node[k].size /\ g.node[d].size = h.node[d].size
      BY <3>1 DEF SameUp, SameRing
    <3> QED
      BY <3>1, <3>2, <3>3
  <2> QED
    BY <2>1, <2>2 DEF Deep
<1> QED
  BY <1>6, <1>7, <1>8

\* A chunk that is not in the trie, of a size that goes the way of c, takes the place of c.
LEMMA TakesPlace ==
  ASSUME NEW h, Typed(h), Links(h), NEW D, Deep(h, D),
         NEW c \in Held(h), InTrie(h, c), NEW r \in Held(h), ~InTrie(h, r),
         h.node[r].index = h.node[c].index, Agree(h.node[r].size, h.node[c].size, D[c]),
         NEW g, Shapes(g), Held(g) = Held(h) \ {c}, g.map = h.map,
         \A i \in Bins : g.bin[i] = For(h.bin[i], c, r),
         \A d \in Held(g) : SameRing(h, g, d) /\ g.node[d].forward # c /\ g.node[d].backward # c,
         \A d \in Held(g) : g.node[d].parent = IF d = r THEN h.node[c].parent ELSE For(h.node[d].parent, c, r),
         \A d \in Held(g), s \in {0, 1} :
             g.node[d].child[s] = IF d = r THEN h.node[c].child[s] ELSE For(h.node[d].child[s], c, r)
  PROVE  Typed(g) /\ Links(g) /\ \E E : Deep(g, E)
<1>1. /\ Head \notin Held(h) /\ None \notin Held(h) /\ c # None /\ r # None /\ c # Head /\ r # Head
      /\ r # c /\ r \in Held(g)
  BY TreeBinAssumption DEF Typed
<1>2. \A d \in Held(h) : h.node[d].parent # r
  BY <1>1, Fields DEF Links, InTrie
<1>3. \A d \in Held(h), s \in {0, 1} : h.node[d].child[s] # r
  BY <1>1 DEF Links, InTrie
<1>4. \A i \in Bins : h.bin[i] \in Held(h) \cup {None}
  BY DEF Typed
<1>5. D[c] \in Nat
  BY DEF Deep
<1>6. \A s \in {0, 1} : h.node[c].child[s] # c
  <2> SUFFICES ASSUME NEW s \in {0, 1}, h.node[c].child[s] = c PROVE FALSE
    OBVIOUS
  <2>1. D[c] = D[c] + 1
    BY <1>1 DEF Deep
  <2> QED
    BY <1>5, <2>1
<1>7. h.node[c].parent # c
  <2> SUFFICES ASSUME h.node[c].parent = c PROVE FALSE
    OBVIOUS
  <2>1. c = h.node[c].child[0] \/ c = h.node[c].child[1]
    BY DEF Links
  <2> QED
    BY <1>6, <2>1
<1>8. ASSUME NEW d \in Held(g)
      PROVE  /\ g.node[d].size \in LargeSizes /\ g.node[d].index = TreeIndex(g.node[d].size)
             /\ g.node[d].parent \in Held(g) \cup {Head, None}
             /\ g.node[d].forward \in Held(g) /\ g.node[d].backward \in Held(g)
  <2>1. g.node[d].parent \in Held(g) \cup {Head, None}
    BY <1>1, <1>7, Fields DEF For
  <2> QED
    BY <2>1, Fields DEF SameRing
<1>9. ASSUME NEW d \in Held(g), NEW s \in {0, 1} PROVE g.node[d].child[s] \in Held(g) \cup {None}
  <2>1. h.node[d].child[s] \in Held(h) \cup {None} /\ h.node[c].child[s] \in Held(h) \cup {None}
    BY Fields
  <2> QED
    BY <1>1, <1>6, <2>1 DEF For
<1>10. Typed(g)
  <2>1. Held(g) \subseteq Chunk
    BY DEF Typed
  <2>2. \A i \in Bins : g.bin[i] \in Held(g) \cup {None}
    BY <1>1, <1>4 DEF For
  <2>3. g.map = {i \in Bins : g.bin[i] # None}
    BY <1>1 DEF Typed, For
  <2> QED
    BY <1>8, <1>9, <2>1, <2>2, <2>3, TypedIs
<1>11. ASSUME NEW d \in Held(g) PROVE g.node[d].index = h.node[d].index /\ g.node[d].size = h.node[d].size
  BY DEF SameRing
\* The chunk of h whose place in the trie d has now.
<1> DEFINE Old(d) == IF d = r THEN c ELSE d
           E == [d \in Held(g) |-> D[Old(d)]]
<1>12. ASSUME NEW d \in Held(g)
       PROVE  /\ Old(d) \in Held(h) /\ h.node[Old(d)].index = g.node[d].index
              /\ For(Old(d), c, r) = d
              /\ g.node[d].parent = For(h.node[Old(d)].parent, c, r)
              /\ \A s \in {0, 1} : g.node[d].child[s] = For(h.node[Old(d)].child[s], c, r)
              /\ E[d] = D[Old(d)] /\ Agree(g.node[d].size, h.node[Old(d)].size, D[Old(d)])
              /\ E[d] \in Nat
  <2>1. CASE d = r
    BY <1>1, <1>5, <1>6, <1>7, <1>11, <2>1 DEF For
  <2>2. CASE d # r
    <3>1. D[d] \in Nat
      BY DEF Deep
    <3>2. Agree(g.node[d].size, h.node[d].size, D[d])
      BY <1>11, <3>1, Agreements
    <3> QED
      BY <1>11, <2>2, <3>1, <3>2 DEF For
  <2> QED
    BY <2>1, <2>2
<1>13. \A e : e \in Held(h) /\ e # r => Old(For(e, c, r)) = e /\ For(e, c, r) \in Held(g)
  BY <1>1 DEF For
<1> HIDE DEF Old, E
<1>14. ASSUME NEW d \in Held(g), NEW s \in {0, 1}, g.node[d].child[s] # None
       PROVE  LET k == g.node[d].child[s]
                  o == h.node[Old(d)].child[s]
              IN  k \in Held(g) /\ o \in Held(h) /\ o # None /\ Old(k) = o
  <2>1. h.node[Old(d)].child[s] \in Held(h) \cup {None}
    BY <1>12, Fields
  <2>2. g.node[d].child[s] = For(h.node[Old(d)].child[s], c, r)
    BY <1>12
  <2>3. h.node[Old(d)].child[s] # None /\ h.node[Old(d)].child[s] # r
    BY <1>1, <1>3, <1>12, <1>14, <2>2 DEF For
  <2> QED
    BY <1>13, <2>1, <2>2, <2>3
<1>15. Links(g)
  <2>1. ASSUME NEW i \in Bins, g.bin[i] # None PROVE g.node[g.bin[i]].parent = Head /\ g.node[g.bin[i]].index = i
    <3> DEFINE o == h.bin[i]
               k == g.bin[i]
    <3>1. o \in Held(h) /\ k = For(o, c, r) /\ o # None
      BY <1>1, <1>4, <2>1 DEF For
    <3>2. h.node[o].parent = Head /\ h.node[o].index = i
      BY <3>1 DEF Links
    <3> HIDE DEF o, k
    <3>3. o # r
      BY <3>2, TreeBinAssumption DEF InTrie
    <3>4. k \in Held(g) /\ Old(k) = o
      BY <1>13, <3>1, <3>3
    <3>5. g.node[k].index = i /\ g.node[k].parent = For(Head, c, r)
      BY <1>12, <3>2, <3>4
    <3> QED
      BY <1>1, <3>5 DEF For, k
  <2>2. ASSUME NEW d \in Held(g), g.node[d].parent = Head PROVE g.bin[g.node[d].index] = d
    <3> DEFINE o == Old(d)
    <3>1. o \in Held(h) /\ h.node[o].index = g.node[d].index /\ For(o, c, r) = d /\ g.node[d].parent = For(h.node[o].parent, c, r)
      BY <1>12
    <3> HIDE DEF o
    <3>2. h.node[o].parent = Head
      BY <1>1, <2>2, <3>1 DEF For
    <3>3. h.bin[h.node[o].index] = o /\ h.node[o].index \in Bins
      <4>1. h.node[o].size \in Words /\ h.node[o].index = TreeIndex(h.node[o].size)
        BY <3>1, Fields, Numbers
      <4> QED
        BY <3>1, <3>2, <4>1, IndexIs DEF Links
    <3> QED
      BY <3>1, <3>3
  <2>3. ASSUME NEW d \in Held(g), g.node[d].parent \in Held(g)
        PROVE  LET p == g.node[d].parent
               IN  /\ InTrie(g, p) /\ g.node[p].index = g.node[d].index
                   /\ (d = g.node[p].child[0] \/ d = g.node[p].child[1])
    <3> DEFINE o == Old(d)
               q == h.node[o].parent
               p == g.node[d].parent
    <3>1. o \in Held(h) /\ h.node[o].index = g.node[d].index /\ For(o, c, r) = d /\ p = For(q, c, r)
      BY <1>12
    <3>2. q \in Held(h)
      BY <1>1, <2>3, <3>1, Fields DEF For
    <3>3. q # r
      BY <1>2, <3>1
    <3>4. InTrie(h, q) /\ h.node[q].index = h.node[o].index /\ (o = h.node[q].child[0] \/ o = h.node[q].child[1])
      BY <3>1, <3>2 DEF Links
    <3> HIDE DEF o, q, p
    <3>5. p \in Held(g) /\ Old(p) = q
      BY <1>13, <3>1, <3>2, <3>3
    <3>6. /\ g.node[p].index = h.node[q].index /\ g.node[p].parent = For(h.node[q].parent, c, r)
          /\ g.node[p].child[0] = For(h.node[q].child[0], c, r) /\ g.node[p].child[1] = For(h.node[q].child[1], c, r)
      BY <1>12, <3>5
    <3>7. g.node[p].parent # None
      BY <1>1, <3>4, <3>6 DEF For, InTrie
    <3> QED
      BY <3>1, <3>4, <3>6, <3>7 DEF InTrie, p
  <2>4. ASSUME NEW d \in Held(g), NEW s \in {0, 1}, g.node[d].child[s] # None PROVE g.node[g.node[d].child[s]].parent = d
    <3> DEFINE o == h.node[Old(d)].child[s]
               k == g.node[d].child[s]
    <3>1. k \in Held(g) /\ o \in Held(h) /\ o # None /\ Old(k) = o
      BY <1>14, <2>4
    <3>2. h.node[o].parent = Old(d) /\ For(Old(d), c, r) = d
      BY <1>12, <3>1 DEF Links
    <3> HIDE DEF o, k
    <3>3. g.node[k].parent = For(h.node[o].parent, c, r)
      BY <1>12, <3>1
    <3> QED
      BY <3>2, <3>3 DEF k
  <2> QED
    BY <2>1, <2>2, <2>3, <2>4 DEF Links
<1>16. Deep(g, E)
  <2>1. ASSUME NEW d \in Held(g) PROVE E[d] \in Nat /\ (g.node[d].parent = Head => E[d] = 0)
    <3>1. g.node[d].parent = Head => h.node[Old(d)].parent = Head
      BY <1>1, <1>12 DEF For
    <3> QED
      BY <1>12, <3>1 DEF Deep
  <2>2. ASSUME NEW d \in Held(g), NEW s \in {0, 1}, g.node[d].child[s] # None
        PROVE  LET k == g.node[d].child[s]
               IN  /\ E[k] = E[d] + 1
                   /\ Agree(g.node[k].size, g.node[d].size, E[d]) /\ Bit(g.node[k].size, E[d]) = s
    <3> DEFINE k == g.node[d].child[s]
               q == Old(d)
               o == h.node[q].child[s]
    <3>1. k \in Held(g) /\ o \in Held(h) /\ o # None /\ Old(k) = o
      BY <1>14, <2>2
    <3>2. q \in Held(h) /\ E[d] = D[q] /\ Agree(g.node[d].size, h.node[q].size, D[q]) /\ E[d] \in Nat
      BY <1>12
    <3>3. D[o] = D[q] + 1 /\ Agree(h.node[o].size, h.node[q].size, D[q]) /\ Bit(h.node[o].size, D[q]) = s
      BY <3>1, <3>2 DEF Deep
    <3> HIDE DEF k, q, o
    <3>4. E[k] = D[o] /\ Agree(g.node[k].size, h.node[o].size, D[o])
      BY <1>12, <3>1
    <3>5. Agree(g.node[k].size, h.node[o].size, D[q]) /\ Bit(g.node[k].size, D[q]) = Bit(h.node[o].size, D[q])
      BY <3>2, <3>3, <3>4, Agreements
    <3>6. Agree(g.node[k].size, h.node[q].size, D[q])
      BY <3>2, <3>3, <3>5, Agreements
    <3>7. Agree(h.node[q].size, g.node[d].size, D[q])
      BY <3>2, Agreements
    <3>8. Agree(g.node[k].size, g.node[d].size, D[q])
      BY <3>2, <3>6, <3>7, Agreements
    <3> QED
      BY <3>2, <3>3, <3>4, <3>5, <3>8 DEF k
  <2> QED
    BY <2>1, <2>2 DEF Deep
<1> QED
  BY <1>10, <1>15, <1>16

----------------------------------------------------------------------------
(* Taking a chunk out that others of its size replace. *)

\* The rings when c goes and its neighbours join; b, behind c, is in the trie for it.
LEMMA RingsLeft ==
  ASSUME NEW h, Typed(h), Rings(h), NEW c \in Held(h),
         NEW f, f = h.node[c].forward, NEW b, b = h.node[c].backward,
         NEW g, Held(g) = Held(h) \ {c},
         \A d \in Held(g) : /\ g.node[d].size = h.node[d].size
                            /\ g.node[d].forward = IF d = b THEN f ELSE h.node[d].forward
                            /\ g.node[d].backward = IF d = f THEN b ELSE h.node[d].backward
                            /\ InTrie(g, d) <=> InTrie(h, d) \/ (InTrie(h, c) /\ d = b)
                            /\ ~InTrie(g, d) => g.node[d].child[0] = None /\ g.node[d].child[1] = None
  PROVE  Rings(g) /\ \A d \in Held(g) : g.node[d].forward # c /\ g.node[d].backward # c
<1>1. \A d \in Held(h) : Linked(h, d) /\ h.node[d].forward \in Held(h) /\ h.node[d].backward \in Held(h)
  BY Fields DEF Rings
<1>2. /\ f \in Held(h) /\ b \in Held(h) /\ h.node[f].backward = c /\ h.node[b].forward = c
      /\ h.node[f].size = h.node[c].size /\ h.node[b].size = h.node[c].size
  BY <1>1 DEF Linked
<1>3. /\ \A d \in Held(h) : (h.node[d].forward = c => d = b) /\ (h.node[d].backward = c => d = f)
      /\ f = c <=> b = c
  BY <1>1, <1>2 DEF Linked
<1>4. ASSUME NEW d \in Held(g)
      PROVE  /\ g.node[d].forward \in Held(g) /\ g.node[d].backward \in Held(g)
             /\ g.node[g.node[d].forward].backward = d /\ g.node[g.node[d].backward].forward = d
             /\ g.node[g.node[d].forward].size = g.node[d].size /\ g.node[g.node[d].backward].size = g.node[d].size
  <2>1. d \in Held(h) /\ d # c
    OBVIOUS
  <2>2. /\ g.node[d].forward \in Held(g) /\ g.node[g.node[d].forward].backward = d
        /\ g.node[g.node[d].forward].size = g.node[d].size
    <3>1. CASE d = b
      <4>1. f # c /\ f \in Held(g) /\ g.node[d].forward = f
        BY <1>2, <1>3, <2>1, <3>1
      <4>2. g.node[f].backward = b /\ g.node[f].size = h.node[f].size /\ g.node[d].size = h.node[d].size
        BY <4>1
      <4> QED
        BY <1>2, <3>1, <4>1, <4>2
    <3>2. CASE d # b
      <4> DEFINE e == h.node[d].forward
      <4>1. g.node[d].forward = e /\ e # c /\ e \in Held(g)
        BY <1>1, <1>3, <2>1, <3>2
      <4>2. h.node[e].backward = d /\ h.node[e].size = h.node[d].size
        BY <1>1, <2>1 DEF Linked
      <4> HIDE DEF e
      <4>3. e # f
        BY <1>2, <2>1, <4>2
      <4>4. g.node[e].backward = d /\ g.node[e].size = g.node[d].size
        BY <4>1, <4>2, <4>3
      <4> QED
        BY <4>1, <4>4
    <3> QED
      BY <3>1, <3>2
  <2>3. /\ g.node[d].backward \in Held(g) /\ g.node[g.node[d].backward].forward = d
        /\ g.node[g.node[d].backward].size = g.node[d].size
    <3>1. CASE d = f
      <4>1. b # c /\ b \in Held(g) /\ g.node[d].backward = b
        BY <1>2, <1>3, <2>1, <3>1
      <4>2. g.node[b].forward = f /\ g.node[b].size = h.node[b].size /\ g.node[d].size = h.node[d].size
        BY <4>1
      <4> QED
        BY <1>2, <3>1, <4>1, <4>2
    <3>2. CASE d # f
      <4> DEFINE e == h.node[d].backward
      <4>1. g.node[d].backward = e /\ e # c /\ e \in Held(g)
        BY <1>1, <1>3, <2>1, <3>2
      <4>2. h.node[e].forward = d /\ h.node[e].size = h.node[d].size
        BY <1>1, <2>1 DEF Linked
      <4> HIDE DEF e
      <4>3. e # b
        BY <1>2, <2>1, <4>2
      <4>4. g.node[e].forward = d /\ g.node[e].size = g.node[d].size
        BY <4>1, <4>2, <4>3
      <4> QED
        BY <4>1, <4>4
    <3> QED
      BY <3>1, <3>2
  <2> QED
    BY <2>2, <2>3
<1>5. ASSUME NEW d \in Held(g) PROVE Linked(g, d)
  BY <1>4 DEF Linked, InTrie
<1>6. ASSUME NEW d \in Held(g) PROVE \E e \in Held(g) : InTrie(g, e) /\ SameSize(g, e, d)
  <2>1. PICK e \in Held(h) : InTrie(h, e) /\ SameSize(h, e, d)
    BY DEF Rings
  <2>2. CASE e # c
    BY <2>1, <2>2 DEF SameSize
  <2>3. CASE e = c
    <3>1. b # c
      <4> SUFFICES ASSUME b = c PROVE FALSE
        OBVIOUS
      <4>1. Closed(h, {c})
        BY <1>2 DEF Closed
      <4>2. d \in {c}
        <5>1. SameSize(h, c, d) /\ d \in Held(h) /\ c \in {c} /\ {c} \in SUBSET Held(h)
          BY <2>1, <2>3
        <5> QED
          BY <4>1, <5>1 DEF Rings
      <4> QED
        BY <4>2
    <3>2. b \in Held(g) /\ InTrie(g, b)
      BY <1>2, <2>1, <2>3, <3>1
    <3>3. g.node[b].size = h.node[b].size /\ g.node[d].size = h.node[d].size
      BY <3>2
    <3> QED
      BY <1>2, <2>1, <2>3, <3>2, <3>3 DEF SameSize
  <2> QED
    BY <2>2, <2>3
<1>7. ASSUME NEW x \in Held(g), NEW y \in Held(g), InTrie(g, x), InTrie(g, y), SameSize(g, x, y) PROVE x = y
  <2>1. h.node[x].size = h.node[y].size /\ x \in Held(h) /\ y \in Held(h) /\ x # c /\ y # c
    BY <1>7 DEF SameSize
  <2>2. \A z \in Held(h) : InTrie(h, c) /\ InTrie(h, z) /\ h.node[z].size = h.node[c].size => z = c
    BY DEF Rings, SameSize
  <2>3. CASE InTrie(h, x) /\ InTrie(h, y)
    BY <2>1, <2>3 DEF Rings, SameSize
  <2>4. CASE ~InTrie(h, x)
    <3>1. InTrie(h, c) /\ x = b
      BY <1>7, <2>4
    <3>2. ~InTrie(h, y)
      BY <1>2, <2>1, <2>2, <3>1
    <3> QED
      BY <1>7, <3>1, <3>2
  <2>5. CASE ~InTrie(h, y)
    <3>1. InTrie(h, c) /\ y = b
      BY <1>7, <2>5
    <3>2. ~InTrie(h, x)
      BY <1>2, <2>1, <2>2, <3>1
    <3> QED
      BY <1>7, <3>1, <3>2
  <2> QED
    BY <2>3, <2>4, <2>5
<1>8. ASSUME NEW x \in Held(g), NEW y \in Held(g), NEW S \in SUBSET Held(g), x \in S, Closed(g, S), SameSize(g, x, y)
      PROVE  y \in S
  <2> DEFINE T == IF b \in S THEN S \cup {c} ELSE S
  <2>1. T \in SUBSET Held(h) /\ x \in T
    BY <1>8
  <2>2. Closed(h, T)
    <3> SUFFICES ASSUME NEW z \in T PROVE h.node[z].forward \in T
      BY DEF Closed
    <3>1. CASE z = c
      <4>1. b \in S /\ b \in Held(g)
        BY <3>1
      <4>2. g.node[b].forward = f
        BY <4>1
      <4>3. f \in S
        BY <1>8, <4>1, <4>2 DEF Closed
      <4> QED
        BY <3>1, <4>3
    <3>2. CASE z = b
      BY <1>2, <3>2
    <3>3. CASE z # c /\ z # b
      <4>1. z \in S /\ z \in Held(g)
        BY <3>3
      <4>2. g.node[z].forward = h.node[z].forward
        BY <3>3, <4>1
      <4>3. h.node[z].forward \in S
        BY <1>8, <4>1, <4>2 DEF Closed
      <4> QED
        BY <4>3
    <3> QED
      BY <3>1, <3>2, <3>3
  <2>3. SameSize(h, x, y) /\ x \in Held(h) /\ y \in Held(h) /\ y # c
    BY <1>8 DEF SameSize
  <2> HIDE DEF T
  <2>4. y \in T
    BY <2>1, <2>2, <2>3 DEF Rings
  <2> QED
    BY <2>3, <2>4 DEF T
<1> QED
  BY <1>4, <1>5, <1>6, <1>7, <1>8 DEF Rings

\* The ring fields are no part of the tries.
LEMMA SameTries ==
  ASSUME NEW h, Typed(h), Links(h), NEW D, Deep(h, D),
         NEW g, Shapes(g), Held(g) = Held(h), g.bin = h.bin, g.map = h.map,
         \A d \in Held(h) : /\ g.node[d].size = h.node[d].size /\ g.node[d].index = h.node[d].index
                            /\ g.node[d].parent = h.node[d].parent /\ g.node[d].child = h.node[d].child
                            /\ g.node[d].forward \in Held(h) /\ g.node[d].backward \in Held(h)
  PROVE  Typed(g) /\ Links(g) /\ Deep(g, D)
<1>1. ASSUME NEW d \in Held(h)
      PROVE  /\ g.node[d].size \in LargeSizes /\ g.node[d].index = TreeIndex(g.node[d].size)
             /\ g.node[d].parent \in Held(g) \cup {Head, None}
             /\ g.node[d].forward \in Held(g) /\ g.node[d].backward \in Held(g)
             /\ \A s \in {0, 1} : g.node[d].child[s] \in Held(g) \cup {None}
  BY Fields
<1>2. Typed(g)
  <2>1. Held(g) \subseteq Chunk /\ (\A i \in Bins : g.bin[i] \in Held(g) \cup {None}) /\ g.map = {i \in Bins : g.bin[i] # None}
    BY DEF Typed
  <2> QED
    BY <1>1, <2>1, TypedIs
<1>3. \A i \in Bins : h.bin[i] # None => h.bin[i] \in Held(h)
  BY DEF Typed
<1>4. \A d \in Held(h), s \in {0, 1} : h.node[d].child[s] # None => h.node[d].child[s] \in Held(h)
  BY Fields
<1>5. Links(g)
  <2>1. ASSUME NEW i \in Bins, g.bin[i] # None PROVE g.node[g.bin[i]].parent = Head /\ g.node[g.bin[i]].index = i
    BY <1>3, <2>1 DEF Links
  <2>2. ASSUME NEW d \in Held(g), g.node[d].parent = Head PROVE g.bin[g.node[d].index] = d
    BY <2>2 DEF Links
  <2>3. ASSUME NEW d \in Held(g), g.node[d].parent \in Held(g)
        PROVE  LET p == g.node[d].parent
               IN  /\ InTrie(g, p) /\ g.node[p].index = g.node[d].index
                   /\ (d = g.node[p].child[0] \/ d = g.node[p].child[1])
    <3> DEFINE p == h.node[d].parent
    <3>1. p = g.node[d].parent /\ p \in Held(h) /\ d \in Held(h)
      BY <2>3
    <3>2. InTrie(h, p) /\ h.node[p].index = h.node[d].index /\ (d = h.node[p].child[0] \/ d = h.node[p].child[1])
      BY <3>1 DEF Links
    <3>3. /\ g.node[p].parent = h.node[p].parent /\ g.node[p].index = h.node[p].index
          /\ g.node[p].child = h.node[p].child /\ g.node[d].index = h.node[d].index
      BY <3>1
    <3> HIDE DEF p
    <3> QED
      BY <3>1, <3>2, <3>3 DEF InTrie
  <2>4. ASSUME NEW d \in Held(g), NEW s \in {0, 1}, g.node[d].child[s] # None PROVE g.node[g.node[d].child[s]].parent = d
    <3> DEFINE k == h.node[d].child[s]
    <3>1. g.node[d].child[s] = k /\ k # None
      BY <2>4
    <3>2. k \in Held(h)
      BY <1>4, <3>1
    <3>3. h.node[k].parent = d
      BY <3>1 DEF Links
    <3> HIDE DEF k
    <3> QED
      BY <3>1, <3>2, <3>3
  <2> QED
    BY <2>1, <2>2, <2>3, <2>4 DEF Links
<1>6. Deep(g, D)
  <2>1. ASSUME NEW d \in Held(h) PROVE D[d] \in Nat /\ (g.node[d].parent = Head => D[d] = 0)
    BY DEF Deep
  <2>2. ASSUME NEW d \in Held(g), NEW s \in {0, 1}
        PROVE  LET k == g.node[d].child[s]
               IN  k # None => /\ D[k] = D[d] + 1
                               /\ Agree(g.node[k].size, g.node[d].size, D[d])
                               /\ Bit(g.node[k].size, D[d]) = s
    <3> DEFINE k == h.node[d].child[s]
    <3>1. g.node[d].child[s] = k /\ g.node[d].size = h.node[d].size
      OBVIOUS
    <3>2. ASSUME k # None
          PROVE  D[k] = D[d] + 1 /\ Agree(h.node[k].size, h.node[d].size, D[d]) /\ Bit(h.node[k].size, D[d]) = s
      BY <3>2 DEF Deep
    <3>3. k # None => g.node[k].size = h.node[k].size
      BY <1>4
    <3> HIDE DEF k
    <3> QED
      BY <3>1, <3>2, <3>3
  <2>3. \A d \in Held(g) : D[d] \in Nat /\ (g.node[d].parent = Head => D[d] = 0)
    BY <2>1
  <2> QED
    BY <2>2, <2>3 DEF Deep
<1> QED
  BY <1>2, <1>5, <1>6

\* The parent of c is v.
ParentSet(h, c, v) == [h EXCEPT !.node[c].parent = v]

\* A parent is written.
LEMMA ParentWrite ==
  ASSUME NEW h, Shapes(h), NEW c \in Held(h), NEW v
  PROVE  LET g == ParentSet(h, c, v)
         IN  /\ Shapes(g) /\ Held(g) = Held(h) /\ g.bin = h.bin /\ g.map = h.map
             /\ \A d \in Held(h) : /\ SameRing(h, g, d) /\ g.node[d].child = h.node[d].child
                                   /\ g.node[d].parent = IF d = c THEN v ELSE h.node[d].parent
<1> DEFINE g == ParentSet(h, c, v)
           x == h.node[c]
           y == [x EXCEPT !.parent = v]
           z == [a \in NodeFields |-> IF a = "parent" THEN v ELSE x[a]]
<1>1. h = [f \in {"bin", "map", "node"} |-> h[f]] /\ h.node = [d \in Held(h) |-> h.node[d]]
  BY DEF Shapes, Shaped
<1>2. g.node = [h.node EXCEPT ![c].parent = v] /\ g.map = h.map /\ g.bin = h.bin
  BY <1>1 DEF ParentSet
<1>3. g = [f \in {"bin", "map", "node"} |-> g[f]]
  BY <1>1 DEF ParentSet
<1> HIDE DEF g
<1>4. Held(g) = Held(h) /\ g.node = [d \in Held(g) |-> g.node[d]]
  BY <1>1, <1>2 DEF Held
<1>5. (\A d \in Held(h) \ {c} : g.node[d] = h.node[d]) /\ g.node[c] = y
  BY <1>1, <1>2 DEF Held
<1>6. x = [a \in NodeFields |-> x[a]] /\ x.child = [s \in {0, 1} |-> x.child[s]]
  BY DEF Shapes
<1> HIDE DEF x
<1>7. y = z
  BY <1>6 DEF NodeFields
<1> HIDE DEF y
<1>8. /\ z = [a \in NodeFields |-> z[a]] /\ z.child = x.child /\ z.parent = v
      /\ z.index = x.index /\ z.size = x.size /\ z.forward = x.forward /\ z.backward = x.backward
  BY DEF NodeFields
<1> HIDE DEF z
<1>9. ASSUME NEW d \in Held(h)
      PROVE  /\ SameRing(h, g, d) /\ g.node[d].child = h.node[d].child
             /\ g.node[d].parent = IF d = c THEN v ELSE h.node[d].parent
             /\ g.node[d] = [a \in NodeFields |-> g.node[d][a]]
             /\ g.node[d].child = [s \in {0, 1} |-> g.node[d].child[s]]
  <2>1. CASE d = c
    BY <1>5, <1>6, <1>7, <1>8, <2>1 DEF SameRing, x
  <2>2. CASE d # c
    BY <1>5, <2>2 DEF SameRing, Shapes
  <2> QED
    BY <2>1, <2>2
<1>10. Shapes(g)
  <2>1. g.bin = [i \in Bins |-> g.bin[i]]
    BY <1>2 DEF Shapes
  <2> QED
    BY <1>3, <1>4, <1>9, <2>1 DEF Shapes, Shaped
<1> QED
  BY <1>2, <1>4, <1>9, <1>10 DEF g

----------------------------------------------------------------------------
(* The chunk that stands in for one taken out. *)

\* Where the descent to a leaf ends: under c, at a chunk without children
\* (sm_unlink_large_chunk 2095-2109).
LEMMA LeafIs ==
  ASSUME NEW h, Typed(h), Links(h), NEW D, Deep(h, D), NEW c \in Held(h), InTrie(h, c)
  PROVE  LET r == Leaf(h, c)
         IN  /\ r \in Held(h) /\ Under(h, D, c, r)
             /\ h.node[r].child[0] = None /\ h.node[r].child[1] = None
<1> DEFINE turn == [d \in Held(h) |-> IF Lower(h, d) = None THEN d ELSE Lower(h, d)]
           P == {d \in Held(h) : Under(h, D, c, d)}
           m == [d \in Held(h) |-> Turns(h) - D[d]]
           end == After(turn, c, Turns(h))
<1>1. c \in P
  <2>1. D[c] \in Nat
    BY DEF Deep
  <2> QED
    BY <2>1, Agreements DEF Under
<1>2. ASSUME NEW d \in P PROVE turn[d] \in P /\ (turn[d] # d => D[turn[d]] = D[d] + 1)
  <2>1. d \in Held(h) /\ Under(h, D, c, d) /\ D[d] \in Nat /\ D[c] \in Nat
    BY DEF Deep
  <2>2. CASE Lower(h, d) = None
    BY <2>2
  <2>3. CASE Lower(h, d) # None
    <3>1. PICK s \in {0, 1} : Lower(h, d) = h.node[d].child[s]
      BY DEF Lower
    <3> DEFINE k == h.node[d].child[s]
    <3>2. /\ k \in Held(h) /\ InTrie(h, k) /\ h.node[k].index = h.node[d].index
          /\ D[k] = D[d] + 1 /\ Agree(h.node[k].size, h.node[d].size, D[d])
      <4>1. InTrie(h, d) /\ h.node[d].child[s] # None
        BY <2>1, <2>3, <3>1 DEF Under
      <4>2. ChildFits(h, D, d, s)
        BY <2>1, <4>1, Children
      <4> QED
        BY <4>2 DEF ChildFits
    <3>3. turn[d] = k
      BY <2>1, <2>3, <3>1
    <3> HIDE DEF k, turn
    <3>4. Agree(h.node[k].size, h.node[c].size, D[c])
      <4>1. D[c] \in 0 .. D[d]
        BY <2>1 DEF Under
      <4>2. Agree(h.node[k].size, h.node[d].size, D[c])
        BY <2>1, <3>2, <4>1, Agreements
      <4> QED
        BY <2>1, <4>2, Agreements DEF Under
    <3>5. Under(h, D, c, k)
      BY <2>1, <3>2, <3>4 DEF Under
    <3> QED
      BY <3>2, <3>3, <3>5
  <2> QED
    BY <2>2, <2>3
<1>3. Turns(h) \in Nat /\ \A d \in P : D[d] \in Nat /\ D[d] < Turns(h)
  <2>1. ASSUME NEW d \in P PROVE D[d] \in Nat /\ Turns(h) \in Nat /\ D[d] < Turns(h)
    BY Shallow DEF Deep, Under
  <2> QED
    BY <1>1, <2>1
<1>4. end \in P
  <2> HIDE DEF turn, P
  <2> QED
    BY <1>1, <1>2, <1>3, AfterKeeps
<1>5. turn[end] = end
  <2>1. \A d \in P : m[d] = Turns(h) - D[d]
    OBVIOUS
  <2> HIDE DEF turn, P, m
  <2>2. \A d \in P : turn[d] \in P /\ m[d] \in Nat /\ (turn[d] # d => m[turn[d]] < m[d])
    BY <1>2, <1>3, <2>1
  <2>3. m[c] <= Turns(h)
    BY <1>1, <1>3, <2>1
  <2> QED
    BY <1>1, <1>3, <2>2, <2>3, AfterRests
<1>6. Leaf(h, c) = end
  BY DEF Leaf, Held
<1> HIDE DEF end
<1>7. Lower(h, end) = None
  <2> SUFFICES ASSUME Lower(h, end) # None PROVE FALSE
    OBVIOUS
  <2>1. Lower(h, end) = end
    BY <1>4, <1>5
  <2>2. PICK s \in {0, 1} : h.node[end].child[s] = end
    BY <2>1 DEF Lower
  <2>3. D[end] \in Nat /\ end \in Held(h)
    BY <1>3, <1>4
  <2>4. D[end] = D[end] + 1
    BY <2>1, <2>2, <2>3 DEF Deep
  <2> QED
    BY <2>3, <2>4
<1> QED
  BY <1>4, <1>6, <1>7 DEF Lower

\* The chunk r in the place of c: d is h, but that r may still have a parent in it.
LEMMA StandsIn ==
  ASSUME NEW h, Typed(h), Links(h), NEW D, Deep(h, D),
         NEW c \in Held(h), InTrie(h, c), NEW r \in Held(h), ~InTrie(h, r),
         h.node[r].child[0] = None, h.node[r].child[1] = None,
         NEW d, Shapes(d), Held(d) = Held(h), d.bin = h.bin, d.map = h.map,
         \A e \in Held(h) : SameRing(h, d, e) /\ (e # r => d.node[e].parent = h.node[e].parent),
         \A e \in Held(h), s \in {0, 1} : d.node[e].child[s] = h.node[e].child[s]
  PROVE  LET g == Without(Adopt(Relink(d, c, r), c, r), c)
         IN  /\ Shapes(g) /\ Held(g) = Held(h) \ {c} /\ g.map = h.map
             /\ \A i \in Bins : g.bin[i] = For(h.bin[i], c, r)
             /\ \A e \in Held(g) : SameRing(h, g, e)
             /\ \A e \in Held(g) : g.node[e].parent = IF e = r THEN h.node[c].parent ELSE For(h.node[e].parent, c, r)
             /\ \A e \in Held(g), s \in {0, 1} :
                   g.node[e].child[s] = IF e = r THEN h.node[c].child[s] ELSE For(h.node[e].child[s], c, r)
<1> DEFINE l == Relink(d, c, r)
           a == Adopt(l, c, r)
           g == Without(a, c)
<1>1. Placed(h, c) /\ Head \notin Held(h) /\ None \notin Held(h)
  BY PlacedIs
<1>2. c # r /\ r # None /\ c # None
  BY <1>1
<1>3. Placed(d, c)
  <2>1. d.node[c].parent = h.node[c].parent /\ d.node[c].index = h.node[c].index
    BY <1>2 DEF SameRing
  <2>2. \A e \in Held(h), s \in {0, 1} : d.node[e].child[s] = h.node[e].child[s]
    OBVIOUS
  <2>3. /\ d.node[c].index \in Bins
        /\ \A i \in Bins : d.bin[i] = c <=> i = d.node[c].index /\ d.node[c].parent = Head
    BY <1>1, <2>1 DEF Placed
  <2>4. \A e \in Held(h), s \in {0, 1} : d.node[e].child[s] = c => e = d.node[c].parent
    BY <1>1, <2>1, <2>2 DEF Placed
  <2>5. ASSUME d.node[c].parent # Head
        PROVE  /\ d.node[c].parent \in Held(h)
               /\ \E s \in {0, 1} : \A u \in {0, 1} : d.node[d.node[c].parent].child[u] = c <=> u = s
    <3>1. h.node[c].parent \in Held(h) /\ \E s \in {0, 1} : \A u \in {0, 1} : h.node[h.node[c].parent].child[u] = c <=> u = s
      BY <1>1, <2>1, <2>5 DEF Placed
    <3> DEFINE p == h.node[c].parent
    <3> HIDE DEF p
    <3>2. p \in Held(h) /\ \E s \in {0, 1} : \A u \in {0, 1} : h.node[p].child[u] = c <=> u = s
      BY <3>1 DEF p
    <3>3. PICK s \in {0, 1} : \A u \in {0, 1} : h.node[p].child[u] = c <=> u = s
      BY <3>2
    <3>4. \A u \in {0, 1} : d.node[p].child[u] = c <=> u = s
      BY <2>2, <3>2, <3>3
    <3> QED
      BY <2>1, <3>2, <3>4 DEF p
  <2> QED
    BY <2>3, <2>4, <2>5 DEF Placed
<1>4. /\ Shapes(l) /\ Held(l) = Held(h) /\ l.map = h.map
      /\ \A i \in Bins : l.bin[i] = For(h.bin[i], c, r)
      /\ \A e \in Held(h) : SameUp(d, l, e)
      /\ \A e \in Held(h), s \in {0, 1} : l.node[e].child[s] = For(h.node[e].child[s], c, r)
  <2>1. Relinks(d, l, c, r)
    <3>1. Shapes(d) /\ Head \notin Held(d) /\ c \in Held(d) /\ Placed(d, c)
      BY <1>1, <1>3
    <3> QED
      BY ONLY <3>1, RelinkIs DEF l
  <2> HIDE DEF l
  <2> QED
    BY <1>2, <2>1 DEF Relinks
<1> HIDE DEF l
<1> DEFINE kid == l.node[c].child
<1>5. /\ Shapes(a) /\ Held(a) = Held(h) /\ a.bin = l.bin /\ a.map = l.map
      /\ \A e \in Held(h) : SameRing(l, a, e)
      /\ \A e \in Held(h) : a.node[e].parent = IF e = r THEN l.node[c].parent
                                              ELSE IF e \in {kid[0], kid[1]} THEN r ELSE l.node[e].parent
      /\ \A e \in Held(h), s \in {0, 1} :
            a.node[e].child[s] = IF e = r /\ kid[s] # None THEN kid[s] ELSE l.node[e].child[s]
  BY <1>2, <1>4, AdoptIs
<1> HIDE DEF a
<1>6. /\ Shapes(g) /\ Held(g) = Held(h) \ {c} /\ g.bin = a.bin /\ g.map = a.map
      /\ \A e \in Held(g) : g.node[e] = a.node[e]
  BY <1>5, WithoutIs
<1> HIDE DEF g
<1>7. \A s \in {0, 1} : h.node[c].child[s] # c
  <2> SUFFICES ASSUME NEW s \in {0, 1}, h.node[c].child[s] = c PROVE FALSE
    OBVIOUS
  <2>1. D[c] = D[c] + 1 /\ D[c] \in Nat
    BY <1>2 DEF Deep
  <2> QED
    BY <2>1
<1>8. \A s \in {0, 1} : kid[s] = h.node[c].child[s]
  BY <1>4, <1>7 DEF For
<1> HIDE DEF kid
<1>9. ASSUME NEW e \in Held(h) PROVE e \in {kid[0], kid[1]} <=> h.node[e].parent = c
  <2>1. ASSUME e \in {kid[0], kid[1]} PROVE h.node[e].parent = c
    <3>1. PICK s \in {0, 1} : e = h.node[c].child[s]
      BY <1>8, <2>1
    <3>2. e # None
      BY <1>1
    <3> QED
      BY <3>1, <3>2 DEF Links
  <2>2. ASSUME h.node[e].parent = c PROVE e \in {kid[0], kid[1]}
    BY <1>8, <2>2 DEF Links
  <2> QED
    BY <2>1, <2>2
<1>10. ASSUME NEW e \in Held(g)
       PROVE  /\ SameRing(h, g, e)
              /\ g.node[e].parent = IF e = r THEN h.node[c].parent ELSE For(h.node[e].parent, c, r)
  <2>1. e \in Held(h) /\ e # c /\ g.node[e] = a.node[e]
    BY <1>6
  <2>2. SameRing(h, g, e)
    BY <1>4, <1>5, <2>1 DEF SameRing, SameUp
  <2>3. CASE e = r
    <3>1. l.node[c].parent = h.node[c].parent
      BY <1>2, <1>4 DEF SameUp
    <3> QED
      BY <1>5, <2>1, <2>2, <2>3, <3>1
  <2>4. CASE e # r
    <3>1. l.node[e].parent = h.node[e].parent
      BY <1>4, <2>1, <2>4 DEF SameUp
    <3> QED
      BY <1>5, <1>9, <2>1, <2>2, <2>4, <3>1 DEF For
  <2> QED
    BY <2>3, <2>4
<1>11. ASSUME NEW e \in Held(g), NEW s \in {0, 1}
       PROVE  g.node[e].child[s] = IF e = r THEN h.node[c].child[s] ELSE For(h.node[e].child[s], c, r)
  <2>1. e \in Held(h) /\ e # c /\ g.node[e] = a.node[e]
    BY <1>6
  <2>2. CASE e = r
    <3>1. l.node[r].child[s] = None
      <4>1. h.node[r].child[s] = None
        OBVIOUS
      <4> QED
        BY <1>2, <1>4, <4>1 DEF For
    <3> QED
      BY <1>5, <1>8, <2>1, <2>2, <3>1
  <2>3. CASE e # r
    BY <1>4, <1>5, <2>1, <2>3
  <2> QED
    BY <2>2, <2>3
<1>12. \A i \in Bins : g.bin[i] = For(h.bin[i], c, r)
  BY <1>4, <1>5, <1>6
<1> QED
  BY <1>4, <1>5, <1>6, <1>10, <1>11, <1>12 DEF g, a, l

----------------------------------------------------------------------------
(* Taking a chunk out. *)

\* c has left the chunks held.
Leaves(h, g, c) ==
  /\ Trees(g) /\ Held(g) = Held(h) \ {c}
  /\ \A d \in Held(g) : g.node[d].size = h.node[d].size

\* The neighbours of c in its ring.
LEMMA Neighbours ==
  ASSUME NEW h, Typed(h), Rings(h), NEW c \in Held(h)
  PROVE  LET f == h.node[c].forward
             b == h.node[c].backward
         IN  /\ f \in Held(h) /\ b \in Held(h) /\ (f = c <=> b = c)
             /\ h.node[b].size = h.node[c].size /\ h.node[b].index = h.node[c].index
             /\ ~InTrie(h, c) => b # c
             /\ InTrie(h, c) /\ b # c => ~InTrie(h, b)
<1> DEFINE f == h.node[c].forward
           b == h.node[c].backward
<1>1. f \in Held(h) /\ b \in Held(h)
  BY Fields
<1>2. Linked(h, c)
  BY DEF Rings
<1>3. f = c <=> b = c
  BY <1>2 DEF Linked
<1>4. h.node[b].size = h.node[c].size
  BY <1>2 DEF Linked
<1>5. h.node[b].index = h.node[c].index
  BY <1>1, <1>4, Fields
<1>6. ASSUME ~InTrie(h, c), b = c PROVE FALSE
  <2>1. PICK e \in Held(h) : InTrie(h, e) /\ SameSize(h, e, c)
    BY DEF Rings
  <2>2. Closed(h, {c}) /\ {c} \in SUBSET Held(h) /\ c \in {c} /\ SameSize(h, c, e)
    BY <1>3, <1>6, <2>1 DEF Closed, SameSize
  <2>3. e \in {c}
    BY <2>2 DEF Rings
  <2> QED
    BY <1>6, <2>1, <2>3
<1>7. InTrie(h, c) /\ b # c => ~InTrie(h, b)
  BY <1>1, <1>4 DEF Rings, SameSize
<1> QED
  BY <1>1, <1>3, <1>4, <1>5, <1>6, <1>7

\* The ring without c, and the tries as they were.
LEMMA Spliced ==
  ASSUME NEW h, Typed(h), Rings(h), Links(h), NEW D, Deep(h, D), NEW c \in Held(h), h.node[c].backward # c
  PROVE  LET d == Detached(h, c)
             f == h.node[c].forward
             b == h.node[c].backward
         IN  /\ Shapes(d) /\ Held(d) = Held(h) /\ d.bin = h.bin /\ d.map = h.map
             /\ Typed(d) /\ Links(d) /\ Deep(d, D)
             /\ \A e \in Held(h) : /\ d.node[e].forward = IF e = b THEN f ELSE h.node[e].forward
                                   /\ d.node[e].backward = IF e = f THEN b ELSE h.node[e].backward
                                   /\ d.node[e].size = h.node[e].size /\ d.node[e].index = h.node[e].index
                                   /\ d.node[e].parent = h.node[e].parent /\ d.node[e].child = h.node[e].child
<1> DEFINE f == h.node[c].forward
           b == h.node[c].backward
           d == Joined(h, b, f, f, b)
<1>1. Detached(h, c) = d
  BY DEF Detached, Joined
<1>2. f \in Held(h) /\ b \in Held(h)
  BY Fields
<1> HIDE DEF f, b
<1>3. /\ Shaped(d) /\ d.bin = h.bin /\ d.map = h.map /\ Held(d) = Held(h)
      /\ \A e \in Held(h) : d.node[e] = [a \in NodeFields |-> d.node[e][a]]
      /\ \A e \in Held(h) :
           /\ d.node[e].forward = IF e = b THEN f ELSE h.node[e].forward
           /\ d.node[e].backward = IF e = f THEN b ELSE h.node[e].backward
           /\ d.node[e].size = h.node[e].size /\ d.node[e].index = h.node[e].index
           /\ d.node[e].parent = h.node[e].parent /\ d.node[e].child = h.node[e].child
  BY <1>2, RingWrites
<1> HIDE DEF d
<1>4. Shapes(d)
  <2>1. Shapes(h)
    BY TypedShapes
  <2>2. Shaped(d) /\ d.bin = [i \in Bins |-> d.bin[i]]
    BY <1>3, <2>1 DEF Shapes
  <2>3. \A e \in Held(d) : /\ d.node[e] = [a \in NodeFields |-> d.node[e][a]]
                           /\ d.node[e].child = [s \in {0, 1} |-> d.node[e].child[s]]
    <3>1. \A e \in Held(h) : h.node[e].child = [s \in {0, 1} |-> h.node[e].child[s]]
      BY <2>1 DEF Shapes
    <3>2. ASSUME NEW e \in Held(h) PROVE d.node[e].child = [s \in {0, 1} |-> d.node[e].child[s]]
      <4>1. d.node[e].child = h.node[e].child
        BY <1>3
      <4> QED
        BY <3>1, <4>1
    <3> QED
      BY <1>3, <3>2
  <2> QED
    BY <2>2, <2>3 DEF Shapes
<1>5. Typed(d) /\ Links(d) /\ Deep(d, D)
  <2>1. \A e \in Held(h) : d.node[e].forward \in Held(h) /\ d.node[e].backward \in Held(h)
    BY <1>2, <1>3, Fields
  <2> QED
    BY <1>3, <1>4, <2>1, SameTries
<1> QED
  BY <1>1, <1>3, <1>4, <1>5 DEF f, b

\* Out of a ring and not out of the trie.
LEMMA UnlinkMember ==
  ASSUME NEW h, Trees(h), NEW c \in Held(h), ~InTrie(h, c)
  PROVE  Leaves(h, UnlinkLarge(h, c), c)
<1> DEFINE f == h.node[c].forward
           b == h.node[c].backward
           d == Detached(h, c)
           g == Without(d, c)
<1>1. Typed(h) /\ Rings(h) /\ Links(h)
  BY DEF Trees
<1>2. PICK D : Deep(h, D)
  BY DEF Trees
<1>3. b # c
  BY <1>1, Neighbours
<1>4. UnlinkLarge(h, c) = g
  BY DEF UnlinkLarge, InTrie, Without
<1>5. /\ Shapes(d) /\ Held(d) = Held(h) /\ d.bin = h.bin /\ d.map = h.map
      /\ Typed(d) /\ Links(d) /\ Deep(d, D)
      /\ \A e \in Held(h) : /\ d.node[e].forward = IF e = b THEN f ELSE h.node[e].forward
                            /\ d.node[e].backward = IF e = f THEN b ELSE h.node[e].backward
                            /\ d.node[e].size = h.node[e].size /\ d.node[e].index = h.node[e].index
                            /\ d.node[e].parent = h.node[e].parent /\ d.node[e].child = h.node[e].child
  BY <1>1, <1>2, <1>3, Spliced
<1> HIDE DEF d
<1>6. /\ Shapes(g) /\ Held(g) = Held(h) \ {c} /\ g.bin = d.bin /\ g.map = d.map
      /\ \A e \in Held(g) : g.node[e] = d.node[e]
  BY <1>5, WithoutIs
<1> HIDE DEF g, f, b
<1>7. Rings(g) /\ \A e \in Held(g) : g.node[e].forward # c /\ g.node[e].backward # c
  <2>1. ASSUME NEW e \in Held(g)
        PROVE  /\ g.node[e].size = h.node[e].size
               /\ g.node[e].forward = IF e = b THEN f ELSE h.node[e].forward
               /\ g.node[e].backward = IF e = f THEN b ELSE h.node[e].backward
               /\ InTrie(g, e) <=> InTrie(h, e) \/ (InTrie(h, c) /\ e = b)
               /\ ~InTrie(g, e) => g.node[e].child[0] = None /\ g.node[e].child[1] = None
    <3>1. e \in Held(h) /\ g.node[e] = d.node[e]
      BY <1>6
    <3>2. Linked(h, e)
      BY <1>1, <3>1 DEF Rings
    <3> QED
      BY <1>5, <3>1, <3>2 DEF InTrie, Linked
  <2> QED
    BY <1>1, <1>6, <2>1, RingsLeft DEF f, b
<1>8. Typed(g) /\ Links(g) /\ Deep(g, D)
  <2>1. ~InTrie(d, c) /\ c \in Held(d)
    BY <1>5 DEF InTrie
  <2>2. \A e \in Held(g) : SameUp(d, g, e) /\ g.node[e].forward # c /\ g.node[e].backward # c
    BY <1>6, <1>7 DEF SameUp, SameRing
  <2>3. \A e \in Held(g), s \in {0, 1} : g.node[e].child[s] = d.node[e].child[s]
    BY <1>6
  <2> QED
    BY <1>5, <1>6, <2>1, <2>2, <2>3, Dropped
<1>9. \A e \in Held(g) : g.node[e].size = h.node[e].size
  BY <1>5, <1>6
<1> QED
  BY <1>4, <1>6, <1>7, <1>8, <1>9 DEF Leaves, Trees

\* Out of the trie, and a chunk of its ring into it.
LEMMA UnlinkHeir ==
  ASSUME NEW h, Trees(h), NEW c \in Held(h), InTrie(h, c), h.node[c].backward # c
  PROVE  Leaves(h, UnlinkLarge(h, c), c)
<1> DEFINE f == h.node[c].forward
           b == h.node[c].backward
           d == Detached(h, c)
           g == Without(Adopt(Relink(d, c, b), c, b), c)
<1>1. Typed(h) /\ Rings(h) /\ Links(h)
  BY DEF Trees
<1>2. PICK D : Deep(h, D)
  BY DEF Trees
<1>3. /\ f \in Held(h) /\ b \in Held(h) /\ b # c /\ h.node[b].size = h.node[c].size
      /\ h.node[b].index = h.node[c].index /\ ~InTrie(h, b) /\ b # None
  <2>1. /\ f \in Held(h) /\ b \in Held(h) /\ b # c /\ h.node[b].size = h.node[c].size
        /\ h.node[b].index = h.node[c].index /\ ~InTrie(h, b)
    BY <1>1, Neighbours
  <2> QED
    BY <1>1, <2>1, TreeBinAssumption DEF Typed
<1>4. UnlinkLarge(h, c) = g
  <2>1. Replacement(h, c) = b
    BY DEF Replacement
  <2> HIDE DEF b, d
  <2> QED
    BY <1>3, <2>1 DEF UnlinkLarge, InTrie, Without, d
<1>5. /\ Shapes(d) /\ Held(d) = Held(h) /\ d.bin = h.bin /\ d.map = h.map
      /\ Typed(d) /\ Links(d) /\ Deep(d, D)
      /\ \A e \in Held(h) : /\ d.node[e].forward = IF e = b THEN f ELSE h.node[e].forward
                            /\ d.node[e].backward = IF e = f THEN b ELSE h.node[e].backward
                            /\ d.node[e].size = h.node[e].size /\ d.node[e].index = h.node[e].index
                            /\ d.node[e].parent = h.node[e].parent /\ d.node[e].child = h.node[e].child
  BY <1>1, <1>2, Spliced
<1> HIDE DEF d, f, b
<1>6. InTrie(d, c) /\ ~InTrie(d, b) /\ d.node[b].child[0] = None /\ d.node[b].child[1] = None
  <2>1. Linked(h, b)
    BY <1>1, <1>3 DEF Rings
  <2> QED
    BY <1>3, <1>5, <2>1 DEF InTrie, Linked
<1>7. /\ Shapes(g) /\ Held(g) = Held(h) \ {c} /\ g.map = d.map
      /\ \A i \in Bins : g.bin[i] = For(d.bin[i], c, b)
      /\ \A e \in Held(g) : SameRing(d, g, e)
      /\ \A e \in Held(g) : g.node[e].parent = IF e = b THEN d.node[c].parent ELSE For(d.node[e].parent, c, b)
      /\ \A e \in Held(g), s \in {0, 1} :
            g.node[e].child[s] = IF e = b THEN d.node[c].child[s] ELSE For(d.node[e].child[s], c, b)
  <2>1. \A e \in Held(d) : SameRing(d, d, e)
    BY DEF SameRing
  <2>2. c \in Held(d) /\ b \in Held(d)
    BY <1>3, <1>5
  <2>3. Shapes(d) /\ Typed(d) /\ Links(d) /\ Deep(d, D) /\ Held(d) = Held(h)
    BY <1>5
  <2> QED
    BY ONLY <1>6, <2>1, <2>2, <2>3, StandsIn DEF g
<1> HIDE DEF g
<1>8. Rings(g) /\ \A e \in Held(g) : g.node[e].forward # c /\ g.node[e].backward # c
  <2>1. ASSUME NEW e \in Held(g)
        PROVE  /\ g.node[e].size = h.node[e].size
               /\ g.node[e].forward = IF e = b THEN f ELSE h.node[e].forward
               /\ g.node[e].backward = IF e = f THEN b ELSE h.node[e].backward
               /\ InTrie(g, e) <=> InTrie(h, e) \/ (InTrie(h, c) /\ e = b)
               /\ ~InTrie(g, e) => g.node[e].child[0] = None /\ g.node[e].child[1] = None
    <3>1. e \in Held(h) /\ e # c /\ SameRing(d, g, e)
      BY <1>7
    <3>2. InTrie(g, e) <=> InTrie(h, e) \/ e = b
      <4>1. CASE e = b
        BY <1>5, <1>6, <1>7, <4>1 DEF InTrie
      <4>2. CASE e # b
        BY <1>1, <1>3, <1>5, <1>7, <3>1, <4>2, TreeBinAssumption DEF InTrie, For, Typed
      <4> QED
        BY <4>1, <4>2
    <3>3. ASSUME ~InTrie(g, e) PROVE g.node[e].child[0] = None /\ g.node[e].child[1] = None
      <4>1. ~InTrie(h, e) /\ e # b
        BY <3>2, <3>3
      <4>2. h.node[e].child[0] = None /\ h.node[e].child[1] = None
        BY <1>1, <3>1, <4>1 DEF Rings, Linked, InTrie
      <4>3. c # None
        BY <1>1, TreeBinAssumption DEF Typed
      <4>4. \A s \in {0, 1} : g.node[e].child[s] = None
        <5> SUFFICES ASSUME NEW s \in {0, 1} PROVE g.node[e].child[s] = None
          OBVIOUS
        <5>1. d.node[e].child[s] = None
          BY <1>5, <3>1, <4>2
        <5> QED
          BY <1>7, <3>1, <4>1, <4>3, <5>1 DEF For
      <4> QED
        BY <4>4
    <3> QED
      BY <1>5, <3>1, <3>2, <3>3 DEF SameRing
  <2> QED
    BY <1>1, <1>7, <2>1, RingsLeft DEF f, b
<1>9. Typed(g) /\ Links(g) /\ \E E : Deep(g, E)
  <2>1. d.node[b].index = d.node[c].index /\ Agree(d.node[b].size, d.node[c].size, D[c]) /\ c \in Held(d) /\ b \in Held(d)
    <3>1. D[c] \in Nat
      BY <1>2 DEF Deep
    <3>2. d.node[b].size = d.node[c].size
      BY <1>3, <1>5
    <3> QED
      BY <1>3, <1>5, <3>1, <3>2, Agreements
  <2>2. \A e \in Held(g) : SameRing(d, g, e) /\ g.node[e].forward # c /\ g.node[e].backward # c
    BY <1>7, <1>8
  <2> QED
    BY <1>5, <1>6, <1>7, <2>1, <2>2, TakesPlace
<1>10. \A e \in Held(g) : g.node[e].size = h.node[e].size
  BY <1>5, <1>7 DEF SameRing
<1> QED
  BY <1>4, <1>7, <1>8, <1>9, <1>10 DEF Leaves, Trees

\* The rings when c is alone in its ring.
LEMMA RingsAlone ==
  ASSUME NEW h, Typed(h), Rings(h), NEW c \in Held(h), h.node[c].backward = c,
         NEW g, Held(g) = Held(h) \ {c}, \A d \in Held(g) : SameRing(h, g, d) /\ (InTrie(g, d) <=> InTrie(h, d)),
         \A d \in Held(g) : ~InTrie(g, d) => g.node[d].child[0] = None /\ g.node[d].child[1] = None
  PROVE  Rings(g) /\ \A d \in Held(g) : g.node[d].forward # c /\ g.node[d].backward # c
<1>1. h.node[c].forward = c
  BY Neighbours
<1>2. ASSUME NEW e \in Held(g)
      PROVE  /\ g.node[e].size = h.node[e].size
             /\ g.node[e].forward = IF e = c THEN c ELSE h.node[e].forward
             /\ g.node[e].backward = IF e = c THEN c ELSE h.node[e].backward
             /\ InTrie(g, e) <=> InTrie(h, e) \/ (InTrie(h, c) /\ e = c)
             /\ ~InTrie(g, e) => g.node[e].child[0] = None /\ g.node[e].child[1] = None
  BY DEF SameRing
<1> QED
  BY <1>1, <1>2, RingsLeft

\* The last of its size, without children.
LEMMA UnlinkLone ==
  ASSUME NEW h, Trees(h), NEW c \in Held(h), InTrie(h, c), h.node[c].backward = c, Lower(h, c) = None
  PROVE  Leaves(h, UnlinkLarge(h, c), c)
<1> DEFINE l == Relink(h, c, None)
           m == ParentSet(l, c, None)
           g == Without(l, c)
<1>1. Typed(h) /\ Rings(h) /\ Links(h) /\ Shapes(h)
  BY TypedShapes DEF Trees
<1>2. PICK D : Deep(h, D)
  BY DEF Trees
<1>3. Placed(h, c) /\ Head \notin Held(h) /\ None \notin Held(h) /\ c # None
  BY <1>1, <1>2, PlacedIs
<1>4. h.node[c].child[0] = None /\ h.node[c].child[1] = None
  BY DEF Lower
<1>5. UnlinkLarge(h, c) = g
  <2>1. Replacement(h, c) = None /\ Detached(h, c) = h
    BY DEF Replacement, Detached
  <2> QED
    BY <2>1 DEF UnlinkLarge, InTrie, Without
<1>6. /\ Shapes(l) /\ Held(l) = Held(h)
      /\ l.map = {i \in h.map : i \notin Bins \/ h.bin[i] # c}
      /\ \A i \in Bins : l.bin[i] = For(h.bin[i], c, None)
      /\ \A d \in Held(h) : SameUp(h, l, d)
      /\ \A d \in Held(h), s \in {0, 1} : l.node[d].child[s] = For(h.node[d].child[s], c, None)
  <2>1. Shapes(h) /\ Head \notin Held(h) /\ c \in Held(h) /\ Placed(h, c)
    BY <1>1, <1>3
  <2>2. Relinks(h, l, c, None)
    BY ONLY <2>1, RelinkIs DEF l
  <2> HIDE DEF l
  <2> QED
    BY <2>2 DEF Relinks
<1> HIDE DEF l
<1>7. /\ Shapes(m) /\ Held(m) = Held(h) /\ m.bin = l.bin /\ m.map = l.map
      /\ \A d \in Held(h) : /\ SameRing(l, m, d) /\ m.node[d].child = l.node[d].child
                            /\ m.node[d].parent = IF d = c THEN None ELSE l.node[d].parent
  BY <1>6, ParentWrite
<1>8. /\ Shapes(g) /\ Held(g) = Held(h) \ {c} /\ g.bin = l.bin /\ g.map = l.map
      /\ \A d \in Held(g) : g.node[d] = l.node[d]
  BY <1>6, WithoutIs
<1> HIDE DEF m, g
<1>9. Typed(m) /\ Links(m) /\ Deep(m, D) /\ ~InTrie(m, c)
  <2>1. m.map = {i \in Bins : m.bin[i] # None}
    <3>1. h.map = {i \in Bins : h.bin[i] # None}
      BY <1>1 DEF Typed
    <3> QED
      BY <1>6, <1>7, <3>1 DEF For
  <2>2. \A d \in Held(h) : SameRing(h, m, d) /\ m.node[d].parent = IF d = c THEN None ELSE h.node[d].parent
    BY <1>6, <1>7 DEF SameUp, SameRing
  <2>3. \A d \in Held(h), s \in {0, 1} : m.node[d].child[s] = For(h.node[d].child[s], c, None)
    BY <1>6, <1>7
  <2>4. \A i \in Bins : m.bin[i] = For(h.bin[i], c, None)
    BY <1>6, <1>7
  <2> QED
    BY <1>1, <1>2, <1>4, <1>7, <2>1, <2>2, <2>3, <2>4, Pruned
<1>10. Rings(g) /\ \A d \in Held(g) : g.node[d].forward # c /\ g.node[d].backward # c
  <2>1. \A d \in Held(g) : SameRing(h, g, d) /\ (InTrie(g, d) <=> InTrie(h, d))
    BY <1>6, <1>8 DEF SameUp, SameRing, InTrie
  <2>2. ASSUME NEW d \in Held(g), ~InTrie(g, d) PROVE g.node[d].child[0] = None /\ g.node[d].child[1] = None
    <3>1. d \in Held(h) /\ ~InTrie(h, d)
      BY <1>8, <2>1, <2>2
    <3>2. h.node[d].child[0] = None /\ h.node[d].child[1] = None
      BY <1>1, <3>1 DEF Rings, Linked, InTrie
    <3> QED
      BY <1>6, <1>8, <3>1, <3>2 DEF For
  <2> QED
    BY <1>1, <1>8, <2>1, <2>2, RingsAlone
<1>11. Typed(g) /\ Links(g) /\ Deep(g, D)
  <2>1. c \in Held(m) /\ Held(g) = Held(m) \ {c} /\ g.map = m.map /\ g.bin = m.bin
    BY <1>7, <1>8
  <2>2. \A d \in Held(g) : SameUp(m, g, d) /\ g.node[d].forward # c /\ g.node[d].backward # c
    BY <1>7, <1>8, <1>10 DEF SameUp, SameRing
  <2>3. \A d \in Held(g), s \in {0, 1} : g.node[d].child[s] = m.node[d].child[s]
    BY <1>7, <1>8
  <2> QED
    BY <1>8, <1>9, <2>1, <2>2, <2>3, Dropped
<1>12. \A d \in Held(g) : g.node[d].size = h.node[d].size
  BY <1>6, <1>8 DEF SameUp, SameRing
<1> QED
  BY <1>5, <1>8, <1>10, <1>11, <1>12 DEF Leaves, Trees

\* The last of its size, with children: a leaf under it stands in.
LEMMA UnlinkAbove ==
  ASSUME NEW h, Trees(h), NEW c \in Held(h), InTrie(h, c), h.node[c].backward = c, Lower(h, c) # None
  PROVE  Leaves(h, UnlinkLarge(h, c), c)
<1> DEFINE r == Leaf(h, c)
           p == h.node[r].parent
           d == Unslot(h, r)
           m == ParentSet(d, r, None)
           g == Without(Adopt(Relink(d, c, r), c, r), c)
<1>1. Typed(h) /\ Rings(h) /\ Links(h) /\ Shapes(h)
  BY TypedShapes DEF Trees
<1>2. PICK D : Deep(h, D)
  BY DEF Trees
<1>3. /\ r \in Held(h) /\ Under(h, D, c, r) /\ h.node[r].child[0] = None /\ h.node[r].child[1] = None
      /\ D[c] \in Nat
  <2>1. D[c] \in Nat
    BY <1>2 DEF Deep
  <2> QED
    BY <1>1, <1>2, <2>1, LeafIs
<1>4. r # c
  <2>1. Lower(h, r) = None
    BY <1>3 DEF Lower
  <2> QED
    BY <2>1
<1>5. UnlinkLarge(h, c) = g
  <2>1. Replacement(h, c) = r /\ Detached(h, c) = d
    BY DEF Replacement, Detached
  <2>2. r # None
    BY <1>1, <1>3, TreeBinAssumption DEF Typed
  <2> HIDE DEF r, d
  <2> QED
    BY <2>1, <2>2 DEF UnlinkLarge, InTrie, Without
<1> HIDE DEF r
<1>6. InTrie(h, r) /\ h.node[r].index = h.node[c].index /\ D[r] >= D[c] /\ Agree(h.node[r].size, h.node[c].size, D[c])
  BY <1>3 DEF Under
<1>7. Placed(h, r) /\ Head \notin Held(h) /\ None \notin Held(h) /\ r # None
  BY <1>1, <1>2, <1>3, <1>6, PlacedIs
<1>8. D[r] # 0
  <2> SUFFICES ASSUME D[r] = 0 PROVE FALSE
    OBVIOUS
  <2>1. D[c] = 0 /\ D[c] = D[r]
    BY <1>3, <1>6
  <2> QED
    BY <1>1, <1>2, <1>3, <1>4, <1>6, <2>1, PlacesDiffer
<1>9. PICK s \in {0, 1} : p \in Held(h) /\ h.node[p].child[s] = r
  BY <1>1, <1>2, <1>3, <1>6, <1>8, Parents
<1>10. p # Head
  BY <1>7, <1>9
<1>11. /\ \A e \in Held(h), u \in {0, 1} : h.node[e].child[u] = r <=> e = p /\ u = s
       /\ \A i \in Bins : h.bin[i] # r
  <2>1. \E v \in {0, 1} : \A u \in {0, 1} : h.node[p].child[u] = r <=> u = v
    BY <1>7, <1>10 DEF Placed
  <2>2. \A u \in {0, 1} : h.node[p].child[u] = r <=> u = s
    BY <1>9, <2>1
  <2> QED
    BY <1>7, <1>9, <1>10, <2>2 DEF Placed
<1>12. d = ChildSet(h, p, s, None)
  <2>1. (IF h.node[p].child[1] = r THEN 1 ELSE 0) = s
    BY <1>9, <1>11
  <2> HIDE DEF p
  <2> QED
    BY <2>1 DEF Unslot, ChildSet, p
<1> HIDE DEF d, p
<1>13. /\ Shapes(d) /\ Held(d) = Held(h) /\ d.bin = h.bin /\ d.map = h.map
       /\ \A e \in Held(h) : SameUp(h, d, e)
       /\ \A e \in Held(h), u \in {0, 1} :
             d.node[e].child[u] = IF e = p /\ u = s THEN None ELSE h.node[e].child[u]
  BY <1>1, <1>9, <1>12, ChildWrite
<1>14. \A e \in Held(h), u \in {0, 1} : d.node[e].child[u] = For(h.node[e].child[u], r, None)
  BY <1>11, <1>13 DEF For
<1>15. /\ Shapes(m) /\ Held(m) = Held(h) /\ m.bin = d.bin /\ m.map = d.map
       /\ \A e \in Held(h) : /\ SameRing(d, m, e) /\ m.node[e].child = d.node[e].child
                             /\ m.node[e].parent = IF e = r THEN None ELSE d.node[e].parent
  BY <1>3, <1>13, ParentWrite
<1> HIDE DEF m
<1>16. \A e \in Held(h) : SameRing(h, m, e) /\ m.node[e].parent = IF e = r THEN None ELSE h.node[e].parent
  BY <1>13, <1>15 DEF SameUp, SameRing
<1>17. \A e \in Held(h), u \in {0, 1} : m.node[e].child[u] = For(h.node[e].child[u], r, None)
  BY <1>14, <1>15
<1>18. Typed(m) /\ Links(m) /\ Deep(m, D) /\ ~InTrie(m, r)
  <2>1. m.map = {i \in Bins : m.bin[i] # None}
    BY <1>1, <1>13, <1>15 DEF Typed
  <2>2. \A i \in Bins : m.bin[i] = For(h.bin[i], r, None)
    BY <1>11, <1>13, <1>15 DEF For
  <2> QED
    BY <1>1, <1>2, <1>3, <1>6, <1>15, <1>16, <1>17, <2>1, <2>2, Pruned
<1>19. /\ c \in Held(m) /\ r \in Held(m) /\ InTrie(m, c)
       /\ m.node[r].child[0] = None /\ m.node[r].child[1] = None
  BY <1>3, <1>4, <1>15, <1>16, <1>17 DEF InTrie, For
<1>20. /\ Shapes(g) /\ Held(g) = Held(h) \ {c} /\ g.map = m.map
       /\ \A i \in Bins : g.bin[i] = For(m.bin[i], c, r)
       /\ \A e \in Held(g) : SameRing(m, g, e)
       /\ \A e \in Held(g) : g.node[e].parent = IF e = r THEN m.node[c].parent ELSE For(m.node[e].parent, c, r)
       /\ \A e \in Held(g), u \in {0, 1} :
             g.node[e].child[u] = IF e = r THEN m.node[c].child[u] ELSE For(m.node[e].child[u], c, r)
  <2>1. Held(d) = Held(m) /\ d.bin = m.bin /\ d.map = m.map /\ Shapes(d) /\ Held(m) = Held(h)
    BY <1>13, <1>15
  <2>2. \A e \in Held(m) : SameRing(m, d, e) /\ (e # r => d.node[e].parent = m.node[e].parent)
    BY <1>15, <2>1 DEF SameRing
  <2>3. \A e \in Held(m), u \in {0, 1} : d.node[e].child[u] = m.node[e].child[u]
    BY <1>15
  <2> QED
    BY ONLY <1>18, <1>19, <2>1, <2>2, <2>3, StandsIn DEF g
<1> HIDE DEF g
<1>21. Rings(g) /\ \A e \in Held(g) : g.node[e].forward # c /\ g.node[e].backward # c
  <2>1. ASSUME NEW e \in Held(g) PROVE SameRing(h, g, e) /\ (InTrie(g, e) <=> InTrie(h, e))
    <3>1. e \in Held(h) /\ SameRing(h, g, e)
      BY <1>16, <1>20 DEF SameRing
    <3>2. CASE e = r
      BY <1>3, <1>4, <1>6, <1>16, <1>20, <3>1, <3>2 DEF InTrie
    <3>3. CASE e # r
      <4>1. g.node[e].parent = For(h.node[e].parent, c, r)
        BY <1>16, <1>20, <3>1, <3>3
      <4>2. c # None
        BY <1>7
      <4> QED
        BY <1>7, <3>1, <4>1, <4>2 DEF InTrie, For
    <3> QED
      BY <3>2, <3>3
  <2>2. ASSUME NEW e \in Held(g), ~InTrie(g, e) PROVE g.node[e].child[0] = None /\ g.node[e].child[1] = None
    <3>1. e \in Held(h) /\ ~InTrie(h, e) /\ e # r /\ c # None
      BY <1>6, <1>7, <1>20, <2>1, <2>2
    <3>2. h.node[e].child[0] = None /\ h.node[e].child[1] = None
      BY <1>1, <3>1 DEF Rings, Linked, InTrie
    <3>3. m.node[e].child[0] = None /\ m.node[e].child[1] = None
      BY <1>17, <3>1, <3>2 DEF For
    <3> QED
      BY <1>20, <3>1, <3>3 DEF For
  <2> QED
    BY <1>1, <1>20, <2>1, <2>2, RingsAlone
<1>22. Typed(g) /\ Links(g) /\ \E E : Deep(g, E)
  <2>1. m.node[r].index = m.node[c].index /\ Agree(m.node[r].size, m.node[c].size, D[c])
    BY <1>3, <1>6, <1>16 DEF SameRing
  <2>2. \A e \in Held(g) : SameRing(m, g, e) /\ g.node[e].forward # c /\ g.node[e].backward # c
    BY <1>20, <1>21
  <2>3. Held(g) = Held(m) \ {c}
    BY <1>15, <1>20
  <2> QED
    BY <1>18, <1>19, <1>20, <2>1, <2>2, <2>3, TakesPlace
<1>23. \A e \in Held(g) : g.node[e].size = h.node[e].size
  BY <1>16, <1>20 DEF SameRing
<1> QED
  BY <1>5, <1>20, <1>21, <1>22, <1>23 DEF Leaves, Trees

\* Whatever takes its place, the tries stay well-formed (sm_unlink_large_chunk 2071-2148).
THEOREM Unlinking ==
  ASSUME NEW h, Trees(h), NEW c \in Held(h)
  PROVE  Leaves(h, UnlinkLarge(h, c), c)
  BY UnlinkMember, UnlinkHeir, UnlinkLone, UnlinkAbove

----------------------------------------------------------------------------
(* The searches. *)

\* A chunk is the best so far with what it has over, or there is none.
BestOk(h, n, b) ==
  /\ b \in Bests(h)
  /\ b = Nothing(n) \/ (b.at \in Held(h) /\ h.node[b.at].size >= n /\ b.rest = h.node[b.at].size - n)

\* The best so far serves n as well as d does.
NoWorse(h, n, b, d) == h.node[d].size >= n => b.at # None /\ b.rest <= h.node[d].size - n

\* Under t every chunk fits, and d is there or larger than all of them.
Ahead(h, D, n, t, d) ==
  /\ t # None
  /\ \A e \in Held(h) : Under(h, D, t, e) => h.node[e].size >= n
  /\ \/ Under(h, D, t, d)
     \/ \A e \in Held(h) : Under(h, D, t, e) => h.node[e].size < h.node[d].size

\* What a difference of words is.
LEMMA Differences ==
  ASSUME NEW x \in Words, NEW y \in Words
  PROVE  Difference(x, y) = (IF x >= y THEN x - y ELSE (x - y) + Word) /\ Difference(x, y) \in Words
<1>1. Word \in Nat \ {0} /\ x \in 0 .. (Word - 1) /\ y \in 0 .. (Word - 1)
  BY Numbers DEF Words
<1>2. CASE x >= y
  <2>1. (x - y) % Word = x - y
    BY <1>1, <1>2
  <2> QED
    BY <1>1, <1>2, <2>1 DEF Difference, Words
<1>3. CASE ~(x >= y)
  <2>1. (x - y) % Word = (x - y) + Word
    BY <1>1, <1>3
  <2> QED
    BY <1>1, <1>3, <2>1 DEF Difference, Words
<1> QED
  BY <1>2, <1>3

\* One chunk more is looked at.
LEMMA BetterIs ==
  ASSUME NEW h, Typed(h), NEW t \in Held(h), NEW n \in Words \ {0}, NEW b, BestOk(h, n, b)
  PROVE  LET x == Better(h, t, n, b)
         IN  /\ BestOk(h, n, x) /\ NoWorse(h, n, x, t) /\ x.rest <= b.rest /\ (x = b \/ x.at = t)
             /\ \A d \in Held(h) : NoWorse(h, n, b, d) => NoWorse(h, n, x, d)
<1> DEFINE x == Better(h, t, n, b)
           z == h.node[t].size
           k == Difference(z, n)
<1>1. z \in Words /\ None \notin Held(h) /\ \A d \in Held(h) : h.node[d].size \in Nat
  <2>1. \A d \in Held(h) : h.node[d].size \in Words /\ h.node[d].size \in Nat
    BY Fields, Numbers
  <2> QED
    BY <2>1, TreeBinAssumption DEF Typed
<1>2. n \in Nat \ {0} /\ 0 \in Words /\ Word \in Nat /\ Words \subseteq Nat /\ z < Word /\ n < Word
  BY <1>1, Numbers DEF Words
<1>3. k = (IF z >= n THEN z - n ELSE (z - n) + Word) /\ k \in Words
  BY <1>1, Differences
<1>4. Nothing(n).rest = Word - n /\ Nothing(n).at = None
  BY <1>2, Differences DEF Nothing
<1>5. b \in Bests(h) /\ b.rest \in Nat /\ b = [at |-> b.at, rest |-> b.rest]
  BY <1>2 DEF BestOk, Bests
<1>6. x = IF k < b.rest THEN [at |-> t, rest |-> k] ELSE b
  BY DEF Better
<1> HIDE DEF x, k, z
<1>7. CASE k < b.rest
  <2>1. x.at = t /\ x.rest = k /\ x \in Bests(h)
    BY <1>3, <1>6, <1>7 DEF Bests, Held
  <2>2. z >= n
    <3> SUFFICES ASSUME ~(z >= n) PROVE FALSE
      OBVIOUS
    <3>1. k = (z - n) + Word
      BY <1>3
    <3>2. CASE b = Nothing(n)
      BY <1>1, <1>2, <1>4, <1>7, <3>1, <3>2
    <3>3. CASE b.at \in Held(h) /\ h.node[b.at].size >= n /\ b.rest = h.node[b.at].size - n
      <4>2. h.node[b.at].size \in Words
        BY <3>3, Fields, Numbers
      <4>1. h.node[b.at].size \in Nat /\ h.node[b.at].size < Word
        BY <1>2, <4>2 DEF Words
      <4> QED
        BY <1>1, <1>2, <1>7, <3>1, <3>3, <4>1
    <3> QED
      BY <3>2, <3>3 DEF BestOk
  <2>3. k = z - n
    BY <1>3, <2>2
  <2>4. BestOk(h, n, x)
    BY <2>1, <2>2, <2>3 DEF BestOk, z
  <2>5. NoWorse(h, n, x, t)
    BY <1>1, <1>2, <2>1, <2>3 DEF NoWorse, z
  <2>6. ASSUME NEW d \in Held(h), NoWorse(h, n, b, d) PROVE NoWorse(h, n, x, d)
    BY <1>1, <1>2, <1>3, <1>5, <1>7, <2>1, <2>6 DEF NoWorse
  <2> QED
    BY <1>2, <1>3, <1>5, <1>7, <2>1, <2>4, <2>5, <2>6 DEF x
<1>8. CASE ~(k < b.rest)
  <2>1. x = b
    BY <1>6, <1>8
  <2>2. NoWorse(h, n, x, t)
    <3> SUFFICES ASSUME z >= n PROVE x.at # None /\ x.rest <= z - n
      BY DEF NoWorse, z
    <3>1. k = z - n
      BY <1>3
    <3>2. b # Nothing(n)
      BY <1>1, <1>2, <1>4, <1>8, <3>1
    <3> QED
      BY <1>1, <1>2, <1>5, <1>8, <2>1, <3>1, <3>2 DEF BestOk
  <2> QED
    BY <1>5, <2>1, <2>2 DEF x
<1> QED
  BY <1>7, <1>8

\* What is under a child went its side, and is under its parent.
LEMMA ChildWay ==
  ASSUME NEW h, Typed(h), Links(h), NEW D, Deep(h, D), NEW t \in Held(h), InTrie(h, t),
         NEW s \in {0, 1}, h.node[t].child[s] # None, NEW e \in Held(h), Under(h, D, h.node[t].child[s], e)
  PROVE  /\ Under(h, D, t, e) /\ D[t] \in Nat /\ Bit(h.node[e].size, D[t]) = s
         /\ Agree(h.node[e].size, h.node[t].size, D[t])
<1> DEFINE k == h.node[t].child[s]
<1>1. /\ k \in Held(h) /\ InTrie(h, k) /\ h.node[k].index = h.node[t].index
      /\ D[t] \in Nat /\ D[k] = D[t] + 1
      /\ Agree(h.node[k].size, h.node[t].size, D[t]) /\ Bit(h.node[k].size, D[t]) = s
  <2>1. ChildFits(h, D, t, s)
    BY Children
  <2> QED
    BY <2>1 DEF ChildFits
<1>2. Under(h, D, k, e)
  OBVIOUS
<1>3. D[e] \in Nat
  BY DEF Deep
<1> HIDE DEF k
<1>4. Agree(h.node[e].size, h.node[k].size, D[t] + 1)
  BY <1>1, <1>2 DEF Under
<1>5. Agree(h.node[e].size, h.node[k].size, D[t]) /\ Bit(h.node[e].size, D[t]) = Bit(h.node[k].size, D[t])
  BY <1>1, <1>4, Agreements
<1>6. Agree(h.node[e].size, h.node[t].size, D[t])
  BY <1>1, <1>5, Agreements
<1> QED
  BY <1>1, <1>2, <1>3, <1>5, <1>6 DEF Under

\* What is under the left child is smaller than what is under the right one.
LEMMA Sides ==
  ASSUME NEW h, Typed(h), Links(h), NEW D, Deep(h, D), NEW t \in Held(h), InTrie(h, t),
         h.node[t].child[0] # None, h.node[t].child[1] # None,
         NEW e \in Held(h), Under(h, D, h.node[t].child[0], e),
         NEW d \in Held(h), Under(h, D, h.node[t].child[1], d)
  PROVE  h.node[e].size < h.node[d].size
<1>1. /\ Under(h, D, t, e) /\ D[t] \in Nat /\ Bit(h.node[e].size, D[t]) = 0
      /\ Agree(h.node[e].size, h.node[t].size, D[t])
  BY ChildWay
<1>2. /\ Under(h, D, t, d) /\ Bit(h.node[d].size, D[t]) = 1
      /\ Agree(h.node[d].size, h.node[t].size, D[t])
  BY ChildWay
<1>3. Agree(h.node[e].size, h.node[d].size, D[t])
  <2>1. Agree(h.node[t].size, h.node[d].size, D[t])
    BY <1>1, <1>2, Agreements
  <2> QED
    BY <1>1, <2>1, Agreements
<1>4. /\ h.node[e].size \in LargeSizes /\ h.node[d].size \in LargeSizes
      /\ TreeIndex(h.node[e].size) = TreeIndex(h.node[d].size)
  <2>1. h.node[e].index = h.node[d].index
    BY <1>1, <1>2 DEF Under
  <2>2. /\ h.node[e].size \in LargeSizes /\ h.node[e].index = TreeIndex(h.node[e].size)
        /\ h.node[d].size \in LargeSizes /\ h.node[d].index = TreeIndex(h.node[d].size)
    BY Fields
  <2> QED
    BY <2>1, <2>2
<1> QED
  BY <1>1, <1>2, <1>3, <1>4, LeftIsLess

\* A chunk of a trie is below itself.
LEMMA UnderSelf ==
  ASSUME NEW h, NEW D, Deep(h, D), NEW t \in Held(h), InTrie(h, t)
  PROVE  Under(h, D, t, t)
<1>1. D[t] \in Nat
  BY DEF Deep
<1> QED
  BY <1>1, Agreements DEF Under

\* One step to the left.
LEMMA LeftStep ==
  ASSUME NEW h, Typed(h), Links(h), NEW D, Deep(h, D), NEW t \in Held(h), InTrie(h, t),
         NEW n \in Words \ {0}, NEW b, BestOk(h, n, b)
  PROVE  LET x == Better(h, t, n, b)
             k == LeftMostChild(h, t)
         IN  /\ k # None => k \in Held(h) /\ InTrie(h, k) /\ D[k] = D[t] + 1
             /\ \A d \in Held(h) : InTrie(h, d) /\ Ahead(h, D, n, t, d) => NoWorse(h, n, x, d) \/ Ahead(h, D, n, k, d)
<1> DEFINE x == Better(h, t, n, b)
           k == LeftMostChild(h, t)
<1>1. \E s \in {0, 1} : k = h.node[t].child[s] /\ (s = 1 => h.node[t].child[0] = None)
                        /\ (k = None => h.node[t].child[0] = None /\ h.node[t].child[1] = None)
  BY DEF LeftMostChild
<1>2. PICK s \in {0, 1} : k = h.node[t].child[s] /\ (s = 1 => h.node[t].child[0] = None)
                        /\ (k = None => h.node[t].child[0] = None /\ h.node[t].child[1] = None)
  BY <1>1
<1>3. k # None => k \in Held(h) /\ InTrie(h, k) /\ D[k] = D[t] + 1
  <2>1. k # None => ChildFits(h, D, t, s)
    BY <1>2, Children
  <2> QED
    BY <1>2, <2>1 DEF ChildFits
<1>4. BestOk(h, n, x) /\ NoWorse(h, n, x, t)
  BY BetterIs
<1>5. \A d \in Held(h) : h.node[d].size \in Nat
  BY Fields, Numbers
<1>6. Under(h, D, t, t)
  BY UnderSelf
<1>7. x.rest \in Nat /\ n \in Nat
  BY <1>4, Numbers DEF BestOk, Bests
<1> HIDE DEF x, k
<1>8. ASSUME NEW d \in Held(h), InTrie(h, d), Ahead(h, D, n, t, d) PROVE NoWorse(h, n, x, d) \/ Ahead(h, D, n, k, d)
  <2>1. h.node[t].size >= n
    BY <1>6, <1>8 DEF Ahead
  <2>2. ASSUME k # None PROVE \A e \in Held(h) : Under(h, D, k, e) => Under(h, D, t, e)
    BY <1>2, <2>2, ChildWay
  <2>3. CASE Under(h, D, t, d)
    <3>1. CASE d = t
      BY <1>4, <3>1
    <3>2. CASE d # t
      <4> DEFINE u == Bit(h.node[d].size, D[t])
      <4>1. h.node[t].child[u] # None /\ Under(h, D, h.node[t].child[u], d)
        BY <1>8, <2>3, <3>2, Below
      <4>2. u \in {0, 1}
        <5>1. h.node[d].size \in Words /\ D[t] \in Nat
          BY Fields, Numbers DEF Deep
        <5> QED
          BY <5>1, Keys
      <4> HIDE DEF u
      <4>3. k # None
        BY <1>2, <4>1, <4>2
      <4>4. \A e \in Held(h) : Under(h, D, k, e) => h.node[e].size >= n
        BY <1>8, <2>2, <4>3 DEF Ahead
      <4>5. CASE u = s
        BY <1>2, <4>1, <4>3, <4>4, <4>5 DEF Ahead
      <4>6. CASE u # s
        <5>1. s = 0 /\ u = 1
          BY <1>2, <4>1, <4>2, <4>6
        <5>2. \A e \in Held(h) : Under(h, D, k, e) => h.node[e].size < h.node[d].size
          BY <1>2, <4>1, <4>3, <5>1, Sides
        <5> QED
          BY <4>3, <4>4, <5>2 DEF Ahead
      <4> QED
        BY <4>5, <4>6
    <3> QED
      BY <3>1, <3>2
  <2>4. CASE \A e \in Held(h) : Under(h, D, t, e) => h.node[e].size < h.node[d].size
    <3>1. h.node[t].size < h.node[d].size
      BY <1>6, <2>4
    <3>2. x.at # None /\ x.rest <= h.node[t].size - n
      BY <1>4, <2>1 DEF NoWorse
    <3>3. x.rest <= h.node[d].size - n
      BY <1>5, <1>7, <3>1, <3>2
    <3> QED
      BY <3>2, <3>3 DEF NoWorse
  <2> QED
    BY <1>8, <2>3, <2>4 DEF Ahead
<1> QED
  BY <1>3, <1>8 DEF x, k

\* Where a walk can be.
Places(h) == Held(h) \cup {None}

\* The walk to the left ends with the best of what was ahead of it.
LEMMA LeftMostIs ==
  ASSUME NEW h, Typed(h), Links(h), NEW D, Deep(h, D), NEW n \in Words \ {0},
         NEW t \in Places(h), t # None => InTrie(h, t), NEW b, BestOk(h, n, b)
  PROVE  LET r == LeftMost(h, t, n, b)
         IN  /\ BestOk(h, n, r) /\ r.rest <= b.rest
             /\ \A d \in Held(h) : InTrie(h, d) /\ (NoWorse(h, n, b, d) \/ Ahead(h, D, n, t, d)) => NoWorse(h, n, r, d)
<1> DEFINE states == [at : Held(h) \cup {None}, best : Bests(h)]
           turn == [s \in states |-> IF s.at = None THEN s
                      ELSE [at |-> LeftMostChild(h, s.at), best |-> Better(h, s.at, n, s.best)]]
           start == [at |-> t, best |-> b]
           Well(s) == /\ s.at # None => InTrie(h, s.at)
                      /\ BestOk(h, n, s.best) /\ s.best.rest <= b.rest
                      /\ \A d \in Held(h) : InTrie(h, d) /\ (NoWorse(h, n, b, d) \/ Ahead(h, D, n, t, d))
                                              => NoWorse(h, n, s.best, d) \/ Ahead(h, D, n, s.at, d)
           P == {s \in states : Well(s)}
           m == [s \in states |-> IF s.at = None THEN 0 ELSE Turns(h) - D[s.at]]
           end == After(turn, start, Turns(h))
<1>1. Words \subseteq Nat /\ None \notin Held(h)
  BY Numbers, TreeBinAssumption DEF Typed
<1>2. start \in P
  <2>1. b \in Bests(h) /\ b.rest \in Nat
    BY <1>1 DEF BestOk, Bests
  <2>2. start.at = t /\ start.best = b /\ start \in states
    BY <2>1 DEF Places
  <2> HIDE DEF start, states
  <2> QED
    BY <2>1, <2>2
<1>3. Turns(h) \in Nat
  BY TreeBinAssumption, FS_Subset, FS_CardinalityType DEF Typed, Turns, Held
<1>4. ASSUME NEW s \in P, s.at # None
      PROVE  s.at \in Held(h) /\ D[s.at] \in Nat /\ D[s.at] < Turns(h) /\ m[s] = Turns(h) - D[s.at]
  <2>1. s.at \in Held(h) /\ InTrie(h, s.at)
    BY <1>4
  <2>2. D[s.at] \in Nat /\ D[s.at] < Turns(h)
    BY <2>1, Shallow DEF Deep
  <2> QED
    BY <1>4, <2>1, <2>2
<1>5. ASSUME NEW s \in P
      PROVE  turn[s] \in P /\ m[s] \in Nat /\ (turn[s] # s => m[turn[s]] < m[s]) /\ (turn[s] = s => s.at = None)
  <2>1. CASE s.at = None
    BY <2>1
  <2>2. CASE s.at # None
    <3> DEFINE p == s.at
               x == Better(h, p, n, s.best)
               k == LeftMostChild(h, p)
               next == [at |-> k, best |-> x]
    <3>1. p \in Held(h) /\ D[p] \in Nat /\ D[p] < Turns(h) /\ m[s] = Turns(h) - D[p] /\ InTrie(h, p)
      BY <1>4, <2>2
    <3>2. BestOk(h, n, s.best) /\ s.best.rest <= b.rest /\ b.rest \in Nat /\ s.best.rest \in Nat
      BY <1>1 DEF BestOk, Bests
    <3>3. /\ BestOk(h, n, x) /\ x.rest <= s.best.rest
          /\ \A d \in Held(h) : NoWorse(h, n, s.best, d) => NoWorse(h, n, x, d)
      BY <3>1, <3>2, BetterIs
    <3>4. /\ k # None => k \in Held(h) /\ InTrie(h, k) /\ D[k] = D[p] + 1
          /\ \A d \in Held(h) : InTrie(h, d) /\ Ahead(h, D, n, p, d) => NoWorse(h, n, x, d) \/ Ahead(h, D, n, k, d)
      BY <3>1, <3>2, LeftStep
    <3>5. turn[s] = next
      BY <2>2
    <3>6. x.rest \in Nat /\ x \in Bests(h)
      BY <1>1, <3>3 DEF BestOk, Bests
    <3>7. x.rest <= b.rest
      BY <3>2, <3>3, <3>6
    <3>8. ASSUME NEW d \in Held(h), InTrie(h, d), NoWorse(h, n, b, d) \/ Ahead(h, D, n, t, d)
          PROVE  NoWorse(h, n, x, d) \/ Ahead(h, D, n, k, d)
      <4>1. NoWorse(h, n, s.best, d) \/ Ahead(h, D, n, p, d)
        BY <3>8
      <4> QED
        BY <3>3, <3>4, <3>8, <4>1
    <3> HIDE DEF x, k
    <3>9. next.at = k /\ next.best = x /\ next \in states
      BY <3>4, <3>6
    <3> HIDE DEF next, states
    <3>10. next \in P
      BY <3>3, <3>4, <3>7, <3>8, <3>9
    <3>11. m[next] < m[s]
      <4>1. m[next] = IF k = None THEN 0 ELSE Turns(h) - D[k]
        BY <3>9
      <4> HIDE DEF m
      <4> QED
        BY <1>3, <3>1, <3>4, <4>1
    <3>12. m[s] \in Nat /\ next # s
      <4>1. m[s] \in Nat
        BY <1>3, <3>1
      <4>2. ASSUME next = s PROVE FALSE
        <5>1. k = p
          BY <3>9, <4>2
        <5>2. D[p] = D[p] + 1
          BY <2>2, <3>4, <5>1
        <5> QED
          BY <3>1, <5>2
      <4> QED
        BY <4>1, <4>2
    <3> HIDE DEF P, m, turn
    <3> QED
      BY <3>5, <3>10, <3>11, <3>12
  <2> QED
    BY <2>1, <2>2
<1>6. m[start] <= Turns(h)
  <2>1. CASE t = None
    BY <1>2, <1>3, <2>1
  <2>2. CASE t # None
    <3>1. D[t] \in Nat /\ m[start] = Turns(h) - D[t]
      BY <1>2, <1>4, <2>2
    <3> HIDE DEF m
    <3> QED
      BY <1>3, <3>1
  <2> QED
    BY <2>1, <2>2
<1>7. end \in P /\ turn[end] = end
  <2> HIDE DEF turn, start, P, m
  <2>1. end \in P
    BY <1>2, <1>3, <1>5, AfterKeeps
  <2>2. turn[end] = end
    BY <1>2, <1>3, <1>5, <1>6, AfterRests
  <2> QED
    BY <2>1, <2>2
<1>8. LeftMost(h, t, n, b) = end.best
  BY DEF LeftMost, Held
<1>9. end.at = None
  BY <1>5, <1>7
<1> HIDE DEF end
<1> QED
  BY <1>7, <1>8, <1>9 DEF Ahead

\* The states of the descent for n, and one turn of it.
Steps(h) == [at : Held(h) \cup {None}, key : Words, best : Bests(h), passed : Held(h) \cup {None}]

Turn(h, n) ==
  [s \in Steps(h) |->
    IF s.at = None \/ s.best.rest = 0 THEN s
    ELSE LET now == Better(h, s.at, n, s.best)
             next == h.node[s.at].child[SignBit(s.key)]
             right == h.node[s.at].child[1]
         IN  [at |-> IF now.rest = 0 THEN s.at ELSE next,
              key |-> ShiftLeft(s.key, 1),
              best |-> now,
              passed |-> IF right \in {None, next} THEN s.passed ELSE right]]

\* A state of the descent is well formed.
Well(h, n, s) ==
  /\ s \in Steps(h) /\ BestOk(h, n, s.best)
  /\ s.at # None => InTrie(h, s.at)
  /\ s.passed # None => InTrie(h, s.passed)

\* Until it has found n itself, what serves n in its bin is the best so far, or below where
\* the descent is, or ahead of the subtree passed by, where everything is larger.
Covers(h, D, n, s) ==
  s.best.rest # 0 =>
    /\ s.at # None => /\ h.node[s.at].index = TreeIndex(n) /\ Agree(n, h.node[s.at].size, D[s.at])
                      /\ s.key = KeyAt(n, D[s.at])
    /\ s.best.at # None => h.node[s.best.at].index = TreeIndex(n)
    /\ s.passed # None => /\ h.node[s.passed].index = TreeIndex(n)
                          /\ \A e \in Held(h) : Under(h, D, s.passed, e) => h.node[e].size >= n
    /\ s.at # None /\ s.passed # None =>
          \A e, d \in Held(h) : Under(h, D, s.at, e) /\ Under(h, D, s.passed, d) => h.node[e].size < h.node[d].size
    /\ \A d \in Held(h) : InTrie(h, d) /\ h.node[d].index = TreeIndex(n) =>
          \/ NoWorse(h, n, s.best, d)
          \/ s.at # None /\ Under(h, D, s.at, d)
          \/ Ahead(h, D, n, s.passed, d)

\* A turn in any trie.
LEMMA WellStep ==
  ASSUME NEW h, Typed(h), Links(h), NEW D, Deep(h, D), NEW n \in Words \ {0},
         NEW s, Well(h, n, s), s.at # None, s.best.rest # 0
  PROVE  LET now == Better(h, s.at, n, s.best)
             u == SignBit(s.key)
             next == h.node[s.at].child[u]
             right == h.node[s.at].child[1]
             z == Turn(h, n)[s]
         IN  /\ z.at = (IF now.rest = 0 THEN s.at ELSE next) /\ z.key = ShiftLeft(s.key, 1) /\ z.best = now
             /\ z.passed = (IF right \in {None, next} THEN s.passed ELSE right)
             /\ u \in {0, 1} /\ Well(h, n, z)
             /\ BestOk(h, n, now) /\ NoWorse(h, n, now, s.at) /\ now.rest \in Nat
             /\ now = s.best \/ now.at = s.at
             /\ \A d \in Held(h) : NoWorse(h, n, s.best, d) => NoWorse(h, n, now, d)
<1> DEFINE now == Better(h, s.at, n, s.best)
           u == SignBit(s.key)
           next == h.node[s.at].child[u]
           right == h.node[s.at].child[1]
           z == [at |-> IF now.rest = 0 THEN s.at ELSE next, key |-> ShiftLeft(s.key, 1), best |-> now,
                 passed |-> IF right \in {None, next} THEN s.passed ELSE right]
<1>1. s \in Steps(h) /\ s.at \in Held(h) /\ InTrie(h, s.at) /\ s.key \in Words /\ s.passed \in Held(h) \cup {None}
  BY DEF Well, Steps
<1>2. Turn(h, n)[s] = z
  BY <1>1 DEF Turn
<1>3. /\ BestOk(h, n, now) /\ NoWorse(h, n, now, s.at) /\ (now = s.best \/ now.at = s.at)
      /\ \A d \in Held(h) : NoWorse(h, n, s.best, d) => NoWorse(h, n, now, d)
  <2>1. BestOk(h, n, s.best)
    BY DEF Well
  <2> QED
    BY <1>1, <2>1, BetterIs
<1>4. u \in {0, 1} /\ ShiftLeft(s.key, 1) \in Words
  BY <1>1, Signs
<1> HIDE DEF now, u
<1>5. next \in Held(h) \cup {None} /\ right \in Held(h) \cup {None}
  BY <1>1, <1>4, Fields
<1>6. (next # None => InTrie(h, next)) /\ (right # None => InTrie(h, right))
  BY <1>1, <1>4, Children DEF ChildFits
<1>7. now.rest \in Nat /\ now \in Bests(h)
  BY <1>3, Numbers DEF BestOk, Bests
<1> HIDE DEF next, right
<1>8. /\ z.at = (IF now.rest = 0 THEN s.at ELSE next) /\ z.key = ShiftLeft(s.key, 1) /\ z.best = now
      /\ z.passed = (IF right \in {None, next} THEN s.passed ELSE right)
      /\ z \in Steps(h)
  BY <1>1, <1>4, <1>5, <1>7 DEF Steps
<1> HIDE DEF z
<1>9. Well(h, n, z)
  BY <1>1, <1>3, <1>6, <1>8 DEF Well
<1> QED
  BY <1>2, <1>3, <1>4, <1>7, <1>8, <1>9 DEF now, u, next, right

\* A turn in the trie of the size's own bin.
LEMMA CoversStep ==
  ASSUME NEW h, Typed(h), Links(h), NEW D, Deep(h, D), NEW n \in LargeSizes, n \in Words \ {0},
         NEW s, Well(h, n, s), Covers(h, D, n, s), s.at # None, s.best.rest # 0
  PROVE  LET z == Turn(h, n)[s]
         IN  /\ Covers(h, D, n, z) /\ z.best.rest \in Nat
             /\ z.best.rest = 0 \/ z.at = None \/ (z.at \in Held(h) /\ D[z.at] = D[s.at] + 1)
<1> DEFINE p == s.at
           now == Better(h, p, n, s.best)
           u == SignBit(s.key)
           next == h.node[p].child[u]
           right == h.node[p].child[1]
           z == Turn(h, n)[s]
           i == TreeIndex(n)
<1>1. /\ z.at = (IF now.rest = 0 THEN p ELSE next) /\ z.key = ShiftLeft(s.key, 1) /\ z.best = now
      /\ z.passed = (IF right \in {None, next} THEN s.passed ELSE right)
      /\ u \in {0, 1} /\ Well(h, n, z)
      /\ BestOk(h, n, now) /\ NoWorse(h, n, now, p) /\ now.rest \in Nat
      /\ now = s.best \/ now.at = p
      /\ \A d \in Held(h) : NoWorse(h, n, s.best, d) => NoWorse(h, n, now, d)
  BY WellStep
<1>2. p \in Held(h) /\ InTrie(h, p) /\ s.passed \in Held(h) \cup {None} /\ (s.passed # None => InTrie(h, s.passed))
  BY DEF Well, Steps
<1>3. /\ h.node[p].index = i /\ Agree(n, h.node[p].size, D[p]) /\ s.key = KeyAt(n, D[p])
      /\ s.best.at # None => h.node[s.best.at].index = i
      /\ s.passed # None => /\ h.node[s.passed].index = i
                            /\ \A e \in Held(h) : Under(h, D, s.passed, e) => h.node[e].size >= n
      /\ s.passed # None =>
            \A e, d \in Held(h) : Under(h, D, p, e) /\ Under(h, D, s.passed, d) => h.node[e].size < h.node[d].size
      /\ \A d \in Held(h) : InTrie(h, d) /\ h.node[d].index = i =>
            NoWorse(h, n, s.best, d) \/ Under(h, D, p, d) \/ Ahead(h, D, n, s.passed, d)
  BY DEF Covers
<1>4. D[p] \in Nat /\ u = Bit(n, D[p])
  BY <1>2, <1>3 DEF Deep, Bit
<1> HIDE DEF z, now, u, p
<1>5. CASE now.rest = 0
  BY <1>1, <1>5 DEF Covers, z
<1>6. CASE now.rest # 0
  <2>1. z.at = next /\ z.best = now
    BY <1>1, <1>6
  <2>2. ASSUME next # None
        PROVE  /\ next \in Held(h) /\ InTrie(h, next) /\ h.node[next].index = i /\ D[next] = D[p] + 1
               /\ Agree(n, h.node[next].size, D[next]) /\ z.key = KeyAt(n, D[next])
    <3>1. /\ next \in Held(h) /\ InTrie(h, next) /\ h.node[next].index = i /\ D[next] = D[p] + 1
          /\ Agree(h.node[next].size, h.node[p].size, D[p]) /\ Bit(h.node[next].size, D[p]) = u
      <4>1. u \in {0, 1} /\ p \in Held(h) /\ InTrie(h, p) /\ h.node[p].child[u] # None /\ Typed(h) /\ Links(h) /\ Deep(h, D)
        BY <1>1, <1>2, <2>2
      <4>2. /\ next \in Held(h) /\ InTrie(h, next) /\ h.node[next].index = h.node[p].index /\ D[next] = D[p] + 1
            /\ Agree(h.node[next].size, h.node[p].size, D[p]) /\ Bit(h.node[next].size, D[p]) = u
        BY ONLY <4>1, Children DEF ChildFits
      <4> QED
        BY <1>3, <4>2
    <3> HIDE DEF next
    <3>2. Agree(n, h.node[next].size, D[p])
      <4>1. Agree(h.node[p].size, h.node[next].size, D[p])
        BY <1>4, <3>1, Agreements
      <4> QED
        BY <1>3, <1>4, <4>1, Agreements
    <3>3. Agree(n, h.node[next].size, D[p] + 1)
      BY <1>4, <3>1, <3>2, Agreements
    <3>4. KeyAt(n, D[p] + 1) = ShiftLeft(KeyAt(n, D[p]), 1)
      BY <1>4, Keys
    <3> QED
      BY <1>1, <1>3, <3>1, <3>3, <3>4
  <2>3. now.at # None => h.node[now.at].index = i
    BY <1>1, <1>3
  <2>4. ASSUME next # None PROVE \A e \in Held(h) : Under(h, D, next, e) => Under(h, D, p, e)
    BY <1>1, <1>2, <2>4, ChildWay
  \* The right subtree is passed by.
  <2>5. CASE right \notin {None, next}
    <3>1. z.passed = right /\ right # None /\ u = 0
      BY <1>1, <2>5
    <3>2. right \in Held(h) /\ InTrie(h, right) /\ h.node[right].index = i
      <4>1. ChildFits(h, D, p, 1)
        BY <1>2, <3>1, Children
      <4> QED
        BY <1>3, <4>1 DEF ChildFits
    <3>3. \A e \in Held(h) : Under(h, D, right, e) => h.node[e].size > n /\ h.node[e].size >= n /\ Under(h, D, p, e)
      <4> SUFFICES ASSUME NEW e \in Held(h), Under(h, D, right, e)
                   PROVE  h.node[e].size > n /\ h.node[e].size >= n /\ Under(h, D, p, e)
        OBVIOUS
      <4>1. /\ Under(h, D, p, e) /\ Bit(h.node[e].size, D[p]) = 1
            /\ Agree(h.node[e].size, h.node[p].size, D[p])
        BY <1>2, <3>1, ChildWay
      <4>2. Agree(n, h.node[e].size, D[p])
        <5>1. Agree(h.node[p].size, h.node[e].size, D[p])
          BY <1>4, <4>1, Agreements
        <5> QED
          BY <1>3, <1>4, <5>1, Agreements
      <4>3. h.node[e].size \in LargeSizes /\ TreeIndex(h.node[e].size) = TreeIndex(n)
        BY <1>3, <4>1, Fields DEF Under
      <4>4. n < h.node[e].size
        BY <1>4, <3>1, <4>1, <4>2, <4>3, LeftIsLess
      <4>5. n \in Nat /\ h.node[e].size \in Nat
        BY <4>3, Numbers
      <4> QED
        BY <4>1, <4>4, <4>5
    <3>4. ASSUME next # None, NEW e \in Held(h), NEW d \in Held(h), Under(h, D, next, e), Under(h, D, right, d)
          PROVE  h.node[e].size < h.node[d].size
      BY <1>2, <3>1, <3>4, Sides
    <3>5. ASSUME NEW d \in Held(h), InTrie(h, d), h.node[d].index = i
          PROVE  NoWorse(h, n, now, d) \/ (next # None /\ Under(h, D, next, d)) \/ Ahead(h, D, n, right, d)
      <4>1. CASE NoWorse(h, n, s.best, d)
        BY <1>1, <4>1
      <4>2. CASE Under(h, D, p, d)
        <5>1. CASE d = p
          BY <1>1, <5>1
        <5>2. CASE d # p
          <6> DEFINE v == Bit(h.node[d].size, D[p])
          <6>1. h.node[p].child[v] # None /\ Under(h, D, h.node[p].child[v], d)
            BY <1>2, <3>5, <4>2, <5>2, Below
          <6>2. v \in {0, 1}
            <7>1. h.node[d].size \in Words
              BY Fields, Numbers
            <7> QED
              BY <1>4, <7>1, Keys
          <6>3. v = u \/ v = 1
            BY <3>1, <6>2
          <6> HIDE DEF v
          <6>4. CASE v = u
            BY <6>1, <6>4
          <6>5. CASE v = 1
            BY <3>1, <3>3, <6>1, <6>5 DEF Ahead
          <6> QED
            BY <6>3, <6>4, <6>5
        <5> QED
          BY <5>1, <5>2
      <4>3. CASE Ahead(h, D, n, s.passed, d)
        <5>1. \A e \in Held(h) : Under(h, D, p, e) => h.node[e].size < h.node[d].size
          <6> SUFFICES ASSUME NEW e \in Held(h), Under(h, D, p, e) PROVE h.node[e].size < h.node[d].size
            OBVIOUS
          <6>1. s.passed # None /\ s.passed \in Held(h) /\ InTrie(h, s.passed)
            BY <1>2, <4>3 DEF Ahead
          <6>2. CASE Under(h, D, s.passed, d)
            BY <1>3, <6>1, <6>2
          <6>3. CASE \A x \in Held(h) : Under(h, D, s.passed, x) => h.node[x].size < h.node[d].size
            <7>1. Under(h, D, s.passed, s.passed)
              BY <6>1, UnderSelf
            <7>2. h.node[s.passed].size < h.node[d].size /\ h.node[e].size < h.node[s.passed].size
              BY <1>3, <6>1, <6>3, <7>1
            <7>3. h.node[e].size \in Nat /\ h.node[d].size \in Nat /\ h.node[s.passed].size \in Nat
              BY <6>1, Fields, Numbers
            <7> QED
              BY <7>2, <7>3
          <6> QED
            BY <4>3, <6>2, <6>3 DEF Ahead
        <5> QED
          BY <3>1, <3>3, <5>1 DEF Ahead
      <4> QED
        BY <1>3, <3>5, <4>1, <4>2, <4>3
    <3> HIDE DEF next, right
    <3>6. Covers(h, D, n, z)
      BY <2>1, <2>2, <2>3, <3>1, <3>2, <3>3, <3>4, <3>5 DEF Covers
    <3> QED
      BY <1>1, <2>1, <2>2, <3>6 DEF z, next, p
  \* It is not: there is none, or it is the way.
  <2>6. CASE right \in {None, next}
    <3>1. z.passed = s.passed
      BY <1>1, <2>6
    <3>2. ASSUME next # None, s.passed # None, NEW e \in Held(h), NEW d \in Held(h), Under(h, D, next, e), Under(h, D, s.passed, d)
          PROVE  h.node[e].size < h.node[d].size
      BY <1>3, <2>4, <3>2
    <3>3. ASSUME NEW d \in Held(h), InTrie(h, d), h.node[d].index = i
          PROVE  NoWorse(h, n, now, d) \/ (next # None /\ Under(h, D, next, d)) \/ Ahead(h, D, n, s.passed, d)
      <4>1. CASE NoWorse(h, n, s.best, d)
        BY <1>1, <4>1
      <4>2. CASE Ahead(h, D, n, s.passed, d)
        BY <4>2
      <4>3. CASE Under(h, D, p, d)
        <5>1. CASE d = p
          BY <1>1, <5>1
        <5>2. CASE d # p
          <6> DEFINE v == Bit(h.node[d].size, D[p])
          <6>1. h.node[p].child[v] # None /\ Under(h, D, h.node[p].child[v], d)
            BY <1>2, <3>3, <4>3, <5>2, Below
          <6>2. v \in {0, 1}
            <7>1. h.node[d].size \in Words
              BY Fields, Numbers
            <7> QED
              BY <1>4, <7>1, Keys
          <6> HIDE DEF v
          <6>3. CASE v = u
            BY <6>1, <6>3
          <6>4. CASE v # u
            <7>1. CASE v = 1
              BY <2>6, <6>1, <7>1
            <7>2. CASE v = 0
              <8>1. u = 1
                BY <1>1, <6>4, <7>2
              <8>2. Bit(h.node[d].size, D[p]) = 0 /\ Agree(h.node[d].size, h.node[p].size, D[p])
                BY <1>2, <6>1, <7>2, ChildWay
              <8>3. Agree(h.node[d].size, n, D[p])
                <9>1. Agree(h.node[p].size, n, D[p])
                  BY <1>3, <1>4, Agreements
                <9> QED
                  BY <1>4, <8>2, <9>1, Agreements
              <8>4. h.node[d].size \in LargeSizes /\ TreeIndex(h.node[d].size) = TreeIndex(n)
                BY <3>3, Fields
              <8>5. h.node[d].size < n
                BY <1>4, <8>1, <8>2, <8>3, <8>4, LeftIsLess
              <8>6. h.node[d].size \in Nat /\ n \in Nat
                BY <8>4, Numbers
              <8> QED
                BY <8>5, <8>6 DEF NoWorse
            <7> QED
              BY <6>2, <7>1, <7>2
          <6> QED
            BY <6>3, <6>4
        <5> QED
          BY <5>1, <5>2
      <4> QED
        BY <1>3, <3>3, <4>1, <4>2, <4>3
    <3> HIDE DEF next, right
    <3>4. Covers(h, D, n, z)
      BY <1>3, <2>1, <2>2, <2>3, <3>1, <3>2, <3>3 DEF Covers
    <3> QED
      BY <1>1, <2>1, <2>2, <3>4 DEF z, next, p
  <2> QED
    BY <2>5, <2>6
<1> QED
  BY <1>5, <1>6

\* Where the descent ends: with n itself found, or off the trie, and then what serves n in its
\* bin is the best found or in the subtree passed by (sm_tree_allocate_large 2399-2428).
LEMMA DescendIs ==
  ASSUME NEW h, Typed(h), Links(h), NEW D, Deep(h, D), NEW n \in Words \ {0}
  PROVE  LET s == Descend(h, n)
         IN  /\ Well(h, n, s)
             /\ n \in LargeSizes => Covers(h, D, n, s) /\ (s.at = None \/ s.best.rest = 0)
<1> DEFINE i == TreeIndex(n)
           turn == Turn(h, n)
           start == [at |-> h.bin[i], key |-> FirstKey(n), best |-> Nothing(n), passed |-> None]
           P == {s \in Steps(h) : Well(h, n, s) /\ (n \in LargeSizes => Covers(h, D, n, s))}
           m == [s \in Steps(h) |-> IF s.at = None \/ s.best.rest = 0 THEN 0 ELSE Turns(h) - D[s.at]]
           end == After(turn, start, Turns(h))
<1>1. i \in Bins /\ FirstKey(n) \in Words /\ n \in Words /\ n \in Nat \ {0} /\ Words \subseteq Nat /\ 0 \in Words /\ None \notin Held(h)
  BY IndexIs, FirstIs, Numbers, TreeBinAssumption DEF Typed, Words
<1>2. h.bin[i] \in Held(h) \cup {None} /\ (h.bin[i] # None => InTrie(h, h.bin[i]))
  <2>1. h.bin[i] \in Held(h) \cup {None}
    BY <1>1 DEF Typed
  <2> QED
    BY <1>1, <2>1, FromRoot
<1>3. Nothing(n) \in Bests(h) /\ Nothing(n).at = None /\ BestOk(h, n, Nothing(n))
  <2>1. Difference(0, n) \in Words
    BY <1>1, Differences
  <2> QED
    BY <2>1 DEF Nothing, Bests, BestOk
<1>4. start.at = h.bin[i] /\ start.key = FirstKey(n) /\ start.best = Nothing(n) /\ start.passed = None
  OBVIOUS
<1>5. start \in Steps(h)
  BY <1>1, <1>2, <1>3 DEF Steps
<1> HIDE DEF start
<1>6. Well(h, n, start)
  BY <1>2, <1>3, <1>4, <1>5 DEF Well
<1>7. ASSUME n \in LargeSizes PROVE Covers(h, D, n, start)
  <2>1. CASE h.bin[i] = None
    <3>1. ASSUME NEW d \in Held(h), InTrie(h, d), h.node[d].index = i PROVE FALSE
      BY <2>1, <3>1, Rooted
    <3> QED
      BY <1>3, <1>4, <2>1, <3>1 DEF Covers
  <2>2. CASE h.bin[i] # None
    <3> DEFINE t == h.bin[i]
    <3>1. /\ t \in Held(h) /\ InTrie(h, t) /\ D[t] = 0 /\ h.node[t].index = i
          /\ \A d \in Held(h) : InTrie(h, d) /\ h.node[d].index = i => Under(h, D, t, d)
      BY <1>1, <2>2, FromRoot
    <3>2. Agree(n, h.node[t].size, 0) /\ KeyAt(n, 0) = FirstKey(n)
      BY <1>1, Agreements, Keys
    <3> HIDE DEF t
    <3> QED
      BY <1>3, <1>4, <2>2, <3>1, <3>2 DEF Covers, t
  <2> QED
    BY <2>1, <2>2
<1>8. start \in P
  BY <1>5, <1>6, <1>7
<1>9. ASSUME NEW s \in P PROVE turn[s] \in P
  <2>1. CASE s.at = None \/ s.best.rest = 0
    BY <2>1 DEF Turn
  <2>2. CASE s.at # None /\ s.best.rest # 0
    <3>1. Well(h, n, turn[s])
      BY <2>2, WellStep
    <3>2. ASSUME n \in LargeSizes PROVE Covers(h, D, n, turn[s])
      BY <2>2, <3>2, CoversStep
    <3>3. turn[s] \in Steps(h)
      BY <3>1 DEF Well
    <3> HIDE DEF turn
    <3> QED
      BY <3>1, <3>2, <3>3
  <2> QED
    BY <2>1, <2>2
<1>10. Turns(h) \in Nat
  BY TreeBinAssumption, FS_Subset, FS_CardinalityType DEF Typed, Turns, Held
<1>11. end \in P
  <2> HIDE DEF turn, P
  <2> QED
    BY <1>8, <1>9, <1>10, AfterKeeps
<1>12. Descend(h, n) = end
  BY <1>4 DEF Descend, Turn, Steps, Held, start
<1>13. ASSUME n \in LargeSizes PROVE end.at = None \/ end.best.rest = 0
  <2>1. \A s \in P : s \in Steps(h) /\ Well(h, n, s) /\ Covers(h, D, n, s)
    BY <1>13
  <2>2. \A s \in Steps(h) : m[s] = IF s.at = None \/ s.best.rest = 0 THEN 0 ELSE Turns(h) - D[s.at]
    OBVIOUS
  <2> HIDE DEF P, m
  <2>3. ASSUME NEW s \in P, s.at # None PROVE s.at \in Held(h) /\ D[s.at] \in Nat /\ D[s.at] < Turns(h)
    <3>1. s.at \in Held(h) /\ InTrie(h, s.at)
      BY <2>1, <2>3 DEF Well, Steps
    <3>2. D[s.at] \in Nat
      BY <3>1 DEF Deep
    <3> QED
      BY <3>1, <3>2, Shallow
  <2>4. ASSUME NEW s \in P
        PROVE  /\ turn[s] \in P /\ m[s] \in Nat /\ (turn[s] # s => m[turn[s]] < m[s])
               /\ turn[s] = s => s.at = None \/ s.best.rest = 0
    <3>1. CASE s.at = None \/ s.best.rest = 0
      <4>1. turn[s] = s
        BY <2>1, <3>1 DEF Turn
      <4> QED
        BY <2>1, <2>2, <3>1, <4>1
    <3>2. CASE s.at # None /\ s.best.rest # 0
      <4> DEFINE z == turn[s]
      <4>1. z.best.rest = 0 \/ z.at = None \/ (z.at \in Held(h) /\ D[z.at] = D[s.at] + 1)
        BY <1>13, <2>1, <3>2, CoversStep
      <4>2. z \in P
        BY <1>9
      <4> HIDE DEF z
      <4>3. m[s] = Turns(h) - D[s.at] /\ m[s] \in Nat /\ m[s] # 0
        BY <1>10, <2>1, <2>2, <2>3, <3>2
      <4>4. m[z] < m[s]
        BY <1>10, <2>1, <2>2, <2>3, <3>2, <4>1, <4>2, <4>3
      <4>5. z # s
        BY <4>3, <4>4
      <4> QED
        BY <4>2, <4>3, <4>4, <4>5 DEF z
    <3> QED
      BY <3>1, <3>2
  <2>5. m[start] <= Turns(h)
    BY <1>8, <1>10, <2>1, <2>2, <2>3
  <2> HIDE DEF turn
  <2>6. turn[end] = end
    BY <1>8, <1>10, <2>4, <2>5, AfterRests
  <2> QED
    BY <1>11, <2>4, <2>6
<1> HIDE DEF end
<1> QED
  BY <1>11, <1>12, <1>13

\* The next bin holds the smallest chunks of the later bins.
LEMMA NextBinIs ==
  ASSUME NEW h, Typed(h), Links(h), NEW D, Deep(h, D), NEW n \in Words \ {0}
  PROVE  LET t == NextBin(h, TreeIndex(n))
         IN  /\ t \in Places(h) /\ (t # None => InTrie(h, t))
             /\ n \in LargeSizes =>
                  \A d \in Held(h) : InTrie(h, d) /\ h.node[d].index > TreeIndex(n) => Ahead(h, D, n, t, d)
<1> DEFINE i == TreeIndex(n)
           above == {j \in h.map : j > i}
           t == NextBin(h, i)
<1>1. i \in Bins /\ Bins \subseteq Nat /\ h.map = {j \in Bins : h.bin[j] # None}
  <2>1. i \in Bins
    BY IndexIs
  <2> QED
    BY <2>1 DEF Bins, Typed
<1>2. \A d \in Held(h) : InTrie(h, d) => h.node[d].index \in h.map
  BY <1>1, Rooted
<1>3. CASE above = {}
  <2>1. t = None
    BY <1>3 DEF NextBin
  <2> QED
    BY <1>2, <1>3, <2>1 DEF Places
<1>4. CASE above # {}
  <2> DEFINE j == Min(above)
  <2>1. j \in above /\ \A k \in above : j <= k
    <3>1. above \in SUBSET Nat
      BY <1>1
    <3> HIDE DEF above
    <3>2. \E k \in above : \A l \in above : k <= l
      BY <1>4, <3>1, Least
    <3> QED
      BY <3>2 DEF Min
  <2>2. t = h.bin[j]
    BY <1>4 DEF NextBin
  <2>3. j \in Bins /\ j > i /\ h.bin[j] # None /\ j \in Nat /\ i \in Nat
    BY <1>1, <2>1
  <2>4. \A d \in Held(h) : InTrie(h, d) /\ h.node[d].index > i => j <= h.node[d].index
    BY <1>2, <2>1
  <2> HIDE DEF j, t
  <2>5. /\ t \in Held(h) /\ InTrie(h, t) /\ h.node[t].index = j
        /\ \A d \in Held(h) : InTrie(h, d) /\ h.node[d].index = j => Under(h, D, t, d)
    BY <2>2, <2>3, FromRoot
  <2>6. ASSUME n \in LargeSizes, NEW d \in Held(h), InTrie(h, d), h.node[d].index > i
        PROVE  Ahead(h, D, n, t, d)
    <3>1. \A e \in Held(h) : Under(h, D, t, e) => h.node[e].index = j
      BY <2>5 DEF Under
    <3>2. t # None
      BY <2>2, <2>3
    <3>3. ASSUME NEW e \in Held(h), Under(h, D, t, e) PROVE h.node[e].size >= n
      <4>1. h.node[e].index = j /\ h.node[e].size \in LargeSizes /\ h.node[e].index = TreeIndex(h.node[e].size)
        BY <3>1, <3>3, Fields
      <4>2. n < h.node[e].size
        <5>1. TreeIndex(n) < TreeIndex(h.node[e].size)
          BY <1>1, <2>3, <4>1
        <5> QED
          BY <2>6, <4>1, <5>1, LaterBins
      <4>3. n \in Nat /\ h.node[e].size \in Nat
        BY <2>6, <4>1, Numbers
      <4> QED
        BY <4>2, <4>3
    <3>4. CASE h.node[d].index = j
      BY <2>5, <2>6, <3>2, <3>3, <3>4 DEF Ahead
    <3>5. CASE h.node[d].index # j
      <4>1. h.node[d].index \in Nat /\ j < h.node[d].index
        <5>1. h.node[d].index \in Nat
          BY <1>1, <1>2, <2>6
        <5> QED
          BY <2>3, <2>4, <2>6, <3>5, <5>1
      <4>2. ASSUME NEW e \in Held(h), Under(h, D, t, e) PROVE h.node[e].size < h.node[d].size
        <5>1. h.node[e].index = j /\ h.node[e].size \in LargeSizes /\ h.node[e].index = TreeIndex(h.node[e].size)
          BY <3>1, <4>2, Fields
        <5>2. h.node[d].size \in LargeSizes /\ h.node[d].index = TreeIndex(h.node[d].size)
          BY Fields
        <5> QED
          BY <4>1, <5>1, <5>2, LaterBins
      <4> QED
        BY <3>2, <3>3, <4>2 DEF Ahead
    <3> QED
      BY <3>4, <3>5
  <2> QED
    BY <2>5, <2>6 DEF Places, t
<1> QED
  BY <1>3, <1>4

\* Once it has what n asks for exactly, nothing is better.
LEMMA ExactIs ==
  ASSUME NEW h, Typed(h), NEW n \in Words \ {0}, NEW b, BestOk(h, n, b), b.rest = 0
  PROVE  \A d \in Held(h) : NoWorse(h, n, b, d)
<1>1. n \in Nat \ {0} /\ n < Word /\ Word \in Nat /\ 0 \in Words
  BY Numbers DEF Words
<1>2. Nothing(n).rest = Word - n
  BY <1>1, Differences DEF Nothing
<1>3. b.at \in Held(h) /\ None \notin Held(h)
  BY <1>1, <1>2, TreeBinAssumption DEF BestOk, Typed
<1>4. \A d \in Held(h) : h.node[d].size \in Nat
  BY Fields, Numbers
<1> QED
  BY <1>1, <1>3, <1>4 DEF NoWorse

\* Where the walk to the left begins.
LEMMA StartIs ==
  ASSUME NEW h, Typed(h), Links(h), NEW D, Deep(h, D), NEW n \in Words \ {0}
  PROVE  LET s == Descend(h, n)
             t == Start(h, n)
         IN  /\ Well(h, n, s) /\ t \in Places(h) /\ (t # None => InTrie(h, t))
             /\ n \in LargeSizes /\ s.best.rest # 0 =>
                  \A d \in Held(h) : InTrie(h, d) => NoWorse(h, n, s.best, d) \/ Ahead(h, D, n, t, d)
<1> DEFINE s == Descend(h, n)
           t == Start(h, n)
           i == TreeIndex(n)
           next == NextBin(h, i)
<1>1. Well(h, n, s) /\ (n \in LargeSizes => Covers(h, D, n, s) /\ (s.at = None \/ s.best.rest = 0))
  BY DescendIs
<1>2. /\ next \in Places(h) /\ (next # None => InTrie(h, next))
      /\ n \in LargeSizes => \A d \in Held(h) : InTrie(h, d) /\ h.node[d].index > i => Ahead(h, D, n, next, d)
  BY NextBinIs
<1>3. /\ s.at # None => t = s.at
      /\ s.at = None /\ (s.passed # None \/ s.best.at # None) => t = s.passed
      /\ s.at = None /\ s.passed = None /\ s.best.at = None => t = next
  BY DEF Start
<1>4. i \in Bins /\ Bins \subseteq Nat
  <2>1. i \in Bins
    BY IndexIs
  <2> QED
    BY <2>1 DEF Bins
<1> HIDE DEF s, t, next, i
<1>5. t \in Places(h) /\ (t # None => InTrie(h, t))
  BY <1>1, <1>2, <1>3 DEF Well, Steps, Places
<1>6. ASSUME n \in LargeSizes, s.best.rest # 0, NEW d \in Held(h), InTrie(h, d)
      PROVE  NoWorse(h, n, s.best, d) \/ Ahead(h, D, n, t, d)
  <2>1. s.at = None /\ Covers(h, D, n, s) /\ BestOk(h, n, s.best)
    BY <1>1, <1>6 DEF Well
  <2>2. h.node[d].size \in LargeSizes /\ h.node[d].index = TreeIndex(h.node[d].size)
    BY Fields
  <2>3. h.node[d].size \in Nat /\ n \in Nat /\ h.node[d].index \in Bins
    <3>1. h.node[d].size \in Words
      BY <2>2, Numbers
    <3> QED
      BY <2>2, <3>1, IndexIs, Numbers
  <2>4. CASE h.node[d].index < i
    <3>1. h.node[d].size < n
      BY <1>6, <2>2, <2>4, LaterBins DEF i
    <3> QED
      BY <2>3, <3>1 DEF NoWorse
  <2>5. CASE h.node[d].index = i
    <3>1. NoWorse(h, n, s.best, d) \/ Ahead(h, D, n, s.passed, d)
      BY <1>6, <2>1, <2>5 DEF Covers, i
    <3>2. CASE Ahead(h, D, n, s.passed, d)
      BY <1>3, <2>1, <3>2 DEF Ahead
    <3> QED
      BY <3>1, <3>2
  <2>6. CASE h.node[d].index > i
    <3>1. CASE s.passed # None
      <4>1. /\ h.node[s.passed].index = i /\ t = s.passed
            /\ \A e \in Held(h) : Under(h, D, s.passed, e) => h.node[e].size >= n
        BY <1>3, <1>6, <2>1, <3>1 DEF Covers, i
      <4>2. ASSUME NEW e \in Held(h), Under(h, D, s.passed, e) PROVE h.node[e].size < h.node[d].size
        <5>1. h.node[e].index = i
          BY <4>1, <4>2 DEF Under
        <5>2. h.node[e].size \in LargeSizes /\ h.node[e].index = TreeIndex(h.node[e].size)
          BY Fields
        <5> QED
          BY <2>2, <2>6, <5>1, <5>2, LaterBins
      <4> QED
        BY <3>1, <4>1, <4>2 DEF Ahead
    <3>2. CASE s.passed = None /\ s.best.at # None
      <4>1. h.node[s.best.at].index = i
        BY <1>6, <2>1, <3>2 DEF Covers, i
      <4>2. s.best.at \in Held(h) /\ s.best.rest = h.node[s.best.at].size - n
        <5>1. Nothing(n).at = None
          BY DEF Nothing
        <5> QED
          BY <2>1, <3>2, <5>1 DEF BestOk
      <4>3. /\ h.node[s.best.at].size \in LargeSizes
            /\ h.node[s.best.at].index = TreeIndex(h.node[s.best.at].size)
        BY <4>2, Fields
      <4>4. h.node[s.best.at].size < h.node[d].size
        BY <2>2, <2>6, <4>1, <4>3, LaterBins
      <4>5. h.node[s.best.at].size \in Nat
        BY <4>3, Numbers
      <4> QED
        BY <2>3, <3>2, <4>2, <4>4, <4>5 DEF NoWorse
    <3>3. CASE s.passed = None /\ s.best.at = None
      BY <1>2, <1>3, <1>6, <2>1, <2>6, <3>3
    <3> QED
      BY <3>1, <3>2, <3>3
  <2>7. h.node[d].index \in Nat /\ i \in Nat
    BY <1>4, <2>3
  <2>8. h.node[d].index < i \/ h.node[d].index = i \/ h.node[d].index > i
    BY <2>7
  <2> QED
    BY <2>4, <2>5, <2>6, <2>8
<1> QED
  BY <1>1, <1>5, <1>6 DEF s, t

\* A request of the large kind is served by a best fit, and by none only if nothing fits
\* (sm_tree_allocate_large 2383-2450).
LEMMA SearchLargeIs ==
  ASSUME NEW h, Trees(h), NEW n \in Words \ {0}, n >= MinLarge
  PROVE  LET r == SearchLarge(h, n)
         IN  BestOk(h, n, r) /\ \A d \in Held(h) : NoWorse(h, n, r, d)
<1> DEFINE s == Descend(h, n)
           t == Start(h, n)
           r == SearchLarge(h, n)
<1>1. Typed(h) /\ Rings(h) /\ Links(h)
  BY DEF Trees
<1>2. PICK D : Deep(h, D)
  BY DEF Trees
<1>3. /\ Well(h, n, s) /\ t \in Places(h) /\ (t # None => InTrie(h, t))
      /\ n \in LargeSizes /\ s.best.rest # 0 =>
            \A d \in Held(h) : InTrie(h, d) => NoWorse(h, n, s.best, d) \/ Ahead(h, D, n, t, d)
  BY <1>1, <1>2, StartIs
<1>4. r = LeftMost(h, t, n, s.best)
  BY DEF SearchLarge
<1> HIDE DEF s, t, r
<1>5. BestOk(h, n, s.best)
  BY <1>3 DEF Well
<1>6. /\ BestOk(h, n, r) /\ r.rest <= s.best.rest
      /\ \A d \in Held(h) : InTrie(h, d) /\ (NoWorse(h, n, s.best, d) \/ Ahead(h, D, n, t, d)) => NoWorse(h, n, r, d)
  BY <1>1, <1>2, <1>3, <1>4, <1>5, LeftMostIs
<1>7. r.rest \in Nat /\ s.best.rest \in Nat /\ n \in Nat
  BY <1>5, <1>6, Numbers DEF BestOk, Bests
<1>8. ASSUME NEW d \in Held(h) PROVE NoWorse(h, n, r, d)
  <2>1. PICK e \in Held(h) : InTrie(h, e) /\ h.node[e].size = h.node[d].size
    BY <1>1 DEF Rings, SameSize
  <2>2. h.node[d].size \in LargeSizes
    BY <1>1, Fields
  <2>3. CASE n \notin LargeSizes
    <3>1. n \in Words /\ h.node[d].size \in Nat /\ MaxLarge \in Nat /\ h.node[d].size < MaxLarge /\ MinLarge \in Nat
      BY <2>2, Numbers DEF LargeSizes
    <3>2. ~(n < MaxLarge)
      BY <2>3, <3>1 DEF LargeSizes
    <3> QED
      BY <1>7, <3>1, <3>2 DEF NoWorse
  <2>4. CASE s.best.rest = 0
    <3>1. r.rest = 0
      BY <1>6, <1>7, <2>4
    <3> QED
      BY <1>1, <1>6, <3>1, ExactIs
  <2>5. CASE n \in LargeSizes /\ s.best.rest # 0
    <3>1. NoWorse(h, n, r, e)
      BY <1>3, <1>6, <2>1, <2>5
    <3> QED
      BY <2>1, <3>1 DEF NoWorse
  <2> QED
    BY <2>3, <2>4, <2>5
<1> QED
  BY <1>6, <1>8 DEF r

----------------------------------------------------------------------------
(* A small request, and the best fit. *)

\* Every chunk is in the trie of the first marked bin or larger than all there.
LEMMA FirstBinIs ==
  ASSUME NEW h, Typed(h), Links(h), NEW D, Deep(h, D), NEW n \in Words \ {0}, n < MinLarge, h.map # {}
  PROVE  LET t == h.bin[Min(h.map)]
         IN  /\ t \in Held(h) /\ InTrie(h, t)
             /\ \A d \in Held(h) : h.node[d].size >= n
             /\ \A d \in Held(h) : InTrie(h, d) => Ahead(h, D, n, t, d)
<1> DEFINE j == Min(h.map)
           t == h.bin[j]
<1>1. Bins \subseteq Nat /\ h.map = {k \in Bins : h.bin[k] # None}
  BY DEF Bins, Typed
<1>2. j \in h.map /\ \A k \in h.map : j <= k
  <2>1. h.map \in SUBSET Nat
    BY <1>1
  <2>2. \E k \in h.map : \A l \in h.map : k <= l
    BY <2>1, Least
  <2> QED
    BY <2>2 DEF Min
<1>3. j \in Bins /\ j \in Nat /\ t # None
  BY <1>1, <1>2
<1>4. \A d \in Held(h) : InTrie(h, d) => h.node[d].index \in h.map
  BY <1>1, Rooted
<1>5. /\ t \in Held(h) /\ InTrie(h, t) /\ h.node[t].index = j
      /\ \A d \in Held(h) : InTrie(h, d) /\ h.node[d].index = j => Under(h, D, t, d)
  <2> HIDE DEF j
  <2> QED
    BY <1>3, FromRoot
<1> HIDE DEF j, t
<1>6. ASSUME NEW d \in Held(h) PROVE h.node[d].size >= n
  <2>1. h.node[d].size \in LargeSizes
    BY Fields
  <2>2. h.node[d].size >= MinLarge /\ h.node[d].size \in Nat /\ MinLarge \in Nat /\ n \in Nat
    BY <2>1, Numbers DEF LargeSizes
  <2> QED
    BY <2>2
<1>7. ASSUME NEW d \in Held(h), InTrie(h, d) PROVE Ahead(h, D, n, t, d)
  <2>1. CASE h.node[d].index = j
    BY <1>3, <1>5, <1>6, <1>7, <2>1 DEF Ahead
  <2>2. CASE h.node[d].index # j
    <3>1. j < h.node[d].index
      <4>1. h.node[d].index \in h.map /\ h.node[d].index \in Nat
        BY <1>1, <1>4, <1>7
      <4> QED
        BY <1>2, <1>3, <2>2, <4>1
    <3>2. ASSUME NEW e \in Held(h), Under(h, D, t, e) PROVE h.node[e].size < h.node[d].size
      <4>1. h.node[e].index = j
        BY <1>5, <3>2 DEF Under
      <4>2. /\ h.node[e].size \in LargeSizes /\ h.node[e].index = TreeIndex(h.node[e].size)
            /\ h.node[d].size \in LargeSizes /\ h.node[d].index = TreeIndex(h.node[d].size)
        BY Fields
      <4> QED
        BY <3>1, <4>1, <4>2, LaterBins
    <3> QED
      BY <1>3, <1>6, <3>2 DEF Ahead
  <2> QED
    BY <2>1, <2>2
<1> QED
  BY <1>5, <1>6, <1>7 DEF j, t

\* A request of the small kind is served by a chunk of the least size there is
\* (sm_tree_allocate_small 2453-2492).
LEMMA SearchSmallIs ==
  ASSUME NEW h, Trees(h), NEW n \in Words \ {0}, n < MinLarge, h.map # {}
  PROVE  LET c == SearchSmall(h, n).at
         IN  /\ c \in Held(h) /\ \A d \in Held(h) : h.node[c].size <= h.node[d].size
             /\ h.node[c].size >= n
<1> DEFINE t == h.bin[Min(h.map)]
           k == LeftMostChild(h, t)
           b == [at |-> t, rest |-> Difference(h.node[t].size, n)]
           r == SearchSmall(h, n)
<1>1. Typed(h) /\ Rings(h) /\ Links(h)
  BY DEF Trees
<1>2. PICK D : Deep(h, D)
  BY DEF Trees
<1>3. /\ t \in Held(h) /\ InTrie(h, t)
      /\ \A d \in Held(h) : h.node[d].size >= n
      /\ \A d \in Held(h) : InTrie(h, d) => Ahead(h, D, n, t, d)
  BY <1>1, <1>2, FirstBinIs
<1>4. r = LeftMost(h, k, n, b)
  BY DEF SearchSmall
<1> HIDE DEF t, k, r
<1>5. b.at = t /\ b.rest = h.node[t].size - n /\ BestOk(h, n, b) /\ Better(h, t, n, b) = b /\ b.rest \in Nat
  <2>1. h.node[t].size \in Words /\ n \in Words
    BY <1>1, <1>3, Fields, Numbers
  <2>2. Difference(h.node[t].size, n) = h.node[t].size - n /\ Difference(h.node[t].size, n) \in Words
    BY <1>3, <2>1, Differences
  <2>3. Words \subseteq Nat
    BY Numbers
  <2>4. b.at = t /\ b.rest = Difference(h.node[t].size, n) /\ b \in Bests(h)
    BY <1>3, <2>2 DEF Bests, Held
  <2> HIDE DEF b
  <2>5. BestOk(h, n, b)
    BY <1>3, <2>2, <2>4 DEF BestOk
  <2>6. Better(h, t, n, b) = b
    <3> DEFINE z == Difference(h.node[t].size, n)
    <3>1. z \in Nat /\ b.rest = z
      BY <2>2, <2>3, <2>4
    <3>2. Better(h, t, n, b) = IF z < b.rest THEN [at |-> t, rest |-> z] ELSE b
      BY DEF Better
    <3> HIDE DEF z
    <3>3. ~(z < b.rest)
      BY <3>1
    <3> QED
      BY <3>2, <3>3
  <2> QED
    BY <2>2, <2>3, <2>4, <2>5, <2>6
<1> HIDE DEF b
<1>6. /\ k \in Places(h) /\ (k # None => InTrie(h, k))
      /\ \A d \in Held(h) : InTrie(h, d) => NoWorse(h, n, b, d) \/ Ahead(h, D, n, k, d)
  <2>1. /\ k # None => k \in Held(h) /\ InTrie(h, k)
        /\ \A d \in Held(h) : InTrie(h, d) /\ Ahead(h, D, n, t, d)
              => NoWorse(h, n, Better(h, t, n, b), d) \/ Ahead(h, D, n, k, d)
    BY <1>1, <1>2, <1>3, <1>5, LeftStep DEF k
  <2> QED
    BY <1>3, <1>5, <2>1 DEF Places
<1>7. BestOk(h, n, r) /\ \A d \in Held(h) : InTrie(h, d) => NoWorse(h, n, r, d)
  <2>1. /\ BestOk(h, n, r)
        /\ \A d \in Held(h) : InTrie(h, d) /\ (NoWorse(h, n, b, d) \/ Ahead(h, D, n, k, d)) => NoWorse(h, n, r, d)
    BY <1>1, <1>2, <1>4, <1>5, <1>6, LeftMostIs
  <2> QED
    BY <1>6, <2>1
<1>8. ASSUME NEW d \in Held(h) PROVE r.at # None /\ r.rest <= h.node[d].size - n
  <2>1. PICK e \in Held(h) : InTrie(h, e) /\ h.node[e].size = h.node[d].size
    BY <1>1 DEF Rings, SameSize
  <2> QED
    BY <1>3, <1>7, <2>1 DEF NoWorse
<1>9. r.at \in Held(h) /\ r.rest = h.node[r.at].size - n
  <2>1. Nothing(n).at = None
    BY DEF Nothing
  <2> QED
    BY <1>3, <1>7, <1>8, <2>1 DEF BestOk
<1>10. n \in Nat /\ \A d \in Held(h) : h.node[d].size \in Nat
  BY <1>1, Fields, Numbers
<1>11. ASSUME NEW d \in Held(h) PROVE h.node[r.at].size <= h.node[d].size
  BY <1>8, <1>9, <1>10
<1> QED
  BY <1>3, <1>9, <1>11 DEF r

\* The two searches take a best fit from any well-formed tries.
BestFitOf(h) ==
  LET fits(n) == {c \in Held(h) : h.node[c].size >= n
                                  /\ \A d \in Held(h) : h.node[d].size >= n => h.node[c].size <= h.node[d].size}
  IN  /\ \A n \in Words \ {0}, dv \in Words : n >= MinLarge =>
            LET best == SearchLarge(h, n)
            IN  IF Takes(best, n, dv)
                THEN /\ best.at \in fits(n) /\ (dv < n \/ h.node[best.at].size < dv)
                     /\ best.rest = h.node[best.at].size - n
                ELSE \A c \in fits(n) : ~(dv < n \/ h.node[c].size < dv)
      /\ h.map # {} => \A n \in Words \ {0} : n < MinLarge => SearchSmall(h, n).at \in fits(n)

\* In well-formed bins both searches find a best fit: the large one the smallest
\* chunk that serves the request, unless none does or the designated victim leaves less,
\* and the small one whenever a bin is marked.
THEOREM Searching ==
  ASSUME NEW h, Trees(h)
  PROVE  BestFitOf(h)
<1> DEFINE fits(n) == {c \in Held(h) : h.node[c].size >= n
                          /\ \A d \in Held(h) : h.node[d].size >= n => h.node[c].size <= h.node[d].size}
<1>1. Typed(h)
  BY DEF Trees
<1>2. /\ \A d \in Held(h) : h.node[d].size \in Nat /\ h.node[d].size < Word
      /\ Words \subseteq Nat /\ Word \in Nat /\ None \notin Held(h) /\ 0 \in Words
      /\ \A n \in Words : n < Word
  <2>1. \A d \in Held(h) : h.node[d].size \in Words
    BY <1>1, Fields, Numbers
  <2> QED
    BY <1>1, <2>1, Numbers, TreeBinAssumption DEF Words, Typed
<1>3. ASSUME NEW n \in Words \ {0}, NEW dv \in Words, n >= MinLarge
      PROVE  LET best == SearchLarge(h, n)
             IN  IF Takes(best, n, dv)
                 THEN /\ best.at \in fits(n) /\ (dv < n \/ h.node[best.at].size < dv)
                      /\ best.rest = h.node[best.at].size - n
                 ELSE \A c \in fits(n) : ~(dv < n \/ h.node[c].size < dv)
  <2> DEFINE r == SearchLarge(h, n)
  <2>1. BestOk(h, n, r) /\ \A d \in Held(h) : NoWorse(h, n, r, d)
    BY <1>3, SearchLargeIs
  <2>2. Difference(dv, n) = (IF dv >= n THEN dv - n ELSE (dv - n) + Word)
    BY Differences
  <2>3. Nothing(n).at = None
    BY DEF Nothing
  <2> HIDE DEF r
  <2>4. CASE r.at = None
    <3>1. ~Takes(r, n, dv)
      BY <2>4 DEF Takes
    <3>2. fits(n) = {}
      BY <2>1, <2>4 DEF NoWorse
    <3> QED
      BY <3>1, <3>2 DEF r
  <2>5. CASE r.at # None
    <3>1. r.at \in Held(h) /\ h.node[r.at].size >= n /\ r.rest = h.node[r.at].size - n
      BY <2>1, <2>3, <2>5 DEF BestOk
    <3>2. r.at \in fits(n)
      <4>1. ASSUME NEW d \in Held(h), h.node[d].size >= n PROVE h.node[r.at].size <= h.node[d].size
        <5>1. r.rest <= h.node[d].size - n
          BY <2>1, <4>1 DEF NoWorse
        <5> QED
          BY <1>2, <3>1, <5>1
      <4> QED
        BY <3>1, <4>1
    <3>3. \A c \in fits(n) : h.node[c].size = h.node[r.at].size
      BY <1>2, <3>1, <3>2
    <3>4. Takes(r, n, dv) <=> (dv < n \/ h.node[r.at].size < dv)
      <4>1. n \in Nat \ {0} /\ dv \in Nat /\ h.node[r.at].size \in Nat /\ h.node[r.at].size < Word /\ Word \in Nat
        BY <1>2, <3>1
      <4>2. CASE dv >= n
        BY <2>2, <2>5, <3>1, <4>1, <4>2 DEF Takes
      <4>3. CASE ~(dv >= n)
        <5>1. h.node[r.at].size - n < (dv - n) + Word
          BY <4>1
        <5> QED
          BY <2>2, <2>5, <3>1, <4>1, <4>3, <5>1 DEF Takes
      <4> QED
        BY <4>2, <4>3
    <3> QED
      BY <3>1, <3>2, <3>3, <3>4 DEF r
  <2> QED
    BY <2>4, <2>5
<1>4. ASSUME h.map # {}, NEW n \in Words \ {0}, n < MinLarge PROVE SearchSmall(h, n).at \in fits(n)
  BY <1>4, SearchSmallIs
<1> HIDE DEF fits
<1>5. /\ \A n \in Words \ {0}, dv \in Words : n >= MinLarge =>
            LET best == SearchLarge(h, n)
            IN  IF Takes(best, n, dv)
                THEN /\ best.at \in fits(n) /\ (dv < n \/ h.node[best.at].size < dv)
                     /\ best.rest = h.node[best.at].size - n
                ELSE \A c \in fits(n) : ~(dv < n \/ h.node[c].size < dv)
      /\ h.map # {} => \A n \in Words \ {0} : n < MinLarge => SearchSmall(h, n).at \in fits(n)
  BY <1>3, <1>4
<1> QED
  BY <1>5 DEF BestFitOf, fits

----------------------------------------------------------------------------
(* A search for a chunk. *)

\* Around the ring from its trie chunk is the whole of it.
LEMMA AroundIs ==
  ASSUME Trees(tree), NEW t \in Held(tree), NEW c \in Held(tree), SameSize(tree, t, c)
  PROVE  c \in Around(t)
<1> DEFINE H == Held(tree)
           next(S) == {tree.node[d].forward : d \in S}
           turn == [S \in SUBSET H |-> S \cup next(S)]
           P == {S \in SUBSET H : t \in S}
           m == [S \in SUBSET H |-> Turns(tree) - Cardinality(S)]
           end == After(turn, {t}, Turns(tree))
<1>1. Typed(tree) /\ Rings(tree)
  BY DEF Trees
<1>2. IsFiniteSet(H) /\ Turns(tree) = Cardinality(H) /\ Turns(tree) \in Nat
  BY <1>1, TreeBinAssumption, FS_Subset, FS_CardinalityType DEF Typed, Turns, Held
<1>3. \A d \in H : tree.node[d].forward \in H
  BY <1>1, Fields
<1> HIDE DEF H
<1>4. ASSUME NEW S \in SUBSET H
      PROVE  IsFiniteSet(S) /\ Cardinality(S) \in Nat /\ Cardinality(S) <= Turns(tree) /\ m[S] \in Nat
             /\ m[S] = Turns(tree) - Cardinality(S)
  <2>1. IsFiniteSet(S) /\ Cardinality(S) <= Cardinality(H)
    BY <1>2, FS_Subset
  <2>2. Cardinality(S) \in Nat
    BY <2>1, FS_CardinalityType
  <2>3. m[S] = Turns(tree) - Cardinality(S)
    OBVIOUS
  <2> HIDE DEF m
  <2> QED
    BY <1>2, <2>1, <2>2, <2>3
<1>5. ASSUME NEW S \in P
      PROVE  turn[S] \in P /\ m[S] \in Nat /\ (turn[S] # S => m[turn[S]] < m[S])
  <2> DEFINE T == S \cup next(S)
  <2>1. turn[S] = T /\ T \in SUBSET H /\ S \subseteq T /\ S \in SUBSET H /\ t \in T
    BY <1>3
  <2> HIDE DEF T, turn, m
  <2>2. T # S => Cardinality(S) < Cardinality(T)
    <3>1. IsFiniteSet(T) /\ Cardinality(S) <= Cardinality(T) /\ (Cardinality(S) = Cardinality(T) => S = T)
      <4>1. IsFiniteSet(T)
        BY <1>4, <2>1
      <4> QED
        BY <2>1, <4>1, FS_Subset
    <3>2. Cardinality(S) \in Nat /\ Cardinality(T) \in Nat
      BY <1>4, <2>1
    <3> QED
      BY <3>1, <3>2
  <2>3. T # S => m[T] < m[S]
    BY <1>2, <1>4, <2>1, <2>2
  <2> QED
    BY <1>4, <2>1, <2>3
<1>6. {t} \in P
  BY DEF H
<1>7. m[{t}] <= Turns(tree)
  <2>1. {t} \in SUBSET H
    BY DEF H
  <2> HIDE DEF m
  <2> QED
    BY <1>2, <1>4, <2>1
<1>8. end \in P /\ turn[end] = end
  <2> HIDE DEF turn, P, m
  <2>1. end \in P
    BY <1>2, <1>5, <1>6, AfterKeeps
  <2>2. turn[end] = end
    BY <1>2, <1>5, <1>6, <1>7, AfterRests
  <2> QED
    BY <2>1, <2>2
<1>9. Around(t) = end
  BY DEF Around, H, Held
<1> HIDE DEF end
<1>10. end \in SUBSET H /\ t \in end /\ Closed(tree, end)
  BY <1>8 DEF Closed
<1> QED
  BY <1>1, <1>9, <1>10 DEF Rings, H

\* A search by size reaches every chunk (sm_bin_find 1731).
LEMMA FindIs ==
  ASSUME Trees(tree)
  PROVE  EveryChunkFound
<1> SUFFICES ASSUME NEW c \in Held(tree) PROVE BinFind(c)
  BY DEF EveryChunkFound, Held
<1> DEFINE n == tree.node[c].size
           t == Spot(tree, n).at
<1>1. Typed(tree) /\ Rings(tree) /\ Links(tree)
  BY DEF Trees
<1>2. PICK D : Deep(tree, D)
  BY DEF Trees
<1>3. PICK e \in Held(tree) : InTrie(tree, e) /\ tree.node[e].size = n
  BY <1>1 DEF Rings, SameSize
<1>4. n \in LargeSizes /\ tree.node[e].index = TreeIndex(n)
  BY <1>1, <1>3, Fields
<1>5. TreeIndex(n) \in Bins /\ tree.bin[TreeIndex(n)] # None
  BY <1>1, <1>2, <1>3, <1>4, Rooted
<1> HIDE DEF n
<1>6. t \in Held(tree) /\ e = t
  BY <1>1, <1>2, <1>3, <1>4, <1>5, SpotIs
<1> HIDE DEF t
<1>7. tree.node[t].size = n /\ SameSize(tree, t, c)
  BY <1>3, <1>6 DEF SameSize, n
<1>8. c \in Around(t)
  BY <1>6, <1>7, AroundIs
<1>9. TreeIndex(n) \in tree.map
  BY <1>1, <1>5 DEF Typed
<1> QED
  BY <1>7, <1>8, <1>9 DEF BinFind, n, t

\* The two searches find what is there.
LEMMA SearchesFitIs ==
  ASSUME Trees(tree)
  PROVE  SearchesFit
<1>1. BestFitOf(tree)
  BY Searching
<1>2. \A n : Promise!BestFits(n) = {c \in Held(tree) : tree.node[c].size >= n
                 /\ \A d \in Held(tree) : tree.node[d].size >= n => tree.node[c].size <= tree.node[d].size}
  BY DEF Promise!BestFits, Held
<1>3. Requests \subseteq Words \ {0} /\ Victims \subseteq Words
  BY TreeBinAssumption
<1>4. MinLarge \in Nat /\ Words \subseteq Nat
  BY Numbers
<1>5. ASSUME NEW n \in Requests, n >= MinLarge, NEW dv \in Victims
      PROVE  LET best == SearchLarge(tree, n)
                 fits == {c \in Promise!BestFits(n) : dv < n \/ tree.node[c].size < dv}
             IN  IF Takes(best, n, dv)
                 THEN best.at \in fits /\ best.rest = tree.node[best.at].size - n
                 ELSE fits = {}
  BY <1>1, <1>2, <1>3, <1>5 DEF BestFitOf
<1>6. ASSUME tree.map # {}, NEW n \in Requests, n < MinLarge
      PROVE  SearchSmall(tree, n).at \in Promise!BestFits(n)
  BY <1>1, <1>2, <1>3, <1>6 DEF BestFitOf
<1>7. BestFit
  BY <1>5, <1>6 DEF BestFit
<1> QED
  BY <1>7, FindIs DEF SearchesFit

----------------------------------------------------------------------------
(* The operations. *)

LEMMA EmptyIs ==
  ASSUME Init
  PROVE  Trees(tree) /\ Held(tree) = {}
<1>1. tree.bin = [i \in Bins |-> None] /\ tree.map = {} /\ tree.node = <<>>
      /\ tree = [f \in {"bin", "map", "node"} |-> tree[f]]
  BY DEF Init
<1>2. DOMAIN tree.node = {} /\ tree.node = [c \in {} |-> tree.node[c]]
  BY <1>1
<1>3. Held(tree) = {}
  BY <1>2 DEF Held
<1>4. Typed(tree)
  BY <1>1, <1>2, <1>3 DEF Typed
<1>5. \A i \in Bins : tree.bin[i] = None
  BY <1>1
<1>6. Rings(tree) /\ Links(tree)
  BY <1>3, <1>5 DEF Rings, Links
<1>7. Deep(tree, 0)
  BY <1>3 DEF Deep
<1> QED
  BY <1>3, <1>4, <1>6, <1>7 DEF Trees

\* What an operation does: a chunk is put in, or taken, or a best fit is taken and its rest is put in.
Did(h, g) ==
  \/ \E c \in Chunk \ Held(h), n \in LargeSizes : Puts(h, g, c, n)
  \/ \E c \in Held(h) : Leaves(h, g, c)
  \/ \E n \in Words \ {0}, c \in Held(h), d \in Chunk \ Held(h) : \E k :
        /\ h.node[c].size >= n /\ h.node[c].size - n \in LargeSizes
        /\ \A e \in Held(h) : h.node[e].size >= n => h.node[c].size <= h.node[e].size
        /\ Leaves(h, k, c) /\ Puts(k, g, d, h.node[c].size - n)

\* Every step puts a chunk in, takes one out, or does both.
LEMMA NextDoes ==
  ASSUME Trees(tree), Next
  PROVE  Did(tree, tree')
<1>1. Typed(tree) /\ Sizes \subseteq LargeSizes /\ Requests \subseteq Words \ {0} /\ Victims \subseteq Words
  BY TreeBinAssumption DEF Trees
<1>2. CASE Insert
  <2>1. PICK c \in Chunk \ Held(tree), n \in Sizes : tree' = InsertLarge(tree, c, n)
    BY <1>2 DEF Insert, Held
  <2>2. n \in LargeSizes
    BY <1>1
  <2>3. Puts(tree, tree', c, n)
    BY <2>1, <2>2, Inserting
  <2> QED
    BY <2>2, <2>3 DEF Did
<1>3. CASE Unlink
  <2>1. PICK c \in Held(tree) : tree' = UnlinkLarge(tree, c)
    BY <1>3 DEF Unlink, Held
  <2> QED
    BY <2>1, Unlinking DEF Did
<1>4. CASE AllocateLarge
  <2>1. PICK n \in {r \in Requests : r >= MinLarge}, dv \in Victims :
           LET best == SearchLarge(tree, n)
               left == UnlinkLarge(tree, best.at)
           IN  /\ Takes(best, n, dv)
               /\ IF best.rest < MinLarge THEN tree' = left
                  ELSE \E c \in Chunk \ Held(tree) : tree' = InsertLarge(left, c, best.rest)
    BY <1>4 DEF AllocateLarge, Held
  <2> DEFINE best == SearchLarge(tree, n)
             left == UnlinkLarge(tree, best.at)
  <2>2. n \in Words \ {0} /\ n >= MinLarge /\ dv \in Words
    BY <1>1
  <2>3. /\ best.at \in Held(tree) /\ tree.node[best.at].size >= n /\ best.rest = tree.node[best.at].size - n
        /\ \A e \in Held(tree) : tree.node[e].size >= n => tree.node[best.at].size <= tree.node[e].size
    <3>1. BestFitOf(tree)
      BY Searching
    <3> QED
      BY <2>1, <2>2, <3>1 DEF BestFitOf
  <2>4. Leaves(tree, left, best.at)
    BY <2>3, Unlinking
  <2>5. \/ best.rest < MinLarge /\ tree' = left
        \/ ~(best.rest < MinLarge) /\ \E c \in Chunk \ Held(tree) : tree' = InsertLarge(left, c, best.rest)
    BY <2>1
  <2> HIDE DEF best, left
  <2>6. CASE best.rest < MinLarge /\ tree' = left
    BY <2>3, <2>4, <2>6 DEF Did
  <2>7. CASE ~(best.rest < MinLarge) /\ \E c \in Chunk \ Held(tree) : tree' = InsertLarge(left, c, best.rest)
    <3>1. PICK c \in Chunk \ Held(tree) : tree' = InsertLarge(left, c, best.rest)
      BY <2>7
    <3>2. best.rest \in LargeSizes
      <4>1. tree.node[best.at].size \in LargeSizes
        BY <1>1, <2>3, Fields
      <4>2. /\ n \in Nat \ {0} /\ MinLarge \in Nat /\ MaxLarge \in Nat
            /\ tree.node[best.at].size \in Nat /\ tree.node[best.at].size < MaxLarge
            /\ tree.node[best.at].size \in 0 .. (Word - 1) /\ Word \in Nat
        BY <2>2, <4>1, Numbers DEF LargeSizes, Words
      <4>3. best.rest \in 0 .. (Word - 1) /\ best.rest >= MinLarge /\ best.rest < MaxLarge
        BY <2>3, <2>7, <4>2
      <4> QED
        BY <4>3 DEF LargeSizes, Words
    <3>3. Trees(left) /\ c \in Chunk \ Held(left)
      BY <2>4, <3>1 DEF Leaves
    <3>4. Puts(left, tree', c, best.rest)
      BY <3>1, <3>2, <3>3, Inserting
    <3> QED
      BY <2>2, <2>3, <2>4, <3>1, <3>2, <3>4 DEF Did
  <2> QED
    BY <2>5, <2>6, <2>7
<1>5. CASE AllocateSmall
  <2>1. PICK n \in {r \in Requests : r < MinLarge} : tree' = UnlinkLarge(tree, SearchSmall(tree, n).at)
    BY <1>5 DEF AllocateSmall
  <2>2. n \in Words \ {0} /\ n < MinLarge /\ tree.map # {}
    BY <1>1, <1>5 DEF AllocateSmall
  <2>3. SearchSmall(tree, n).at \in Held(tree)
    BY <2>2, SearchSmallIs
  <2> QED
    BY <2>1, <2>3, Unlinking DEF Did
<1> QED
  BY <1>2, <1>3, <1>4, <1>5 DEF Next

\* What a step does keeps the bins well formed.
LEMMA DidKeeps ==
  ASSUME NEW h, NEW g, Did(h, g)
  PROVE  Trees(g)
BY DEF Did, Puts, Leaves

\* The tries are well formed at all times.
THEOREM TreesAlways == Spec => []Trees(tree)
<1>1. Trees(tree) /\ [Next]_tree => Trees(tree)'
  <2> SUFFICES ASSUME Trees(tree), [Next]_tree PROVE Trees(tree')
    BY DEF Trees, Typed, Rings, Links, Deep, Held, IsNode, Linked, Closed, SameSize, InTrie
  <2>1. CASE Next
    BY <2>1, NextDoes, DidKeeps
  <2>2. CASE tree' = tree
    BY <2>2
  <2> QED
    BY <2>1, <2>2
<1> QED
  BY <1>1, EmptyIs, PTL DEF Spec

\* The allocator's checks of one chunk.
LEMMA RingChecked ==
  ASSUME Trees(tree), NEW c \in Held(tree)
  PROVE  CheckIndex(c) /\ CheckRing(c)
<1> DEFINE x == tree.node[c]
           R == {d \in Ring(c) : tree.node[d].parent # None}
<1>1. Typed(tree) /\ Rings(tree)
  BY DEF Trees
<1>2. /\ x.size \in LargeSizes /\ x.index = TreeIndex(x.size)
      /\ x.forward \in Held(tree) /\ x.backward \in Held(tree)
      /\ \A d \in Held(tree) : tree.node[d].index = TreeIndex(tree.node[d].size)
  BY <1>1, Fields
<1>3. Ring(c) = {d \in Held(tree) : tree.node[d].size = x.size}
  BY <1>2 DEF Ring, Held
<1>4. CheckIndex(c)
  <2>1. /\ TreeIndex(x.size) \in Bins /\ MinSizeForIndex(TreeIndex(x.size)) <= x.size
        /\ TreeIndex(x.size) = TreeBins - 1 \/ x.size < MinSizeForIndex(TreeIndex(x.size) + 1)
    <3>1. x.size \in Words
      BY <1>2, Numbers
    <3> HIDE DEF x
    <3> QED
      BY <1>2, <3>1, IndexIs
  <2>2. x.size \in Nat /\ x.size >= MinLarge /\ MinLarge \in Nat
    BY <1>2, Numbers DEF LargeSizes
  <2>3. MinSizeForIndex(TreeIndex(x.size)) \in Nat
    <3>1. \A i \in Bins : i % 2 \in {0, 1} /\ MinSizeForIndex(i) \in Nat
      <4> SUFFICES ASSUME NEW i \in Bins PROVE i % 2 \in {0, 1} /\ MinSizeForIndex(i) \in Nat
        OBVIOUS
      <4> DEFINE p == Power[i \div 2 + TreeShift - 1]
      <4>1. p \in Nat \ {0} /\ MinSizeForIndex(i) = (2 + (i % 2)) * p /\ i % 2 \in {0, 1}
        BY MinSizes, Shifts
      <4> HIDE DEF p
      <4>2. CASE i % 2 = 0
        BY <4>1, <4>2
      <4>3. CASE i % 2 = 1
        BY <4>1, <4>3
      <4> QED
        BY <4>1, <4>2, <4>3
    <3> QED
      BY <2>1, <3>1
  <2> QED
    BY <1>2, <2>1, <2>2, <2>3 DEF CheckIndex
<1>5. /\ tree.node[x.forward].backward = c /\ tree.node[x.backward].forward = c
      /\ tree.node[x.forward].size = x.size /\ tree.node[x.backward].size = x.size
  BY <1>1 DEF Rings, Linked
<1>6. Cardinality(R) = 1
  <2>1. PICK e \in Held(tree) : InTrie(tree, e) /\ SameSize(tree, e, c)
    BY <1>1 DEF Rings
  <2>2. \A d \in Held(tree) : InTrie(tree, d) /\ SameSize(tree, d, e) => d = e
    BY <1>1, <2>1 DEF Rings
  <2>3. R = {e}
    BY <1>3, <2>1, <2>2 DEF InTrie, SameSize
  <2> HIDE DEF R
  <2> QED
    BY <2>3, FS_Singleton
<1>7. CheckRing(c)
  BY <1>2, <1>3, <1>5, <1>6 DEF CheckRing
<1> QED
  BY <1>4, <1>7

\* The debug check of a chunk passes.
LEMMA NodeChecked ==
  ASSUME Trees(tree), NEW c \in Held(tree)
  PROVE  CheckNode(c)
<1> DEFINE x == tree.node[c]
           kids == {x.child[0], x.child[1]} \ {None}
<1>1. Typed(tree) /\ Rings(tree) /\ Links(tree)
  BY DEF Trees
<1>2. PICK D : Deep(tree, D)
  BY DEF Trees
<1>3. /\ x.parent \in Held(tree) \cup {Head, None} /\ Head \notin Held(tree) /\ None \notin Held(tree)
      /\ x.child[0] \in Held(tree) \cup {None} /\ x.child[1] \in Held(tree) \cup {None}
  BY <1>1, Fields, TreeBinAssumption DEF Typed
<1>4. CASE x.parent = None
  <2>1. x.child[0] = None /\ x.child[1] = None
    BY <1>1, <1>4 DEF Rings, Linked
  <2> QED
    BY <1>4, <2>1 DEF CheckNode
<1>5. CASE x.parent # None
  <2>1. InTrie(tree, c)
    BY <1>5 DEF InTrie
  <2>2. \A s \in {0, 1} : x.child[s] # None =>
           /\ x.child[s] \in Held(tree) /\ tree.node[x.child[s]].parent = c /\ x.child[s] # c
           /\ InTrie(tree, x.child[s])
    <3> SUFFICES ASSUME NEW s \in {0, 1}, x.child[s] # None
                 PROVE  /\ x.child[s] \in Held(tree) /\ tree.node[x.child[s]].parent = c /\ x.child[s] # c
                        /\ InTrie(tree, x.child[s])
      OBVIOUS
    <3>1. /\ x.child[s] \in Held(tree) /\ InTrie(tree, x.child[s]) /\ tree.node[x.child[s]].parent = c
          /\ D[c] \in Nat /\ D[x.child[s]] = D[c] + 1
      BY <1>1, <1>2, <2>1, Children DEF ChildFits
    <3>2. x.child[s] # c
      <4> DEFINE k == x.child[s]
      <4> HIDE DEF k
      <4>1. D[c] \in Nat /\ D[k] = D[c] + 1
        BY <3>1 DEF k
      <4>2. k # c
        BY <4>1
      <4> QED
        BY <4>2 DEF k
    <3> QED
      BY <3>1, <3>2
  <2>3. IF x.parent = Head THEN tree.bin[x.index] = c
        ELSE x.parent \in Held(tree) /\ c \in {tree.node[x.parent].child[0], tree.node[x.parent].child[1]}
    BY <1>1, <1>3, <1>5 DEF Links
  <2>4. x.parent # c
    BY <1>3, <2>2, <2>3
  <2>5. ASSUME Cardinality(kids) = 2 PROVE tree.node[x.child[0]].size < tree.node[x.child[1]].size
    <3>1. x.child[0] # None /\ x.child[1] # None
      <4>1. ASSUME NEW a, kids \subseteq {a} PROVE FALSE
        <5> HIDE DEF kids
        <5>1. IsFiniteSet({a}) /\ Cardinality({a}) = 1
          BY FS_Singleton
        <5>2. Cardinality(kids) <= Cardinality({a})
          BY <4>1, <5>1, FS_Subset
        <5> QED
          BY <2>5, <5>1, <5>2
      <4>2. ASSUME x.child[0] = None PROVE FALSE
        <5>1. kids \subseteq {x.child[1]}
          BY <4>2
        <5> QED
          BY <4>1, <5>1
      <4>3. ASSUME x.child[1] = None PROVE FALSE
        <5>1. kids \subseteq {x.child[0]}
          BY <4>3
        <5> QED
          BY <4>1, <5>1
      <4> QED
        BY <4>2, <4>3
    <3>2. Under(tree, D, x.child[0], x.child[0]) /\ Under(tree, D, x.child[1], x.child[1])
      BY <1>2, <2>2, <3>1, UnderSelf
    <3> QED
      BY <1>1, <1>2, <2>1, <2>2, <3>1, <3>2, Sides
  <2>6. \A k \in kids : k # c /\ tree.node[k].parent = c
    BY <2>2
  <2> QED
    BY <1>5, <2>3, <2>4, <2>5, <2>6 DEF CheckNode
<1> QED
  BY <1>4, <1>5

\* After every operation the chunks have their types and the tries pass the allocator's own
\* debug checks (sm_do_check_tree and sm_do_check_tree_bin, 1619-1684).
THEOREM TreesPass == Spec => []TreesSound
<1>1. Trees(tree) => TreesSound
  <2> SUFFICES ASSUME Trees(tree) PROVE TreesSound
    OBVIOUS
  <2>1. TypeOK /\ \A i \in Bins : tree.bin[i] = None <=> i \notin tree.map
    BY DEF Trees, Typed, TypeOK, Held
  <2>2. \A c \in Held(tree) : CheckIndex(c) /\ CheckRing(c) /\ CheckNode(c)
    BY RingChecked, NodeChecked
  <2> QED
    BY <2>1, <2>2 DEF TreesSound, TreesCheck, Held
<1> QED
  BY <1>1, TreesAlways, PTL

\* In every state a search by size finds every chunk, and a request the best fit
\* (sm_bin_find 1731, sm_tree_allocate_large 2383, sm_tree_allocate_small 2453).
THEOREM SearchesAlways == Spec => []SearchesFit
BY SearchesFitIs, TreesAlways, PTL

\* The free chunks of the abstract collection.
Chunks(h) == [c \in DOMAIN h.node |-> h.node[c].size]

\* What a step does is a step of the collection of chunks.
LEMMA DidRefines ==
  ASSUME Trees(tree), Did(tree, tree')
  PROVE  Promise!Next
<1> DEFINE f == Chunks(tree)
           g == Chunks(tree')
<1>1. /\ DOMAIN f = Held(tree) /\ DOMAIN g = Held(tree')
      /\ \A c \in Held(tree) : f[c] = tree.node[c].size
      /\ f = [c \in Held(tree) |-> tree.node[c].size] /\ g = [c \in Held(tree') |-> tree'.node[c].size]
  BY DEF Chunks, Held
<1>2. CASE \E c \in Chunk \ Held(tree), n \in LargeSizes : Puts(tree, tree', c, n)
  <2>1. PICK c \in Chunk \ Held(tree), n \in LargeSizes : Puts(tree, tree', c, n)
    BY <1>2
  <2>2. g = [d \in Held(tree) \cup {c} |-> IF d = c THEN n ELSE tree.node[d].size]
    BY <1>1, <2>1 DEF Puts
  <2>3. g = Promise!With(f, c, n)
    BY <1>1, <2>2 DEF Promise!With
  <2> QED
    BY <1>1, <2>1, <2>3 DEF Promise!Next, Promise!Put, Chunks
<1>3. CASE \E c \in Held(tree) : Leaves(tree, tree', c)
  <2>1. PICK c \in Held(tree) : Leaves(tree, tree', c)
    BY <1>3
  <2>2. g = [d \in Held(tree) \ {c} |-> tree.node[d].size]
    BY <1>1, <2>1 DEF Leaves
  <2>3. g = Promise!Without(c)
    BY <1>1, <2>2 DEF Promise!Without, Chunks
  <2> QED
    BY <1>1, <2>1, <2>3 DEF Promise!Next, Promise!Drop, Chunks
<1>4. CASE \E n \in Words \ {0}, c \in Held(tree), d \in Chunk \ Held(tree) : \E k :
        /\ tree.node[c].size >= n /\ tree.node[c].size - n \in LargeSizes
        /\ \A e \in Held(tree) : tree.node[e].size >= n => tree.node[c].size <= tree.node[e].size
        /\ Leaves(tree, k, c) /\ Puts(k, tree', d, tree.node[c].size - n)
  <2>1. PICK n \in Words \ {0}, c \in Held(tree), d \in Chunk \ Held(tree) : \E k :
        /\ tree.node[c].size >= n /\ tree.node[c].size - n \in LargeSizes
        /\ \A e \in Held(tree) : tree.node[e].size >= n => tree.node[c].size <= tree.node[e].size
        /\ Leaves(tree, k, c) /\ Puts(k, tree', d, tree.node[c].size - n)
    BY <1>4
  <2>2. PICK k : Leaves(tree, k, c) /\ Puts(k, tree', d, tree.node[c].size - n)
    BY <2>1
  <2>3. c \in Promise!BestFits(n)
    BY <1>1, <2>1 DEF Promise!BestFits, Chunks
  <2>4. n \in 1 .. (Word - 1)
    BY Numbers DEF Words
  <2>5. g = [e \in (Held(tree) \ {c}) \cup {d} |->
               IF e = d THEN tree.node[c].size - n ELSE tree.node[e].size]
    BY <1>1, <2>2 DEF Leaves, Puts
  <2> DEFINE w == Promise!Without(c)
  <2>6. w = [e \in Held(tree) \ {c} |-> tree.node[e].size]
    BY <1>1 DEF Promise!Without, Chunks
  <2> HIDE DEF w
  <2>7. g = Promise!With(w, d, tree.node[c].size - n)
    BY <2>5, <2>6 DEF Promise!With
  <2>8. Promise!Take
    BY <1>1, <2>1, <2>3, <2>4, <2>7 DEF Promise!Take, Chunks, w
  <2> QED
    BY <2>8 DEF Promise!Next
<1> QED
  BY <1>2, <1>3, <1>4 DEF Did

\* The tries implement the collection of chunks of module LargeChunks: what is put in stays,
\* with its size, until it is taken, and a request takes a best fit.
THEOREM TreesHold == Spec => PromiseSpec
<1>1. Init => Promise!Init
  <2> SUFFICES ASSUME Init PROVE [c \in DOMAIN tree.node |-> tree.node[c].size] = <<>>
    BY DEF Promise!Init
  <2>1. tree.node = <<>>
    BY DEF Init
  <2> QED
    BY <2>1
<1>2. Trees(tree) /\ [Next]_tree => [Promise!Next]_(Chunks(tree))
  <2> SUFFICES ASSUME Trees(tree), [Next]_tree PROVE [Promise!Next]_(Chunks(tree))
    OBVIOUS
  <2>1. CASE Next
    BY <2>1, NextDoes, DidRefines
  <2>2. CASE tree' = tree
    BY <2>2 DEF Chunks
  <2> QED
    BY <2>1, <2>2
<1> QED
  BY <1>1, <1>2, TreesAlways, PTL DEF Spec, PromiseSpec, Promise!Spec, Chunks
=============================================================================
