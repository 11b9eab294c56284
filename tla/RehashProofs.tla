---------------------------- MODULE RehashProofs ----------------------------
(***************************************************************************)
(* The re-hash loop loses and doubles no entry, whatever the keys, their   *)
(* hashes, the two bucket counts and the number of entries.                *)
(*                                                                         *)
(* NothingTwice carries itself. NothingLost needs to know in addition that *)
(* a bucket that is still waiting holds a key and a value (Typed), and, to *)
(* conclude that nothing is waiting at the end, that the outer loop has    *)
(* left only moved buckets behind (Behind). That the outcome is one the    *)
(* hash table's resize allows needs two more facts, in the second half: no *)
(* key is there twice (Distinct), and what the loop has not settled is as  *)
(* it was (Untouched).                                                     *)
(***************************************************************************)
EXTENDS Rehash, TLAPS, FiniteSetTheorems

\* What waits is an entry.
Typed == \A x \in Waiting : keys[x] \in Key /\ values[x] \in Value

\* The outer loop is inside the table while it carries an entry, and what is
\* waiting lies ahead of it.
Behind ==
  /\ hand # Nothing => j < from.buckets /\ j \notin Waiting
  /\ \A x \in Waiting : j <= x

\* The carried entry has passed taken buckets only, and so had the settled ones.
Reached(k, n) == \A u \in 0..(n - 1) : Probe(k, u) \in Settled

InReach ==
  /\ hand # Nothing => Reached(hand[1], step)
  /\ \A x \in Settled : keys[x] \in Key /\ \E t \in Nat : x = Probe(keys[x], t) /\ Reached(keys[x], t)

IInv == TypeOK /\ Typed /\ Behind /\ NothingTwice /\ NothingLost /\ InReach

\* A remainder lies below the divisor.
LEMMA Remainder ==
  ASSUME NEW x \in Int, NEW b \in Nat \ {0}
  PROVE  x % b \in 0..(b - 1)
  OBVIOUS

\* A probe stays inside the new table.
LEMMA ProbeInRange ==
  ASSUME NEW k \in Key, NEW t \in Nat, to \in Sizes
  PROVE  Probe(k, t) \in Slots(to)
<1>1. Hash[k] \in Nat /\ to \in Nat \ {0}
  BY RehashAssumption
<1>2. t * (t + 1) \in Int
  OBVIOUS
<1>3. (t * (t + 1)) \div 2 \in Int
  <2> DEFINE p == t * (t + 1)
  <2>1. p \in Int
    BY <1>2
  <2> HIDE DEF p
  <2>2. p \div 2 \in Int
    BY <2>1
  <2> QED
    BY <2>2 DEF p
<1> DEFINE q == (t * (t + 1)) \div 2
<1> HIDE DEF q
<1>4. Hash[k] + q \in Int
  BY <1>1, <1>3 DEF q
<1>5. (Hash[k] + q) % to \in 0..(to - 1)
  BY <1>1, <1>4, Remainder
<1> QED
  BY <1>5 DEF Probe, Slots, q

\* So is the bucket the carried entry is at.
LEMMA HereInRange ==
  ASSUME TypeOK, hand # Nothing
  PROVE  Here \in Slots(to) /\ Here \in Nat
<1>1. hand[1] \in Key /\ step \in Nat /\ to \in Sizes
  BY DEF TypeOK
<1>2. Here \in Slots(to)
  BY <1>1, ProbeInRange DEF Here
<1> QED
  BY <1>1, <1>2, RehashAssumption DEF Slots

\* The table the loop starts from: one bucket per key, all of them waiting.
LEMMA InitIInv == Init => IInv
<1> SUFFICES ASSUME Init PROVE IInv
  OBVIOUS
<1>1. PICK b \in Sizes, c \in Sizes, K \in SUBSET Key :
        \E at \in [K -> Slots(b)], v \in [K -> Value] :
          /\ \A k, l \in K : at[k] = at[l] => k = l
          /\ from = TableOf(b, IF b < c THEN c ELSE b, at, v)
          /\ to = c
  BY DEF Init
<1>2. PICK at \in [K -> Slots(b)], v \in [K -> Value] :
        from = TableOf(b, IF b < c THEN c ELSE b, at, v)
  BY <1>1
<1> DEFINE Room == IF b < c THEN c ELSE b
<1>3. /\ from.buckets = b /\ to = c
      /\ from.flags = [x \in Slots(b) |-> IF Taken(at, x) THEN "live" ELSE "deleted"]
      /\ from.keys = [x \in Slots(Room) |-> IF Taken(at, x) THEN KeyAt(at, x) ELSE Junk]
      /\ from.values = [x \in Slots(Room) |->
                           IF Taken(at, x) THEN v[KeyAt(at, x)] ELSE Junk]
  BY <1>1, <1>2 DEF TableOf
<1>4. ASSUME NEW x, Taken(at, x) PROVE KeyAt(at, x) \in K /\ at[KeyAt(at, x)] = x
  BY <1>4 DEF Taken, KeyAt
<1>5. /\ j = 0 /\ hand = Nothing /\ step = 0 /\ old = from.flags
      /\ new = [x \in Slots(to) |-> "empty"] /\ keys = from.keys /\ values = from.values
  BY DEF Init
<1>6. b \in Nat \ {0} /\ c \in Nat \ {0} /\ Room \in Sizes /\ b <= Room /\ c <= Room
  BY RehashAssumption
<1>7. Waiting = Original /\ Settled = {}
  BY <1>3, <1>5 DEF Waiting, Original, Settled
<1>8. \A x \in Waiting : /\ x \in Slots(b) /\ x \in Slots(Room) /\ Taken(at, x)
                         /\ keys[x] = KeyAt(at, x) /\ values[x] = v[KeyAt(at, x)]
  BY <1>3, <1>5, <1>6 DEF Waiting, Slots
<1> HIDE DEF Room
<1>9. TypeOK
  <2>1. from.flags \in [Slots(b) -> {"live", "deleted"}]
    BY <1>3
  <2>2. from.keys \in [Slots(Room) -> Key \cup {Junk}]
    BY <1>3, <1>4
  <2>3. from.values \in [Slots(Room) -> Value \cup {Junk}]
    BY <1>3, <1>4
  <2>4. new \in [Slots(to) -> {"live", "empty"}]
    BY <1>5
  <2> QED
    BY <1>3, <1>5, <1>6, <2>1, <2>2, <2>3, <2>4 DEF TypeOK, Arrays
<1>10. Typed
  BY <1>4, <1>8 DEF Typed
<1>11. Behind
  BY <1>5, <1>8, <1>6 DEF Behind, Slots
<1>12. NothingTwice
  BY <1>4, <1>5, <1>7, <1>8 DEF NothingTwice
<1>13. NothingLost
  BY <1>5, <1>7 DEF NothingLost, Entries, Carried
<1>14. InReach
  BY <1>5, <1>7 DEF InReach
<1> QED
  BY <1>9, <1>10, <1>11, <1>12, <1>13, <1>14 DEF IInv
\* Placing the carried entry in an empty bucket keeps what is settled, and
\* what waits elsewhere, apart from it.
LEMMA SwapFacts ==
  ASSUME TypeOK, hand # Nothing, new[Here] = "empty",
         new' = [new EXCEPT ![Here] = "live"],
         keys' = [keys EXCEPT ![Here] = hand[1]],
         values' = [values EXCEPT ![Here] = hand[2]],
         UNCHANGED <<from, to>>
  PROVE  /\ Here \notin Settled
         /\ Settled' = Settled \cup {Here}
         /\ keys'[Here] = hand[1] /\ values'[Here] = hand[2]
         /\ \A x \in Waiting \cup Settled : x # Here => keys'[x] = keys[x] /\ values'[x] = values[x]
<1>1. Here \in Slots(to)
  BY HereInRange
<1>2. PICK n \in Sizes : Arrays(n)
  BY DEF TypeOK, Arrays
<1>3. Slots(to) \subseteq Slots(n) /\ Slots(from.buckets) \subseteq Slots(n)
  BY <1>2, RehashAssumption DEF Arrays, Slots, TypeOK
<1>4. new \in [Slots(to) -> {"live", "empty"}]
  BY DEF TypeOK
<1> QED
  BY <1>1, <1>2, <1>3, <1>4 DEF Arrays, Settled, Waiting

\* No entry is lost when the carried one is put down, whether or not one that
\* was waiting is taken up in its stead.
LEMMA SwapKeeps ==
  ASSUME IInv, hand # Nothing, new[Here] = "empty",
         new' = [new EXCEPT ![Here] = "live"],
         keys' = [keys EXCEPT ![Here] = hand[1]],
         values' = [values EXCEPT ![Here] = hand[2]],
         UNCHANGED <<from, to>>,
         Waiting' = Waiting \ {Here},
         Carried' = IF Here \in Waiting THEN {<<keys[Here], values[Here]>>} ELSE {}
  PROVE  NothingLost'
<1> USE SwapFacts DEF IInv
<1>1. Entries(Waiting, keys, values)
        = Entries(Waiting', keys', values') \cup Carried'
  BY DEF Entries
<1>2. Entries(Settled', keys', values') = Entries(Settled, keys, values) \cup Carried
  <2>1. <<hand[1], hand[2]>> = hand
    BY DEF TypeOK
  <2> QED
    BY <2>1 DEF Entries, Carried
<1> QED
  BY <1>1, <1>2 DEF NothingLost, Original, Entries

\* The bucket the carried entry is put in is the one its probe has reached,
\* and a new probe starts with whatever is carried next.
LEMMA SwapReaches ==
  ASSUME IInv, hand # Nothing, new[Here] = "empty",
         new' = [new EXCEPT ![Here] = "live"],
         keys' = [keys EXCEPT ![Here] = hand[1]],
         values' = [values EXCEPT ![Here] = hand[2]],
         UNCHANGED <<from, to>>, step' = 0
  PROVE  InReach'
<1>1. TypeOK /\ step \in Nat /\ hand[1] \in Key /\ Reached(hand[1], step)
  BY DEF IInv, TypeOK, InReach
<1>2. /\ Settled' = Settled \cup {Here} /\ keys'[Here] = hand[1]
      /\ \A x \in Settled : x # Here => keys'[x] = keys[x]
      /\ Here \notin Settled
  BY <1>1, SwapFacts
<1>3. Settled \subseteq Settled' /\ to' = to
  BY <1>2
<1>4. ASSUME NEW x \in Settled'
      PROVE  (keys[x] \in Key /\ \E t \in Nat : x = Probe(keys[x], t) /\ Reached(keys[x], t))'
  <2>1. CASE x = Here
    <3>0. PICK t \in Nat : t = step
      BY <1>1
    <3>1. keys'[x] = hand[1] /\ x = Probe(hand[1], t) /\ Reached(hand[1], t)
      BY <1>1, <1>2, <2>1, <3>0 DEF Here
    <3>2. (x = Probe(keys[x], t) /\ Reached(keys[x], t))'
      BY <1>3, <3>1 DEF Probe, Reached
    <3> QED
      BY <1>1, <3>1, <3>2
  <2>2. CASE x \in Settled /\ x # Here
    <3>1. keys[x] \in Key /\ keys'[x] = keys[x]
      BY <1>2, <2>2 DEF IInv, InReach
    <3>2. PICK t \in Nat : x = Probe(keys[x], t) /\ Reached(keys[x], t)
      BY <2>2 DEF IInv, InReach
    <3>3. (x = Probe(keys[x], t) /\ Reached(keys[x], t))'
      BY <1>3, <3>1, <3>2 DEF Probe, Reached
    <3> QED
      BY <3>1, <3>3
  <2> QED
    BY <1>2, <2>1, <2>2
<1>5. (hand # Nothing => Reached(hand[1], step))'
  BY DEF Reached
<1> QED
  BY <1>4, <1>5 DEF InReach

\* Every step of the loop preserves the invariant.
LEMMA StepIInv == IInv /\ [Next]_vars => IInv'
<1> SUFFICES ASSUME IInv, [Next]_vars PROVE IInv'
  OBVIOUS
<1> USE DEF IInv
<1>0. from.buckets \in Nat \ {0} /\ to \in Nat \ {0} /\ j \in Nat
  BY RehashAssumption DEF TypeOK
<1>1. CASE UNCHANGED vars
  BY <1>1 DEF vars, TypeOK, Arrays, Typed, Behind, NothingTwice, NothingLost, InReach, Reached, Probe,
     Waiting, Settled, Original, Entries, Carried
<1>2. CASE Skip
  <2>1. Waiting' = Waiting /\ Settled' = Settled /\ hand = Nothing /\ j \notin Waiting
    BY <1>2 DEF Skip, Waiting, Settled
  <2>2. TypeOK'
    <3>1. \E n \in Sizes : Arrays(n)'
      BY <1>2 DEF Skip, TypeOK, Arrays
    <3>2. j' \in 0..from.buckets
      BY <1>0, <1>2 DEF Skip, TypeOK
    <3> QED
      BY <1>2, <3>1, <3>2 DEF Skip, TypeOK
  <2>3. Behind'
    BY <1>0, <1>2, <2>1 DEF Skip, Behind, Waiting, Slots
  <2> QED
    BY <1>2, <2>1, <2>2, <2>3 DEF Skip, Typed, NothingTwice, NothingLost, InReach, Reached, Probe,
       Original, Entries, Carried
<1>3. CASE TakeUp
  <2>1. j \in Waiting /\ Waiting' = Waiting \ {j} /\ Settled' = Settled
    BY <1>0, <1>3 DEF TakeUp, Waiting, Settled, Slots, TypeOK
  <2>2. keys[j] \in Key /\ values[j] \in Value /\ hand' = <<keys[j], values[j]>> /\ hand' # Nothing
    BY <1>3, <2>1, RehashAssumption DEF TakeUp, Typed
  <2>3. TypeOK'
    <3>1. \E n \in Sizes : Arrays(n)'
      BY <1>3 DEF TakeUp, TypeOK, Arrays
    <3>2. old' \in [Slots(from.buckets) -> {"live", "deleted"}]
      BY <1>3 DEF TakeUp, TypeOK
    <3>3. hand' \in (Key \X Value) \cup {Nothing}
      BY <2>2
    <3> QED
      BY <1>3, <3>1, <3>2, <3>3 DEF TakeUp, TypeOK
  <2>4. Typed'
    BY <1>3, <2>1 DEF TakeUp, Typed
  <2>5. Behind'
    BY <1>3, <2>1 DEF TakeUp, Behind
  <2>6. NothingTwice'
    BY <1>3, <2>1, <2>2 DEF TakeUp, NothingTwice
  <2>7. NothingLost'
    BY <1>3, <2>1, <2>2 DEF TakeUp, NothingLost, Original, Entries, Carried
  <2>8. InReach'
    <3>1. step' = 0 /\ \A k : Reached(k, 0)
      BY <1>3 DEF TakeUp, Reached
    <3>2. \A k, n : Reached(k, n)' <=> Reached(k, n)
      BY <1>3, <2>1 DEF TakeUp, Reached, Probe
    <3> QED
      BY <1>3, <2>1, <3>1, <3>2 DEF TakeUp, InReach, Probe
  <2> QED
    BY <2>3, <2>4, <2>5, <2>6, <2>7, <2>8
<1>4. CASE Advance
  <2>1. Waiting' = Waiting /\ Settled' = Settled /\ Here \in Settled
    BY <1>0, <1>4, HereInRange DEF Advance, Waiting, Settled, TypeOK
  <2>2. TypeOK'
    BY <1>4 DEF Advance, TypeOK, Arrays
  <2>3. InReach'
    <3>1. \A k, n : Reached(k, n)' <=> Reached(k, n)
      BY <1>4, <2>1 DEF Advance, Reached, Probe
    <3>2. hand # Nothing /\ hand' = hand /\ step' = step + 1 /\ step \in Nat
      BY <1>4 DEF Advance, TypeOK
    <3>3. \A u \in 0..step : Probe(hand[1], u) \in Settled
      BY <2>1, <3>2 DEF InReach, Reached, Here
    <3>4. Reached(hand[1], step + 1)
      BY <3>2, <3>3 DEF Reached
    <3> QED
      BY <1>4, <2>1, <3>1, <3>2, <3>4 DEF Advance, InReach, Probe
  <2> QED
    BY <1>4, <2>1, <2>2, <2>3 DEF Advance, Typed, Behind, NothingTwice, NothingLost, Original,
       Entries, Carried
<1>5. CASE Displace
  <2>1. Here \in Waiting /\ Waiting' = Waiting \ {Here}
    <3>1. Here \in Nat /\ Here < from.buckets /\ old[Here] = "live"
      BY <1>5, HereInRange DEF Displace
    <3>2. Here \in Slots(from.buckets)
      BY <1>0, <3>1 DEF Slots
    <3>3. \A x \in Slots(from.buckets) :
            old'[x] = "live" <=> x # Here /\ old[x] = "live"
      BY <1>5 DEF Displace, TypeOK
    <3> QED
      BY <1>5, <3>1, <3>2, <3>3 DEF Displace, Swap, Waiting
  <2>2. hand # Nothing /\ keys[Here] \in Key /\ values[Here] \in Value
        /\ hand' = <<keys[Here], values[Here]>> /\ hand' # Nothing
    BY <1>5, <2>1, RehashAssumption DEF Displace, Swap, Typed
  <2>3. hand[1] \in Key /\ hand[2] \in Value /\ Here \in Slots(to) /\ step \in Nat
    BY <2>2, HereInRange DEF TypeOK
  <2>4. TypeOK'
    <3>1. \E n \in Sizes : Arrays(n)'
      BY <1>5, <2>3 DEF Displace, Swap, TypeOK, Arrays
    <3>2. new' \in [Slots(to) -> {"live", "empty"}]
      BY <1>5, <2>3 DEF Displace, Swap, TypeOK
    <3>3. old' \in [Slots(from.buckets) -> {"live", "deleted"}]
      BY <1>5 DEF Displace, Swap, TypeOK
    <3>4. j' \in 0..from.buckets /\ step' \in Nat
      BY <1>0, <1>5, <2>2 DEF Displace, Swap, TypeOK
    <3>5. hand' \in (Key \X Value) \cup {Nothing}
      BY <2>2
    <3> QED
      BY <1>5, <3>1, <3>2, <3>3, <3>4, <3>5 DEF Displace, Swap, TypeOK
  <2>5. /\ Here \notin Settled /\ Settled' = Settled \cup {Here}
        /\ keys'[Here] = hand[1] /\ values'[Here] = hand[2]
        /\ \A x \in Waiting \cup Settled : x # Here => keys'[x] = keys[x] /\ values'[x] = values[x]
    BY <1>5, <2>2, SwapFacts DEF Displace, Swap
  <2>6. Typed'
    BY <2>1, <2>5 DEF Typed
  <2>7. Behind'
    BY <1>5, <2>1 DEF Displace, Swap, Behind
  <2>8. NothingTwice'
    BY <2>1, <2>2, <2>5 DEF NothingTwice
  <2>9. Carried' = {<<keys[Here], values[Here]>>}
    BY <2>2 DEF Carried
  <2>10. NothingLost'
    BY <1>5, <2>1, <2>2, <2>9, SwapKeeps DEF Displace, Swap
  <2>11. InReach'
    BY <1>5, <2>2, SwapReaches DEF Displace, Swap
  <2> QED
    BY <2>4, <2>6, <2>7, <2>8, <2>10, <2>11
<1>6. CASE PutDown
  <2>1. Here \notin Waiting /\ Waiting' = Waiting
    BY <1>0, <1>6 DEF PutDown, Waiting, Slots
  <2>2. hand # Nothing /\ hand' = Nothing /\ j < from.buckets /\ j \notin Waiting
    BY <1>6 DEF PutDown, Behind
  <2>3. hand[1] \in Key /\ hand[2] \in Value /\ Here \in Slots(to) /\ step \in Nat
    BY <2>2, HereInRange DEF TypeOK
  <2>4. TypeOK'
    <3>1. \E n \in Sizes : Arrays(n)'
      BY <1>6, <2>3 DEF PutDown, TypeOK, Arrays
    <3>2. new' \in [Slots(to) -> {"live", "empty"}]
      BY <1>6, <2>3 DEF PutDown, TypeOK
    <3>3. old' \in [Slots(from.buckets) -> {"live", "deleted"}]
      BY <1>6 DEF PutDown, TypeOK
    <3>4. j' \in 0..from.buckets /\ step' \in Nat
      BY <1>0, <1>6, <2>2 DEF PutDown, TypeOK
    <3>5. hand' \in (Key \X Value) \cup {Nothing}
      BY <2>2
    <3> QED
      BY <1>6, <3>1, <3>2, <3>3, <3>4, <3>5 DEF PutDown, TypeOK
  <2>5. /\ Here \notin Settled /\ Settled' = Settled \cup {Here}
        /\ keys'[Here] = hand[1] /\ values'[Here] = hand[2]
        /\ \A x \in Waiting \cup Settled : x # Here => keys'[x] = keys[x] /\ values'[x] = values[x]
    BY <1>6, <2>2, SwapFacts DEF PutDown
  <2>6. Typed'
    BY <2>1, <2>5 DEF Typed
  <2>7. Behind'
    BY <1>0, <1>6, <2>1, <2>2 DEF PutDown, Behind, Waiting, Slots
  <2>8. NothingTwice'
    BY <2>1, <2>2, <2>5 DEF NothingTwice
  <2>9. Carried' = {}
    BY <2>2 DEF Carried
  <2>10. NothingLost'
    BY <1>6, <2>1, <2>2, <2>9, SwapKeeps DEF PutDown
  <2>11. InReach'
    BY <1>6, <2>2, SwapReaches DEF PutDown
  <2> QED
    BY <2>4, <2>6, <2>7, <2>8, <2>10, <2>11
<1> QED
  BY <1>1, <1>2, <1>3, <1>4, <1>5, <1>6 DEF Next

\* It is an invariant.
LEMMA SpecIInv == Spec => []IInv
  BY InitIInv, StepIInv, PTL DEF Spec

\* The loop's variables keep their types: neither array nor the flags are
\* ever indexed outside.
THEOREM Types == Spec => []TypeOK
  BY SpecIInv, PTL DEF IInv

\* No entry is overwritten before it has been picked up, and none is copied,
\* in tables of any size with any number of entries and any hasher.
THEOREM Conserved == Spec => [](NothingLost /\ NothingTwice)
  BY SpecIInv, PTL DEF IInv

\* When the loop ends, the new table holds exactly the entries of the old one,
\* each where a probe for its key reaches it.
THEOREM Complete ==
  Spec => [](Done => /\ Entries(Original, from.keys, from.values) = Entries(Settled, keys, values)
                     /\ \A x \in Settled : \E t \in Nat : x = Probe(keys[x], t)
                                                         /\ Reached(keys[x], t))
<1>1. ASSUME IInv, Done PROVE Waiting = {} /\ Carried = {}
  BY <1>1 DEF IInv, Done, TypeOK, Behind, Waiting, Slots, Carried
<1>2. IInv => (Done => /\ Entries(Original, from.keys, from.values) = Entries(Settled, keys, values)
                       /\ \A x \in Settled : \E t \in Nat : x = Probe(keys[x], t)
                                                           /\ Reached(keys[x], t))
  BY <1>1 DEF IInv, NothingLost, InReach, Entries
<1> QED
  BY <1>2, SpecIInv, PTL

----------------------------------------------------------------------------
(* The outcome is one of those the table's resize is specified by. *)

\* A key has one entry in the table the loop starts from, and a bucket no
\* entry has settled in shows what it showed then.
Distinct == \A x, y \in Original : from.keys[x] = from.keys[y] => x = y

Untouched ==
  \A x \in DOMAIN keys \ Settled : keys[x] = from.keys[x] /\ values[x] = from.values[x]

\* Distinct and Untouched hold of every table the loop starts from.
LEMMA InitDistinct == Init => Distinct /\ Untouched
<1> SUFFICES ASSUME Init PROVE Distinct /\ Untouched
  OBVIOUS
<1>1. PICK b \in Sizes, c \in Sizes, K \in SUBSET Key :
        \E at \in [K -> Slots(b)], v \in [K -> Value] :
          from = TableOf(b, IF b < c THEN c ELSE b, at, v)
  BY DEF Init
<1>2. PICK at \in [K -> Slots(b)], v \in [K -> Value] :
        from = TableOf(b, IF b < c THEN c ELSE b, at, v)
  BY <1>1
<1> DEFINE Room == IF b < c THEN c ELSE b
<1>3. /\ from.buckets = b
      /\ from.flags = [x \in Slots(b) |-> IF Taken(at, x) THEN "live" ELSE "deleted"]
      /\ from.keys = [x \in Slots(Room) |-> IF Taken(at, x) THEN KeyAt(at, x) ELSE Junk]
  BY <1>2 DEF TableOf
<1>4. ASSUME NEW x, Taken(at, x) PROVE at[KeyAt(at, x)] = x
  BY <1>4 DEF Taken, KeyAt
<1>5. b \in Nat /\ Room \in Nat /\ b <= Room
  BY RehashAssumption
<1>6. \A x \in Original : Taken(at, x) /\ from.keys[x] = KeyAt(at, x)
  BY <1>3, <1>5 DEF Original, Slots
<1> QED
  BY <1>4, <1>6 DEF Distinct, Untouched, Init

\* No iteration writes a bucket outside the settled ones, nor the table it began with.
LEMMA StepDistinct == IInv /\ Distinct /\ Untouched /\ [Next]_vars => Distinct' /\ Untouched'
<1> SUFFICES ASSUME IInv, Distinct, Untouched, [Next]_vars PROVE Distinct' /\ Untouched'
  OBVIOUS
<1>1. from' = from
  BY DEF Next, vars, Skip, TakeUp, Advance, Displace, PutDown, Swap
<1>2. Distinct'
  BY <1>1 DEF Distinct, Original
<1>3. CASE Displace \/ PutDown
  <2>1. /\ hand # Nothing /\ new[Here] = "empty"
        /\ new' = [new EXCEPT ![Here] = "live"]
        /\ keys' = [keys EXCEPT ![Here] = hand[1]]
        /\ values' = [values EXCEPT ![Here] = hand[2]]
        /\ UNCHANGED <<from, to>>
    BY <1>3 DEF Displace, PutDown, Swap
  <2>2. Settled' = Settled \cup {Here}
    BY <2>1, SwapFacts DEF IInv
  <2>3. \A x \in DOMAIN keys' \ Settled' : keys'[x] = keys[x] /\ values'[x] = values[x]
                                          /\ x \in DOMAIN keys \ Settled
    <3>1. PICK n \in Sizes : Arrays(n)
      BY DEF IInv, TypeOK
    <3> QED
      BY <2>1, <2>2, <3>1 DEF Arrays
  <2> QED
    BY <1>1, <1>2, <2>3 DEF Untouched
<1>4. CASE Skip \/ TakeUp \/ Advance \/ UNCHANGED vars
  BY <1>1, <1>2, <1>4 DEF Untouched, Settled, Skip, TakeUp, Advance, vars
<1> QED
  BY <1>3, <1>4 DEF Next

\* The first to steps of a probe visit the whole new table, each bucket once.
LEMMA ProbeVisits ==
  ASSUME NEW k \in Key, to \in Sizes
  PROVE  /\ \A x \in Slots(to) : \E t \in 0..(to - 1) : Probe(k, t) = x
         /\ \A t, u \in 0..(to - 1) : Probe(k, t) = Probe(k, u) => t = u
<1> DEFINE S == 0..(to - 1)
           f == [t \in S |-> Probe(k, t)]
<1>1. \A x \in S : \E t \in S : Probe(k, t) = x
  BY RehashAssumption DEF Probe
<1>2. to \in Nat
  BY RehashAssumption
<1>3. IsFiniteSet(S) /\ \A t \in S : t \in Nat
  BY <1>2, FS_Interval
<1>4. \A t \in S : Probe(k, t) \in S
  BY <1>3, ProbeInRange DEF Slots
<1> HIDE DEF S
<1>5. f \in Surjection(S, S)
  BY <1>1, <1>4 DEF Surjection
<1>6. f \in Injection(S, S)
  BY <1>3, <1>5, FS_SurjSameCardinalityImpliesInj
<1>7. \A t, u \in S : f[t] = f[u] => t = u
  BY <1>6 DEF Injection, IsInjective
<1> QED
  BY <1>1, <1>7 DEF Slots, S

\* A settled entry is reached within the first to steps of its probe.
LEMMA ReachedSoon ==
  ASSUME IInv, NEW x \in Settled
  PROVE  \E t \in 0..(to - 1) : x = Probe(keys[x], t) /\ Reached(keys[x], t)
<1>1. keys[x] \in Key /\ to \in Sizes /\ to \in Nat \ {0} /\ x \in Slots(to)
  BY RehashAssumption DEF IInv, InReach, TypeOK, Settled
<1>2. PICK t \in Nat : x = Probe(keys[x], t) /\ Reached(keys[x], t)
  BY DEF IInv, InReach
<1>3. PICK s \in 0..(to - 1) : Probe(keys[x], s) = x
  BY <1>1, ProbeVisits
<1>4. CASE t < to
  BY <1>1, <1>2, <1>4
<1>5. CASE ~(t < to)
  <2>1. \A u \in 0..(s - 1) : u \in 0..(t - 1)
    BY <1>1, <1>5
  <2> QED
    BY <1>2, <1>3, <2>1 DEF Reached
<1> QED
  BY <1>4, <1>5

\* The bound on the probe's length that Arranged states.
LEMMA ArrangedInReach == IInv => SettledInReach
<1> SUFFICES ASSUME IInv, NEW x \in Settled
             PROVE  \E t \in 0..to : /\ x = Probe(keys[x], t)
                                     /\ \A u \in 0..(t - 1) : Probe(keys[x], u) \in Settled
  BY DEF SettledInReach
<1>1. to \in Nat
  BY RehashAssumption DEF IInv, TypeOK
<1>2. PICK t \in 0..(to - 1) : x = Probe(keys[x], t) /\ Reached(keys[x], t)
  BY ReachedSoon
<1> QED
  BY <1>1, <1>2 DEF Reached

\* Buckets that lie on one probe, each once, are as many as its steps.
LEMMA StepsCounted ==
  ASSUME NEW k \in Key, to \in Sizes, NEW s \in 0..(to - 1), NEW S, IsFiniteSet(S),
         \A u \in 0..s : Probe(k, u) \in S
  PROVE  s \in 0..(Cardinality(S) - 1)
<1> DEFINE I == 0..s
           f == [u \in I |-> Probe(k, u)]
<1>1. to \in Nat /\ s \in Nat
  BY RehashAssumption
<1>2. \A t, u \in I : f[t] = f[u] => t = u
  <2>1. \A u \in I : u \in 0..(to - 1)
    BY <1>1
  <2> QED
    BY <2>1, ProbeVisits
<1>3. f \in Injection(I, S)
  BY <1>2 DEF Injection, IsInjective
<1>4. Cardinality(I) <= Cardinality(S) /\ Cardinality(S) \in Nat
  BY <1>3, FS_Injection, FS_CardinalityType
<1>5. Cardinality(I) = s + 1
  BY <1>1, FS_Interval
<1> QED
  BY <1>1, <1>4, <1>5

\* Where the loop has put the entry of bucket x.
Home == [x \in Original |-> CHOOSE y \in Settled : keys[y] = from.keys[x]]

\* Home takes each original entry, with its value, to a settled bucket, one to one and onto.
LEMMA HomeFacts ==
  ASSUME IInv, Distinct, Done
  PROVE  /\ \A x \in Original : /\ Home[x] \in Settled
                                /\ keys[Home[x]] = from.keys[x] /\ values[Home[x]] = from.values[x]
         /\ \A x, y \in Original : Home[x] = Home[y] => x = y
         /\ \A y \in Settled : \E x \in Original : Home[x] = y
<1>1. Entries(Original, from.keys, from.values) = Entries(Settled, keys, values)
  <2>1. Waiting = {} /\ Carried = {}
    BY DEF IInv, Done, TypeOK, Behind, Waiting, Slots, Carried
  <2> QED
    BY <2>1 DEF IInv, NothingLost, Entries
<1>2. \A x, y \in Settled : keys[x] = keys[y] => x = y
  BY DEF IInv, NothingTwice
<1>3. ASSUME NEW x \in Original
      PROVE  Home[x] \in Settled /\ keys[Home[x]] = from.keys[x] /\ values[Home[x]] = from.values[x]
  <2>1. <<from.keys[x], from.values[x]>> \in Entries(Settled, keys, values)
    BY <1>1 DEF Entries
  <2>2. PICK y \in Settled : keys[y] = from.keys[x] /\ values[y] = from.values[x]
    BY <2>1 DEF Entries
  <2>3. Home[x] \in Settled /\ keys[Home[x]] = from.keys[x]
    BY <2>2 DEF Home
  <2>4. Home[x] = y
    BY <1>2, <2>2, <2>3
  <2> QED
    BY <2>2, <2>4
<1>4. ASSUME NEW x \in Original, NEW y \in Original, Home[x] = Home[y] PROVE x = y
  BY <1>3, <1>4 DEF Distinct
<1>5. ASSUME NEW y \in Settled PROVE \E x \in Original : Home[x] = y
  <2>1. <<keys[y], values[y]>> \in Entries(Original, from.keys, from.values)
    BY <1>1 DEF Entries
  <2>2. PICK x \in Original : from.keys[x] = keys[y]
    BY <2>1 DEF Entries
  <2> QED
    BY <1>2, <1>3, <2>2
<1> QED
  BY <1>3, <1>4, <1>5

\* The table's own names for what it shares with the loop.
LEMMA TableNames ==
  /\ Table!Live(T) = Original
  /\ \A k, t : Table!Probe(to, k, t) = Probe(k, t)
  /\ Table!Slots(to) = Slots(to)
  /\ \A S : Table!Cardinality(S) = Cardinality(S)
BY DEF Table!Cardinality, Cardinality, Table!Live, Table!Slots, Table!Probe, T, Original, Slots, Probe

\* Where the loop has put the entries is a placement of the table's resize.
LEMMA HomeIsPlacement ==
  ASSUME IInv, Distinct, Done
  PROVE  Home \in Table!Placements(T, to)
<1> USE TableNames
<1>1. \A x \in Original : Home[x] \in Settled /\ keys[Home[x]] = from.keys[x]
  BY HomeFacts
<1>2. Home \in [Original -> Slots(to)]
  BY <1>1 DEF Home, Settled
<1>3. to \in Sizes /\ to \in Nat /\ from.buckets \in Nat
  BY RehashAssumption DEF IInv, TypeOK
<1>4. IsFiniteSet(Original) /\ IsFiniteSet(Settled) /\ Cardinality(Settled) <= Cardinality(Original)
      /\ Cardinality(Settled) \in Nat /\ Cardinality(Original) \in Nat
  <2>1. from.buckets - 1 \in Int /\ 0 \in Int
    BY <1>3
  <2>2. IsFiniteSet(Slots(from.buckets))
    BY <2>1, FS_Interval DEF Slots
  <2>3. Original \in SUBSET Slots(from.buckets)
    BY DEF Original
  <2>4. IsFiniteSet(Original)
    BY <2>2, <2>3, FS_Subset
  <2>5. Home \in Surjection(Original, Settled)
    BY <1>1, HomeFacts DEF Surjection, Home
  <2> QED
    BY <2>4, <2>5, FS_Surjection, FS_CardinalityType
<1>5. ASSUME NEW x \in Original
      PROVE  \E t \in 0..(Cardinality(Original) - 1) :
               /\ Home[x] = Probe(from.keys[x], t)
               /\ \A u \in 0..(t - 1) : \E y \in Original : Home[y] = Probe(from.keys[x], u)
  <2> DEFINE k == from.keys[x]
  <2>1. PICK t \in 0..(to - 1) : Home[x] = Probe(k, t) /\ Reached(k, t)
    BY <1>1, ReachedSoon
  <2>2. k \in Key
    BY <1>1 DEF IInv, InReach
  <2>3. \A u \in 0..t : Probe(k, u) \in Settled
    <3>1. \A u \in 0..t : u = t \/ u \in 0..(t - 1)
      BY <1>3
    <3> QED
      BY <1>1, <2>1, <3>1 DEF Reached
  <2> HIDE DEF k
  <2>4. t \in 0..(Cardinality(Settled) - 1)
    BY <1>3, <1>4, <2>2, <2>3, StepsCounted
  <2>5. t \in 0..(Cardinality(Original) - 1)
    BY <1>3, <1>4, <2>4
  <2>6. \A u \in 0..(t - 1) : Probe(k, u) \in Settled
    BY <2>1 DEF Reached
  <2>7. \A u \in 0..(t - 1) : \E y \in Original : Home[y] = Probe(k, u)
    BY <2>6, HomeFacts
  <2> QED
    BY <2>1, <2>5, <2>7 DEF k
<1>6. \A x, y \in Original : Home[x] = Home[y] => x = y
  BY HomeFacts
<1>7. T.keys = from.keys
  BY DEF T
<1> QED
  BY <1>2, <1>5, <1>6, <1>7 DEF Table!Placements

\* Both arrays at the end: an array after the loop is the one before with the
\* entries moved home.
LEMMA HomeMoves ==
  ASSUME IInv, Distinct, Done, NEW f, NEW g,
         DOMAIN f = DOMAIN g,
         \A x \in DOMAIN g \ Settled : g[x] = f[x],
         g = [x \in DOMAIN g |-> g[x]],
         \A x \in Original : g[Home[x]] = f[x]
  PROVE  g = Table!Move(f, T, Home)
<1> USE TableNames
<1> DEFINE m == Table!Move(f, T, Home)
<1>1. m = [i \in DOMAIN f |-> IF \E x \in Original : Home[x] = i
                              THEN f[CHOOSE x \in Original : Home[x] = i] ELSE f[i]]
  BY DEF Table!Move
<1>2. ASSUME NEW i \in DOMAIN g PROVE g[i] = m[i]
  <2>1. CASE i \in Settled
    <3>1. PICK x \in Original : Home[x] = i
      BY <2>1, HomeFacts
    <3>2. (CHOOSE y \in Original : Home[y] = i) = x
      BY <3>1, HomeFacts
    <3>3. m[i] = f[x]
      BY <1>1, <3>1, <3>2
    <3> QED
      BY <3>1, <3>3
  <2>2. CASE i \notin Settled
    <3>1. ~\E x \in Original : Home[x] = i
      BY <2>2, HomeFacts
    <3> QED
      BY <1>1, <2>2, <3>1
  <2> QED
    BY <2>1, <2>2
<1>3. DOMAIN m = DOMAIN g /\ m = [i \in DOMAIN m |-> m[i]]
  BY <1>1
<1> HIDE DEF m
<1>4. g = m
  BY <1>2, <1>3
<1> QED
  BY <1>4 DEF m

\* So at the end the arrays are those of one of the resize's outcomes.
LEMMA OutcomePlaced == IInv /\ Distinct /\ Untouched => OutcomeIsPlacement
<1> SUFFICES ASSUME IInv, Distinct, Untouched, Done
             PROVE  \E at \in Table!Placements(T, to) :
                      /\ Settled = {at[x] : x \in Original}
                      /\ keys = Table!Moved(T, at).keys
                      /\ values = Table!Moved(T, at).values
  BY DEF OutcomeIsPlacement
<1>1. Settled = {Home[x] : x \in Original}
  BY HomeFacts
<1>2. PICK n \in Sizes : Arrays(n)
  BY DEF IInv, TypeOK
<1>3. DOMAIN keys = Slots(n) /\ DOMAIN values = Slots(n)
      /\ DOMAIN from.keys = Slots(n) /\ DOMAIN from.values = Slots(n)
      /\ keys = [x \in DOMAIN keys |-> keys[x]] /\ values = [x \in DOMAIN values |-> values[x]]
  BY <1>2 DEF Arrays
<1>4. keys = Table!Move(from.keys, T, Home)
  BY <1>3, HomeFacts, HomeMoves DEF Untouched
<1>5. values = Table!Move(from.values, T, Home)
  BY <1>3, HomeFacts, HomeMoves DEF Untouched
<1>6. Table!Moved(T, Home).keys = Table!Move(from.keys, T, Home)
      /\ Table!Moved(T, Home).values = Table!Move(from.values, T, Home)
  <2> DEFINE K == Table!Move(T.keys, T, Home)
             V == Table!Move(T.values, T, Home)
  <2>1. T.keys = from.keys /\ T.values = from.values
    BY DEF T
  <2>2. Table!Moved(T, Home) = [T EXCEPT !.keys = K, !.values = V]
    BY DEF Table!Moved
  <2> HIDE DEF K, V
  <2>3. Table!Moved(T, Home).keys = K /\ Table!Moved(T, Home).values = V
    BY <2>2 DEF T
  <2> QED
    BY <2>1, <2>3 DEF K, V
<1> QED
  BY <1>1, <1>4, <1>5, <1>6, HomeIsPlacement

\* The loop keeps each entry once and within reach of its probe, and what it
\* leaves is one of the outcomes by which the table's resize is specified, in
\* both arrays and every bucket of them (hash_table.c:847-893).
THEOREM Arrangement == Spec => []Arranged
<1>1. Init => IInv /\ Distinct /\ Untouched
  BY InitIInv, InitDistinct
<1>2. IInv /\ Distinct /\ Untouched /\ [Next]_vars => (IInv /\ Distinct /\ Untouched)'
  BY StepIInv, StepDistinct
<1>3. IInv /\ Distinct /\ Untouched => Arranged
  BY ArrangedInReach, OutcomePlaced DEF Arranged, IInv
<1> QED
  BY <1>1, <1>2, <1>3, PTL DEF Spec
=============================================================================
