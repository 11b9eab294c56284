------------------------------- MODULE Rehash -------------------------------
(***************************************************************************)
(* The re-hash loop of sm_hash_table_resize__ (hash_table.c:847-893), which *)
(* moves the entries of a table to their buckets for a new bucket count    *)
(* inside the same two arrays: putting an entry down may displace one that *)
(* has not been moved yet, and the loop carries that one on.               *)
(*                                                                         *)
(* The mutex is held throughout, so the steps here are the iterations of   *)
(* the loops and nothing runs between them.                                *)
(***************************************************************************)
EXTENDS Integers, FiniteSets

CONSTANTS Key, Value, Hash, Sizes, Junk, Nothing,
  MaxEntries   \* bounds the tables the loop starts from

\* Bucket counts are powers of two, which a quadratic probe visits whole.
ASSUME RehashAssumption ==
  /\ Hash \in [Key -> Nat]
  /\ Sizes \subseteq Nat \ {0}
  /\ \A b \in Sizes : \A k \in Key, x \in 0..(b - 1) :
       \E t \in 0..(b - 1) : (Hash[k] + (t * (t + 1)) \div 2) % b = x
  /\ Nothing \notin Key \X Value

VARIABLES
  from,   \* the table before the loop: buckets, flags, keys, values
  to,     \* the new bucket count
  j,      \* the outer loop's bucket
  hand,   \* the entry being carried, or Nothing
  step,   \* the probe's step for it
  old,    \* object->flags
  new,    \* flags
  keys,   \* object->keys
  values  \* object->values

vars == <<from, to, j, hand, step, old, new, keys, values>>

Slots(b) == 0..(b - 1)

Probe(k, t) == (Hash[k] + (t * (t + 1)) \div 2) % to

\* The bucket the carried entry's probe is at.
Here == Probe(hand[1], step)

\* The table of b buckets, in arrays of n, that has each key k of DOMAIN at in
\* bucket at[k], with value v[k].
Taken(at, x) == \E k \in DOMAIN at : at[k] = x
KeyAt(at, x) == CHOOSE k \in DOMAIN at : at[k] = x

TableOf(b, n, at, v) ==
  [buckets |-> b,
   flags |-> [x \in Slots(b) |-> IF Taken(at, x) THEN "live" ELSE "deleted"],
   keys |-> [x \in Slots(n) |-> IF Taken(at, x) THEN KeyAt(at, x) ELSE Junk],
   values |-> [x \in Slots(n) |-> IF Taken(at, x) THEN v[KeyAt(at, x)] ELSE Junk]]

\* Any table of at most MaxEntries entries with distinct keys, in arrays long
\* enough for both counts, and with room for them in the new count.
Init ==
  /\ \E b \in Sizes, c \in Sizes, K \in SUBSET Key :
       \E at \in [K -> Slots(b)], v \in [K -> Value] :
         /\ Cardinality(K) <= MaxEntries /\ Cardinality(K) < c
         /\ \A k, l \in K : at[k] = at[l] => k = l
         /\ from = TableOf(b, IF b < c THEN c ELSE b, at, v)
         /\ to = c
  /\ j = 0 /\ hand = Nothing /\ step = 0
  /\ old = from.flags
  /\ new = [x \in Slots(to) |-> "empty"]
  /\ keys = from.keys
  /\ values = from.values

\* The outer loop passes a bucket that holds nothing, or nothing any more.
Skip ==
  /\ hand = Nothing /\ j < from.buckets /\ old[j] # "live"
  /\ j' = j + 1
  /\ UNCHANGED <<from, to, hand, step, old, new, keys, values>>

\* It takes up the entry of a bucket not yet moved.
TakeUp ==
  /\ hand = Nothing /\ j < from.buckets /\ old[j] = "live"
  /\ hand' = <<keys[j], values[j]>>
  /\ step' = 0
  /\ old' = [old EXCEPT ![j] = "deleted"]
  /\ UNCHANGED <<from, to, j, new, keys, values>>

\* Mutant of Advance: the probe does not move on.
AdvanceNowhere ==
  /\ hand # Nothing /\ new[Here] # "empty"
  /\ step' = step
  /\ UNCHANGED <<from, to, j, hand, old, new, keys, values>>

\* The inner loop passes a bucket that is taken in the new table.
Advance ==
  /\ hand # Nothing /\ new[Here] # "empty"
  /\ step' = step + 1
  /\ UNCHANGED <<from, to, j, hand, old, new, keys, values>>

Swap ==
  /\ new' = [new EXCEPT ![Here] = "live"]
  /\ hand' = <<keys[Here], values[Here]>>
  /\ keys' = [keys EXCEPT ![Here] = hand[1]]
  /\ values' = [values EXCEPT ![Here] = hand[2]]
  /\ UNCHANGED <<from, to, j>>

\* Mutant of Displace: whatever the bucket shows is carried on.
DisplaceAnything ==
  /\ hand # Nothing /\ new[Here] = "empty" /\ Here < from.buckets
  /\ Swap /\ step' = 0
  /\ old' = [old EXCEPT ![Here] = "deleted"]

\* Mutant of Displace: the displaced entry is not marked as moved.
DisplaceUnmarked ==
  /\ hand # Nothing /\ new[Here] = "empty"
  /\ Here < from.buckets /\ old[Here] = "live"
  /\ Swap /\ step' = 0 /\ UNCHANGED old

\* An entry not moved yet sits in the bucket: swap with it and carry it on.
Displace ==
  /\ hand # Nothing /\ new[Here] = "empty"
  /\ Here < from.buckets /\ old[Here] = "live"
  /\ Swap /\ step' = 0
  /\ old' = [old EXCEPT ![Here] = "deleted"]

\* Mutant of PutDown: it overwrites an entry not moved yet.
PutDownBlindly ==
  /\ hand # Nothing /\ new[Here] = "empty"
  /\ new' = [new EXCEPT ![Here] = "live"]
  /\ keys' = [keys EXCEPT ![Here] = hand[1]]
  /\ values' = [values EXCEPT ![Here] = hand[2]]
  /\ hand' = Nothing /\ j' = j + 1 /\ step' = 0
  /\ UNCHANGED <<from, to, old>>

\* The bucket is free in both tables: the entry stays, the outer loop goes on.
PutDown ==
  /\ hand # Nothing /\ new[Here] = "empty"
  /\ ~(Here < from.buckets /\ old[Here] = "live")
  /\ new' = [new EXCEPT ![Here] = "live"]
  /\ keys' = [keys EXCEPT ![Here] = hand[1]]
  /\ values' = [values EXCEPT ![Here] = hand[2]]
  /\ hand' = Nothing /\ j' = j + 1 /\ step' = 0
  /\ UNCHANGED <<from, to, old>>

Done == hand = Nothing /\ j = from.buckets

Next == Skip \/ TakeUp \/ Advance \/ Displace \/ PutDown

\* The loop is one thread's straight-line code: it runs on.
Spec == Init /\ [][Next]_vars /\ WF_vars(Next)

----------------------------------------------------------------------------
(* Properties. *)

Original == {x \in Slots(from.buckets) : from.flags[x] = "live"}
Waiting == {x \in Slots(from.buckets) : old[x] = "live"}
Settled == {x \in Slots(to) : new[x] = "live"}

Entries(S, k, v) == {<<k[x], v[x]>> : x \in S}
Carried == IF hand = Nothing THEN {} ELSE {hand}

\* Both arrays have n slots, enough for the old count and for the new.
Arrays(n) ==
  /\ from.buckets <= n /\ to <= n
  /\ from.keys \in [Slots(n) -> Key \cup {Junk}]
  /\ from.values \in [Slots(n) -> Value \cup {Junk}]
  /\ keys \in [Slots(n) -> Key \cup {Junk}]
  /\ values \in [Slots(n) -> Value \cup {Junk}]

\* The loop's variables have their types.
TypeOK ==
  /\ from.buckets \in Sizes /\ to \in Sizes
  /\ from.flags \in [Slots(from.buckets) -> {"live", "deleted"}]
  /\ j \in 0..from.buckets /\ step \in Nat
  /\ hand \in (Key \X Value) \cup {Nothing}
  /\ old \in [Slots(from.buckets) -> {"live", "deleted"}]
  /\ new \in [Slots(to) -> {"live", "empty"}]
  /\ \E n \in Sizes : Arrays(n)

\* At every moment each entry of the table is waiting in its old bucket, in
\* the loop's hand, or settled in a new one: none is overwritten in the shared
\* arrays before it has been picked up.
NothingLost ==
  Entries(Original, from.keys, from.values)
    = Entries(Waiting, keys, values) \cup Entries(Settled, keys, values) \cup Carried

\* ... and it is in only one of those places.
NothingTwice ==
  /\ \A x \in Waiting : \A y \in Settled : keys[x] # keys[y]
  /\ \A x, y \in Waiting : keys[x] = keys[y] => x = y
  /\ \A x, y \in Settled : keys[x] = keys[y] => x = y
  /\ hand # Nothing => \A x \in Waiting : keys[x] # hand[1]
  /\ hand # Nothing => \A x \in Settled : keys[x] # hand[1]

\* A settled entry is behind taken buckets only, so a probe reaches it.
SettledInReach ==
  \A x \in Settled : \E t \in 0..to :
    /\ x = Probe(keys[x], t)
    /\ \A u \in 0..(t - 1) : Probe(keys[x], u) \in Settled

\* The loop leaves one of the outcomes the table's resize is specified by.
T == [buckets |-> from.buckets, flags |-> from.flags, keys |-> from.keys,
      values |-> from.values, count |-> Cardinality(Original),
      occupied |-> from.buckets, upper |-> 0]

Table == INSTANCE HashTable WITH
  Threads <- {}, Version <- [k \in Key |-> Value], CanFail <- {}, open <- TRUE, tab <- T,
  call <- [t \in {} |-> 0], ret <- [t \in {} |-> 0]

OutcomeIsPlacement ==
  Done => \E at \in Table!Placements(T, to) :
            /\ Settled = {at[x] : x \in Original}
            /\ keys = Table!Moved(T, at).keys
            /\ values = Table!Moved(T, at).values

\* The loop keeps each entry once and in reach of its probe, and leaves what
\* the table's resize is specified by.
Arranged == NothingTwice /\ SettledInReach /\ OutcomeIsPlacement

\* Every entry is put down in the end: no chain of displacements and no
\* probe goes on for ever.
LoopEnds == <>Done
=============================================================================
