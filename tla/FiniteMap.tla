----------------------------- MODULE FiniteMap -----------------------------
(***************************************************************************)
(* What the hash table promises its callers: a finite map from keys to     *)
(* values whose every step changes one entry or clears them all.           *)
(***************************************************************************)
CONSTANTS Key, Value

VARIABLE map

Init == map = [k \in {} |-> {}]

\* A key that is already there keeps its value.
Insert(k, v) ==
  /\ k \notin DOMAIN map
  /\ map' = [j \in DOMAIN map \cup {k} |-> IF j = k THEN v ELSE map[j]]

\* Through the pointer an iteration hands its visitor.
Update(k, v) ==
  /\ k \in DOMAIN map
  /\ map' = [map EXCEPT ![k] = v]

Remove(k) ==
  /\ k \in DOMAIN map
  /\ map' = [j \in DOMAIN map \ {k} |-> map[j]]

Clear == map' = [k \in {} |-> {}]

Next ==
  \/ Clear
  \/ \E k \in Key : Remove(k) \/ \E v \in Value : Insert(k, v) \/ Update(k, v)

Spec == Init /\ [][Next]_map
=============================================================================
