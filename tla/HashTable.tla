----------------------------- MODULE HashTable -----------------------------
(***************************************************************************)
(* The open-addressing hash table of hash_table.c, shared by threads.      *)
(*                                                                         *)
(* Every exported call enters the table's mutex once and does all its work *)
(* inside, so it is one action - except contains, get and remove, which    *)
(* find the key in one critical section and use the iterator in a second:  *)
(* those are two actions of the calling thread, and other threads may run  *)
(* between them.                                                           *)
(*                                                                         *)
(* The probe loop is written in closed form: after t steps it looks at     *)
(* bucket Probe(b, k, t), and it stops at the first t that satisfies Stops.*)
(* Where the rehash loop leaves each entry depends on the order it moves   *)
(* them in; Placements gives every outcome in which an entry sits at the   *)
(* first free bucket of its probe, and module Rehash shows that the loop   *)
(* produces one of them.                                                   *)
(***************************************************************************)
EXTENDS Integers, FiniteSets

CONSTANTS
  Threads,     \* callers of the table
  Key,         \* key pointers; the table compares keys as pointers
  Hash,        \* Hash[k]: what the table's hasher returns for k
  Version,     \* Version[k]: tells apart the values inserted under k
  Sizes,       \* bucket counts there is memory for: powers of two from 4
  CanFail,     \* memory calls of a resize that may return NULL
  Junk         \* what memory nothing has initialised reads as

MemoryCalls == {"flags", "growKeys", "growValues", "shrinkKeys", "shrinkValues"}

\* Sizes are powers of two: each is at least twice the one before it, and a
\* quadratic probe of so many buckets visits every one.
ASSUME ConstantsAssumption ==
  /\ Hash \in [Key -> Nat]
  /\ Sizes \subseteq Nat /\ 4 \in Sizes
  /\ IsFiniteSet(Sizes)
  /\ \A b \in Sizes : b >= 4
  /\ \A b, c \in Sizes : b < c => 2 * b <= c
  /\ \A b \in Sizes : \A h, i \in 0..(b - 1) :
       \E t \in 0..(b - 1) : (h + (t * (t + 1)) \div 2) % b = i
  /\ CanFail \subseteq MemoryCalls

\* A value remembers the key it was inserted under.
Entry == UNION {{k} \X Version[k] : k \in Key}

VARIABLES
  open,   \* sm_hash_table_create has returned the object, destroy not yet
  tab,    \* the fields of sm_hash_table_t
  call,   \* per thread: the compound call it is in the middle of, its key and
          \* the iterator its first section found
  ret     \* per thread: what its last contains, get or remove returned

vars == <<open, tab, call, ret>>

Slots(b) == 0..(b - 1)

EmptyTable ==
  [buckets |-> 0, count |-> 0, occupied |-> 0, upper |-> 0,
   flags |-> [i \in {} |-> "empty"], keys |-> [i \in {} |-> Junk],
   values |-> [i \in {} |-> Junk]]

NoCall == [op |-> "idle", key |-> Junk, at |-> 0]

\* No result yet, or none a caller looks at.
NoReturn ==
  [op |-> "idle", key |-> Junk, rc |-> "NO_ERROR", value |-> Junk, found |-> FALSE]

----------------------------------------------------------------------------
(* Probing. *)

Live(T) == {i \in Slots(T.buckets) : T.flags[i] = "live"}
InUse(T) == {i \in Slots(T.buckets) : T.flags[i] # "empty"}

\* i = k & mask, then i = (i + ++step) & mask, after t steps.
Probe(b, k, t) == (Hash[k] + (t * (t + 1)) \div 2) % b

Holds(T, i, k) == T.flags[i] = "live" /\ T.keys[i] = k

\* Mutant of Stops: a deleted bucket ends the probe.
StopsAtDeleted(T, k, t) ==
  LET i == Probe(T.buckets, k, t)
  IN  \/ T.flags[i] # "live"
      \/ Holds(T, i, k)
      \/ t > 0 /\ i = Probe(T.buckets, k, 0)

\* The loop ends at an empty bucket, at the key, or back where it began.
Stops(T, k, t) ==
  LET i == Probe(T.buckets, k, t)
  IN  \/ T.flags[i] = "empty"
      \/ Holds(T, i, k)
      \/ t > 0 /\ i = Probe(T.buckets, k, 0)

ProbeLength(T, k) ==
  CHOOSE t \in 0..(2 * T.buckets) :
    /\ Stops(T, k, t)
    /\ \A u \in 0..(t - 1) : ~Stops(T, k, u)

ProbeEnd(T, k) == Probe(T.buckets, k, ProbeLength(T, k))

\* The iterator find returns; the bucket count stands for "absent".
Find(T, k) ==
  LET i == ProbeEnd(T, k) IN IF Holds(T, i, k) THEN i ELSE T.buckets

----------------------------------------------------------------------------
(* Resizing. *)

\* (uint64_t)(buckets * 0.77 + 0.5)
Upper(b) == (77 * b + 50) \div 100

\* The next power of two, at least 4 (--b wraps, so 0 asks for 4 as well).
LeastFor(n, b) == b >= n /\ \A c \in Sizes : c >= n => b <= c
CanRoundUp(n) == \E b \in Sizes : LeastFor(n, b)
RoundUp(n) == CHOOSE b \in Sizes : LeastFor(n, b)

Realloc(f, b) == [i \in Slots(b) |-> IF i \in DOMAIN f THEN f[i] ELSE Junk]

\* Where a rehash into b buckets may put each live entry of T: no two in one
\* bucket, and each behind taken buckets only.
Placements(T, b) ==
  {at \in [Live(T) -> Slots(b)] :
     /\ \A i, j \in Live(T) : at[i] = at[j] => i = j
     /\ \A i \in Live(T) :
          \E t \in 0..(Cardinality(Live(T)) - 1) :
            /\ at[i] = Probe(b, T.keys[i], t)
            /\ \A u \in 0..(t - 1) :
                 \E j \in Live(T) : at[j] = Probe(b, T.keys[i], u)}

\* Both arrays after the loop: a bucket nothing moved to keeps its old contents.
Move(f, T, at) ==
  [i \in DOMAIN f |->
     IF \E j \in Live(T) : at[j] = i
     THEN f[CHOOSE j \in Live(T) : at[j] = i] ELSE f[i]]

\* Mutant of Moved: the swap forgets the values.
KeysMoved(T, at) == [T EXCEPT !.keys = Move(T.keys, T, at)]

Moved(T, at) == [T EXCEPT !.keys = Move(T.keys, T, at), !.values = Move(T.values, T, at)]

\* Mutant of Grown: only one of the two arrays is made longer.
KeysGrown(T, b) ==
  IF T.buckets < b THEN [T EXCEPT !.keys = Realloc(T.keys, b)] ELSE T

Grown(T, b) ==
  IF T.buckets < b
  THEN [T EXCEPT !.keys = Realloc(T.keys, b), !.values = Realloc(T.values, b)]
  ELSE T

\* The table a successful resize to b buckets leaves.
Resized(T, b, at) ==
  LET M == Moved(Grown(T, b), at)
  IN  [buckets |-> b, count |-> T.count, occupied |-> T.count, upper |-> Upper(b),
       flags |-> [i \in Slots(b) |->
                    IF \E j \in Live(T) : at[j] = i THEN "live" ELSE "empty"],
       keys |-> IF T.buckets > b THEN Realloc(M.keys, b) ELSE M.keys,
       values |-> IF T.buckets > b THEN Realloc(M.values, b) ELSE M.values]

\* The rehash loop has marked every entry deleted in the old flags, and those
\* are the flags that stay when an array cannot be shrunk afterwards.
Wiped(T, at) ==
  [Moved(T, at) EXCEPT !.flags =
     [i \in Slots(T.buckets) |-> IF T.flags[i] = "live" THEN "deleted" ELSE T.flags[i]]]

\* What a resize that runs out of memory at one of its calls leaves.
FailedResizes(T, b) ==
  (IF "flags" \in CanFail \/ ("growKeys" \in CanFail /\ T.buckets < b)
   THEN {T} ELSE {})
  \cup (IF "growValues" \in CanFail /\ T.buckets < b
        THEN {[T EXCEPT !.keys = Realloc(T.keys, b)]} ELSE {})
  \cup (IF "shrinkKeys" \in CanFail /\ T.buckets > b
        THEN {Wiped(T, at) : at \in Placements(T, b)} ELSE {})
  \cup (IF "shrinkValues" \in CanFail /\ T.buckets > b
        THEN {[Wiped(T, at) EXCEPT !.keys = Realloc(@, b)] : at \in Placements(T, b)}
        ELSE {})

\* sm_hash_table_resize__ on T, asked for n buckets: [done, tab] outcomes.
ResizeOutcomes(T, n) ==
  IF ~CanRoundUp(n) THEN {[done |-> FALSE, tab |-> T]}
  ELSE LET b == RoundUp(n)
       IN  IF T.count >= Upper(b) THEN {[done |-> TRUE, tab |-> T]}
           ELSE {[done |-> TRUE, tab |-> Resized(T, b, at)] : at \in Placements(T, b)}
                \cup {[done |-> FALSE, tab |-> F] : F \in FailedResizes(T, b)}

----------------------------------------------------------------------------
(* Inserting. *)

\* Mutant of MakeRoom: the threshold is tested one insert too late.
MakeRoomLate(T) ==
  IF T.occupied < T.upper \/ (T.occupied = T.upper /\ T.buckets # 0)
  THEN {[done |-> TRUE, tab |-> T]}
  ELSE IF T.buckets > 2 * T.count THEN ResizeOutcomes(T, T.buckets - 1)
  ELSE ResizeOutcomes(T, T.buckets + 1)

\* Rehash in place when most buckets in use are deleted ones, else double.
MakeRoom(T) ==
  IF T.occupied < T.upper THEN {[done |-> TRUE, tab |-> T]}
  ELSE IF T.buckets > 2 * T.count THEN ResizeOutcomes(T, T.buckets - 1)
  ELSE ResizeOutcomes(T, T.buckets + 1)

\* The probe steps that looked at a deleted bucket before the probe ended.
DeletedSteps(T, k) ==
  {u \in 0..(ProbeLength(T, k) - 1) : T.flags[Probe(T.buckets, k, u)] = "deleted"}

\* The key's own bucket, else the last deleted bucket passed, else where the
\* probe ended.
InsertAt(T, k) ==
  LET D == DeletedSteps(T, k)
  IN  IF D = {} \/ Holds(T, ProbeEnd(T, k), k) THEN ProbeEnd(T, k)
      ELSE Probe(T.buckets, k, CHOOSE u \in D : \A w \in D : w <= u)

\* Mutant of Placed: a reused deleted bucket is counted as occupied again.
PlacedCountedTwice(T, k, v) ==
  LET x == InsertAt(T, k)
  IN  IF T.flags[x] = "live" THEN T
      ELSE [T EXCEPT !.keys[x] = k, !.values[x] = <<k, v>>, !.flags[x] = "live",
                     !.count = @ + 1, !.occupied = @ + 1]

\* A present key keeps its value.
Placed(T, k, v) ==
  LET x == InsertAt(T, k)
  IN  IF T.flags[x] = "live" THEN T
      ELSE [T EXCEPT !.keys[x] = k, !.values[x] = <<k, v>>, !.flags[x] = "live",
                     !.count = @ + 1,
                     !.occupied = IF T.flags[x] = "empty" THEN @ + 1 ELSE @]

Removed(T, i) ==
  IF i # T.buckets /\ T.flags[i] = "live"
  THEN [T EXCEPT !.flags[i] = "deleted", !.count = @ - 1]
  ELSE T

----------------------------------------------------------------------------
(* The calls. *)

Idle(t) == open /\ call[t].op = "idle"

Return(t, r) == ret' = [ret EXCEPT ![t] = r]

Init ==
  /\ open = FALSE
  /\ tab = EmptyTable
  /\ call = [t \in Threads |-> NoCall]
  /\ ret = [t \in Threads |-> NoReturn]

\* sm_hash_table_create; a failed one leaves nothing behind.
Create ==
  /\ ~open
  /\ open' = TRUE
  /\ tab' = EmptyTable
  /\ UNCHANGED <<call, ret>>

\* sm_hash_table_destroy; the caller sees to it that no call is under way.
Destroy ==
  /\ \A t \in Threads : Idle(t)
  /\ open' = FALSE
  /\ tab' = EmptyTable
  /\ ret' = [t \in Threads |-> NoReturn]
  /\ UNCHANGED call

\* A call that does all its work in one critical section.
OneSection(t) == Idle(t) /\ Return(t, NoReturn) /\ UNCHANGED <<open, call>>

\* sm_hash_table_clear; before the first insert there are no flags to clear.
Clear(t) ==
  /\ OneSection(t)
  /\ tab.buckets # 0
  /\ tab' = [tab EXCEPT !.flags = [i \in Slots(tab.buckets) |-> "empty"],
                        !.count = 0, !.occupied = 0]

\* sm_hash_table_resize.
Resize(t, n) ==
  /\ OneSection(t)
  /\ \E r \in ResizeOutcomes(tab, n) : tab' = r.tab

\* sm_hash_table_insert and sm_hash_table_set.
Insert(t, k, v) ==
  /\ OneSection(t)
  /\ \E r \in MakeRoom(tab) : tab' = IF r.done THEN Placed(r.tab, k, v) ELSE r.tab

\* sm_hash_table_remove_at with an iterator the caller has.
RemoveAt(t, i) ==
  /\ OneSection(t)
  /\ tab' = Removed(tab, i)

\* sm_hash_table_iterate, whose visitor stores through the value pointer.
Visit(t, i, v) ==
  /\ OneSection(t)
  /\ i \in Live(tab)
  /\ tab' = [tab EXCEPT !.values[i] = <<tab.keys[i], v>>]

\* The first section of contains, get and remove: sm_hash_table_find__.
Lookup(t, op, k) ==
  /\ Idle(t)
  /\ IF tab.buckets = 0
     THEN /\ Return(t, [NoReturn EXCEPT !.op = op, !.key = k, !.rc = "NOT_FOUND"])
          /\ UNCHANGED call
     ELSE /\ Return(t, NoReturn)
          /\ call' = [call EXCEPT ![t] = [op |-> op, key |-> k, at |-> Find(tab, k)]]
  /\ UNCHANGED <<open, tab>>

\* The second section of call op, returning r.
EndCall(t, op, r) ==
  /\ call[t].op = op
  /\ call' = [call EXCEPT ![t] = NoCall]
  /\ Return(t, [r EXCEPT !.op = op, !.key = call[t].key])
  /\ UNCHANGED open

\* What the flags of bucket i may read as: 16 buckets share a word, the spare
\* buckets of a word stay empty, and past the last word lies other memory.
FlagReads(T, i) ==
  IF i \in Slots(T.buckets) THEN {T.flags[i]}
  ELSE IF T.buckets < 16 /\ i < 16 THEN {"empty"}
  ELSE {"live", "deleted", "empty"}

\* sm_hash_table_remove_at__, which compares the iterator with the bucket
\* count for equality only.
EndRemove(t) ==
  LET i == call[t].at
  IN  /\ EndCall(t, "remove", NoReturn)
      /\ tab' \in IF i \in 0..tab.buckets THEN {Removed(tab, i)}
                  ELSE {tab} \cup {[tab EXCEPT !.count = @ - 1] :
                                     f \in FlagReads(tab, i) \cap {"live"}}

\* sm_hash_table_get_value__, which indexes the array without any test.
EndGet(t) ==
  LET i == call[t].at
  IN  /\ EndCall(t, "get", [NoReturn EXCEPT !.value =
                              IF i \in DOMAIN tab.values THEN tab.values[i] ELSE Junk])
      /\ UNCHANGED tab

\* sm_hash_table_exists_at__, likewise.
EndContains(t) ==
  /\ \E f \in FlagReads(tab, call[t].at) :
       EndCall(t, "contains", [NoReturn EXCEPT !.found = (f = "live")])
  /\ UNCHANGED tab

Next ==
  \/ Create
  \/ Destroy
  \/ \E t \in Threads :
       \/ Clear(t)
       \/ \E b \in Sizes : Resize(t, b)
       \/ \E k \in Key : \E v \in Version[k] : Insert(t, k, v)
       \/ \E i \in 0..tab.buckets : RemoveAt(t, i)
       \/ \E i \in Live(tab) : \E v \in Version[tab.keys[i]] : Visit(t, i, v)
       \/ \E op \in {"contains", "get", "remove"}, k \in Key : Lookup(t, op, k)
       \/ EndRemove(t) \/ EndGet(t) \/ EndContains(t)

Spec == Init /\ [][Next]_vars

----------------------------------------------------------------------------
(* Properties. *)

Bound == UNION {0..b : b \in Sizes \cup {0}}

FlagValue == {"empty", "live", "deleted"}

\* Every field of the table and every thread's call has its type: the flags
\* cover the buckets, and both arrays are indexed from zero.
TypeOK ==
  /\ open \in BOOLEAN
  /\ tab.buckets \in Sizes \cup {0}
  /\ tab.count \in Nat /\ tab.occupied \in Nat /\ tab.upper \in Nat
  /\ tab.flags \in [Slots(tab.buckets) -> FlagValue]
  /\ \E c \in Sizes \cup {0} : tab.keys \in [Slots(c) -> Key \cup {Junk}]
  /\ \E c \in Sizes \cup {0} : tab.values \in [Slots(c) -> Entry \cup {Junk}]
  /\ call \in [Threads -> [op : {"idle", "contains", "get", "remove"},
                           key : Key \cup {Junk}, at : Nat]]
  /\ ret \in [Threads -> [op : {"idle", "contains", "get", "remove"},
                          key : Key \cup {Junk}, rc : {"NO_ERROR", "NOT_FOUND"},
                          value : Entry \cup {Junk}, found : BOOLEAN]]

\* The counters tell the truth: count is the number of live buckets, occupied
\* the number of buckets that are not empty, and insert's threshold keeps
\* at least one bucket of every table empty (hash_table.c:343).
CountersAgree ==
  /\ tab.count = Cardinality(Live(tab))
  /\ tab.occupied = Cardinality(InUse(tab))
  /\ tab.occupied <= tab.upper
  /\ tab.buckets # 0 => tab.upper < tab.buckets

\* Types and counters together, after every call and every one that fails for
\* want of memory to grow; a failed shrink breaks the counters (899), which
\* CountIsElements below states.
TableConsistent == TypeOK /\ CountersAgree

\* No bucket lies outside the key and value arrays, whichever allocation or
\* growing reallocation of a resize has failed (812-836).  A failed shrink of the
\* keys (893-900) keeps it too; after one of the values (903-905) the keys are
\* already cut at 901 and shorter than the buckets, so "shrinkValues" is left
\* out of what may fail wherever this is stated.
SlotsBacked ==
  /\ Slots(tab.buckets) \subseteq DOMAIN tab.keys
  /\ Slots(tab.buckets) \subseteq DOMAIN tab.values

\* Every live entry is the one that find returns for its key: deletions,
\* rehashes and failed resizes never cut an entry off from its probe, and no
\* key is in two buckets.
EveryEntryFound == \A i \in Live(tab) : Find(tab, tab.keys[i]) = i

\* A probe for a key that is not in the table ends at an empty bucket, so an
\* insert always has somewhere to put it.
AbsentKeyFindsRoom ==
  tab.buckets # 0 =>
    \A k \in Key : Find(tab, k) = tab.buckets => tab.flags[ProbeEnd(tab, k)] = "empty"

\* Whatever was inserted, removed and re-hashed: probes find what is there
\* and end where it is not (find 264-290, insert 343).
ProbesReach == EveryEntryFound /\ AbsentKeyFindsRoom

\* The table as the map it stands for.
Contents ==
  [k \in {tab.keys[i] : i \in Live(tab)} |->
     tab.values[CHOOSE i \in Live(tab) : tab.keys[i] = k]]

Map == INSTANCE FiniteMap WITH map <- Contents, Value <- Entry
MapSpec == Map!Spec

\* contains answers TRUE for the keys of the map and for no other, get of a key
\* of the map reports no error and the map's value, and a remove that returns
\* leaves its key out of the map (260-326, 432-458).  Of a get for a key that
\* is absent it says nothing: the code answers NO_ERROR with what lies behind
\* the array (299), which GetReturnsOwnValue below states.
AnswersFromMap ==
  \A t \in Threads :
    LET r == ret[t]
    IN  /\ r.op = "contains" => (r.found <=> r.key \in DOMAIN Contents)
        /\ r.op = "get" /\ r.key \in DOMAIN Contents
             => r.rc = "NO_ERROR" /\ r.value = Contents[r.key]
        /\ r.op = "remove" => r.key \notin DOMAIN Contents

\* "Gets the value corresponding to the given key" (hash_table.h:129): a get
\* that reports no error returns a value inserted under that key.  No run has
\* it: the code breaks it for an absent key (299).
GetReturnsOwnValue ==
  \A t \in Threads : ret[t].op = "get" /\ ret[t].rc = "NO_ERROR" =>
    ret[t].value # Junk /\ ret[t].value[1] = ret[t].key

\* "Removes the entry corresponding to the specified key" (hash_table.h:132):
\* remove takes no other entry out.
RemoveTakesOwnKey ==
  [][\A t \in Threads : EndRemove(t) =>
       \A k \in DOMAIN Contents \ {call[t].key} : k \in DOMAIN Contents']_vars

\* "Gets the count of elements in the hash table" (hash_table.h:141).  No run
\* has it: the code breaks it where CanFail has "shrinkKeys" (899).
CountIsElements == tab.count = Cardinality(Live(tab))
=============================================================================
