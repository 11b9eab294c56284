--------------------------- MODULE ContextProofs ---------------------------
(***************************************************************************)
(* The safety properties of module Context, for any threads, contexts and  *)
(* handlers, and any number of failures and of entities asked for.         *)
(*                                                                         *)
(* The invariant follows each load of an entity step by step.  While one   *)
(* load alone works on it, what has been done to its bytes, its checksum   *)
(* and its key is known from the load's place; that keeps the entity       *)
(* loadable, if the function and the table it is checked with are right.   *)
(* Where loads overlap, only this survives: wrong bytes have no checksum   *)
(* that is a key's, so a load that comes out wrong has skipped the check   *)
(* and dropped the checksum.                                               *)
(***************************************************************************)
EXTENDS Context, TLAPS

Decoded == {"recode", "check", "sum", "compare", "stamp", "drop", "rekey"}

Fields == Entities \cup {"initialized", "available", "entropy"}

ContextType ==
    [life : {"none", "creating", "alive", "gone"}, allocator : Allocators,
     stored : SUBSET Fields, code : [Entities -> Contents],
     lock : {"raw", "built", "gone"}, random : {"raw", "built", "gone"},
     initialized : BOOLEAN, available : {0, 1, 255}, seeded : BOOLEAN,
     error : Handlers \cup {Null}]

CallType ==
    [op : {"idle", "create", "get"},
     pc : AtWork \cup {"idle", "load", "finish", "report"},
     c : Contexts \cup {Null}, e : Entities \cup {Null}, key2 : Keys \cup {Null},
     r : Contents, sum : Keys \cup {Null, Junk}]

\* A thread at a load has everything it works with.
AtLoad(x) ==
    /\ x.op \in {"create", "get"} /\ x.c \in Contexts
    /\ x.e \in Entities /\ x.key2 \in Keys

Typed ==
    /\ key \in [Entities -> Keys]
    /\ crc \in [Entities -> Keys \cup {Dropped}]
    /\ data \in [Entities -> Keys \cup {Junk}]
    /\ ctx \in [Contexts -> ContextType]
    /\ call \in [Threads -> CallType]
    /\ failures \in 0 .. MaxFailures
    /\ gets \in 0 .. MaxGets
    /\ \A t \in Threads :
        /\ call[t].pc \in AtWork \cup {"load"} => AtLoad(call[t])
        /\ call[t].pc = "finish" => call[t].op = "create" /\ call[t].c \in Contexts

\* What a load holds, by its place: a result after the decoding, the checksum
\* of no key for a wrong one, and a right one once the check is passed.
Result(x) ==
    /\ x.pc \in Decoded => x.r \in {Plain, Junk}
    /\ x.pc = "compare" => x.sum = Junk \/ x.r = Plain
    /\ x.pc = "stamp" => x.r = Plain

\* A load that is about to return wrong code has dropped the checksum.
HoldsResult ==
    \A t \in Threads :
        /\ Result(call[t])
        /\ call[t].pc = "rekey" /\ call[t].r = Junk => call[t].e \in dropped

\* What is known of an entity that loads never shared: it is loadable when
\* none is at work on it, one at most is, and how far that one has got with its
\* bytes, its checksum and its key follows from the load's place.
Known(e) ==
    /\ Loading(e) = {} => data[e] = key[e] /\ crc[e] \in {Dropped, key[e]}
    /\ \A t, u \in Loading(e) : t = u
    /\ \A t \in Loading(e) :
        LET at == call[t].pc  k == call[t].key2
        IN  /\ data[e] = IF at \in Decoded \ {"recode"} THEN k ELSE key[e]
            /\ crc[e] \in {Dropped, IF at = "rekey" THEN k ELSE key[e]}
            /\ at \in Decoded => call[t].r = Plain
            /\ at \in {"sum", "compare"} => crc[e] = key[e]
            /\ at = "compare" => call[t].sum = key[e]

AllKnown == \A e \in Entities : ~Shared(e) => Known(e)

\* Wrong code that a context keeps.
WrongKept ==
    \A e \in Entities, c \in Contexts :
        ctx[c].code[e] = Junk => Shared(e) /\ e \in dropped

\* A context is in the hands of one sm_create until that returns.
OneCreator ==
    /\ \A t \in Threads : call[t].op = "create" =>
        call[t].c \in Contexts /\ ctx[call[t].c].life = "creating"
    /\ \A t, u \in Threads :
        call[t].op = "create" /\ call[u].op = "create" /\ call[t].c = call[u].c => t = u

IInv ==
    /\ Typed
    /\ HoldsResult
    /\ WrongKept
    /\ AllKnown
    /\ OneCreator
    /\ GeneratorReady
    /\ NothingLeft

----------------------------------------------------------------------------
(* The outcomes of the calls on a context. *)

\* The entities are the four that Order lists.
LEMMA FourEntities ==
  /\ Entities = {"tab_64", "crc_64", "exists", "next"}
  /\ Order[1] \in Entities /\ Order[2] \in Entities
  /\ Order[3] \in Entities /\ Order[4] \in Entities
  /\ "crc_64" \in Fields /\ "exists" \in Fields /\ "next" \in Fields
BY DEF Entities, Order, Range, Fields

\* What the steps of sm_create store in a context keeps its fields' types.
LEMMA ContextFields ==
  ASSUME NEW x \in ContextType
  PROVE  /\ [x EXCEPT !.life = "creating", !.allocator = "space"] \in ContextType
         /\ \A h \in Handlers \cup {Null} : [x EXCEPT !.lock = "built", !.error = h] \in ContextType
         /\ \A s \in SUBSET Fields : [x EXCEPT !.stored = s, !.initialized = FALSE] \in ContextType
         /\ [x EXCEPT !.available = 255] \in ContextType
         /\ [x EXCEPT !.random = "built", !.life = "alive"] \in ContextType
<1>1. [x EXCEPT !.life = "creating", !.allocator = "space"] \in ContextType
  BY DEF ContextType, Allocators
<1>2. ASSUME NEW h \in Handlers \cup {Null}
      PROVE  [x EXCEPT !.lock = "built", !.error = h] \in ContextType
  BY DEF ContextType
<1>3. ASSUME NEW s \in SUBSET Fields
      PROVE  [x EXCEPT !.stored = s, !.initialized = FALSE] \in ContextType
  BY DEF ContextType
<1>4. [x EXCEPT !.available = 255] \in ContextType
  BY DEF ContextType
<1>5. [x EXCEPT !.random = "built", !.life = "alive"] \in ContextType
  BY DEF ContextType
<1> QED
  BY <1>1, <1>2, <1>3, <1>4, <1>5

\* An outcome of x: a context and the fate of the process.
IsOutcome(o) == o = [x |-> o.x, fate |-> o.fate]

\* The two ways to end a call.
LEMMA RunsOutcome ==
  ASSUME NEW x
  PROVE  IsOutcome(Runs(x)) /\ Runs(x).x = x /\ Runs(x).fate = "runs"
BY DEF Runs, IsOutcome

\* A call the process does not survive.
LEMMA EndsOutcome ==
  ASSUME NEW x, NEW why
  PROVE  IsOutcome(Ends(x, why)) /\ Ends(x, why).x = x /\ Ends(x, why).fate = why
BY DEF Ends, IsOutcome

\* What may be a wrong call leaves the context as it is.
LEMMA UnlessOutcome ==
  ASSUME NEW x, NEW bad \in BOOLEAN, NEW why, NEW o \in Unless(bad, x, why)
  PROVE  IsOutcome(o) /\ o.x = x
<1>1. o = Runs(x) \/ o = Ends(x, why)
  BY DEF Unless
<1> QED
  BY <1>1, RunsOutcome, EndsOutcome

\* So do calls through a field and of a function, and entering a mutex.
LEMMA CallOutcome ==
  ASSUME NEW x, NEW f, NEW e, NEW o \in CallField(x, f) \cup CallCode(x, e) \cup EnterRandom(x)
  PROVE  IsOutcome(o) /\ o.x = x
<1>1. CASE o \in CallField(x, f)
  BY <1>1, UnlessOutcome DEF CallField
<1>2. CASE o \in CallCode(x, e)
  BY <1>2, UnlessOutcome DEF CallCode
<1>3. CASE o \in EnterRandom(x)
  BY <1>3, UnlessOutcome DEF EnterRandom
<1> QED
  BY <1>1, <1>2, <1>3

\* So does computing a checksum.
LEMMA CrcOutcome ==
  ASSUME NEW x, NEW o \in CallCrc(x)
  PROVE  IsOutcome(o) /\ o.x = x
<1> DEFINE Looked(y) == {IF y.code["tab_64"] = Null THEN Ends(y, "read through NULL") ELSE Runs(y)}
<1>1. ASSUME NEW y, NEW p \in Looked(y) PROVE IsOutcome(p) /\ p.x = y
  <2>1. p = Ends(y, "read through NULL") \/ p = Runs(y)
    OBVIOUS
  <2>2. CASE p = Ends(y, "read through NULL")
    BY <2>2, EndsOutcome
  <2>3. CASE p = Runs(y)
    BY <2>3, RunsOutcome
  <2> QED
    BY <2>1, <2>2, <2>3
<1>2. o \in Then(CallCode(x, "crc_64"), Looked)
  BY DEF CallCrc
<1> HIDE DEF Looked
<1>3. PICK p \in CallCode(x, "crc_64") : o \in IF p.fate = "runs" THEN Looked(p.x) ELSE {p}
  BY <1>2 DEF Then
<1> QED
  BY <1>1, <1>3, CallOutcome

\* What drawing leaves alone: all of the context but its generator.
Rest(x, y) ==
  /\ y \in ContextType
  /\ y.life = x.life /\ y.allocator = x.allocator /\ y.stored = x.stored
  /\ y.code = x.code /\ y.lock = x.lock /\ y.random = x.random /\ y.error = x.error

Drew(x, y) == Rest(x, y) /\ (x.initialized => y = x)

Source(x, n) == [x EXCEPT !.available = n]

\* The probe stores which source there is, the first time.
LEMMA ProbeOutcome ==
  ASSUME NEW x \in ContextType, NEW o \in Probe(x)
  PROVE  \/ o = Runs(x) /\ x.available # 255
         \/ IsOutcome(o) /\ o.x = x /\ o.fate # "runs"
         \/ o = Runs(Source(x, 1)) /\ x.code["exists"] # Null /\ x.code["next"] # Null
         \/ o = Runs(Source(x, 0))
<1> DEFINE has == {"exists", "next"} \subseteq x.stored
           codes == x.code["exists"] # Null /\ x.code["next"] # Null
           Absent(y) == {Runs([y EXCEPT !.available = 0])}
<1>1. CASE x.available # 255
  BY <1>1 DEF Probe
<1>2. CASE x.available = 255 /\ has /\ codes
  <2>1. PICK p \in CallCode(x, "exists") :
          o \in IF p.fate = "runs" THEN {Runs([p.x EXCEPT !.available = IF rdrand THEN 1 ELSE 0])} ELSE {p}
    BY <1>2 DEF Probe, Then
  <2>2. IsOutcome(p) /\ p.x = x
    BY <2>1, CallOutcome
  <2>3. CASE p.fate = "runs"
    BY <1>2, <2>1, <2>2, <2>3 DEF Source
  <2>4. CASE p.fate # "runs"
    BY <2>1, <2>2, <2>4
  <2> QED
    BY <2>3, <2>4
<1>3. CASE x.available = 255 /\ ~(has /\ codes)
  <2> DEFINE X == Unless(~has, x, "wild call")
  <2>1. o \in Then(X, Absent)
    BY <1>3 DEF Probe
  <2>2. \A p \in X : IsOutcome(p) /\ p.x = x
    BY UnlessOutcome
  <2> HIDE DEF X
  <2>3. PICK p \in X : o \in IF p.fate = "runs" THEN Absent(p.x) ELSE {p}
    BY <2>1 DEF Then
  <2>4. CASE p.fate = "runs"
    BY <2>2, <2>3, <2>4 DEF Source
  <2>5. CASE p.fate # "runs"
    BY <2>2, <2>3, <2>5
  <2> QED
    BY <2>4, <2>5
<1> QED
  BY <1>1, <1>2, <1>3

\* The draw itself changes no field that the model keeps.
LEMMA DrawOutcome ==
  ASSUME NEW x, NEW o \in DrawNext(x)
  PROVE  IsOutcome(o) /\ o.x = x
<1>1. CASE x.available = 1 /\ x.code["next"] # Null
  BY <1>1, CallOutcome DEF DrawNext
<1>2. CASE ~(x.available = 1 /\ x.code["next"] # Null)
  <2> DEFINE Raw(y) == Unless(~y.seeded, y, "drew from a raw state")
  <2>1. o \in Then(EnterRandom(x), Raw)
    BY <1>2 DEF DrawNext
  <2>2. \A y, p : p \in Raw(y) => IsOutcome(p) /\ p.x = y
    BY UnlessOutcome
  <2> HIDE DEF Raw
  <2>3. PICK p \in EnterRandom(x) : o \in IF p.fate = "runs" THEN Raw(p.x) ELSE {p}
    BY <2>1 DEF Then
  <2> QED
    BY <2>2, <2>3, CallOutcome
<1> QED
  BY <1>1, <1>2

\* A generator that sm_random can draw from.
Ready(x) ==
  /\ x.initialized /\ x.random = "built"
  /\ \/ x.available = 1 /\ x.code["exists"] # Null /\ x.code["next"] # Null
     \/ x.available = 0 /\ x.seeded

\* The probe and the seeding write fields of the generator.
LEMMA SourceRest ==
  ASSUME NEW x \in ContextType, NEW n \in {0, 1}
  PROVE  Rest(x, Source(x, n)) /\ Source(x, n).available = n /\ Source(x, n).initialized = x.initialized
BY DEF Source, Rest, ContextType

\* Seeding ends the initialization; only the instruction needs no seed.
LEMMA SeedOutcome ==
  ASSUME NEW x \in ContextType, NEW o \in SeedState(x)
  PROVE  /\ IsOutcome(o) /\ Rest(x, o.x) /\ o.x.initialized
         /\ o.x.available = x.available /\ (x.available # 1 => o.x.seeded)
<1>1. CASE x.available = 1
  <2> DEFINE y == [x EXCEPT !.initialized = TRUE]
  <2>1. Rest(x, y) /\ y.initialized /\ y.available = x.available
    BY DEF Rest, ContextType
  <2>2. o = Runs(y)
    BY <1>1 DEF SeedState
  <2> QED
    BY <1>1, <2>1, <2>2, RunsOutcome, EndsOutcome
<1>2. CASE x.available # 1
  <2> DEFINE y == [x EXCEPT !.initialized = TRUE, !.seeded = TRUE]
  <2>1. Rest(x, y) /\ y.initialized /\ y.available = x.available /\ y.seeded
    BY DEF Rest, ContextType
  <2>2. o = Runs(y)
    BY <1>2 DEF SeedState
  <2> QED
    BY <1>2, <2>1, <2>2, RunsOutcome, EndsOutcome
<1> QED
  BY <1>1, <1>2

\* Initializing the generator makes it ready, when it runs to the end.
LEMMA InitializeOutcome ==
  ASSUME NEW x \in ContextType, NEW o \in RandomInitialize(x)
  PROVE  /\ IsOutcome(o) /\ Rest(x, o.x)
         /\ o.fate = "runs" /\ x.available = 255 /\ x.random = "built" => Ready(o.x)
<1>1. PICK p \in EnterRandom(x) : o \in IF p.fate = "runs" THEN Then(Probe(p.x), SeedState) ELSE {p}
  BY DEF RandomInitialize, Then
<1>2. IsOutcome(p) /\ p.x = x
  BY CallOutcome
<1>3. Rest(x, x)
  BY DEF Rest
<1>4. CASE p.fate # "runs"
  BY <1>1, <1>2, <1>3, <1>4
<1>5. CASE p.fate = "runs"
  <2>1. PICK q \in Probe(x) : o \in IF q.fate = "runs" THEN SeedState(q.x) ELSE {q}
    BY <1>1, <1>2, <1>5 DEF Then
  <2>2. CASE q.fate # "runs"
    <3>1. IsOutcome(q) /\ q.x = x
      BY <2>2, ProbeOutcome DEF Runs
    <3> QED
      BY <1>3, <2>1, <2>2, <3>1
  <2>3. CASE q.fate = "runs"
    <3>1. /\ Rest(x, q.x)
          /\ x.available = 255 =>
               \/ q.x.available = 0
               \/ q.x.available = 1 /\ x.code["exists"] # Null /\ x.code["next"] # Null
      BY <1>3, <2>3, ProbeOutcome, RunsOutcome, EndsOutcome, SourceRest
    <3>2. /\ IsOutcome(o) /\ Rest(q.x, o.x) /\ o.x.initialized
          /\ o.x.available = q.x.available /\ (q.x.available # 1 => o.x.seeded)
      BY <2>1, <2>3, <3>1, SeedOutcome DEF Rest
    <3> QED
      BY <3>1, <3>2 DEF Ready, Rest
  <2> QED
    BY <2>2, <2>3
<1> QED
  BY <1>4, <1>5

\* Drawing a number: at most the generator of the context is initialized.
LEMMA RandomOutcome ==
  ASSUME NEW x \in ContextType, NEW o \in Random(x)
  PROVE  /\ IsOutcome(o) /\ Drew(x, o.x)
         /\ ~x.initialized /\ "initialized" \in x.stored /\ x.available = 255 /\ x.random = "built"
              /\ o.fate = "runs" => Ready(o.x)
<1>1. Drew(x, x)
  BY DEF Drew, Rest
<1>2. CASE "initialized" \notin x.stored
  BY <1>1, <1>2, UnlessOutcome DEF Random
<1>3. CASE "initialized" \in x.stored
  <2>1. PICK p \in IF x.initialized THEN {Runs(x)} ELSE RandomInitialize(x) :
          o \in IF p.fate = "runs" THEN DrawNext(p.x) ELSE {p}
    BY <1>3 DEF Random, Then
  <2>2. CASE x.initialized
    <3>1. p.x = x /\ p.fate = "runs"
      BY <2>1, <2>2, RunsOutcome, EndsOutcome
    <3>2. IsOutcome(o) /\ o.x = x
      BY <2>1, <3>1, DrawOutcome
    <3> QED
      BY <1>1, <2>2, <3>2
  <2>3. CASE ~x.initialized
    <3>1. /\ IsOutcome(p) /\ Rest(x, p.x) /\ Drew(x, p.x)
          /\ p.fate = "runs" /\ x.available = 255 /\ x.random = "built" => Ready(p.x)
      BY <2>1, <2>3, InitializeOutcome DEF Drew
    <3>2. CASE p.fate = "runs"
      <4>1. IsOutcome(o) /\ o.x = p.x
        BY <2>1, <3>2, DrawOutcome
      <4> QED
        BY <3>1, <3>2, <4>1
    <3>3. CASE p.fate # "runs"
      BY <2>1, <3>1, <3>3
    <3> QED
      BY <3>2, <3>3
  <2> QED
    BY <2>2, <2>3
<1> QED
  BY <1>2, <1>3

\* What a sequence of draws and freed entities leaves alone.
Freed(x, y) ==
  /\ y \in ContextType
  /\ y.life = x.life /\ y.allocator = x.allocator
  /\ y.lock = x.lock /\ y.random = x.random /\ y.error = x.error
  /\ \A e \in Entities : y.code[e] \in {Null, x.code[e]}

\* A call through the context's method draws, or is a wild call.
LEMMA MethodOutcome ==
  ASSUME NEW x \in ContextType, NEW o \in Method(x)
  PROVE  IsOutcome(o) /\ Drew(x, o.x)
<1>1. PICK p \in CallField(x, "method") : o \in IF p.fate = "runs" THEN Random(p.x) ELSE {p}
  BY DEF Method, Then
<1>2. IsOutcome(p) /\ p.x = x
  BY CallOutcome
<1>3. Drew(x, x)
  BY DEF Drew, Rest
<1> QED
  BY <1>1, <1>2, <1>3, RandomOutcome

\* Freeing an entity clears its pointer.
LEMMA FreeEntityOutcome ==
  ASSUME NEW x \in ContextType, NEW e \in Entities, NEW o \in FreeEntity(x, e)
  PROVE  IsOutcome(o) /\ Freed(x, o.x)
<1> DEFINE y == [x EXCEPT !.code[e] = Null]
           Cleared(z) == {IF x.code[e] = Null THEN Ends(z, "wrote through NULL") ELSE Runs(z)}
<1>1. y \in ContextType /\ Freed(x, y)
  BY DEF ContextType, Freed, Contents
<1> HIDE DEF y
<1>2. o \in Then(Method(y), Cleared)
  BY DEF FreeEntity, y
<1>3. PICK p \in Method(y) : o \in IF p.fate = "runs" THEN Cleared(p.x) ELSE {p}
  BY <1>2 DEF Then
<1>4. IsOutcome(p) /\ Drew(y, p.x)
  BY <1>1, MethodOutcome
<1>5. IsOutcome(o) /\ o.x = p.x
  <2>1. o = p \/ o = Ends(p.x, "wrote through NULL") \/ o = Runs(p.x)
    BY <1>3
  <2>2. CASE o = p
    BY <1>4, <2>2
  <2>3. CASE o = Ends(p.x, "wrote through NULL")
    BY <2>3, EndsOutcome
  <2>4. CASE o = Runs(p.x)
    BY <2>4, RunsOutcome
  <2> QED
    BY <2>1, <2>2, <2>3, <2>4
<1> QED
  BY <1>1, <1>4, <1>5 DEF Drew, Rest, Freed

\* Freeing them all.
LEMMA FreeEntitiesOutcome ==
  ASSUME NEW x \in ContextType, NEW o \in FreeEntities(x)
  PROVE  IsOutcome(o) /\ Freed(x, o.x)
<1> DEFINE Free(X, i) == Then(X, LAMBDA y : FreeEntity(y, Order[i]))
           Fine(X) == \A p \in X : IsOutcome(p) /\ Freed(x, p.x)
<1>1. ASSUME NEW X, Fine(X), NEW i \in 1..4 PROVE Fine(Free(X, i))
  <2> SUFFICES ASSUME NEW q \in Free(X, i) PROVE IsOutcome(q) /\ Freed(x, q.x)
    OBVIOUS
  <2>1. PICK p \in X : q \in IF p.fate = "runs" THEN FreeEntity(p.x, Order[i]) ELSE {p}
    BY DEF Then
  <2>2. Order[i] \in Entities
    BY FourEntities DEF Order
  <2>3. p.x \in ContextType
    BY <1>1 DEF Freed
  <2>4. CASE p.fate = "runs"
    <3>1. IsOutcome(q) /\ Freed(p.x, q.x)
      BY <2>1, <2>2, <2>3, <2>4, FreeEntityOutcome
    <3> QED
      BY <1>1, <3>1 DEF Freed
  <2>5. CASE p.fate # "runs"
    BY <1>1, <2>1, <2>5
  <2> QED
    BY <2>4, <2>5
<1>2. CASE build = "debug"
  BY <1>2, RunsOutcome, EndsOutcome DEF FreeEntities, Freed
<1>3. CASE build # "debug"
  <2>1. o \in Free(Free(Free(FreeEntity(x, Order[1]), 2), 3), 4)
    BY <1>3 DEF FreeEntities
  <2>2. Fine(FreeEntity(x, Order[1]))
    BY FourEntities, FreeEntityOutcome
  <2> HIDE DEF Free, Fine
  <2>3. Fine(Free(FreeEntity(x, Order[1]), 2))
    BY <1>1, <2>2
  <2>4. Fine(Free(Free(FreeEntity(x, Order[1]), 2), 3))
    BY <1>1, <2>3
  <2>5. Fine(Free(Free(Free(FreeEntity(x, Order[1]), 2), 3), 4))
    BY <1>1, <2>4
  <2> QED
    BY <2>1, <2>5 DEF Fine
<1> QED
  BY <1>2, <1>3

\* What follows the loads leaves a generator that is ready, if it runs.
LEMMA FinishOutcome ==
  ASSUME NEW x \in ContextType, NEW o \in Then(Random(Settled(x)), OwnChecksum)
  PROVE  /\ IsOutcome(o) /\ Rest(Settled(x), o.x)
         /\ o.fate = "runs" => Ready(o.x)
<1> DEFINE y == Settled(x)
<1>0. y.stored = x.stored \cup {"initialized", "available", "entropy"}
  BY DEF Settled, ContextType
<1>1. /\ y \in ContextType /\ "initialized" \in y.stored /\ ~y.initialized
      /\ y.available = 255 /\ y.random = "built"
  <2>1. y = [x EXCEPT !.stored = x.stored \cup {"initialized", "available", "entropy"},
                      !.initialized = FALSE, !.available = 255, !.random = "built", !.life = "alive"]
    BY DEF Settled
  <2>2. x.stored \cup {"initialized", "available", "entropy"} \in SUBSET Fields
    BY DEF ContextType, Fields
  <2>3. y.initialized = FALSE /\ y.available = 255 /\ y.random = "built"
    BY <2>1 DEF ContextType
  <2>4. PICK z : z = [x EXCEPT !.stored = x.stored \cup {"initialized", "available", "entropy"},
                               !.initialized = FALSE]
    OBVIOUS
  <2>5. z \in ContextType
    BY <2>2, <2>4, ContextFields
  <2>6. PICK w : w = [z EXCEPT !.available = 255]
    OBVIOUS
  <2>8. y = [w EXCEPT !.random = "built", !.life = "alive"]
    BY <2>1, <2>4, <2>6 DEF ContextType
  <2> HIDE DEF y
  <2>9. w \in ContextType
    BY <2>5, <2>6, ContextFields
  <2>7. y \in ContextType
    BY <2>8, <2>9, ContextFields
  <2> QED
    BY <1>0, <2>3, <2>7
<1>2. \A z, p : p \in OwnChecksum(z) => IsOutcome(p) /\ p.x = z
  <2> SUFFICES ASSUME NEW z, NEW p \in OwnChecksum(z) PROVE IsOutcome(p) /\ p.x = z
    OBVIOUS
  <2>1. CASE HasCrc(z)
    BY <2>1, CrcOutcome DEF OwnChecksum
  <2>2. CASE ~HasCrc(z)
    BY <2>2, UnlessOutcome DEF OwnChecksum
  <2> QED
    BY <2>1, <2>2
<1>3. PICK p \in Random(y) : o \in IF p.fate = "runs" THEN OwnChecksum(p.x) ELSE {p}
  BY DEF Then
<1> HIDE DEF y
<1>4. IsOutcome(p) /\ Drew(y, p.x) /\ (p.fate = "runs" => Ready(p.x))
  BY <1>1, RandomOutcome
<1>5. CASE p.fate = "runs"
  BY <1>2, <1>3, <1>4, <1>5 DEF Drew, y
<1>6. CASE p.fate # "runs"
  BY <1>3, <1>4, <1>6 DEF Drew, y
<1> QED
  BY <1>5, <1>6

----------------------------------------------------------------------------
(* What a load does to its thread and to its context. *)

\* A load that returns goes on to the next entity, to the end of sm_create,
\* or back to the caller.
LEMMA AfterLoadFacts ==
  ASSUME NEW t \in Threads, call[t] \in CallType, AtLoad(call[t]), NEW r,
         NEW z, z = AfterLoad(t, r)
  PROVE  /\ z \in CallType /\ z.pc \in {"idle", "load", "finish"}
         /\ z.op \in {"idle", "create"}
         /\ z.op = "create" => call[t].op = "create" /\ z.c = call[t].c
         /\ z.pc = "load" => AtLoad(z)
         /\ z.pc = "finish" => z.op = "create" /\ z.c \in Contexts
<1> DEFINE i == CHOOSE n \in DOMAIN Order : Order[n] = call[t].e
           next == IF i < Len(Order) THEN Order[i + 1] ELSE Null
<1>1. next \in Entities \cup {Null}
  <2>1. DOMAIN Order = 1..4 /\ Len(Order) = 4
    BY DEF Order
  <2>2. \E n \in 1..4 : Order[n] = call[t].e
    BY FourEntities DEF AtLoad, Order
  <2>3. i \in 1..4
    BY <2>1, <2>2
  <2>4. \A n \in 1..4 : Order[n] \in Entities
    BY FourEntities DEF Order
  <2> HIDE DEF i
  <2> QED
    BY <2>1, <2>3, <2>4
<1> HIDE DEF next
<1>2. CASE call[t].op = "get"
  <2>1. z = Idle
    BY <1>2 DEF AfterLoad
  <2> QED
    BY <2>1 DEF Idle, CallType, Contents
<1>3. CASE call[t].op = "create"
  <2>1. z = [Idle EXCEPT !.op = "create", !.c = call[t].c, !.e = next, !.key2 = call[t].key2,
                         !.pc = IF next = Null THEN "finish" ELSE "load"]
    BY <1>3 DEF AfterLoad, next
  <2> QED
    BY <1>1, <1>3, <2>1 DEF Idle, CallType, AtLoad, Contents
<1> QED
  BY <1>2, <1>3 DEF AtLoad

\* A step of a load keeps the context but for its generator, unless it was
\* initialized, and the code of the entity, if sm_create loads it.
Passed(t, x, y) ==
  /\ y \in ContextType
  /\ y.life = x.life /\ y.allocator = x.allocator
  /\ y.lock = x.lock /\ y.random = x.random /\ y.error = x.error
  /\ call[t].op = "get" /\ x.initialized => y = x
  /\ \A e \in Entities :
       \/ y.code[e] \in {Null, x.code[e]}
       \/ e = call[t].e /\ y.code[e] = call[t].r /\ call[t].pc = "rekey"

\* Storing what a load returned.
LEMMA StoredPasses ==
  ASSUME NEW t \in Threads, AtLoad(call[t]), NEW x \in ContextType, NEW y, Drew(x, y),
         NEW r \in Contents, r # Null => r = call[t].r /\ call[t].pc = "rekey"
  PROVE  Passed(t, x, Stored(t, y, r))
<1> DEFINE z == [y EXCEPT !.code[call[t].e] = r, !.stored = @ \cup {call[t].e}]
<1>1. y \in ContextType /\ call[t].e \in Entities /\ call[t].e \in Fields
  BY DEF AtLoad, Drew, Rest, Fields
<1>2. CASE call[t].op = "get"
  BY <1>2 DEF Stored, Passed, Drew, Rest
<1>3. CASE call[t].op # "get"
  <2>1. /\ z.life = y.life /\ z.allocator = y.allocator /\ z.lock = y.lock
        /\ z.random = y.random /\ z.error = y.error
        /\ \A e \in Entities : z.code[e] = IF e = call[t].e THEN r ELSE y.code[e]
    BY <1>1 DEF ContextType
  <2>2. Stored(t, y, r) = z
    BY <1>3 DEF Stored
  <2>3. z \in ContextType
    <3> DEFINE code == [y.code EXCEPT ![call[t].e] = r]
               stored == y.stored \cup {call[t].e}
    <3>1. code \in [Entities -> Contents] /\ stored \in SUBSET Fields
      BY <1>1 DEF ContextType
    <3>2. z = [y EXCEPT !.code = code, !.stored = stored]
      OBVIOUS
    <3> HIDE DEF code, stored, z
    <3> QED
      BY <1>1, <3>1, <3>2 DEF ContextType
  <2> HIDE DEF z
  <2> QED
    BY <1>3, <2>1, <2>2, <2>3 DEF Passed, Drew, Rest
<1> QED
  BY <1>2, <1>3

\* A load that returns.
LEMMA LoadedPasses ==
  ASSUME NEW t \in Threads, call[t] \in CallType, AtLoad(call[t]), NEW x \in ContextType,
         NEW o, IsOutcome(o), Drew(x, o.x), NEW r \in Contents,
         r # Null => r = call[t].r /\ call[t].pc = "rekey", Loaded(t, o, r)
  PROVE  \E y : ctx' = [ctx EXCEPT ![call[t].c] = y] /\ Passed(t, x, y)
<1> DEFINE p == [o EXCEPT !.x = Stored(t, o.x, r)]
<1>1. p.x = Stored(t, o.x, r)
  BY DEF IsOutcome
<1>2. ctx' = [ctx EXCEPT ![call[t].c] = p.x]
  BY DEF Loaded, Becomes
<1> HIDE DEF p
<1> QED
  BY <1>1, <1>2, StoredPasses

\* Each step of a load changes its context in that way only.
LEMMA LoadPasses ==
  ASSUME Typed, HoldsResult, NEW t \in Threads, Load(t),
         NEW c, c = call[t].c, NEW x, x = ctx[c]
  PROVE  \E y : ctx' = [ctx EXCEPT ![c] = y] /\ Passed(t, x, y)
<1>1. call[t].pc \in AtWork \cup {"load"}
  BY DEF Load, LoadFails, LoadDraws, Decode, Recode, CheckStarts, Sum,
     CheckPasses, CheckFails, Stamp, CheckSkipped, Drop, LoadReturns, NotExecutable, At, AtWork
<1>2. AtLoad(call[t]) /\ call[t] \in CallType /\ c \in Contexts /\ x \in ContextType
  BY <1>1 DEF Typed, AtLoad
<1>3. ctx = [ctx EXCEPT ![c] = x]
  BY DEF Typed
<1>4. Drew(x, x) /\ Null \in Contents
  BY <1>2 DEF Drew, Rest, Contents
<1>5. \A y : Drew(x, y) => Passed(t, x, y)
  BY DEF Drew, Rest, Passed
<1>0. ASSUME NEW o, IsOutcome(o), Drew(x, o.x), Loaded(t, o, Null)
      PROVE  \E y : ctx' = [ctx EXCEPT ![c] = y] /\ Passed(t, x, y)
  BY <1>0, <1>2, <1>4, LoadedPasses
<1>6. CASE LoadFails(t)
  <2>1. Loaded(t, Runs(x), Null)
    BY <1>6 DEF LoadFails
  <2> QED
    BY <1>0, <1>4, <2>1, RunsOutcome
<1>7. CASE LoadDraws(t)
  <2>1. PICK o \in Method(x) : Becomes(c, o)
    BY <1>7 DEF LoadDraws
  <2> QED
    BY <1>2, <1>5, <2>1, MethodOutcome DEF Becomes
<1>8. CASE Decode(t) \/ Recode(t) \/ CheckStarts(t) \/ CheckPasses(t) \/ Drop(t)
  BY <1>3, <1>4, <1>5, <1>8 DEF Decode, Recode, CheckStarts, CheckPasses, Drop
<1>9. CASE Sum(t) \/ Stamp(t)
  <2>1. PICK o \in CallCrc(x) : Becomes(c, o)
    BY <1>9 DEF Sum, Stamp
  <2> QED
    BY <1>4, <1>5, <2>1, CrcOutcome DEF Becomes
<1>10. CASE CheckFails(t)
  <2>1. PICK o \in Method(x) : Loaded(t, o, Null)
    BY <1>10 DEF CheckFails
  <2> QED
    BY <1>0, <1>2, <2>1, MethodOutcome
<1>11. CASE CheckSkipped(t)
  <2> DEFINE bad == "crc_64" \notin x.stored
  <2>1. PICK o : /\ Becomes(c, o)
                 /\ o \in IF crc[call[t].e] = Dropped THEN {Runs(x)} ELSE Unless(bad, x, "wild call")
    BY <1>11 DEF CheckSkipped
  <2>2. o.x = x
    <3>1. CASE crc[call[t].e] = Dropped
      BY <2>1, <3>1, RunsOutcome
    <3>2. CASE crc[call[t].e] # Dropped
      BY <2>1, <3>2, UnlessOutcome
    <3> QED
      BY <3>1, <3>2
  <2> QED
    BY <1>4, <1>5, <2>1, <2>2 DEF Becomes
<1>12. CASE LoadReturns(t)
  <2>1. PICK o : Loaded(t, o, call[t].r) /\ (o = Runs(x) \/ o \in CallField(x, "protect"))
    BY <1>12 DEF LoadReturns
  <2>2. IsOutcome(o) /\ o.x = x
    BY <2>1, RunsOutcome, CallOutcome
  <2>3. call[t].pc = "rekey" /\ call[t].r \in Contents
    BY <1>2, <1>12 DEF LoadReturns, At, CallType
  <2> QED
    BY <1>2, <1>4, <2>1, <2>2, <2>3, LoadedPasses
<1>13. CASE NotExecutable(t)
  <2>1. PICK o \in Then(CallField(x, "protect"), Method) : Loaded(t, o, Null)
    BY <1>13 DEF NotExecutable
  <2>2. PICK p \in CallField(x, "protect") : o \in IF p.fate = "runs" THEN Method(p.x) ELSE {p}
    BY <2>1 DEF Then
  <2>3. IsOutcome(o) /\ Drew(x, o.x)
    BY <1>2, <1>4, <2>2, CallOutcome, MethodOutcome
  <2> QED
    BY <1>0, <2>1, <2>3
<1> QED
  BY <1>6, <1>7, <1>8, <1>9, <1>10, <1>11, <1>12, <1>13 DEF Load

\* What a step of a load may do to its thread's call x.
Follows(x, z) ==
  /\ z \in CallType
  /\ z.op = "create" => x.op = "create" /\ z.c = x.c
  /\ z.pc \in AtWork \cup {"load"} => AtLoad(z)
  /\ z.pc = "finish" => z.op = "create" /\ z.c \in Contexts
  /\ z.pc \in AtWork => z.e = x.e
  /\ Result(z)

\* A load's place and what it works with.
LEMMA LoadPlace ==
  ASSUME Typed, NEW t \in Threads, Load(t)
  PROVE  /\ call[t].pc \in AtWork \cup {"load"} /\ AtLoad(call[t])
         /\ call[t] \in CallType /\ call[t].c \in Contexts /\ ctx[call[t].c] \in ContextType
<1>1. call[t].pc \in AtWork \cup {"load"}
  BY DEF Load, LoadFails, LoadDraws, Decode, Recode, CheckStarts, Sum,
     CheckPasses, CheckFails, Stamp, CheckSkipped, Drop, LoadReturns, NotExecutable, At, AtWork
<1> QED
  BY <1>1 DEF Typed, AtLoad

\* Each step of a load moves its own thread only, to a place it knows.
LEMMA LoadCalls ==
  ASSUME Typed, HoldsResult, NEW t \in Threads, Load(t)
  PROVE  \E z : call' = [call EXCEPT ![t] = z] /\ Follows(call[t], z)
<1>1. AtLoad(call[t]) /\ call[t] \in CallType
  BY LoadPlace
<1>2. \A r, o : Loaded(t, o, r) => \E z : call' = [call EXCEPT ![t] = z] /\ Follows(call[t], z)
  <2> SUFFICES ASSUME NEW r, NEW o, Loaded(t, o, r), NEW z, z = AfterLoad(t, r)
               PROVE  call' = [call EXCEPT ![t] = z] /\ Follows(call[t], z)
    OBVIOUS
  <2>1. call' = [call EXCEPT ![t] = z]
    BY DEF Loaded
  <2> QED
    BY <1>1, <2>1, AfterLoadFacts DEF Follows, AtWork, Decoded, Result
<1>3. CASE LoadFails(t)
  BY <1>2, <1>3 DEF LoadFails
<1>4. CASE CheckFails(t)
  BY <1>2, <1>4 DEF CheckFails
<1>5. CASE LoadReturns(t)
  BY <1>2, <1>5 DEF LoadReturns
<1>6. CASE NotExecutable(t)
  BY <1>2, <1>6 DEF NotExecutable
<1>7. CASE LoadDraws(t)
  <2> DEFINE z == [call[t] EXCEPT !.pc = "decode"]
  <2>1. call' = [call EXCEPT ![t] = z]
    BY <1>7 DEF LoadDraws
  <2>2. Follows(call[t], z)
    BY <1>1, <1>7 DEF Follows, CallType, AtWork, AtLoad, LoadDraws, At, Result, Decoded
  <2> QED
    BY <2>1, <2>2
<1>8. CASE Decode(t)
  <2> DEFINE r == IF data[call[t].e] = key[call[t].e] THEN Plain ELSE Junk
             z == [call[t] EXCEPT !.pc = "recode", !.r = r]
  <2>1. call' = [call EXCEPT ![t] = z]
    BY <1>8 DEF Decode, Typed
  <2>2. r \in {Plain, Junk}
    OBVIOUS
  <2> HIDE DEF r
  <2>3. Follows(call[t], z)
    BY <1>1, <1>8, <2>2 DEF Follows, CallType, AtWork, AtLoad, Decode, At, Result, Decoded, Contents
  <2> QED
    BY <2>1, <2>3
<1>9. CASE Recode(t)
  <2> DEFINE z == [call[t] EXCEPT !.pc = "check"]
  <2>1. call' = [call EXCEPT ![t] = z]
    BY <1>9 DEF Recode
  <2>2. Follows(call[t], z)
    BY <1>1, <1>9 DEF Follows, CallType, AtWork, AtLoad, Recode, At, HoldsResult, Result, Decoded
  <2> QED
    BY <2>1, <2>2
<1>10. CASE CheckPasses(t)
  <2> DEFINE z == [call[t] EXCEPT !.pc = "stamp"]
  <2>1. call' = [call EXCEPT ![t] = z]
    BY <1>10 DEF CheckPasses
  <2>2. call[t].r = Plain
    <3>1. call[t].sum = Junk \/ call[t].r = Plain
      BY <1>10 DEF CheckPasses, At, HoldsResult, Result
    <3>2. call[t].sum # Junk
      BY <1>1, <1>10, ContextAssumption DEF CheckPasses, Typed, AtLoad
    <3> QED
      BY <3>1, <3>2
  <2>3. Follows(call[t], z)
    BY <1>1, <1>10, <2>2 DEF Follows, CallType, AtWork, AtLoad, CheckPasses, At, Result, Decoded
  <2> QED
    BY <2>1, <2>3
<1>11. CASE Sum(t)
  <2> DEFINE s == Checksum(ctx[call[t].c], call[t].e, call[t].r)
             z == [call[t] EXCEPT !.pc = "compare", !.sum = s]
  <2>1. call' = [call EXCEPT ![t] = z]
    BY <1>11 DEF Sum, Typed
  <2>2. s \in Keys \cup {Null, Junk} /\ (s = Junk \/ call[t].r = Plain)
    BY <1>1 DEF Checksum, Typed, AtLoad
  <2>3. call[t].r \in {Plain, Junk}
    BY <1>11 DEF Sum, At, HoldsResult, Result, Decoded
  <2> HIDE DEF s
  <2>4. z \in CallType /\ z.op = call[t].op /\ z.pc = "compare" /\ z.c = call[t].c
        /\ z.e = call[t].e /\ z.key2 = call[t].key2 /\ z.r = call[t].r /\ z.sum = s
    BY <1>1, <2>2 DEF CallType, AtWork
  <2> HIDE DEF z
  <2>5. Follows(call[t], z)
    BY <1>1, <2>2, <2>3, <2>4 DEF Follows, AtWork, AtLoad, Result, Decoded
  <2> QED
    BY <2>1, <2>5
<1>12. ASSUME NEW p \in {"sum", "drop", "rekey"}, call' = [call EXCEPT ![t].pc = p],
              call[t].r \in {Plain, Junk}
       PROVE  \E z : call' = [call EXCEPT ![t] = z] /\ Follows(call[t], z)
  <2> DEFINE z == [call[t] EXCEPT !.pc = p]
  <2>1. call' = [call EXCEPT ![t] = z]
    BY <1>12
  <2>2. z \in CallType /\ z.op = call[t].op /\ z.pc = p /\ z.c = call[t].c
        /\ z.e = call[t].e /\ z.key2 = call[t].key2 /\ z.r = call[t].r
    BY <1>1 DEF CallType, AtWork
  <2> HIDE DEF z
  <2>3. Follows(call[t], z)
    BY <1>1, <1>12, <2>2 DEF Follows, AtWork, AtLoad, Result, Decoded
  <2> QED
    BY <2>1, <2>3
<1>13. CASE CheckStarts(t) \/ CheckSkipped(t) \/ Drop(t) \/ Stamp(t)
  <2>1. call[t].r \in {Plain, Junk}
    BY <1>13 DEF CheckStarts, CheckSkipped, Drop, Stamp, At, HoldsResult, Result, Decoded
  <2>2. \E p \in {"sum", "drop", "rekey"} : call' = [call EXCEPT ![t].pc = p]
    BY <1>13 DEF CheckStarts, CheckSkipped, Drop, Stamp
  <2> QED
    BY <1>12, <2>1, <2>2
<1> QED
  BY <1>3, <1>4, <1>5, <1>6, <1>7, <1>8, <1>9, <1>10, <1>11, <1>13 DEF Load

\* Each step of a load touches its own entity only and keeps the types; what
\* was shared and dropped is not forgotten.
LEMMA LoadEntities ==
  ASSUME Typed, HoldsResult, NEW t \in Threads, Load(t), NEW e, e = call[t].e
  PROVE  /\ key' \in [Entities -> Keys]
         /\ crc' \in [Entities -> Keys \cup {Dropped}]
         /\ data' \in [Entities -> Keys \cup {Junk}]
         /\ \A f \in Entities \ {e} : key'[f] = key[f] /\ crc'[f] = crc[f] /\ data'[f] = data[f]
         /\ raced \subseteq raced' /\ dropped \subseteq dropped'
<1>1. /\ AtLoad(call[t]) /\ e \in Entities /\ call[t].key2 \in Keys
      /\ key \in [Entities -> Keys]
      /\ crc \in [Entities -> Keys \cup {Dropped}]
      /\ data \in [Entities -> Keys \cup {Junk}]
  BY LoadPlace DEF AtLoad, Typed
<1>2. CASE LoadFails(t) \/ LoadDraws(t) \/ Decode(t)
  BY <1>1, <1>2 DEF LoadFails, LoadDraws, Decode, entities, history
<1>6. CASE CheckStarts(t) \/ Sum(t) \/ CheckPasses(t) \/ CheckFails(t) \/ CheckSkipped(t)
  BY <1>1, <1>6 DEF CheckStarts, Sum, CheckPasses, CheckFails, CheckSkipped, entities, history
<1>3. CASE Recode(t)
  BY <1>1, <1>3 DEF Recode, history
<1>4. CASE Stamp(t) \/ Drop(t)
  BY <1>1, <1>4 DEF Stamp, Drop, history
<1>5. CASE LoadReturns(t) \/ NotExecutable(t)
  BY <1>1, <1>5 DEF LoadReturns, NotExecutable, Rekey, history
<1> QED
  BY <1>2, <1>3, <1>4, <1>5, <1>6 DEF Load

\* The counters stay in their bounds.
LEMMA LoadCounts ==
  ASSUME Typed, NEW t \in Threads, Load(t)
  PROVE  failures' \in 0 .. MaxFailures /\ gets' \in 0 .. MaxGets
<1>1. MayFail \/ NoFailure
  BY DEF Load, LoadFails, LoadDraws, Decode, Recode, CheckStarts, Sum,
     CheckPasses, CheckFails, Stamp, CheckSkipped, Drop, LoadReturns, NotExecutable
<1> QED
  BY <1>1, ContextAssumption DEF MayFail, NoFailure, Typed

\* So the types hold after it.
LEMMA LoadTyped == ASSUME Typed, HoldsResult, NEW t \in Threads, Load(t) PROVE Typed'
<1>1. PICK z : call' = [call EXCEPT ![t] = z] /\ Follows(call[t], z)
  BY LoadCalls
<1>2. PICK y : ctx' = [ctx EXCEPT ![call[t].c] = y] /\ Passed(t, ctx[call[t].c], y)
  BY LoadPasses
<1>3. call' \in [Threads -> CallType] /\ call'[t] = z /\ \A u \in Threads \ {t} : call'[u] = call[u]
  BY <1>1 DEF Typed, Follows
<1>4. ctx' \in [Contexts -> ContextType]
  BY <1>2 DEF Typed, Passed
<1>5. \A u \in Threads :
        /\ call'[u].pc \in AtWork \cup {"load"} => AtLoad(call'[u])
        /\ call'[u].pc = "finish" => call'[u].op = "create" /\ call'[u].c \in Contexts
  BY <1>1, <1>3 DEF Typed, Follows
<1> QED
  BY <1>3, <1>4, <1>5, LoadEntities, LoadCounts DEF Typed, AtLoad, AtWork

\* Where each step of a load leaves its thread.
LEMMA LoadMoves ==
  ASSUME Typed, NEW t \in Threads, Load(t)
  PROVE  /\ LoadFails(t) \/ CheckFails(t) \/ LoadReturns(t) \/ NotExecutable(t) => call'[t].pc \notin AtWork
         /\ LoadDraws(t) => call'[t] = [call[t] EXCEPT !.pc = "decode"]
         /\ Decode(t) => \E r : call'[t] = [call[t] EXCEPT !.pc = "recode", !.r = r]
                                  /\ (data[call[t].e] = key[call[t].e] => r = Plain)
         /\ Recode(t) => call'[t] = [call[t] EXCEPT !.pc = "check"]
         /\ CheckStarts(t) => call'[t] = [call[t] EXCEPT !.pc = "sum"]
         /\ Sum(t) => call'[t] = [call[t] EXCEPT !.pc = "compare",
                                    !.sum = Checksum(ctx[call[t].c], call[t].e, call[t].r)]
         /\ CheckPasses(t) => call'[t] = [call[t] EXCEPT !.pc = "stamp"]
         /\ CheckSkipped(t) => call'[t] = [call[t] EXCEPT !.pc = "drop"]
         /\ Stamp(t) \/ Drop(t) => call'[t] = [call[t] EXCEPT !.pc = "rekey"]
<1>1. call \in [Threads -> CallType] /\ AtLoad(call[t]) /\ call[t] \in CallType
  BY LoadPlace DEF Typed
<1>2. \A r, o : Loaded(t, o, r) => call'[t].pc \notin AtWork
  <2> SUFFICES ASSUME NEW r, NEW o, Loaded(t, o, r), NEW z, z = AfterLoad(t, r)
               PROVE  call'[t].pc \notin AtWork
    OBVIOUS
  <2>1. call'[t] = z
    BY <1>1 DEF Loaded
  <2>2. z.pc \in {"idle", "load", "finish"}
    BY <1>1, AfterLoadFacts
  <2> QED
    BY <2>1, <2>2 DEF AtWork
<1>3. LoadFails(t) \/ CheckFails(t) \/ LoadReturns(t) \/ NotExecutable(t) => call'[t].pc \notin AtWork
  BY <1>2 DEF LoadFails, CheckFails, LoadReturns, NotExecutable
<1>4. LoadDraws(t) => call'[t] = [call[t] EXCEPT !.pc = "decode"]
  BY <1>1 DEF LoadDraws
<1>5. Decode(t) => \E r : call'[t] = [call[t] EXCEPT !.pc = "recode", !.r = r]
                           /\ (data[call[t].e] = key[call[t].e] => r = Plain)
  BY <1>1 DEF Decode
<1>6. Recode(t) => call'[t] = [call[t] EXCEPT !.pc = "check"]
  BY <1>1 DEF Recode
<1>7. CheckStarts(t) => call'[t] = [call[t] EXCEPT !.pc = "sum"]
  BY <1>1 DEF CheckStarts
<1>8. Sum(t) => call'[t] = [call[t] EXCEPT !.pc = "compare",
                              !.sum = Checksum(ctx[call[t].c], call[t].e, call[t].r)]
  BY <1>1 DEF Sum
<1>9. CheckPasses(t) => call'[t] = [call[t] EXCEPT !.pc = "stamp"]
  BY <1>1 DEF CheckPasses
<1>10. CheckSkipped(t) => call'[t] = [call[t] EXCEPT !.pc = "drop"]
  BY <1>1 DEF CheckSkipped
<1>11. Stamp(t) \/ Drop(t) => call'[t] = [call[t] EXCEPT !.pc = "rekey"]
  BY <1>1 DEF Stamp, Drop
<1> QED
  BY <1>3, <1>4, <1>5, <1>6, <1>7, <1>8, <1>9, <1>10, <1>11

\* A load that comes out wrong has dropped its entity's checksum.
LEMMA LoadHolds == ASSUME Typed, HoldsResult, NEW t \in Threads, Load(t) PROVE HoldsResult'
<1>1. PICK z : call' = [call EXCEPT ![t] = z] /\ Follows(call[t], z)
  BY LoadCalls
<1>2. call'[t] = z /\ \A u \in Threads \ {t} : call'[u] = call[u]
  BY <1>1 DEF Typed
<1>3. z.pc = "rekey" /\ z.r = Junk => z.e \in dropped'
  <2> SUFFICES ASSUME z.pc = "rekey", z.r = Junk PROVE z.e \in dropped'
    OBVIOUS
  <2>1. AtLoad(call[t]) /\ call[t] \in CallType
    BY LoadPlace
  <2>2. CASE Drop(t)
    <3>1. z.e = call[t].e
      BY <1>2, <2>1, <2>2, LoadMoves DEF CallType
    <3> QED
      BY <2>2, <3>1 DEF Drop
  <2>3. CASE Stamp(t)
    <3>1. z.r = call[t].r
      BY <1>2, <2>1, <2>3, LoadMoves DEF CallType
    <3> QED
      BY <2>3, <3>1, ContextAssumption DEF Stamp, At, HoldsResult, Result
  <2>4. CASE \/ LoadDraws(t) \/ Decode(t) \/ Recode(t) \/ CheckStarts(t) \/ Sum(t)
             \/ CheckPasses(t) \/ CheckSkipped(t)
    <3>1. \/ \E p \in {"decode", "check", "sum", "stamp", "drop"} : z = [call[t] EXCEPT !.pc = p]
          \/ \E r : z = [call[t] EXCEPT !.pc = "recode", !.r = r]
          \/ \E s : z = [call[t] EXCEPT !.pc = "compare", !.sum = s]
      BY <1>2, <2>4, LoadMoves
    <3> QED
      BY <2>1, <3>1 DEF CallType
  <2>5. CASE LoadFails(t) \/ CheckFails(t) \/ LoadReturns(t) \/ NotExecutable(t)
    BY <1>2, <2>5, LoadMoves DEF AtWork
  <2> QED
    BY <2>2, <2>3, <2>4, <2>5 DEF Load
<1>4. \A u \in Threads \ {t} : call[u].pc = "rekey" /\ call[u].r = Junk => call[u].e \in dropped'
  BY LoadEntities DEF HoldsResult
<1> QED
  BY <1>1, <1>2, <1>3, <1>4 DEF HoldsResult, Follows

\* What a load returns for an entity that was not shared is right.
LEMMA UnsharedIsPlain ==
  ASSUME AllKnown, NEW t \in Threads, call[t].pc \in Decoded, NEW e \in Entities, e = call[t].e,
         ~Shared(e)
  PROVE  call[t].r = Plain
<1>1. t \in Loading(e) /\ Known(e)
  BY DEF AllKnown, Loading, Decoded, AtWork
<1> QED
  BY <1>1 DEF Known

\* No load stores wrong code of an entity that was not shared, or that was
\* always checked.
LEMMA LoadWrong ==
  ASSUME Typed, HoldsResult, WrongKept, AllKnown, NEW t \in Threads, Load(t)
  PROVE  WrongKept'
<1>1. PICK y : ctx' = [ctx EXCEPT ![call[t].c] = y] /\ Passed(t, ctx[call[t].c], y)
  BY LoadPasses
<1>0. raced \subseteq raced' /\ dropped \subseteq dropped'
  BY LoadEntities
<1>2. ASSUME NEW e \in Entities, NEW c \in Contexts, ctx'[c].code[e] = Junk
      PROVE  Shared(e)' /\ e \in dropped'
  <2>1. CASE ctx[c].code[e] = Junk
    BY <1>0, <2>1 DEF WrongKept, Shared
  <2>2. CASE ctx[c].code[e] # Junk
    <3>1. c = call[t].c /\ y.code[e] = Junk
      BY <1>1, <1>2, <2>2 DEF Typed
    <3>2. e = call[t].e /\ call[t].r = Junk /\ call[t].pc = "rekey"
      BY <1>1, <2>2, <3>1, ContextAssumption DEF Passed
    <3>3. e \in dropped
      BY <3>2 DEF HoldsResult
    <3>4. Shared(e)
      BY <3>2, UnsharedIsPlain, ContextAssumption DEF Decoded
    <3> QED
      BY <1>0, <3>3, <3>4 DEF Shared
  <2> QED
    BY <2>1, <2>2
<1> QED
  BY <1>2 DEF WrongKept

\* The contexts' own invariants: a load does not hand a context out, end it,
\* or touch the generator of one that is in use.
LEMMA LoadContexts ==
  ASSUME IInv, NEW t \in Threads, Load(t)
  PROVE  OneCreator' /\ GeneratorReady' /\ NothingLeft'
<1> USE DEF IInv
<1>1. PICK y : ctx' = [ctx EXCEPT ![call[t].c] = y] /\ Passed(t, ctx[call[t].c], y)
  BY LoadPasses
<1>2. PICK z : call' = [call EXCEPT ![t] = z] /\ Follows(call[t], z)
  BY LoadCalls
<1>3. call'[t] = z /\ \A u \in Threads \ {t} : call'[u] = call[u]
  BY <1>2 DEF Typed
<1>4. \A c \in Contexts : /\ ctx'[c].life = ctx[c].life /\ ctx'[c].allocator = ctx[c].allocator
                          /\ ctx'[c].lock = ctx[c].lock /\ ctx'[c].random = ctx[c].random
  BY <1>1 DEF Typed, Passed
<1>5. \A u \in Threads : call'[u].op = "create" => call[u].op = "create" /\ call'[u].c = call[u].c
  BY <1>2, <1>3 DEF Follows
<1>6. OneCreator'
  BY <1>4, <1>5 DEF OneCreator
<1>7. NothingLeft'
  BY <1>4 DEF NothingLeft
<1>8. fate = "runs"
  BY DEF Load, LoadFails, LoadDraws, Decode, Recode, CheckStarts, Sum,
     CheckPasses, CheckFails, Stamp, CheckSkipped, Drop, LoadReturns, NotExecutable, At
<1>9. ASSUME NEW c \in Contexts, ctx'[c].life = "alive" PROVE Ready(ctx'[c])
  <2>1. ctx[c].life = "alive" /\ Ready(ctx[c])
    BY <1>4, <1>8, <1>9 DEF GeneratorReady, Ready
  <2>2. ctx'[c] = ctx[c]
    <3>1. CASE c # call[t].c
      BY <1>1, <3>1 DEF Typed
    <3>2. CASE c = call[t].c
      <4>1. call[t].op = "get"
        BY <2>1, <3>2, LoadPlace DEF AtLoad, OneCreator
      <4> QED
        BY <1>1, <2>1, <3>2, <4>1 DEF Typed, Passed, Ready
    <3> QED
      BY <3>1, <3>2
  <2> QED
    BY <2>1, <2>2
<1>10. GeneratorReady'
  BY <1>9 DEF GeneratorReady, Ready
<1> QED
  BY <1>6, <1>7, <1>10

\* A step of a load leaves the loads of other entities, and of its own
\* entity changes only its own place.
LEMMA LoadLoading ==
  ASSUME Typed, HoldsResult, NEW t \in Threads, Load(t), NEW e, e = call[t].e
  PROVE  /\ \A f \in Entities \ {e} : Loading(f)' = Loading(f) /\ t \notin Loading(f)
         /\ Loading(e)' = IF call'[t].pc \in AtWork THEN Loading(e) \cup {t} ELSE Loading(e) \ {t}
         /\ t \in Loading(e) <=> call[t].pc \in AtWork
         /\ \A u \in Threads \ {t} : call'[u] = call[u]
<1>1. PICK z : call' = [call EXCEPT ![t] = z] /\ Follows(call[t], z)
  BY LoadCalls
<1>2. call'[t] = z /\ \A u \in Threads \ {t} : call'[u] = call[u]
  BY <1>1 DEF Typed
<1> QED
  BY <1>1, <1>2 DEF Loading, Follows, AtWork

\* What is known of the entities stays known.
LEMMA LoadKept ==
  ASSUME Typed, HoldsResult, WrongKept, NEW t \in Threads, Load(t), AllKnown
  PROVE  AllKnown'
<1> DEFINE x == call[t]
<1>1. PICK e \in Entities : e = call[t].e
  BY LoadPlace DEF AtLoad
<1>2. raced \subseteq raced'
  BY LoadEntities
<1>3. /\ \A f \in Entities \ {e} : Loading(f)' = Loading(f) /\ t \notin Loading(f)
      /\ Loading(e)' = IF call'[t].pc \in AtWork THEN Loading(e) \cup {t} ELSE Loading(e) \ {t}
      /\ t \in Loading(e) <=> call[t].pc \in AtWork
      /\ \A u \in Threads \ {t} : call'[u] = call[u]
  BY <1>1, LoadLoading
<1>4. \A f \in Entities \ {e} : key'[f] = key[f] /\ crc'[f] = crc[f] /\ data'[f] = data[f]
  BY <1>1, LoadEntities
<1>5. ASSUME NEW f \in Entities \ {e}, ~Shared(f)' PROVE Known(f)'
  <2>1. Known(f) /\ \A u \in Loading(f) : call'[u] = call[u]
    BY <1>2, <1>3, <1>5 DEF Loading, AllKnown, Shared
  <2> QED
    BY <1>3, <1>4, <2>1 DEF Known
<1>6. ASSUME ~Shared(e)' PROVE Known(e)'
  <2>1. Known(e) /\ e \notin raced'
    BY <1>2, <1>6 DEF AllKnown, Shared
  <2>0. \A c \in Contexts : Junk \notin {ctx[c].code["crc_64"], ctx[c].code["tab_64"]}
    BY <1>2, <1>6, FourEntities DEF WrongKept, Shared
  <2>2. /\ key \in [Entities -> Keys] /\ crc \in [Entities -> Keys \cup {Dropped}]
        /\ data \in [Entities -> Keys \cup {Junk}] /\ call[t] \in CallType
    BY LoadPlace DEF Typed
  <2>3. CASE LoadFails(t)
    <3>1. t \notin Loading(e) /\ Loading(e)' = Loading(e)
      <4>1. x.pc \notin AtWork
        BY <2>3 DEF LoadFails, At, AtWork
      <4>2. call'[t].pc \notin AtWork
        BY <2>3, LoadMoves
      <4> QED
        BY <1>3, <4>1, <4>2
    <3>2. \A u \in Loading(e) : call'[u] = call[u]
      BY <1>3, <3>1 DEF Loading
    <3> QED
      BY <2>1, <2>3, <3>1, <3>2 DEF LoadFails, entities, Known
  <2>4. CASE LoadDraws(t)
    <3>1. Loading(e) = {}
      BY <1>1, <2>1, <2>4 DEF LoadDraws
    <3>0. call'[t] = [x EXCEPT !.pc = "decode"]
      BY <2>4, LoadMoves
    <3>2. call'[t].pc = "decode" /\ Loading(e)' = {t}
      BY <1>3, <2>2, <3>0, <3>1 DEF CallType, AtWork
    <3> QED
      BY <2>1, <2>4, <3>1, <3>2 DEF LoadDraws, entities, Known, Decoded
  <2>5. CASE ~(LoadFails(t) \/ LoadDraws(t))
    <3>1. Loading(e) = {t}
      <4>1. x.pc \in AtWork
        BY <2>5 DEF Load, Decode, Recode, CheckStarts, Sum, CheckPasses, CheckFails, Stamp, CheckSkipped, Drop, LoadReturns,
           NotExecutable, At, AtWork
      <4> QED
        BY <1>3, <2>1, <4>1 DEF Known
    <3>2. /\ data[e] = IF x.pc \in Decoded \ {"recode"} THEN x.key2 ELSE key[e]
          /\ crc[e] \in {Dropped, IF x.pc = "rekey" THEN x.key2 ELSE key[e]}
          /\ x.pc \in Decoded => x.r = Plain
          /\ x.pc \in {"sum", "compare"} => crc[e] = key[e]
          /\ x.pc = "compare" => x.sum = key[e]
      BY <2>1, <3>1 DEF Known
    <3>3. CASE Decode(t)
      <4>1. x.pc = "decode" /\ UNCHANGED <<key, crc, data>>
        BY <3>3 DEF Decode, At, entities
      <4>2. data[e] = key[e]
        BY <3>2, <4>1 DEF Decoded
      <4>3. call'[t] = [x EXCEPT !.pc = "recode", !.r = Plain]
        BY <1>1, <3>3, <4>2, LoadMoves
      <4>4. call'[t].pc = "recode" /\ call'[t].key2 = x.key2 /\ call'[t].r = Plain
        BY <2>2, <4>3 DEF CallType
      <4>5. Loading(e)' = {t}
        BY <1>3, <3>1, <4>4 DEF AtWork
      <4> QED
        BY <3>2, <4>1, <4>2, <4>4, <4>5 DEF Known, Decoded
    <3>4. CASE Recode(t)
      <4>1. x.pc = "recode" /\ UNCHANGED <<key, crc>>
        BY <3>4 DEF Recode, At
      <4>2. x.r = Plain
        BY <3>2, <4>1 DEF Decoded
      <4>3. call'[t] = [x EXCEPT !.pc = "check"]
        BY <3>4, LoadMoves
      <4>4. call'[t].pc = "check" /\ call'[t].key2 = x.key2 /\ call'[t].r = Plain
        BY <2>2, <4>2, <4>3 DEF CallType
      <4>5. Loading(e)' = {t}
        BY <1>3, <3>1, <4>4 DEF AtWork
      <4>6. data'[e] = x.key2
        BY <1>1, <2>2, <3>4, <4>2 DEF Recode
      <4> QED
        BY <3>2, <4>1, <4>4, <4>5, <4>6 DEF Known, Decoded
    <3>8. CASE CheckStarts(t) \/ CheckSkipped(t)
      <4>1. x.pc = "check" /\ UNCHANGED <<key, crc, data>>
        BY <3>8 DEF CheckStarts, CheckSkipped, At, entities
      <4>2. CheckStarts(t) => crc[e] # Dropped
        BY <1>1 DEF CheckStarts
      <4>3. \/ call'[t] = [x EXCEPT !.pc = "sum"] /\ crc[e] # Dropped
            \/ call'[t] = [x EXCEPT !.pc = "drop"]
        BY <3>8, <4>2, LoadMoves
      <4>4. /\ (call'[t].pc = "sum" /\ crc[e] # Dropped) \/ call'[t].pc = "drop"
            /\ call'[t].key2 = x.key2 /\ call'[t].r = x.r
        BY <2>2, <4>3 DEF CallType
      <4>5. Loading(e)' = {t}
        BY <1>3, <3>1, <4>4 DEF AtWork
      <4> QED
        BY <3>2, <4>1, <4>4, <4>5 DEF Known, Decoded
    <3>9. CASE Sum(t)
      <4>1. x.pc = "sum" /\ UNCHANGED <<key, crc, data>>
        BY <3>9 DEF Sum, At, entities
      <4>2. Checksum(ctx[x.c], e, x.r) = key[e]
        <5>1. x.c \in Contexts
          BY LoadPlace
        <5>2. x.r = Plain
          BY <3>2, <4>1 DEF Decoded
        <5> QED
          BY <2>0, <5>1, <5>2 DEF Checksum
      <4>6. call'[t] = [x EXCEPT !.pc = "compare", !.sum = Checksum(ctx[x.c], x.e, x.r)]
        BY <3>9, LoadMoves
      <4>3. call'[t] = [x EXCEPT !.pc = "compare", !.sum = key[e]]
        BY <1>1, <4>2, <4>6
      <4>4. /\ call'[t].pc = "compare" /\ call'[t].sum = key[e]
            /\ call'[t].key2 = x.key2 /\ call'[t].r = x.r
        BY <2>2, <4>3 DEF CallType
      <4>5. Loading(e)' = {t}
        BY <1>3, <3>1, <4>4 DEF AtWork
      <4> QED
        BY <3>2, <4>1, <4>4, <4>5 DEF Known, Decoded
    <3>10. CASE CheckPasses(t)
      <4>1. x.pc = "compare" /\ UNCHANGED <<key, crc, data>>
        BY <3>10 DEF CheckPasses, At, entities
      <4>2. call'[t] = [x EXCEPT !.pc = "stamp"]
        BY <3>10, LoadMoves
      <4>4. call'[t].pc = "stamp" /\ call'[t].key2 = x.key2 /\ call'[t].r = x.r
        BY <2>2, <4>2 DEF CallType
      <4>5. Loading(e)' = {t}
        BY <1>3, <3>1, <4>4 DEF AtWork
      <4> QED
        BY <3>2, <4>1, <4>4, <4>5 DEF Known, Decoded
    <3>5. CASE Stamp(t) \/ Drop(t)
      <4>1. x.pc \in {"stamp", "drop"} /\ UNCHANGED <<key, data>>
        BY <3>5 DEF Stamp, Drop, At
      <4>2. x.r = Plain /\ data[e] = x.key2
        BY <3>2, <4>1 DEF Decoded
      <4>3. call'[t] = [x EXCEPT !.pc = "rekey"]
        BY <3>5, LoadMoves
      <4>4. call'[t].pc = "rekey" /\ call'[t].key2 = x.key2 /\ call'[t].r = Plain
        BY <2>2, <4>2, <4>3 DEF CallType
      <4>5. Loading(e)' = {t}
        BY <1>3, <3>1, <4>4 DEF AtWork
      <4>6. crc'[e] \in {Dropped, x.key2}
        BY <1>1, <2>2, <3>5 DEF Stamp, Drop
      <4> QED
        BY <4>1, <4>2, <4>4, <4>5, <4>6 DEF Known, Decoded
    <3>6. CASE CheckFails(t)
      BY <1>1, <3>2, <3>6 DEF CheckFails, At
    <3>7. CASE LoadReturns(t) \/ NotExecutable(t)
      <4>1. Loading(e)' = {}
        BY <1>3, <3>1, <3>7, LoadMoves
      <4> QED
        BY <1>1, <2>2, <3>2, <3>7, <4>1 DEF LoadReturns, NotExecutable, At, Rekey, Known, Decoded
    <3> QED
      BY <2>5, <3>3, <3>4, <3>5, <3>6, <3>7, <3>8, <3>9, <3>10 DEF Load
  <2> QED
    BY <2>3, <2>4, <2>5
<1> QED
  BY <1>5, <1>6 DEF AllKnown

----------------------------------------------------------------------------
(* The other steps: they leave the entities, and their threads are not at  *)
(* work on one.                                                            *)
\* Such a step keeps what is known of the entities and of the loads.
LEMMA NotAtWork ==
  ASSUME Typed, HoldsResult, WrongKept, AllKnown,
         NEW t \in Threads, NEW z \in CallType, call' = [call EXCEPT ![t] = z],
         call[t].pc \notin AtWork, z.pc \notin AtWork,
         z.pc = "load" => AtLoad(z), z.pc = "finish" => z.op = "create" /\ z.c \in Contexts,
         UNCHANGED <<entities, history>>,
         ctx' \in [Contexts -> ContextType],
         \A c \in Contexts, e \in Entities : ctx'[c].code[e] = Junk => ctx[c].code[e] = Junk,
         MayFail \/ NoFailure \/ MayGet
  PROVE  Typed' /\ HoldsResult' /\ WrongKept' /\ AllKnown'
<1>1. call'[t] = z /\ \A u \in Threads \ {t} : call'[u] = call[u]
  BY DEF Typed
<1>2. UNCHANGED <<key, crc, data, raced, dropped>>
  BY DEF entities, history
<1>3. Typed'
  <2>1. failures' \in 0 .. MaxFailures /\ gets' \in 0 .. MaxGets
    BY ContextAssumption DEF MayFail, NoFailure, MayGet, Typed
  <2>2. call' \in [Threads -> CallType]
    BY DEF Typed
  <2>3. \A u \in Threads :
          /\ call'[u].pc \in AtWork \cup {"load"} => AtLoad(call'[u])
          /\ call'[u].pc = "finish" => call'[u].op = "create" /\ call'[u].c \in Contexts
    BY <1>1 DEF Typed
  <2> QED
    BY <1>2, <2>1, <2>2, <2>3 DEF Typed, AtLoad, AtWork
<1>4. HoldsResult'
  BY <1>1, <1>2 DEF HoldsResult, Result, Decoded, AtWork
<1>5. WrongKept'
  BY <1>2 DEF WrongKept, Shared
<1>6. \A f \in Entities : Loading(f)' = Loading(f) /\ \A u \in Loading(f) : call'[u] = call[u]
  BY <1>1 DEF Loading, AtWork
<1>7. ASSUME NEW f \in Entities, ~Shared(f)' PROVE Known(f)'
  <2>1. Known(f)
    BY <1>2, <1>7 DEF AllKnown, Shared
  <2> QED
    BY <1>2, <1>6, <2>1 DEF Known
<1> QED
  BY <1>3, <1>4, <1>5, <1>7 DEF AllKnown

\* A thread that is idle works on nothing, and stays so with no call of its own.
LEMMA IdleFacts ==
  /\ Idle \in CallType /\ Idle.pc = "idle" /\ Idle.op = "idle"
  /\ Idle.pc \notin AtWork
  /\ \A t \in Threads : Typed /\ call[t] = Idle => call = [call EXCEPT ![t] = Idle]
BY DEF Idle, CallType, Contents, AtWork, Typed

\* A context before it is created or after its end has nothing.
LEMMA EmptyContexts ==
  /\ NoContext \in ContextType /\ NoContext.life = "none" /\ NoContext.allocator = "none"
  /\ NoContext.lock = "raw" /\ NoContext.random = "raw"
  /\ \A e \in Entities : NoContext.code[e] = Null
  /\ \A x \in ContextType : GiveBack(x) = NoContext
  /\ Filled = [NoContext EXCEPT !.life = "creating", !.allocator = "space"]
<1>1. NoContext \in ContextType
  BY DEF NoContext, ContextType, Contents, Allocators
<1>2. /\ NoContext.life = "none" /\ NoContext.allocator = "none"
      /\ NoContext.lock = "raw" /\ NoContext.random = "raw"
      /\ \A e \in Entities : NoContext.code[e] = Null
  BY DEF NoContext
<1>3. \A x \in ContextType : GiveBack(x) = NoContext
  <2>1. \A x : GiveBack(x) = [NoContext EXCEPT !.allocator = NoContext.allocator]
    BY <1>2 DEF GiveBack, DestroyAllocator
  <2> QED
    BY <1>1, <2>1 DEF ContextType
<1>4. Filled = [NoContext EXCEPT !.life = "creating", !.allocator = "space"]
  BY DEF Filled
<1> QED
  BY <1>1, <1>2, <1>3, <1>4

\* Creating a context, or failing to.
LEMMA CreateStep ==
  ASSUME IInv, NEW t \in Threads, NEW c \in Contexts,
         CreateFails(t, c) \/ CreateMutexFails(t, c) \/ Create(t, c)
  PROVE  IInv'
<1> USE DEF IInv
<1>1. fate = "runs" /\ call[t] = Idle /\ ctx[c].life = "none" /\ UNCHANGED <<entities, history>>
  BY DEF CreateFails, CreateMutexFails, Create, Begin
<1>2. CASE CreateFails(t, c) \/ CreateMutexFails(t, c)
  <2>1. ctx' = [ctx EXCEPT ![c] = NoContext]
    <3>1. CASE CreateFails(t, c)
      <4>1. PICK a \in Allocators : ctx' = [ctx EXCEPT ![c] = GiveBack([NoContext EXCEPT !.allocator = a])]
        BY <3>1 DEF CreateFails
      <4>2. [NoContext EXCEPT !.allocator = a] \in ContextType
        BY EmptyContexts DEF ContextType
      <4> QED
        BY <4>1, <4>2, EmptyContexts
    <3>2. CASE CreateMutexFails(t, c)
      <4>1. Filled \in ContextType
        BY EmptyContexts DEF ContextType, Allocators
      <4> QED
        BY <3>2, <4>1, EmptyContexts DEF CreateMutexFails
    <3> QED
      BY <1>2, <3>1, <3>2
  <2>2. call' = [call EXCEPT ![t] = Idle] /\ MayFail
    BY <1>1, <1>2, IdleFacts DEF CreateFails, CreateMutexFails
  <2>3. ctx' \in [Contexts -> ContextType]
        /\ \A d \in Contexts : ctx'[d] = IF d = c THEN NoContext ELSE ctx[d]
    BY <2>1, EmptyContexts DEF Typed
  <2>4. Typed' /\ HoldsResult' /\ WrongKept' /\ AllKnown'
    <3>1. \A d \in Contexts, e \in Entities : ctx'[d].code[e] = Junk => ctx[d].code[e] = Junk
      BY <2>3, EmptyContexts, ContextAssumption
    <3> QED
      BY <1>1, <2>2, <2>3, <3>1, IdleFacts, NotAtWork
  <2>5. OneCreator'
    BY <1>1, <2>2, <2>3 DEF OneCreator, Typed
  <2>6. GeneratorReady' /\ NothingLeft'
    BY <1>1, <2>3, EmptyContexts DEF GeneratorReady, NothingLeft
  <2> QED
    BY <2>4, <2>5, <2>6
<1>3. CASE Create(t, c)
  <2> DEFINE first == IF build = "release" THEN Order[1] ELSE Null
             pc == IF build = "release" THEN "load" ELSE "finish"
             handler == IF build = "release" THEN Null ELSE CHOOSE h \in Handlers : h # Null
             z == [Idle EXCEPT !.op = "create", !.pc = pc, !.c = c, !.e = first, !.key2 = c]
             x == [Filled EXCEPT !.lock = "built", !.error = handler]
  <2>1. call' = [call EXCEPT ![t] = z] /\ ctx' = [ctx EXCEPT ![c] = x] /\ NoFailure
    BY <1>3 DEF Create, Begin
  <2>2. handler \in Handlers \cup {Null}
    BY ContextAssumption
  <2>3. x \in ContextType /\ x.life = "creating" /\ \A e \in Entities : x.code[e] = Null
    <3> HIDE DEF handler
    <3>1. PICK n \in ContextType : n = NoContext
      BY EmptyContexts
    <3>2. x = [n EXCEPT !.life = "creating", !.allocator = "space", !.lock = "built", !.error = handler]
      BY <3>1, EmptyContexts DEF ContextType
    <3>3. x.life = "creating" /\ x.code = n.code
      BY <3>2 DEF ContextType
    <3>5. PICK m : m = [n EXCEPT !.life = "creating", !.allocator = "space"]
      OBVIOUS
    <3>6. m \in ContextType
      BY <3>1, <3>5, ContextFields
    <3>7. x = [m EXCEPT !.lock = "built", !.error = handler]
      BY <3>1, <3>2, <3>5 DEF ContextType
    <3>4. x \in ContextType
      BY <2>2, <3>6, <3>7, ContextFields
    <3> QED
      BY <3>1, <3>3, <3>4, EmptyContexts
  <2>4. /\ z \in CallType /\ z.op = "create" /\ z.c = c
        /\ z.pc \notin AtWork /\ (z.pc = "load" => AtLoad(z))
    BY FourEntities DEF Idle, CallType, Contents, AtWork, AtLoad, Keys
  <2> HIDE DEF x, z
  <2>5. ctx' \in [Contexts -> ContextType]
        /\ \A d \in Contexts : ctx'[d] = IF d = c THEN x ELSE ctx[d]
    BY <2>1, <2>3 DEF Typed
  <2>6. Typed' /\ HoldsResult' /\ WrongKept' /\ AllKnown'
    <3>1. \A d \in Contexts, e \in Entities : ctx'[d].code[e] = Junk => ctx[d].code[e] = Junk
      BY <2>3, <2>5, ContextAssumption
    <3> QED
      BY <1>1, <2>1, <2>4, <2>5, <3>1, IdleFacts, NotAtWork
  <2>7. OneCreator'
    BY <1>1, <2>1, <2>3, <2>4, <2>5 DEF OneCreator, Typed
  <2>8. GeneratorReady' /\ NothingLeft'
    BY <1>1, <2>3, <2>5 DEF GeneratorReady, NothingLeft
  <2> QED
    BY <2>6, <2>7, <2>8
<1> QED
  BY <1>2, <1>3

\* The end of sm_create hands out a context that can draw.
LEMMA FinishStep == ASSUME IInv, NEW t \in Threads, FinishCreate(t) PROVE IInv'
<1> USE DEF IInv
<1> DEFINE c == call[t].c
           x == ctx[c]
<1>1. fate = "runs" /\ call[t].pc = "finish" /\ UNCHANGED <<entities, history>> /\ NoFailure
  BY DEF FinishCreate, At
<1>2. call[t].op = "create" /\ c \in Contexts /\ x \in ContextType /\ x.life = "creating"
  BY <1>1 DEF Typed, OneCreator
<1>3. PICK o \in Then(Random(Settled(x)), OwnChecksum) : Becomes(c, o)
  BY DEF FinishCreate
<1>4. IsOutcome(o) /\ Rest(Settled(x), o.x) /\ (o.fate = "runs" => Ready(o.x))
  BY <1>2, FinishOutcome
<1>5. o.x \in ContextType /\ o.x.life = "alive" /\ o.x.code = x.code
  BY <1>2, <1>4 DEF Rest, Settled, ContextType
<1>6. ctx' = [ctx EXCEPT ![c] = o.x] /\ fate' = o.fate
  BY <1>3 DEF Becomes
<1> HIDE DEF x, c
<1>7. ctx' \in [Contexts -> ContextType]
      /\ \A d \in Contexts : ctx'[d] = IF d = c THEN o.x ELSE ctx[d]
  BY <1>5, <1>6 DEF Typed
<1>8. call' = [call EXCEPT ![t] = Idle]
  BY DEF FinishCreate, Return
<1>9. Typed' /\ HoldsResult' /\ WrongKept' /\ AllKnown'
  <2>1. \A d \in Contexts, e \in Entities : ctx'[d].code[e] = Junk => ctx[d].code[e] = Junk
    BY <1>5, <1>7 DEF x
  <2>2. call[t].pc \notin AtWork
    BY <1>1 DEF AtWork
  <2> QED
    BY <1>1, <1>7, <1>8, <2>1, <2>2, IdleFacts, NotAtWork
<1>10. OneCreator'
  <2>1. call'[t] = Idle /\ \A u \in Threads \ {t} : call'[u] = call[u]
    BY <1>8 DEF Typed
  <2>2. \A u \in Threads \ {t} : call[u].op = "create" => call[u].c # c
    BY <1>2 DEF OneCreator, c
  <2> QED
    BY <1>7, <2>1, <2>2, IdleFacts DEF OneCreator
<1>11. GeneratorReady'
  BY <1>1, <1>4, <1>6, <1>7 DEF GeneratorReady, Ready
<1>12. NothingLeft'
  BY <1>5, <1>7 DEF NothingLeft
<1> QED
  BY <1>9, <1>10, <1>11, <1>12

\* The end of a context gives back all it has.
LEMMA DestroyStep ==
  ASSUME IInv, NEW t \in Threads, NEW c \in Contexts, Destroy(t, c)
  PROVE  IInv'
<1> USE DEF IInv
<1> DEFINE x == [ctx[c] EXCEPT !.initialized = FALSE, !.random = "gone"]
<1>1. fate = "runs" /\ call[t] = Idle /\ ctx[c].life = "alive" /\ NoFailure
      /\ UNCHANGED <<entities, call, history>>
  BY DEF Destroy, Alive
<1>2. ctx[c] \in ContextType
  BY DEF Typed
<1>3. /\ x \in ContextType /\ x.life = "alive" /\ x.random = "gone" /\ x.code = ctx[c].code
  BY <1>1, <1>2 DEF ContextType
<1>4. PICK o \in FreeEntities(x) :
        Becomes(c, [o EXCEPT !.x = IF o.fate = "runs" THEN Gone(@) ELSE ctx[c]])
  BY DEF Destroy, Destroyed
<1> HIDE DEF x
<1>5. IsOutcome(o) /\ Freed(x, o.x)
  BY <1>3, FreeEntitiesOutcome
<1>6. /\ Gone(o.x) \in ContextType /\ Gone(o.x).life = "gone" /\ Gone(o.x).allocator = "none"
      /\ Gone(o.x).lock = "gone" /\ Gone(o.x).random = "gone"
      /\ \A e \in Entities : Gone(o.x).code[e] = Null
  <2>1. Gone(o.x) = [NoContext EXCEPT !.life = "gone", !.lock = "gone", !.random = "gone"]
    BY <1>3, <1>5, EmptyContexts DEF Gone, Freed
  <2>2. PICK n \in ContextType : n = NoContext
    BY EmptyContexts
  <2>3. PICK g : g = [n EXCEPT !.life = "gone", !.lock = "gone", !.random = "gone"]
    OBVIOUS
  <2>4. /\ g \in ContextType /\ g.life = "gone" /\ g.lock = "gone" /\ g.random = "gone"
        /\ g.allocator = n.allocator /\ g.code = n.code
    BY <2>3 DEF ContextType
  <2> QED
    BY <2>1, <2>2, <2>3, <2>4, EmptyContexts
<1>7. PICK y \in ContextType :
        /\ ctx' = [ctx EXCEPT ![c] = y]
        /\ \A e \in Entities : y.code[e] \in {Null, ctx[c].code[e]}
        /\ \/ y = Gone(o.x)
           \/ fate' # "runs" /\ y.life = "alive"
  <2>1. CASE o.fate = "runs"
    <3>1. ctx' = [ctx EXCEPT ![c] = Gone(o.x)]
      BY <1>4, <1>5, <2>1 DEF Becomes, IsOutcome
    <3> QED
      BY <1>6, <3>1
  <2>2. CASE o.fate # "runs"
    <3>1. ctx' = [ctx EXCEPT ![c] = ctx[c]] /\ fate' # "runs"
      BY <1>4, <1>5, <2>2 DEF Becomes, IsOutcome
    <3> QED
      BY <1>1, <1>2, <3>1
  <2> QED
    BY <2>1, <2>2
<1>8. ctx' \in [Contexts -> ContextType]
      /\ \A d \in Contexts : ctx'[d] = IF d = c THEN y ELSE ctx[d]
  BY <1>7 DEF Typed
<1>9. Typed' /\ HoldsResult' /\ WrongKept' /\ AllKnown'
  <2>1. \A d \in Contexts, e \in Entities : ctx'[d].code[e] = Junk => ctx[d].code[e] = Junk
    BY <1>7, <1>8, ContextAssumption
  <2>2. call' = [call EXCEPT ![t] = Idle]
    BY <1>1, IdleFacts
  <2> QED
    BY <1>1, <1>8, <2>1, <2>2, IdleFacts, NotAtWork
<1>10. OneCreator'
  BY <1>1, <1>8 DEF OneCreator
<1>11. GeneratorReady'
  BY <1>1, <1>6, <1>7, <1>8 DEF GeneratorReady
<1>12. NothingLeft'
  BY <1>6, <1>7, <1>8 DEF NothingLeft
<1> QED
  BY <1>9, <1>10, <1>11, <1>12

\* The calls that neither create a context nor end one.
LEMMA UseStep ==
  ASSUME IInv, NEW t \in Threads, NEW c,
         \/ Report(t)
         \/ c \in Contexts /\ Draw(t, c)
         \/ c \in Contexts /\ GetUnknown(t, c)
         \/ c \in Contexts /\ \E h \in Handlers \cup {Null} : SetErrorHandler(t, c, h)
         \/ c \in Contexts /\ \E e \in Entities : GetEntity(t, c, e)
  PROVE  IInv'
<1> USE DEF IInv
<1>1. /\ fate = "runs" /\ UNCHANGED <<entities, history>> /\ (NoFailure \/ MayGet)
      /\ call[t].pc \notin AtWork /\ call[t].pc \in {"idle", "report"}
  BY IdleFacts DEF Draw, GetUnknown, Report, SetErrorHandler, GetEntity, Alive, Begin, At, AtWork
<1>2. /\ ctx' \in [Contexts -> ContextType]
      /\ \A d \in Contexts :
           /\ ctx'[d].life = ctx[d].life /\ ctx'[d].allocator = ctx[d].allocator
           /\ ctx'[d].lock = ctx[d].lock /\ ctx'[d].code = ctx[d].code
           /\ ctx'[d].random = ctx[d].random /\ ctx'[d].initialized = ctx[d].initialized
           /\ ctx'[d].available = ctx[d].available /\ ctx'[d].seeded = ctx[d].seeded
  <2>1. CASE UNCHANGED ctx
    BY <2>1 DEF Typed
  <2>2. CASE c \in Contexts /\ Draw(t, c)
    <3>1. PICK o \in Random(ctx[c]) : Becomes(c, o)
      BY <2>2 DEF Draw
    <3>2. ctx[c] \in ContextType /\ ctx[c].initialized
      BY <2>2 DEF Draw, Alive, Typed, GeneratorReady
    <3>3. o.x = ctx[c]
      BY <3>2, RandomOutcome DEF Drew
    <3>4. UNCHANGED ctx
      BY <3>1, <3>3 DEF Becomes, Typed
    <3> QED
      BY <2>1, <3>4
  <2>3. ASSUME NEW h \in Handlers \cup {Null}, SetErrorHandler(t, c, h)
        PROVE  ctx' = [ctx EXCEPT ![c] = [ctx[c] EXCEPT !.error = h]]
    BY <2>3 DEF SetErrorHandler
  <2>4. ASSUME NEW h \in Handlers \cup {Null}, NEW x \in ContextType, NEW y, y = [x EXCEPT !.error = h]
        PROVE  /\ y \in ContextType
               /\ y.life = x.life /\ y.allocator = x.allocator /\ y.lock = x.lock /\ y.code = x.code
               /\ y.random = x.random /\ y.initialized = x.initialized
               /\ y.available = x.available /\ y.seeded = x.seeded
    BY <2>4 DEF ContextType
  <2>5. CASE c \in Contexts /\ \E h \in Handlers \cup {Null} : SetErrorHandler(t, c, h)
    <3>1. PICK h \in Handlers \cup {Null} : ctx' = [ctx EXCEPT ![c] = [ctx[c] EXCEPT !.error = h]]
      BY <2>3, <2>5
    <3>2. PICK y : y = [ctx[c] EXCEPT !.error = h]
      OBVIOUS
    <3>3. \A d \in Contexts : ctx'[d] = IF d = c THEN y ELSE ctx[d]
      BY <3>1, <3>2 DEF Typed
    <3>4. ctx' \in [Contexts -> ContextType]
      BY <2>4, <3>1, <3>2 DEF Typed
    <3>5. ctx[c] \in ContextType
      BY <2>5 DEF Typed
    <3>6. \A d \in Contexts :
            /\ ctx'[d].life = ctx[d].life /\ ctx'[d].allocator = ctx[d].allocator
            /\ ctx'[d].lock = ctx[d].lock /\ ctx'[d].code = ctx[d].code
            /\ ctx'[d].random = ctx[d].random /\ ctx'[d].initialized = ctx[d].initialized
            /\ ctx'[d].available = ctx[d].available /\ ctx'[d].seeded = ctx[d].seeded
      BY <2>4, <3>2, <3>3, <3>5
    <3> QED
      BY <3>4, <3>6
  <2>6. CASE GetUnknown(t, c) \/ Report(t) \/ \E e \in Entities : GetEntity(t, c, e)
    BY <2>1, <2>6 DEF GetUnknown, Report, GetEntity
  <2> QED
    BY <2>2, <2>5, <2>6
<1>3. PICK z \in CallType :
        /\ call' = [call EXCEPT ![t] = z]
        /\ z.pc \in {"idle", "load", "report"} /\ z.op # "create"
        /\ z.pc = "load" => AtLoad(z)
  <2>1. CASE Report(t)
    BY <2>1, IdleFacts DEF Report, Return
  <2>2. CASE Draw(t, c) \/ \E h \in Handlers \cup {Null} : SetErrorHandler(t, c, h)
    BY <2>2, IdleFacts DEF Draw, SetErrorHandler
  <2>3. CASE c \in Contexts /\ GetUnknown(t, c)
    <3> DEFINE z == [Idle EXCEPT !.op = "get", !.pc = "report", !.c = c, !.e = Null, !.key2 = Null]
    <3>1. call' = [call EXCEPT ![t] = z]
      BY <2>3 DEF GetUnknown, Begin
    <3>2. z \in CallType /\ z.pc = "report" /\ z.op = "get"
      BY <2>3 DEF Idle, CallType, Contents
    <3> QED
      BY <3>1, <3>2
  <2>4. ASSUME c \in Contexts, NEW e \in Entities, GetEntity(t, c, e) PROVE
          LET z == [Idle EXCEPT !.op = "get", !.pc = "load", !.c = c, !.e = e, !.key2 = gets + 1]
          IN  /\ call' = [call EXCEPT ![t] = z]
              /\ z \in CallType /\ z.pc = "load" /\ z.op = "get" /\ AtLoad(z)
    <3>1. gets + 1 \in Keys
      BY <2>4, ContextAssumption DEF GetEntity, MayGet, Typed, Keys
    <3> QED
      BY <2>4, <3>1 DEF GetEntity, Begin, Idle, CallType, Contents, AtLoad
  <2>5. CASE c \in Contexts /\ \E e \in Entities : GetEntity(t, c, e)
    BY <2>4, <2>5
  <2> QED
    BY <2>1, <2>2, <2>3, <2>5
<1>4. Typed' /\ HoldsResult' /\ WrongKept' /\ AllKnown'
  <2>1. z.pc \notin AtWork /\ z.pc # "finish"
    BY <1>3 DEF AtWork
  <2> QED
    BY <1>1, <1>2, <1>3, <2>1, NotAtWork
<1>5. OneCreator'
  BY <1>2, <1>3 DEF OneCreator, Typed
<1>6. GeneratorReady' /\ NothingLeft'
  BY <1>1, <1>2 DEF GeneratorReady, NothingLeft
<1> QED
  BY <1>4, <1>5, <1>6

----------------------------------------------------------------------------
(* The invariant and the properties. *)

\* The entities are as mkc wrote them, and no thread is in a call.
LEMMA InitIInv == Init => IInv
<1> SUFFICES ASSUME Init PROVE IInv
  OBVIOUS
<1>1. Typed
  <2>1. MadeKey \in Keys
    BY DEF Keys
  <2>2. call \in [Threads -> CallType] /\ ctx \in [Contexts -> ContextType]
    BY IdleFacts, EmptyContexts DEF Init
  <2>3. \A t \in Threads : call[t].pc = "idle"
    BY IdleFacts DEF Init
  <2> QED
    BY <2>1, <2>2, <2>3, ContextAssumption DEF Init, Typed, AtWork
<1>2. HoldsResult
  BY IdleFacts DEF Init, HoldsResult, Result, Decoded
<1>3. WrongKept
  <2>1. \A c \in Contexts, e \in Entities : ctx[c].code[e] # Junk
    BY EmptyContexts, ContextAssumption DEF Init
  <2> QED
    BY <2>1 DEF WrongKept
<1>4. AllKnown
  <2>1. \A f \in Entities : Loading(f) = {}
    BY IdleFacts DEF Init, Loading
  <2> QED
    BY <2>1 DEF Init, AllKnown, Known
<1>5. OneCreator
  BY IdleFacts DEF Init, OneCreator
<1>6. \A c \in Contexts : ctx[c].life = "none" /\ ctx[c].allocator = "none"
                          /\ ctx[c].lock = "raw" /\ ctx[c].random = "raw"
  BY EmptyContexts DEF Init
<1>7. GeneratorReady /\ NothingLeft
  BY <1>6 DEF GeneratorReady, NothingLeft
<1> QED
  BY <1>1, <1>2, <1>3, <1>4, <1>5, <1>7 DEF IInv

\* Every step of every thread keeps it.
LEMMA StepIInv == IInv /\ [Next]_vars => IInv'
<1> SUFFICES ASSUME IInv, [Next]_vars PROVE IInv'
  OBVIOUS
<1>1. CASE UNCHANGED vars
  <2>1. UNCHANGED <<key, crc, data, ctx, call, fate, raced, dropped, failures, gets>>
    BY <1>1 DEF vars
  <2>2. AllKnown'
    BY <2>1 DEF IInv, AllKnown, Known, Shared, Loading
  <2>3. (Typed /\ HoldsResult /\ WrongKept /\ OneCreator /\ GeneratorReady /\ NothingLeft)'
    BY <2>1 DEF IInv, Typed, HoldsResult, Result, WrongKept, Shared, OneCreator, GeneratorReady,
       NothingLeft, AtLoad
  <2> QED
    BY <2>2, <2>3 DEF IInv
<1>2. ASSUME NEW t \in Threads, Load(t) PROVE IInv'
  BY <1>2, LoadTyped, LoadHolds, LoadWrong, LoadKept, LoadContexts DEF IInv
<1>3. ASSUME NEW t \in Threads, FinishCreate(t) PROVE IInv'
  BY <1>3, FinishStep
<1>4. ASSUME NEW t \in Threads, Report(t) PROVE IInv'
  BY <1>4, UseStep
<1>5. ASSUME NEW t \in Threads, NEW c \in Contexts, Calls(t, c) PROVE IInv'
  <2>1. CASE CreateFails(t, c) \/ CreateMutexFails(t, c) \/ Create(t, c)
    BY <2>1, CreateStep
  <2>2. CASE Destroy(t, c)
    BY <2>2, DestroyStep
  <2>3. CASE \/ Draw(t, c) \/ GetUnknown(t, c)
             \/ \E h \in Handlers \cup {Null} : SetErrorHandler(t, c, h)
             \/ \E e \in Entities : GetEntity(t, c, e)
    BY <2>3, UseStep
  <2> QED
    BY <1>5, <2>1, <2>2, <2>3 DEF Calls
<1> QED
  BY <1>1, <1>2, <1>3, <1>4, <1>5 DEF Next

\* It is an invariant.
LEMMA SpecIInv == Spec => []IInv
  BY InitIInv, StepIInv, PTL DEF Spec

\* However many loads are at work on an entity at once, and in whatever order
\* they test, compare, store and drop its checksum and change its bytes and its
\* key: it comes out wrong only when it, or what it is checked with, was shared
\* and some load dropped its checksum (sm.c:184-209).
THEOREM Checked == Spec => []WrongOnlyUnchecked
<1>1. IInv => WrongOnlyUnchecked
  <2> SUFFICES ASSUME IInv, NEW e \in Entities, ComesOutWrong(e)
               PROVE  Shared(e) /\ e \in dropped
    BY DEF WrongOnlyUnchecked
  <2>1. CASE \E c \in Contexts : ctx[c].code[e] = Junk
    BY <2>1 DEF IInv, WrongKept
  <2>2. CASE \E t \in Loading(e) : call[t].pc \in {"stamp", "rekey"} /\ call[t].r = Junk
    <3>1. PICK t \in Threads : call[t].e = e /\ call[t].pc \in {"stamp", "rekey"} /\ call[t].r = Junk
      BY <2>2 DEF Loading
    <3>2. call[t].pc = "rekey" /\ e \in dropped
      BY <3>1, ContextAssumption DEF IInv, HoldsResult, Result
    <3>3. Shared(e)
      BY <3>1, UnsharedIsPlain, ContextAssumption DEF IInv, Decoded
    <3> QED
      BY <3>2, <3>3
  <2> QED
    BY <2>1, <2>2 DEF ComesOutWrong
<1> QED
  BY <1>1, SpecIInv, PTL

\* An entity that was not shared, nor what it is checked with, stays loadable,
\* whichever of the steps of its loads failed (sm.c:184-220).
THEOREM Kept == Spec => []EntityKept
<1>1. IInv => EntityKept
  BY DEF IInv, EntityKept, AllKnown, Known
<1> QED
  BY <1>1, SpecIInv, PTL

\* A context that was handed out can draw (master_rand.c:53-93, 126-136).
THEOREM Drawable == Spec => []GeneratorReady
  BY SpecIInv, PTL DEF IInv

\* A context's fields have their types, and however far sm_create or sm_destroy
\* got, nothing is left where no context is (sm.c:255-291, 369-393).
THEOREM Life == Spec => []LifeSound
<1>1. IInv => LifeSound
  <2>1. Typed => TypeOK
    BY DEF Typed, TypeOK, ContextType
  <2> QED
    BY <2>1 DEF IInv, LifeSound
<1> QED
  BY <1>1, SpecIInv, PTL
=============================================================================
