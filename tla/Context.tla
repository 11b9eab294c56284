------------------------------ MODULE Context ------------------------------
(***************************************************************************)
(* The life of a context (sm.c, allocator.c) with its master random        *)
(* generator (master_rand.c), and the encrypted entities it loads: code    *)
(* and tables that the program keeps under a key in variables of the whole *)
(* process and encrypts anew, under a new key, with every load.            *)
(*                                                                         *)
(* Abstractions.  What an entity's bytes hold is the key they are under,   *)
(* or Junk.  A checksum is the key it was computed with (over the right    *)
(* bytes), Junk, or Dropped.  A random key is one nobody had before.       *)
(* sm_create fills the context with random bytes; a field that is read     *)
(* before it was stored is not in "stored", and a call through it ends the *)
(* process or happens to work, as the build has it.  So does a call of     *)
(* wrong code, entering a mutex that is not built, and drawing from a      *)
(* state that is not seeded.                                               *)
(***************************************************************************)
EXTENDS Integers, Sequences, FiniteSets, Functions

CONSTANTS Threads, Contexts, Handlers, MaxFailures, MaxGets,
          MadeKey, Null, Plain, Junk, Dropped

\* The keys: those that mkc wrote, and one drawn for each load; the loads of
\* one sm_create are of different entities and may share a name.
Keys == {MadeKey} \cup Contexts \cup (1 .. MaxGets)

\* A debug build has a handler of its own; no entity, absent or wrong code is
\* the code; a wrong checksum is that of no key.
ASSUME ContextAssumption ==
    /\ MaxFailures \in Nat /\ MaxGets \in Nat
    /\ \E h \in Handlers : h # Null
    /\ Plain # Junk /\ Null # Junk
    /\ Junk \notin Keys \cup {Dropped}

VARIABLES
    key, crc, data,   \* the entities, for every context of the process
    ctx,              \* the contexts
    call,             \* what each thread is doing
    build,            \* "release" or "debug"
    rdrand,           \* whether the processor has the instruction
    fate,             \* "runs", or what ended the process
    raced,            \* the entities two loads were at work on at once
    dropped,          \* those whose checksum some load dropped
    failures,         \* how many allocations and protections have failed
    gets              \* how often sm_get_entity was called

entities == <<key, crc, data>>
history == <<raced, dropped>>
vars == <<key, crc, data, ctx, call, build, rdrand, fate, raced, dropped, failures, gets>>

\* The entities a context keeps, in the order sm_create loads and sm_destroy
\* frees them.  The 32-bit table and function, which nothing here reads, are
\* loaded after and freed before them, and left out.
Order == <<"tab_64", "crc_64", "exists", "next">>
Entities == Range(Order)
Tables == {"tab_64"}

NoContext ==
    [life |-> "none", allocator |-> "none", stored |-> {}, code |-> [e \in Entities |-> Null],
     lock |-> "raw", random |-> "raw", initialized |-> FALSE, available |-> 255,
     seeded |-> FALSE, error |-> Null]

Idle == [op |-> "idle", pc |-> "idle", c |-> Null, e |-> Null, key2 |-> Null,
         r |-> Null, sum |-> Null]

Init ==
    /\ key = [e \in Entities |-> MadeKey]
    /\ crc = [e \in Entities |-> MadeKey]
    /\ data = [e \in Entities |-> MadeKey]
    /\ ctx = [c \in Contexts |-> NoContext]
    /\ call = [t \in Threads |-> Idle]
    /\ build \in {"release", "debug"}
    /\ rdrand \in BOOLEAN
    /\ fate = "runs" /\ raced = {} /\ dropped = {} /\ failures = 0 /\ gets = 0

(***************************************************************************)
(* The master random generator.  Outcomes are pairs of the context after   *)
(* the call and the fate of the process.                                   *)
(***************************************************************************)
Runs(x) == [x |-> x, fate |-> "runs"]
Ends(x, why) == [x |-> x, fate |-> why]
Then(X, Op(_)) == UNION {IF o.fate = "runs" THEN Op(o.x) ELSE {o} : o \in X}

Unless(bad, x, why) == {Runs(x)} \cup IF bad THEN {Ends(x, why)} ELSE {}

\* A call through a field of the context.
CallField(x, f) == Unless(f \notin x.stored, x, "wild call")
\* A call of a loaded function.
CallCode(x, e) == Unless(x.code[e] = Junk, x, "wild call")
\* crc_64 looks every byte up in tab_64, which may not have been loaded.
CallCrc(x) ==
    Then(CallCode(x, "crc_64"),
         LAMBDA y : {IF y.code["tab_64"] = Null THEN Ends(y, "read through NULL") ELSE Runs(y)})
EnterRandom(x) == Unless(x.random # "built", x, "entered a mutex not built")

\* A mutant: the second function is not asked for.
ProbeOne(x) ==
    IF x.available # 255 THEN {Runs(x)}
    ELSE IF x.code["exists"] # Null
    THEN Then(CallCode(x, "exists"),
              LAMBDA y : {Runs([y EXCEPT !.available = IF rdrand THEN 1 ELSE 0])})
    ELSE {Runs([x EXCEPT !.available = 0])}

Probe(x) ==
    IF x.available # 255 THEN {Runs(x)}
    ELSE IF {"exists", "next"} \subseteq x.stored /\ x.code["exists"] # Null /\ x.code["next"] # Null
    THEN Then(CallCode(x, "exists"),
              LAMBDA y : {Runs([y EXCEPT !.available = IF rdrand THEN 1 ELSE 0])})
    ELSE Then(Unless(~({"exists", "next"} \subseteq x.stored), x, "wild call"),
              LAMBDA y : {Runs([y EXCEPT !.available = 0])})

SeedState(x) ==
    IF x.available = 1 THEN {Runs([x EXCEPT !.initialized = TRUE])}
    ELSE {Runs([x EXCEPT !.initialized = TRUE, !.seeded = TRUE])}

\* The test of "initialized" (126) takes no lock.  It is one step with what
\* follows because no two first draws can meet: sm_create draws (333) before it
\* has returned the context to anyone.
RandomInitialize(x) == Then(EnterRandom(x), LAMBDA y : Then(Probe(y), SeedState))

DrawNext(x) ==
    IF x.available = 1 /\ x.code["next"] # Null THEN CallCode(x, "next")
    ELSE Then(EnterRandom(x), LAMBDA y : Unless(~y.seeded, y, "drew from a raw state"))

\* While the context is being loaded, nothing the generator reads is stored.
Random(x) ==
    IF "initialized" \notin x.stored THEN Unless(TRUE, x, "wild call")
    ELSE Then(IF x.initialized THEN {Runs(x)} ELSE RandomInitialize(x), DrawNext)

\* random.method, overwritten by the fill and never stored again.
Method(x) == Then(CallField(x, "method"), Random)

(***************************************************************************)
(* Calls, threads and outcomes.                                            *)
(***************************************************************************)
Begin(t, op, pc, c, e, k) ==
    /\ call[t] = Idle
    /\ call' = [call EXCEPT ![t] = [Idle EXCEPT !.op = op, !.pc = pc, !.c = c, !.e = e,
                                            !.key2 = k]]

At(t, pc) == fate = "runs" /\ call[t].pc = pc
Return(t) == call' = [call EXCEPT ![t] = Idle]
Becomes(c, o) == ctx' = [ctx EXCEPT ![c] = o.x] /\ fate' = o.fate

MayFail == failures < MaxFailures /\ failures' = failures + 1 /\ gets' = gets
NoFailure == failures' = failures /\ gets' = gets

MayGet == gets < MaxGets /\ gets' = gets + 1 /\ failures' = failures

UsersOf(c) == {t \in Threads : call[t].c = c}
Alive(c) == fate = "runs" /\ ctx[c].life = "alive"

(***************************************************************************)
(* sm_load_entity, for sm_create and for sm_get_entity.                    *)
(***************************************************************************)
AtWork == {"decode", "recode", "check", "sum", "compare", "stamp", "drop", "rekey"}

Loading(e) == {t \in Threads : call[t].e = e /\ call[t].pc \in AtWork}

\* Where a load goes when it returns r: the next one, the end of sm_create,
\* or the caller of sm_get_entity.
AfterLoad(t, r) ==
    LET i == CHOOSE n \in DOMAIN Order : Order[n] = call[t].e
        next == IF i < Len(Order) THEN Order[i + 1] ELSE Null
    IN  IF call[t].op = "get" THEN Idle
        ELSE [Idle EXCEPT !.op = "create", !.c = call[t].c, !.e = next,
                          !.key2 = call[t].key2, !.pc = IF next = Null THEN "finish" ELSE "load"]

Stored(t, x, r) ==
    IF call[t].op = "get" THEN x
    ELSE [x EXCEPT !.code[call[t].e] = r, !.stored = @ \cup {call[t].e}]

Loaded(t, o, r) ==
    /\ Becomes(call[t].c, [o EXCEPT !.x = Stored(t, o.x, r)])
    /\ call' = [call EXCEPT ![t] = AfterLoad(t, r)]

LoadFails(t) ==
    /\ At(t, "load")
    /\ MayFail
    /\ Loaded(t, Runs(ctx[call[t].c]), Null)
    /\ UNCHANGED <<entities, build, rdrand, history>>

\* The block is there and the new key is drawn.
LoadDraws(t) ==
    LET c == call[t].c  e == call[t].e
    IN  /\ At(t, "load")
        /\ \E o \in Method(ctx[c]) : Becomes(c, o)
        /\ call' = [call EXCEPT ![t].pc = "decode"]
        /\ raced' = raced \cup IF Loading(e) = {} THEN {} ELSE {e}
        /\ NoFailure
        /\ UNCHANGED <<entities, build, rdrand, dropped>>

Decode(t) ==
    LET e == call[t].e
    IN  /\ At(t, "decode")
        /\ call' = [call EXCEPT ![t].pc = "recode",
                                ![t].r = IF data[e] = key[e] THEN Plain ELSE Junk]
        /\ NoFailure
        /\ UNCHANGED <<entities, ctx, build, rdrand, fate, history>>

Recode(t) ==
    LET e == call[t].e
    IN  /\ At(t, "recode")
        /\ data' = [data EXCEPT ![e] = IF call[t].r = Plain THEN call[t].key2 ELSE Junk]
        /\ call' = [call EXCEPT ![t].pc = "check"]
        /\ NoFailure
        /\ UNCHANGED <<key, crc, ctx, build, rdrand, fate, history>>

(***************************************************************************)
(* The check.  No lock is held: another load may change or drop the        *)
(* checksum, or change the key, between any two of its steps.              *)
(***************************************************************************)
HasCrc(x) == "crc_64" \in x.stored /\ x.code["crc_64"] # Null

\* A mutant: the checksum is taken of the entity's own bytes, not of the copy.
ChecksumOfSource(x, e, r) == key[e]

\* The checksum of the copy, under the old key, read again; it takes the right
\* function and the right table to compute it.
Checksum(x, e, r) ==
    IF r = Plain /\ Junk \notin {x.code["crc_64"], x.code["tab_64"]} THEN key[e] ELSE Junk

CheckStarts(t) ==
    LET c == call[t].c  e == call[t].e
    IN  /\ At(t, "check")
        /\ crc[e] # Dropped /\ HasCrc(ctx[c])
        /\ call' = [call EXCEPT ![t].pc = "sum"]
        /\ NoFailure
        /\ UNCHANGED <<entities, ctx, build, rdrand, fate, history>>

Sum(t) ==
    LET c == call[t].c  e == call[t].e
    IN  /\ At(t, "sum")
        /\ \E o \in CallCrc(ctx[c]) : Becomes(c, o)
        /\ call' = [call EXCEPT ![t].pc = "compare",
                                ![t].sum = Checksum(ctx[c], e, call[t].r)]
        /\ NoFailure
        /\ UNCHANGED <<entities, build, rdrand, history>>

CheckPasses(t) ==
    /\ At(t, "compare")
    /\ crc[call[t].e] = call[t].sum
    /\ call' = [call EXCEPT ![t].pc = "stamp"]
    /\ NoFailure
    /\ UNCHANGED <<entities, ctx, build, rdrand, fate, history>>

\* Scrambled, released, reported (to no one in a release build), and NULL.
CheckFails(t) ==
    /\ At(t, "compare")
    /\ crc[call[t].e] # call[t].sum
    /\ \E o \in Method(ctx[call[t].c]) : Loaded(t, o, Null)
    /\ NoFailure
    /\ UNCHANGED <<entities, build, rdrand, history>>

\* The checksum of the copy under the new key is stored, whatever became of
\* the old one meanwhile.
Stamp(t) ==
    LET c == call[t].c
    IN  /\ At(t, "stamp")
        /\ \E o \in CallCrc(ctx[c]) : Becomes(c, o)
        /\ crc' = [crc EXCEPT ![call[t].e] = call[t].key2]
        /\ call' = [call EXCEPT ![t].pc = "rekey"]
        /\ NoFailure
        /\ UNCHANGED <<key, data, build, rdrand, history>>

\* No function to check with, or nothing to compare with.
CheckSkipped(t) ==
    LET c == call[t].c  e == call[t].e
        blind == Unless("crc_64" \notin ctx[c].stored, ctx[c], "wild call")
    IN  /\ At(t, "check")
        /\ crc[e] = Dropped \/ ~HasCrc(ctx[c])
        /\ \E o \in IF crc[e] = Dropped THEN {Runs(ctx[c])} ELSE blind : Becomes(c, o)
        /\ call' = [call EXCEPT ![t].pc = "drop"]
        /\ NoFailure
        /\ UNCHANGED <<entities, build, rdrand, history>>

Drop(t) ==
    LET e == call[t].e
    IN  /\ At(t, "drop")
        /\ crc' = [crc EXCEPT ![e] = Dropped]
        /\ dropped' = dropped \cup {e}
        /\ call' = [call EXCEPT ![t].pc = "rekey"]
        /\ NoFailure
        /\ UNCHANGED <<key, data, ctx, build, rdrand, fate, raced>>

\* A mutant: the key follows only when the code could be made executable.
RekeyLate(t, done) == [key EXCEPT ![call[t].e] = IF done THEN call[t].key2 ELSE @]

Rekey(t, done) == [key EXCEPT ![call[t].e] = call[t].key2]

LoadReturns(t) ==
    LET x == ctx[call[t].c]
        made == IF call[t].e \in Tables THEN {Runs(x)} ELSE CallField(x, "protect")
    IN  /\ At(t, "rekey")
        /\ key' = Rekey(t, TRUE)
        /\ \E o \in made : Loaded(t, o, call[t].r)
        /\ NoFailure
        /\ UNCHANGED <<crc, data, build, rdrand, history>>

NotExecutable(t) ==
    LET x == ctx[call[t].c]
    IN  /\ At(t, "rekey") /\ call[t].e \notin Tables
        /\ key' = Rekey(t, FALSE)
        /\ \E o \in Then(CallField(x, "protect"), Method) : Loaded(t, o, Null)
        /\ MayFail
        /\ UNCHANGED <<crc, data, build, rdrand, history>>

(***************************************************************************)
(* sm_create.                                                              *)
(***************************************************************************)
\* sm_allocator_create_context: no memory for it, none for its space, or both.
Allocators == {"none", "bare", "space"}

\* The space's segments are unmapped, the allocator zeroed and freed.
DestroyAllocator(a) == "none"

\* A mutant: the allocator is left when the mutex cannot be made.
GiveBackBlock(x) == [NoContext EXCEPT !.allocator = x.allocator]

\* The context's block and its allocator go back.
GiveBack(x) == [NoContext EXCEPT !.allocator = DestroyAllocator(x.allocator)]

\* There is no allocator, or its space has no room for the context; a space
\* that could not be made is read all the same.
CreateFails(t, c) ==
    /\ fate = "runs" /\ ctx[c].life = "none" /\ call[t] = Idle
    /\ MayFail
    /\ \E a \in Allocators :
        /\ fate' = IF a = "bare" THEN "read through NULL" ELSE "runs"
        /\ ctx' = [ctx EXCEPT ![c] = GiveBack([NoContext EXCEPT !.allocator = a])]
    /\ UNCHANGED <<entities, call, build, rdrand, history>>

Filled == [NoContext EXCEPT !.life = "creating", !.allocator = "space"]

CreateMutexFails(t, c) ==
    /\ fate = "runs" /\ ctx[c].life = "none" /\ call[t] = Idle
    /\ MayFail
    /\ ctx' = [ctx EXCEPT ![c] = GiveBack(Filled)]
    /\ UNCHANGED <<entities, call, build, rdrand, fate, history>>

Create(t, c) ==
    LET first == IF build = "release" THEN Order[1] ELSE Null
        pc == IF build = "release" THEN "load" ELSE "finish"
        handler == IF build = "release" THEN Null ELSE CHOOSE h \in Handlers : h # Null
    IN  /\ fate = "runs" /\ ctx[c].life = "none"
        /\ Begin(t, "create", pc, c, first, c)
        /\ ctx' = [ctx EXCEPT ![c] = [Filled EXCEPT !.lock = "built", !.error = handler]]
        /\ NoFailure
        /\ UNCHANGED <<entities, build, rdrand, fate, history>>

\* What follows the loads: the generator's fields, a first draw and the
\* checksum of the context.
Settled(x) ==
    [x EXCEPT !.stored = @ \cup {"initialized", "available", "entropy"},
              !.initialized = FALSE, !.available = 255, !.random = "built", !.life = "alive"]

OwnChecksum(x) ==
    IF HasCrc(x) THEN CallCrc(x)
    ELSE Unless("crc_64" \notin x.stored, x, "wild call")

FinishCreate(t) ==
    LET c == call[t].c
    IN  /\ At(t, "finish")
        /\ \E o \in Then(Random(Settled(ctx[c])), OwnChecksum) : Becomes(c, o)
        /\ Return(t)
        /\ NoFailure
        /\ UNCHANGED <<entities, build, rdrand, history>>

(***************************************************************************)
(* sm_destroy.  Nobody else is in a call on the context.                   *)
(***************************************************************************)
\* sm_free_entity: the pointer is cleared, then the block is overwritten,
\* through the generator, and released.
FreeEntity(x, e) ==
    LET y == [x EXCEPT !.code[e] = Null]
    IN  Then(Method(y), LAMBDA z : {IF x.code[e] = Null THEN Ends(z, "wrote through NULL")
                                    ELSE Runs(z)})

FreeEntities(x) ==
    IF build = "debug" THEN {Runs(x)}
    ELSE LET Free(X, i) == Then(X, LAMBDA y : FreeEntity(y, Order[i]))
         IN  Free(Free(Free(FreeEntity(x, Order[1]), 2), 3), 4)

Gone(x) ==
    [GiveBack(x) EXCEPT !.life = "gone", !.lock = "gone", !.random = x.random]

\* What becomes of the context; of one whose process has ended, nothing.
Destroyed(x) ==
    {[o EXCEPT !.x = IF o.fate = "runs" THEN Gone(@) ELSE x] :
        o \in FreeEntities([x EXCEPT !.initialized = FALSE, !.random = "gone"])}

Destroy(t, c) ==
    /\ call[t] = Idle /\ Alive(c) /\ UsersOf(c) = {}
    /\ \E o \in Destroyed(ctx[c]) : Becomes(c, o)
    /\ NoFailure
    /\ UNCHANGED <<entities, call, build, rdrand, history>>

(***************************************************************************)
(* The other calls on a context.                                           *)
(***************************************************************************)
Draw(t, c) ==
    /\ call[t] = Idle /\ Alive(c)
    /\ \E o \in Random(ctx[c]) : Becomes(c, o)
    /\ NoFailure
    /\ UNCHANGED <<entities, call, build, rdrand, history>>

SetErrorHandler(t, c, h) ==
    /\ call[t] = Idle /\ Alive(c)
    /\ ctx' = [ctx EXCEPT ![c].error = h]
    /\ NoFailure
    /\ UNCHANGED <<entities, call, build, rdrand, fate, history>>

GetEntity(t, c, e) ==
    /\ Alive(c) /\ build = "release"
    /\ Begin(t, "get", "load", c, e, gets + 1)
    /\ MayGet
    /\ UNCHANGED <<entities, ctx, build, rdrand, fate, history>>

\* An unknown identifier: the handler is tested, and read again to be called.
GetUnknown(t, c) ==
    /\ Alive(c) /\ ctx[c].error # Null
    /\ Begin(t, "get", "report", c, Null, Null)
    /\ MayGet
    /\ UNCHANGED <<entities, ctx, build, rdrand, fate, history>>

Report(t) ==
    /\ At(t, "report")
    /\ fate' = IF ctx[call[t].c].error = Null THEN "called NULL" ELSE "runs"
    /\ Return(t)
    /\ NoFailure
    /\ UNCHANGED <<entities, ctx, build, rdrand, history>>

Load(t) ==
    \/ LoadFails(t) \/ LoadDraws(t) \/ Decode(t) \/ Recode(t)
    \/ CheckStarts(t) \/ Sum(t) \/ CheckPasses(t) \/ CheckFails(t) \/ Stamp(t)
    \/ CheckSkipped(t) \/ Drop(t)
    \/ LoadReturns(t) \/ NotExecutable(t)

Calls(t, c) ==
    \/ CreateFails(t, c) \/ CreateMutexFails(t, c) \/ Create(t, c)
    \/ Destroy(t, c) \/ Draw(t, c) \/ GetUnknown(t, c)
    \/ \E h \in Handlers \cup {Null} : SetErrorHandler(t, c, h)
    \/ \E e \in Entities : GetEntity(t, c, e)

Next == \E t \in Threads :
            \/ Load(t) \/ FinishCreate(t) \/ Report(t)
            \/ \E c \in Contexts : Calls(t, c)

Spec == Init /\ [][Next]_vars

(***************************************************************************)
(* Properties.                                                             *)
(***************************************************************************)
Contents == {Null, Plain, Junk}

TypeOK ==
    /\ key \in [Entities -> Keys]
    /\ crc \in [Entities -> Keys \cup {Dropped}]
    /\ data \in [Entities -> Keys \cup {Junk}]
    /\ \A c \in Contexts :
        /\ ctx[c].life \in {"none", "creating", "alive", "gone"}
        /\ ctx[c].code \in [Entities -> Contents]
        /\ ctx[c].available \in {0, 1, 255}
        /\ ctx[c].error \in Handlers \cup {Null}
    /\ failures \in 0 .. MaxFailures

\* Two loads worked at once on the entity, or on what every check needs: with a
\* wrong function or table the check of a good entity fails, after its bytes
\* were put under the new key and before the key follows.
Shared(e) == {e, "crc_64", "tab_64"} \cap raced # {}

\* A context keeps wrong code of an entity, or a load is about to return it.
ComesOutWrong(e) ==
    \/ \E c \in Contexts : ctx[c].code[e] = Junk
    \/ \E t \in Loading(e) : call[t].pc \in {"stamp", "rekey"} /\ call[t].r = Junk

\* Whatever loads are at work on an entity at once, in one context or in
\* several, and in whatever order they change its bytes, its checksum and
\* its key: an entity comes out wrong only when it, or what it is checked with,
\* was shared, and some load has dropped its checksum, which another may have
\* stored again since.  One whose checksum nobody dropped comes out right or
\* not at all (sm_load_entity 190-209).
WrongOnlyUnchecked ==
    \A e \in Entities : ComesOutWrong(e) => Shared(e) /\ e \in dropped

\* An entity that was not shared, nor what it is checked with, stays loadable,
\* whichever step of a load failed: its bytes are under its key and its
\* checksum, if it still has one, belongs to that key (sm_load_entity 184-220).
EntityKept ==
    \A e \in Entities :
        ~Shared(e) /\ Loading(e) = {} => data[e] = key[e] /\ crc[e] \in {Dropped, key[e]}

\* A context that was handed out draws from the instruction only when both
\* functions were loaded, and from the state only when it was seeded
\* (sm_random_initialize 53-93, sm_random 126-136).
GeneratorReady ==
    fate = "runs" => \A c \in Contexts : ctx[c].life = "alive" =>
        LET x == ctx[c]
        IN  /\ x.initialized /\ x.random = "built"
            /\ \/ x.available = 1 /\ x.code["exists"] # Null /\ x.code["next"] # Null
               \/ x.available = 0 /\ x.seeded

\* Where no context is, none of its memory and mutexes is left, however far
\* sm_create or sm_destroy got (sm_create 255-291, sm_destroy 369-393).
NothingLeft ==
    \A c \in Contexts : ctx[c].life \in {"none", "gone"} =>
        ctx[c].allocator = "none" /\ "built" \notin {ctx[c].lock, ctx[c].random}

\* A context's fields have their types, and its end leaves none of them.
LifeSound == TypeOK /\ NothingLeft

\* False of the code: every call through a field of the context finds a
\* function that was stored there.
NoWildCall == fate # "wild call"
=============================================================================
