----------------------------- MODULE Parameters -----------------------------
(***************************************************************************)
(* The lazy initialization of an allocator context on Windows: the global  *)
(* mutex, built once by whichever thread claims it, and the parameters,    *)
(* tested without the mutex first and again inside it                      *)
(* (allocator_internal.c:791-808, 1408-1507).                              *)
(*                                                                         *)
(* The five parameters other than magic are stored one after the other     *)
(* before it; one step stores them here, since nobody looks at them before *)
(* magic is there.                                                         *)
(***************************************************************************)
EXTENDS Integers

CONSTANTS Thread,
  NoThread,  \* the mutex is free; also the magic of a context nobody has set up
  Unbuilt    \* nobody has initialised the mutex

ASSUME ThreadAssumption == NoThread \notin Thread /\ Unbuilt \notin Thread \cup {NoThread}

VARIABLES
  status,  \* context->mutex_status
  owner,   \* of context->mutex
  option,  \* the settable parameters: zero, their defaults, or chosen by a caller
  magic,   \* parameters.magic, named by the thread whose clock it was taken from
  pc

vars == <<status, owner, option, magic, pc>>

Goto(t, from, to) == pc[t] = from /\ pc' = [pc EXCEPT ![t] = to]

Init ==
  /\ status = 0
  /\ owner = Unbuilt
  /\ option = "zero"
  /\ magic = NoThread
  /\ pc = [t \in Thread |-> "idle"]

\* Mutant of Call: the mutex stands in for the parameters.
CallTrustsStatus(t) ==
  /\ Goto(t, "idle", IF status > 0 THEN "ready" ELSE "check")
  /\ UNCHANGED <<status, owner, option, magic>>

\* sm_ensure_initialization.
Call(t) ==
  /\ Goto(t, "idle", IF magic # NoThread THEN "ready" ELSE "check")
  /\ UNCHANGED <<status, owner, option, magic>>

\* sm_init_params looks at the status first.
Check(t) ==
  /\ Goto(t, "check", IF status <= 0 THEN "spin" ELSE "enter")
  /\ UNCHANGED <<status, owner, option, magic>>

\* Mutant of Spin: somebody is building it, so it must be there.
SpinOnce(t) ==
  /\ Goto(t, "spin", IF status = 0 THEN "claim" ELSE "enter")
  /\ UNCHANGED <<status, owner, option, magic>>

\* One look at the status in the loop.
Spin(t) ==
  /\ Goto(t, "spin", IF status > 0 THEN "enter" ELSE IF status = 0 THEN "claim" ELSE "sleep")
  /\ UNCHANGED <<status, owner, option, magic>>

\* Mutant of Claim: a plain store in place of the compare-and-exchange.
ClaimPlainly(t) ==
  /\ Goto(t, "claim", "build")
  /\ status' = -1
  /\ UNCHANGED <<owner, option, magic>>

\* The compare-and-exchange.
Claim(t) ==
  /\ Goto(t, "claim", IF status = 0 THEN "build" ELSE "sleep")
  /\ status' = IF status = 0 THEN -1 ELSE status
  /\ UNCHANGED <<owner, option, magic>>

\* InitializeCriticalSection; it would free a mutex that was already built.
Build(t) ==
  /\ Goto(t, "build", "publish")
  /\ owner' = NoThread
  /\ UNCHANGED <<status, option, magic>>

\* Mutant of Publish: the status is left as claimed.
PublishNothing(t) == Goto(t, "publish", "enter") /\ UNCHANGED <<status, owner, option, magic>>

Publish(t) ==
  /\ Goto(t, "publish", "enter")
  /\ status' = 1
  /\ UNCHANGED <<owner, option, magic>>

Sleep(t) == Goto(t, "sleep", "spin") /\ UNCHANGED <<status, owner, option, magic>>

\* EnterCriticalSection; one that nobody has built may well let the thread in.
Enter(t) ==
  /\ owner \in {NoThread, Unbuilt}
  /\ Goto(t, "enter", "test")
  /\ owner' = t
  /\ UNCHANGED <<status, option, magic>>

\* Mutant of Test: no second look at magic.
TestNothing(t) == Goto(t, "test", "store") /\ UNCHANGED <<status, owner, option, magic>>

Test(t) ==
  /\ Goto(t, "test", IF magic = NoThread THEN "store" ELSE "leave")
  /\ UNCHANGED <<status, owner, option, magic>>

Store(t) ==
  /\ Goto(t, "store", "magic")
  /\ option' = "default"
  /\ UNCHANGED <<status, owner, magic>>

StoreMagic(t) ==
  /\ Goto(t, "magic", "leave")
  /\ magic' = t
  /\ UNCHANGED <<status, owner, option>>

Leave(t) ==
  /\ Goto(t, "leave", "ready")
  /\ owner' = NoThread
  /\ UNCHANGED <<status, option, magic>>

\* The caller uses the parameters, or sm_change_param stores one, unlocked.
Use(t) ==
  /\ Goto(t, "ready", "idle")
  /\ option' \in {option, "chosen"}
  /\ UNCHANGED <<status, owner, magic>>

\* A call that has begun.
Step(t) ==
  \/ Check(t) \/ Spin(t) \/ Claim(t) \/ Build(t) \/ Publish(t) \/ Sleep(t)
  \/ Enter(t) \/ Test(t) \/ Store(t) \/ StoreMagic(t) \/ Leave(t) \/ Use(t)

Next == \E t \in Thread : Call(t) \/ Step(t)

\* Every thread with a call under way gets the processor again and again.
Spec == Init /\ [][Next]_vars /\ \A t \in Thread : WF_vars(Step(t))

-----------------------------------------------------------------------------
(* Properties. *)

Labels == {"idle", "check", "spin", "claim", "build", "publish", "sleep",
           "enter", "test", "store", "magic", "leave", "ready"}

Inside(t) == pc[t] \in {"test", "store", "magic", "leave"}

\* Every variable has its type.
TypeOK ==
  /\ status \in {-1, 0, 1}
  /\ owner \in Thread \cup {NoThread, Unbuilt}
  /\ option \in {"zero", "default", "chosen"}
  /\ magic \in Thread \cup {NoThread}
  /\ pc \in [Thread -> Labels]

\* No thread enters the mutex before its builder has finished (1415 after 808).
EntersBuiltMutex == \A t \in Thread : pc[t] = "enter" => owner # Unbuilt

\* Two threads are never inside sm_init_params's critical section together:
\* the mutex is not built a second time under a thread that holds it.
MutualExclusion == \A t, u \in Thread : Inside(t) /\ Inside(u) => t = u

\* A thread that has passed sm_ensure_initialization, with the mutex or past
\* it, finds every parameter set (1074, 1474: magic is stored last).
ReadyMeansSet == \A t \in Thread : pc[t] = "ready" => magic # NoThread /\ option # "zero"

\* The parameters are set up once. The magic in the footer of every chunk stays
\* the one free decodes with (1400-1401), and an option a caller has chosen is
\* not reset by a thread that began to initialise earlier.
SetUpOnce ==
  [][/\ magic # NoThread => magic' = magic
     /\ option = "chosen" => option' = "chosen"]_vars

\* Every call gets through, the spinning ones included.
CallsReturn == \A t \in Thread : pc[t] = "check" ~> pc[t] = "ready"
=============================================================================
