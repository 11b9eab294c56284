-------------------------- MODULE ParametersProofs --------------------------
(***************************************************************************)
(* The safety properties of module Parameters, for any set of threads.     *)
(*                                                                         *)
(* The invariant says what the status word stands for: 0, nobody has       *)
(* claimed the mutex; -1, one thread is between its claim and its          *)
(* publication; 1, the mutex is built. Mutual exclusion follows because    *)
(* the thread that may rebuild the mutex exists only while the status is   *)
(* -1, and threads reach the mutex only once it is 1. The parameters then  *)
(* follow from the second test of magic.                                   *)
(***************************************************************************)
EXTENDS Parameters, TLAPS

Building(t) == pc[t] \in {"build", "publish"}

\* What the status word stands for.
StatusTells ==
  /\ status = 0 => owner = Unbuilt /\ \A t \in Thread : ~Building(t)
  /\ status = -1 => \A t \in Thread : pc[t] = "publish" => owner = NoThread
  /\ status = 1 => owner # Unbuilt /\ \A t \in Thread : ~Building(t)

OneBuilder == \A t, u \in Thread : Building(t) /\ Building(u) => t = u

\* Whoever is at the mutex or inside came after its publication.
BehindStatus == \A t \in Thread : pc[t] = "enter" \/ Inside(t) => status = 1

OwnerInside == \A t \in Thread : Inside(t) => owner = t

\* How far the parameters are.
SetUpInside ==
  /\ magic # NoThread => option # "zero"
  /\ option = "chosen" => magic # NoThread
  /\ \A t \in Thread :
       /\ pc[t] \in {"store", "magic"} => magic = NoThread
       /\ pc[t] = "magic" => option # "zero"
       /\ pc[t] \in {"leave", "ready"} => magic # NoThread

IInv ==
  /\ TypeOK
  /\ StatusTells
  /\ OneBuilder
  /\ BehindStatus
  /\ OwnerInside
  /\ SetUpInside

\* The initial state satisfies the invariant.
LEMMA InitIInv == Init => IInv
  BY ThreadAssumption DEF Init, IInv, TypeOK, Labels, StatusTells, OneBuilder, Building,
     BehindStatus, OwnerInside, Inside, SetUpInside

\* Every step of every thread preserves it.
LEMMA StepIInv == IInv /\ [Next]_vars => IInv'
<1> USE ThreadAssumption
<1> SUFFICES ASSUME IInv, [Next]_vars PROVE IInv'
  OBVIOUS
<1> USE DEF IInv, TypeOK, Labels, StatusTells, OneBuilder, Building, BehindStatus,
        OwnerInside, Inside, SetUpInside, Goto
<1>1. CASE UNCHANGED vars
  BY <1>1 DEF vars
<1>2. ASSUME NEW t \in Thread, Call(t) PROVE IInv'
  BY <1>2 DEF Call
<1>3. ASSUME NEW t \in Thread, Check(t) PROVE IInv'
  BY <1>3 DEF Check
<1>4. ASSUME NEW t \in Thread, Spin(t) PROVE IInv'
  BY <1>4 DEF Spin
<1>5. ASSUME NEW t \in Thread, Claim(t) PROVE IInv'
  BY <1>5 DEF Claim
<1>6. ASSUME NEW t \in Thread, Build(t) PROVE IInv'
  BY <1>6 DEF Build
<1>7. ASSUME NEW t \in Thread, Publish(t) PROVE IInv'
  BY <1>7 DEF Publish
<1>8. ASSUME NEW t \in Thread, Sleep(t) PROVE IInv'
  BY <1>8 DEF Sleep
<1>9. ASSUME NEW t \in Thread, Enter(t) PROVE IInv'
  BY <1>9 DEF Enter
<1>10. ASSUME NEW t \in Thread, Test(t) PROVE IInv'
  BY <1>10 DEF Test
<1>11. ASSUME NEW t \in Thread, Store(t) PROVE IInv'
  BY <1>11 DEF Store
<1>12. ASSUME NEW t \in Thread, StoreMagic(t) PROVE IInv'
  BY <1>12 DEF StoreMagic
<1>13. ASSUME NEW t \in Thread, Leave(t) PROVE IInv'
  BY <1>13 DEF Leave
<1>14. ASSUME NEW t \in Thread, Use(t) PROVE IInv'
  BY <1>14 DEF Use
<1> QED
  BY <1>1, <1>2, <1>3, <1>4, <1>5, <1>6, <1>7, <1>8, <1>9, <1>10, <1>11, <1>12,
     <1>13, <1>14 DEF Next, Step

\* It is an invariant.
LEMMA SpecIInv == Spec => []IInv
  BY InitIInv, StepIInv, PTL DEF Spec

\* Two threads are never inside the critical section of sm_init_params, for
\* any number of threads (allocator_internal.c:1415-1478).
THEOREM Exclusion == Spec => []MutualExclusion
<1>1. IInv => MutualExclusion
  BY DEF IInv, MutualExclusion, OwnerInside
<1> QED
  BY <1>1, SpecIInv, PTL

\* No thread waits at a mutex that is not built: the spin loop lets it past
\* only after its builder published it (allocator_internal.c:793-806).
THEOREM Built == Spec => []EntersBuiltMutex
<1>1. IInv => EntersBuiltMutex
  BY ThreadAssumption DEF IInv, TypeOK, EntersBuiltMutex, BehindStatus, StatusTells
<1> QED
  BY <1>1, SpecIInv, PTL

\* Whoever passes sm_ensure_initialization finds the parameters set.
THEOREM Ready == Spec => []ReadyMeansSet
<1>1. IInv => ReadyMeansSet
  BY DEF IInv, ReadyMeansSet, SetUpInside
<1> QED
  BY <1>1, SpecIInv, PTL

\* The magic never changes and no chosen option is reset.
THEOREM Once == Spec => SetUpOnce
<1>1. IInv /\ [Next]_vars
        => [/\ magic # NoThread => magic' = magic
            /\ option = "chosen" => option' = "chosen"]_vars
  <2> SUFFICES ASSUME IInv, NEW t \in Thread, Call(t) \/ Step(t)
               PROVE  /\ magic # NoThread => magic' = magic
                      /\ option = "chosen" => option' = "chosen"
    BY DEF Next
  <2>1. CASE Store(t)
    BY <2>1 DEF Store, Goto, IInv, SetUpInside
  <2>2. CASE StoreMagic(t)
    BY <2>2 DEF StoreMagic, Goto, IInv, SetUpInside
  <2>3. CASE Use(t)
    BY <2>3 DEF Use
  <2> QED
    BY <2>1, <2>2, <2>3 DEF Step, Call, Check, Spin, Claim, Build, Publish, Sleep, Enter,
       Test, Leave
<1> QED
  BY <1>1, SpecIInv, PTL DEF Spec, SetUpOnce
=============================================================================
