-------------------------- MODULE SchedLockProofs --------------------------
(***************************************************************************)
(* For any number of processes, threads, wake slots and execs: the lock    *)
(* word names the one live thread inside, never a live thread outside, and *)
(* the lock implements Mutex.                                              *)
(***************************************************************************)
EXTENDS SchedLock, TLAPS

\* A thread that means to take the lock over saw the word of a thread that
\* was, and so stays, dead.
SuspectIsDead == \A t \in Thread : pc[t] = "judging" => saw[t] \in Dead

\* A new image is alone in its process.
FreshAlone ==
    \A t, u \in Thread :
        pc[t] = "fresh" /\ u # t /\ ProcOf[u] = ProcOf[t] => pc[u] = "dead"

\* What is inductive.  Exclusion needs to know that the word a thread takes
\* over, or takes back after an exec, is that of a dead thread.
Safe == Exclusion /\ NoGhostOwner /\ SuspectIsDead /\ FreshAlone
IInv == TypeOK /\ Safe

\* The lock is free and everybody outside.
LEMMA InitInv == Init => IInv
<1> SUFFICES ASSUME Init PROVE IInv
  OBVIOUS
<1>1. TypeOK
  <2>1. at \in [Thread -> 1..(Slots + 1)] /\ wakes \in 0..Wakes /\ execs \in 0..Execs
    BY LockAssumption DEF Init
  <2>2. slot \in [Slot -> BOOLEAN] /\ lost \in BOOLEAN
    BY DEF Init
  <2> QED BY <2>1, <2>2 DEF Init, TypeOK
<1>2. Safe
  BY DEF Init, Safe, Exclusion, NoGhostOwner, Holding, SuspectIsDead, FreshAlone
<1> QED
  BY <1>1, <1>2 DEF IInv

\* Every step keeps the types.
LEMMA TypeStep == TypeOK /\ [Next]_vars => TypeOK'
<1> SUFFICES ASSUME TypeOK, [Next]_vars PROVE TypeOK'
  OBVIOUS
<1> USE LockAssumption DEF TypeOK, Goes
<1>1. ASSUME NEW t \in Thread, Approach(t) \/ Acquire(t) \/ Suspect(t) PROVE TypeOK'
  BY <1>1 DEF Approach, Acquire, Suspect
<1>2. ASSUME NEW t \in Thread, TakeOver(t) PROVE TypeOK'
  BY <1>2 DEF TakeOver
<1>3. ASSUME NEW t \in Thread, Handler(t) PROVE TypeOK'
  <2>1. wakes' \in 0..Wakes
    BY <1>3 DEF Handler
  <2>2. slot' \in [Slot -> BOOLEAN] /\ lost' \in BOOLEAN
    BY <1>3 DEF Handler, Free
  <2> QED BY <1>3, <2>1, <2>2 DEF Handler
<1>4. ASSUME NEW t \in Thread, BeginDrop(t) \/ Release(t) PROVE TypeOK'
  BY <1>4 DEF BeginDrop, Release
<1>5. ASSUME NEW t \in Thread, MakeWake(t) PROVE TypeOK'
  <2>1. at' \in [Thread -> 1..(Slots + 1)]
    BY <1>5 DEF MakeWake, Slot
  <2> QED BY <1>5, <2>1 DEF MakeWake
<1>6. ASSUME NEW t \in Thread, Exec(t) PROVE TypeOK'
  BY <1>6 DEF Exec
<1>7. ASSUME NEW t \in Thread, Reclaim(t) PROVE TypeOK'
  BY <1>7 DEF Reclaim
<1>8. ASSUME NEW p \in Process, Kill(p) PROVE TypeOK'
  BY <1>8 DEF Kill
<1>9. CASE UNCHANGED vars
  BY <1>9 DEF vars
<1> QED
  BY <1>1, <1>2, <1>3, <1>4, <1>5, <1>6, <1>7, <1>8, <1>9 DEF Next, Drop

\* Every step keeps the rest of IInv.
LEMMA StepInv == IInv /\ [Next]_vars => IInv'
<1> SUFFICES ASSUME IInv, [Next]_vars PROVE IInv'
  OBVIOUS
<1>0. TypeOK /\ TypeOK'
  BY TypeStep DEF IInv
<1>s. Safe
  BY DEF IInv
<1> USE <1>0, <1>s, LockAssumption
    DEF TypeOK, Goes, Safe, Exclusion, NoGhostOwner, Holding, SuspectIsDead, FreshAlone, Dead
<1>1. ASSUME NEW t \in Thread, Approach(t) \/ Acquire(t) PROVE Safe'
  BY <1>1 DEF Approach, Acquire
<1>2. ASSUME NEW t \in Thread, Suspect(t) PROVE Safe'
  <2>1. pc[lock] = "dead" /\ lock \in Thread
    BY <1>2 DEF Suspect, Lives
  <2> QED BY <1>2, <2>1 DEF Suspect
<1>3. ASSUME NEW t \in Thread, TakeOver(t) PROVE Safe'
  <2>1. saw[t] \in Dead
    BY <1>3 DEF TakeOver
  <2>2. CASE lock = saw[t]
    BY <1>3, <2>1, <2>2 DEF TakeOver
  <2>3. CASE lock # saw[t]
    BY <1>3, <2>3 DEF TakeOver
  <2> QED BY <2>2, <2>3
<1>4. ASSUME NEW t \in Thread, Handler(t) PROVE Safe'
  BY <1>4 DEF Handler
<1>5. ASSUME NEW t \in Thread, BeginDrop(t) \/ MakeWake(t) PROVE Safe'
  BY <1>5 DEF BeginDrop, MakeWake
<1>6. ASSUME NEW t \in Thread, Release(t) PROVE Safe'
  BY <1>6 DEF Release
<1>7. ASSUME NEW t \in Thread, Exec(t) PROVE Safe'
  BY <1>7 DEF Exec
<1>8. ASSUME NEW t \in Thread, Reclaim(t) PROVE Safe'
  <2>1. ASSUME lock # None, ProcOf[lock] = ProcOf[t] PROVE pc[lock] = "dead"
    BY <1>8, <2>1 DEF Reclaim
  <2> QED BY <1>8, <2>1 DEF Reclaim
<1>9. ASSUME NEW p \in Process, Kill(p) PROVE Safe'
  BY <1>9 DEF Kill
<1>10. ASSUME UNCHANGED vars PROVE Safe'
  BY <1>10 DEF vars
<1> HIDE DEF TypeOK, Goes, Exclusion, NoGhostOwner, Holding, SuspectIsDead, FreshAlone, Dead, Safe
<1>11. Safe'
  BY <1>1, <1>2, <1>3, <1>4, <1>5, <1>6, <1>7, <1>8, <1>9, <1>10 DEF Next, Drop
<1> QED
  BY <1>0, <1>11 DEF IInv

\* What the proofs about the lock word rest on (lock, take-over, reclaim)
\* holds in every run.
THEOREM Invariance == Spec => []IInv
BY InitInv, StepInv, PTL DEF Spec

\* Of the live threads, only the one the lock word names is inside, through
\* takeovers (take_over_from_the_dead) and new images (reclaim_after_exec).
THEOREM MutualExclusion == Spec => []Exclusion
<1>1. IInv => Exclusion
  BY DEF IInv, Safe
<1> QED BY <1>1, Invariance, PTL

\* The lock word never names a live thread outside, so whoever waits waits
\* for a holder that will leave, or for one that can be found out to be dead.
THEOREM NobodyWaitsForAGhost == Spec => []NoGhostOwner
<1>1. IInv => NoGhostOwner
  BY DEF IInv, Safe
<1> QED BY <1>1, Invariance, PTL

\* Each step of the spin lock is a step of Mutex or none at all.
LEMMA StepRefines == IInv /\ [Next]_vars => [Abstract!Next]_<<lock, Dead>>
<1> SUFFICES ASSUME IInv, [Next]_vars PROVE [Abstract!Next]_<<lock, Dead>>
  OBVIOUS
<1>0. TypeOK
  BY DEF IInv
<1> USE <1>0, LockAssumption DEF TypeOK, Goes, Dead
<1>1. ASSUME NEW t \in Thread, Approach(t) \/ Suspect(t) \/ BeginDrop(t)
      PROVE  UNCHANGED <<lock, Dead>>
  BY <1>1 DEF Approach, Suspect, BeginDrop
<1>2. ASSUME NEW t \in Thread, Acquire(t) PROVE Abstract!Acquire(t)
  BY <1>2 DEF Acquire, Abstract!Acquire
<1>3. ASSUME NEW t \in Thread, TakeOver(t)
      PROVE  Abstract!Seize(t) \/ UNCHANGED <<lock, Dead>>
  <2>1. saw[t] \in Dead
    BY <1>3 DEF TakeOver, IInv, Safe, SuspectIsDead
  <2>2. Dead' = Dead /\ t \notin Dead
    BY <1>3 DEF TakeOver
  <2> QED BY <1>3, <2>1, <2>2 DEF TakeOver, Abstract!Seize
<1>4. ASSUME NEW t \in Thread, Handler(t) \/ MakeWake(t) PROVE UNCHANGED <<lock, Dead>>
  BY <1>4 DEF Handler, MakeWake
<1>5. ASSUME NEW t \in Thread, Release(t) PROVE Abstract!Release
  <2>1. lock = t
    BY <1>5 DEF Release, IInv, Safe, Exclusion, Holding
  <2>2. Dead' = Dead
    BY <1>5 DEF Release
  <2> QED BY <1>5, <2>1, <2>2 DEF Release, Abstract!Release
<1>6. ASSUME NEW t \in Thread, Exec(t) PROVE \E T \in SUBSET Thread : Abstract!Die(T)
  <2>1. Dead' = Dead \cup {u \in Thread : u # t /\ ProcOf[u] = ProcOf[t]}
    BY <1>6 DEF Exec
  <2> QED BY <1>6, <2>1 DEF Exec, Abstract!Die
<1>7. ASSUME NEW t \in Thread, Reclaim(t)
      PROVE  Abstract!Release \/ UNCHANGED <<lock, Dead>>
  <2>1. Dead' = Dead
    BY <1>7 DEF Reclaim
  <2> QED BY <1>7, <2>1 DEF Reclaim, Abstract!Release
<1>8. ASSUME NEW p \in Process, Kill(p) PROVE \E T \in SUBSET Thread : Abstract!Die(T)
  <2>1. Dead' = Dead \cup {u \in Thread : ProcOf[u] = p}
    BY <1>8 DEF Kill
  <2> QED BY <1>8, <2>1 DEF Kill, Abstract!Die
<1>9. CASE UNCHANGED vars
  BY <1>9 DEF vars
<1> QED
  BY <1>1, <1>2, <1>3, <1>4, <1>5, <1>6, <1>7, <1>8, <1>9 DEF Next, Drop, Abstract!Next

\* The spin lock implements Mutex.
THEOREM Refinement == Spec => ImplementsMutex
<1>1. Init => Abstract!Init
  BY LockAssumption DEF Init, Abstract!Init, Dead
<1> QED
  BY <1>1, Invariance, StepRefines, PTL DEF Spec, ImplementsMutex, Abstract!Spec
=============================================================================
