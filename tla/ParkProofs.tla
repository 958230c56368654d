----------------------------- MODULE ParkProofs -----------------------------
(***************************************************************************)
(* For any set of threads and any width of the park word from two values   *)
(* up: only the thread that was given the baton last runs, no hand-off is  *)
(* missed or seen twice, and the park words implement the baton.           *)
(***************************************************************************)
EXTENDS Park, TLAPS

\* What is inductive.  OneRuns rests on AtMostOneAhead (a thread stops
\* waiting only when its word has moved), and AtMostOneAhead on OneRuns (the
\* thread given the baton was not running, so its word had not moved yet).
IInv == TypeOK /\ OneRuns /\ AtMostOneAhead

\* A bumped word is another word of the same width.
LEMMA SuccLemma ==
    ASSUME NEW w \in 0..(Width - 1)
    PROVE  Succ(w) \in 0..(Width - 1) /\ Succ(w) # w
BY ParkAssumption DEF Succ

\* Everybody starts parked, on a word that has not moved.
LEMMA InitInv == Init => IInv
BY ParkAssumption DEF Init, IInv, TypeOK, OneRuns, AtMostOneAhead

\* A step keeps the types, whoever takes it.
LEMMA TypeStep == TypeOK /\ [Next]_vars => TypeOK'
<1> SUFFICES ASSUME TypeOK, [Next]_vars PROVE TypeOK'
  OBVIOUS
<1> USE DEF TypeOK
<1>1. ASSUME NEW t \in Thread, NEW u \in Thread, HandOff(t, u) PROVE TypeOK'
  BY <1>1, SuccLemma DEF HandOff, Chosen, Bump
<1>2. ASSUME NEW t \in Thread, Unpark(t) PROVE TypeOK'
  BY <1>2 DEF Unpark, Woken
<1>3. ASSUME NEW t \in Thread, Parked(t) PROVE TypeOK'
  BY <1>3 DEF Parked, Look, FallAsleep, TimeOut, WakeUp
<1>4. ASSUME NEW t \in Thread, LeaveOrphaned(t) \/ Die(t) PROVE TypeOK'
  BY <1>4 DEF LeaveOrphaned, Die
<1>5. ASSUME NEW u \in Thread, LauncherGives(u) PROVE TypeOK'
  BY <1>5, SuccLemma DEF LauncherGives, Chosen, Bump
<1>6. CASE LauncherUnparks \/ LauncherDies
  BY <1>6 DEF LauncherUnparks, LauncherDies, Woken
<1>7. CASE Done \/ UNCHANGED vars
  BY <1>7 DEF Done, vars
<1> QED
  BY <1>1, <1>2, <1>3, <1>4, <1>5, <1>6, <1>7 DEF Next

\* Giving the baton to u, which was not running: its word, which u saw as it
\* last was, is now one ahead, and nobody else's is.
LEMMA StepInv == IInv /\ [Next]_vars => IInv'
<1> SUFFICES ASSUME IInv, [Next]_vars PROVE IInv'
  OBVIOUS
<1>0. TypeOK /\ TypeOK'
  BY TypeStep DEF IInv
<1> USE <1>0 DEF TypeOK, OneRuns, AtMostOneAhead
<1>1. ASSUME NEW t \in Thread, NEW u \in Thread, HandOff(t, u)
      PROVE  OneRuns' /\ AtMostOneAhead'
  <2>1. u # t /\ pc[u] # "running" /\ word[u] = seen[u]
    BY <1>1 DEF HandOff, IInv
  <2>2. OneRuns'
    BY <1>1, <2>1 DEF HandOff, Chosen, IInv
  <2>3. AtMostOneAhead'
    BY <1>1, <2>1 DEF HandOff, Chosen, Bump, IInv
  <2> QED BY <2>2, <2>3
<1>2. ASSUME NEW t \in Thread, Unpark(t) PROVE OneRuns' /\ AtMostOneAhead'
  BY <1>2 DEF Unpark, Woken, IInv
<1>3. ASSUME NEW t \in Thread, Look(t) PROVE OneRuns' /\ AtMostOneAhead'
  BY <1>3 DEF Look, IInv
<1>4. ASSUME NEW t \in Thread, FallAsleep(t) \/ TimeOut(t) \/ WakeUp(t)
      PROVE  OneRuns' /\ AtMostOneAhead'
  BY <1>4 DEF FallAsleep, TimeOut, WakeUp, IInv
<1>5. ASSUME NEW t \in Thread, LeaveOrphaned(t) \/ Die(t) PROVE OneRuns' /\ AtMostOneAhead'
  BY <1>5 DEF LeaveOrphaned, Die, IInv
<1>6. ASSUME NEW u \in Thread, LauncherGives(u) PROVE OneRuns' /\ AtMostOneAhead'
  <2>1. u # current
    BY <1>6, ParkAssumption DEF LauncherGives
  <2>2. \A t \in Thread : pc[t] # "running"
    BY <1>6, ParkAssumption DEF LauncherGives, IInv
  <2>3. AtMostOneAhead'
    BY <1>6, <2>1, <2>2, ParkAssumption DEF LauncherGives, Chosen, Bump, IInv
  <2> QED BY <1>6, <2>2, <2>3 DEF LauncherGives
<1>7. CASE LauncherUnparks
  BY <1>7 DEF LauncherUnparks, Woken, IInv
<1>8. CASE LauncherDies \/ Done \/ UNCHANGED vars
  BY <1>8 DEF LauncherDies, Done, vars, IInv
<1> QED
  BY <1>1, <1>2, <1>3, <1>4, <1>5, <1>6, <1>7, <1>8 DEF Next, Parked, IInv

\* What the proofs about the park words rest on (choose, park, unpark) holds
\* in every run.
THEOREM Invariance == Spec => []IInv
BY InitInv, StepInv, PTL DEF Spec

\* Types are kept by every run of the park protocol.
THEOREM TypeCorrect == Spec => []TypeOK
<1>1. IInv => TypeOK
  BY DEF IInv
<1> QED BY <1>1, Invariance, PTL

\* Shared::choose and Shared::park together let only the latest holder run.
THEOREM MutualExclusion == Spec => []OneRuns
<1>1. IInv => OneRuns
  BY DEF IInv
<1> QED BY <1>1, Invariance, PTL

\* The u32 may wrap: a word is never more than one hand-off ahead of what
\* its thread saw.
THEOREM NoHandOffMissed == Spec => []AtMostOneAhead
<1>1. IInv => AtMostOneAhead
  BY DEF IInv
<1> QED BY <1>1, Invariance, PTL

\* Each step of the park words is a step of the baton or none at all.
LEMMA StepRefines == IInv /\ [Next]_vars => [Abstract!Next]_(Abstract!vars)
<1> SUFFICES ASSUME IInv, [Next]_vars PROVE [Abstract!Next]_(Abstract!vars)
  OBVIOUS
<1> USE ParkAssumption DEF IInv, TypeOK, Abstract!vars
<1>1. ASSUME NEW t \in Thread, NEW u \in Thread, HandOff(t, u) PROVE Abstract!Give(u)
  BY <1>1 DEF HandOff, Chosen, OneRuns, Abstract!Give
<1>2. ASSUME NEW t \in Thread, Unpark(t) PROVE UNCHANGED Abstract!vars
  BY <1>2 DEF Unpark, Woken
<1>3. ASSUME NEW t \in Thread, Look(t) PROVE Abstract!Take \/ UNCHANGED Abstract!vars
  <2>1. CASE word[t] = seen[t]
    BY <1>3, <2>1 DEF Look
  <2>2. CASE word[t] # seen[t]
    <3>1. current = t
      BY <1>3, <2>2 DEF Look, AtMostOneAhead
    <3> QED
      BY <1>3, <2>2, <3>1 DEF Look, OneRuns, Abstract!Take
  <2> QED BY <2>1, <2>2
<1>4. ASSUME NEW t \in Thread, FallAsleep(t) \/ TimeOut(t) PROVE UNCHANGED Abstract!vars
  BY <1>4 DEF FallAsleep, TimeOut
<1>5. ASSUME NEW t \in Thread, WakeUp(t) PROVE Abstract!Die(t) \/ UNCHANGED Abstract!vars
  BY <1>5 DEF WakeUp, Abstract!Die
<1>6. ASSUME NEW t \in Thread, LeaveOrphaned(t) \/ Die(t) PROVE Abstract!Die(t)
  BY <1>6 DEF LeaveOrphaned, Die, Abstract!Die
<1>7. ASSUME NEW u \in Thread, LauncherGives(u) PROVE Abstract!Give(u)
  BY <1>7 DEF LauncherGives, Chosen, OneRuns, Abstract!Give
<1>8. CASE LauncherUnparks
  BY <1>8 DEF LauncherUnparks, Woken
<1>9. CASE LauncherDies \/ Done \/ UNCHANGED vars
  BY <1>9 DEF LauncherDies, Done, vars
<1> QED
  BY <1>1, <1>2, <1>3, <1>4, <1>5, <1>6, <1>7, <1>8, <1>9 DEF Next, Parked, Abstract!Next

\* The park protocol implements the baton, its safety part.
THEOREM Refinement == Spec => Abstract!Init /\ [][Abstract!Next]_(Abstract!vars)
<1>1. Init => Abstract!Init
  BY DEF Init, Abstract!Init
<1> QED BY <1>1, Invariance, StepRefines, PTL DEF Spec
=============================================================================
