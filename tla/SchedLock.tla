----------------------------- MODULE SchedLock -----------------------------
(***************************************************************************)
(* The scheduler's spin lock (Shared::lock_unless_reentrant, Guard::drop,  *)
(* take_over_from_the_dead, reclaim_after_exec, defer_wake): a lock word   *)
(* in shared memory that names its holder, taken over from a dead process, *)
(* taken back by a new image of the holder's own process, and usable from  *)
(* a signal handler, which leaves its wakes to the thread it interrupted.  *)
(*                                                                         *)
(* Every atomic access to the word or a slot is a step of its own.  A wake *)
(* is only who has yet to make it: in a slot, or lost.                     *)
(***************************************************************************)
EXTENDS Naturals, FiniteSets

CONSTANTS
    Thread,    \* threads that take the lock, the launcher's included
    Process,
    ProcOf,    \* ProcOf[t]: the process of t
    None,
    Slots,     \* DEFERRED_WAKES
    Wakes,     \* bound: wakes that handlers inside the lock leave, in all
    Execs      \* bound: execve calls

ASSUME LockAssumption ==
    /\ ProcOf \in [Thread -> Process]
    /\ None \notin Thread
    /\ Slots \in Nat \ {0} /\ Wakes \in Nat /\ Execs \in Nat

VARIABLES
    lock,     \* the lock word
    pc,       \* where each thread is
    saw,      \* the word a thread read last, on its way to taking it over
    at,       \* the slot Guard::drop looks at next
    slot,     \* slot[i]: a wake is left there
    wakes,    \* wakes left so far
    lost,     \* a wake found every slot taken
    execs     \* execve calls so far
vars == <<lock, pc, saw, at, slot, wakes, lost, execs>>

Slot == 1..Slots

TypeOK ==
    /\ lock \in Thread \cup {None}
    /\ pc \in [Thread -> {"out", "spinning", "judging", "inside", "leaving", "dead", "fresh"}]
    /\ saw \in [Thread -> Thread \cup {None}]
    /\ at \in [Thread -> 1..(Slots + 1)]
    /\ slot \in [Slot -> BOOLEAN]
    /\ wakes \in 0..Wakes
    /\ lost \in BOOLEAN
    /\ execs \in 0..Execs

Init ==
    /\ lock = None
    /\ pc = [t \in Thread |-> "out"]
    /\ saw = [t \in Thread |-> None]
    /\ at = [t \in Thread |-> 1]
    /\ slot = [i \in Slot |-> FALSE]
    /\ wakes = 0
    /\ lost = FALSE
    /\ execs = 0

Goes(t, place) == pc' = [pc EXCEPT ![t] = place]
\* process_lives: a killed process is gone with all its threads
Lives(p) == \E t \in Thread : ProcOf[t] = p /\ pc[t] # "dead"
Dead == {t \in Thread : pc[t] = "dead"}

Approach(t) ==
    /\ pc[t] = "out"
    /\ Goes(t, "spinning")
    /\ UNCHANGED <<lock, saw, at, slot, wakes, lost, execs>>

\* compare_exchange_weak(0, me)
Acquire(t) ==
    /\ pc[t] = "spinning"
    /\ lock = None
    /\ lock' = t
    /\ Goes(t, "inside")
    /\ UNCHANGED <<saw, at, slot, wakes, lost, execs>>

\* Mutant: whoever has held the lock for long is taken to be dead
SuspectAnybody(t) ==
    /\ pc[t] = "spinning"
    /\ lock \notin {None, t}
    /\ ProcOf[lock] # ProcOf[t]
    /\ saw' = [saw EXCEPT ![t] = lock]
    /\ Goes(t, "judging")
    /\ UNCHANGED <<lock, at, slot, wakes, lost, execs>>

\* take_over_from_the_dead: after many spins, the word is read and the
\* process it names is looked up ...
Suspect(t) ==
    /\ pc[t] = "spinning"
    /\ lock \notin {None, t}
    /\ ProcOf[lock] # ProcOf[t]
    /\ ~Lives(ProcOf[lock])
    /\ saw' = [saw EXCEPT ![t] = lock]
    /\ Goes(t, "judging")
    /\ UNCHANGED <<lock, at, slot, wakes, lost, execs>>

\* Mutants: a store instead of the exchange; an exchange whose success is not
\* looked at
TakeOverBlindly(t) ==
    /\ pc[t] = "judging"
    /\ lock' = t /\ Goes(t, "inside")
    /\ saw' = [saw EXCEPT ![t] = None]
    /\ UNCHANGED <<at, slot, wakes, lost, execs>>
TakeOverAndSpin(t) ==
    /\ pc[t] = "judging"
    /\ lock' = IF lock = saw[t] THEN t ELSE lock
    /\ Goes(t, "spinning")
    /\ saw' = [saw EXCEPT ![t] = None]
    /\ UNCHANGED <<at, slot, wakes, lost, execs>>

\* ... and the word is exchanged only if it still names the dead thread.
TakeOver(t) ==
    /\ pc[t] = "judging"
    /\ IF lock = saw[t]
       THEN lock' = t /\ Goes(t, "inside")
       ELSE UNCHANGED lock /\ Goes(t, "spinning")
    /\ saw' = [saw EXCEPT ![t] = None]
    /\ UNCHANGED <<at, slot, wakes, lost, execs>>

\* A signal handler interrupts a thread while the word names it: the lock
\* is refused to it, and defer_wake puts its wake into the first free slot.
Free == {i \in Slot : ~slot[i]}
Handler(t) ==
    /\ pc[t] \in {"inside", "leaving"}
    /\ lock = t
    /\ wakes < Wakes
    /\ wakes' = wakes + 1
    /\ IF Free = {}
       THEN lost' = TRUE /\ UNCHANGED slot
       ELSE /\ \E i \in Free : (\A j \in Free : i <= j) /\ slot' = [slot EXCEPT ![i] = TRUE]
            /\ UNCHANGED lost
    /\ UNCHANGED <<lock, pc, saw, at, execs>>

\* Guard::drop begins ...
BeginDrop(t) ==
    /\ pc[t] = "inside"
    /\ at' = [at EXCEPT ![t] = 1]
    /\ Goes(t, "leaving")
    /\ UNCHANGED <<lock, saw, slot, wakes, lost, execs>>

\* ... makes the wake it finds in each slot in turn ...
MakeWake(t) ==
    /\ pc[t] = "leaving"
    /\ at[t] \in Slot
    /\ slot' = [slot EXCEPT ![at[t]] = FALSE]
    /\ at' = [at EXCEPT ![t] = @ + 1]
    /\ UNCHANGED <<lock, pc, saw, wakes, lost, execs>>

\* ... and stores 0.
Release(t) ==
    /\ pc[t] = "leaving"
    /\ at[t] = Slots + 1
    /\ lock' = None
    /\ Goes(t, "out")
    /\ UNCHANGED <<saw, at, slot, wakes, lost, execs>>

\* SIGKILL takes every thread of a process, wherever it is.
Kill(p) ==
    /\ Lives(p)
    /\ pc' = [t \in Thread |-> IF ProcOf[t] = p THEN "dead" ELSE pc[t]]
    /\ UNCHANGED <<lock, saw, at, slot, wakes, lost, execs>>

\* execve by a thread outside the lock: the other threads of its process
\* are gone, the process lives on, and the caller starts over as `fresh'.
Exec(t) ==
    /\ pc[t] = "out"
    /\ execs < Execs
    /\ execs' = execs + 1
    /\ pc' = [u \in Thread |-> IF u = t THEN "fresh"
                               ELSE IF ProcOf[u] = ProcOf[t] THEN "dead" ELSE pc[u]]
    /\ UNCHANGED <<lock, saw, at, slot, wakes, lost>>

\* Mutant: the old image's word is left as it is
ReclaimNothing(t) ==
    /\ pc[t] = "fresh"
    /\ Goes(t, "spinning")
    /\ UNCHANGED <<lock, saw, at, slot, wakes, lost, execs>>

\* reclaim_after_exec, before the new image's first lock
Reclaim(t) ==
    /\ pc[t] = "fresh"
    /\ lock' = IF lock # None /\ ProcOf[lock] = ProcOf[t] THEN None ELSE lock
    /\ Goes(t, "spinning")
    /\ UNCHANGED <<saw, at, slot, wakes, lost, execs>>

Drop(t) == BeginDrop(t) \/ MakeWake(t) \/ Release(t)

Next ==
    \/ \E t \in Thread :
         \/ Approach(t) \/ Acquire(t) \/ Suspect(t) \/ TakeOver(t)
         \/ Handler(t) \/ Drop(t) \/ Exec(t) \/ Reclaim(t)
    \/ \E p \in Process : Kill(p)
    \/ (Dead = Thread /\ UNCHANGED vars)

Spec == Init /\ [][Next]_vars

\* Critical sections are short, and a spinning thread looks at the word
\* again and again.
Fairness ==
    \A t \in Thread :
        /\ WF_vars(Drop(t)) /\ WF_vars(TakeOver(t)) /\ WF_vars(Reclaim(t))
        /\ SF_vars(Acquire(t)) /\ WF_vars(Suspect(t))
FairSpec == Spec /\ Fairness

----------------------------------------------------------------------------
\* The live thread inside the lock is the one the word names; so there is
\* one, whatever died, was taken over or started over.
Holding(t) == pc[t] \in {"inside", "leaving"}
Exclusion == \A t \in Thread : Holding(t) => lock = t

\* The word never names a live thread that is not inside: nobody waits for
\* a lock that will not be released.
NoGhostOwner == lock # None => Holding(lock) \/ lock \in Dead

\* It is a lock.
Abstract == INSTANCE Mutex WITH owner <- lock, dead <- Dead
ImplementsMutex == Abstract!Spec

\* Whoever wants the lock gets it, if it lives: a holder that dies inside
\* is found out.
SpinnerGetsIn ==
    \A t \in Thread : pc[t] \in {"spinning", "judging", "fresh"} ~> (Holding(t) \/ pc[t] = "dead")
=============================================================================
