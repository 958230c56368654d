-------------------------------- MODULE Park --------------------------------
(***************************************************************************)
(* How the baton really changes hands (Shared::park, unpark, and the park  *)
(* words of Shared::choose): the giver bumps the new holder's park word    *)
(* under the scheduler lock, drops the lock, and only then wakes it; a     *)
(* thread that gave the baton away waits until its word is not the one it  *)
(* saw under the lock.  Between any two of these steps others move, and    *)
(* threads die.                                                            *)
(*                                                                         *)
(* The park word is a u32 that wraps; here it wraps at Width.  Spinning    *)
(* before the sleep (PARK_SPINS) is Look, any number of times.             *)
(***************************************************************************)
EXTENDS Naturals

CONSTANTS
    Thread,   \* the threads of a run
    None,     \* no thread
    Width     \* values of a park word, 2^32 in the code

ASSUME ParkAssumption == None \notin Thread /\ Width \in Nat /\ Width >= 2

VARIABLES
    current,   \* who was given the baton last
    word,      \* the park words
    seen,      \* each thread's own word as of its last hand-off
    pc,        \* where each thread is
    waking,    \* waking[t]: the thread t has yet to unpark, or None
    launcher   \* the thread the launcher has yet to unpark, None, or "gone"
vars == <<current, word, seen, pc, waking, launcher>>

Gone == "gone"

TypeOK ==
    /\ current \in Thread \cup {None}
    /\ word \in [Thread -> 0..(Width - 1)]
    /\ seen \in [Thread -> 0..(Width - 1)]
    /\ pc \in [Thread -> {"running", "waking", "looking", "falling", "asleep", "awake", "dead"}]
    /\ waking \in [Thread -> Thread \cup {None}]
    /\ launcher \in Thread \cup {None, Gone}

\* A fresh thread's word is zero, and zero is what it waits on
\* (wait_for_baton).
Init ==
    /\ current = None
    /\ word = [t \in Thread |-> 0]
    /\ seen = [t \in Thread |-> 0]
    /\ pc = [t \in Thread |-> "looking"]
    /\ waking = [t \in Thread |-> None]
    /\ launcher = None

\* What choose does to the new holder u, under the lock: fetch_add(1)
Succ(w) == IF w + 1 = Width THEN 0 ELSE w + 1
Bump(u) == word' = [word EXCEPT ![u] = Succ(@)]
Chosen(u) == current' = u /\ Bump(u)

\* __ulock_wake: only a thread already asleep hears it
Woken(u) == IF pc[u] = "asleep" THEN "awake" ELSE pc[u]

\* hand_off by the thread that runs, up to the end of the critical section
HandOff(t, u) ==
    /\ pc[t] = "running"
    /\ current = t
    /\ u # t /\ pc[u] # "dead"
    /\ Chosen(u)
    /\ seen' = [seen EXCEPT ![t] = word[t]]
    /\ pc' = [pc EXCEPT ![t] = "waking"]
    /\ waking' = [waking EXCEPT ![t] = u]
    /\ UNCHANGED launcher

\* Mutant: the giver reads its own word only when it is about to park
UnparkThenLook(t) ==
    /\ pc[t] = "waking"
    /\ pc' = [pc EXCEPT ![waking[t]] = Woken(waking[t]), ![t] = "looking"]
    /\ waking' = [waking EXCEPT ![t] = None]
    /\ seen' = [seen EXCEPT ![t] = word[t]]
    /\ UNCHANGED <<current, word, launcher>>

\* After::carry_out: unpark(to), then park(me, seen)
Unpark(t) ==
    /\ pc[t] = "waking"
    /\ pc' = [pc EXCEPT ![waking[t]] = Woken(waking[t]), ![t] = "looking"]
    /\ waking' = [waking EXCEPT ![t] = None]
    /\ UNCHANGED <<current, word, seen, launcher>>

\* The test of park_inner's loop
Look(t) ==
    /\ pc[t] = "looking"
    /\ pc' = [pc EXCEPT ![t] = IF word[t] = seen[t] THEN "falling" ELSE "running"]
    /\ UNCHANGED <<current, word, seen, waking, launcher>>

\* __ulock_wait2 compares the word with what it is told before it sleeps.
FallAsleep(t) ==
    /\ pc[t] = "falling"
    /\ pc' = [pc EXCEPT ![t] = IF word[t] = seen[t] THEN "asleep" ELSE "awake"]
    /\ UNCHANGED <<current, word, seen, waking, launcher>>

\* Mutant: a sleep without a time limit
TimeOutNever(t) == pc[t] = "asleep" /\ FALSE /\ UNCHANGED vars

\* A sleep ends by itself after PARK_CHECK_NS.
TimeOut(t) ==
    /\ pc[t] = "asleep"
    /\ pc' = [pc EXCEPT ![t] = "awake"]
    /\ UNCHANGED <<current, word, seen, waking, launcher>>

\* Mutant: any wake is taken for the baton (`if' for `while')
WakeUpAndRun(t) ==
    /\ pc[t] = "awake"
    /\ pc' = [pc EXCEPT ![t] = "running"]
    /\ UNCHANGED <<current, word, seen, waking, launcher>>

\* Mutant: nobody looks for the launcher
WakeUpTrusting(t) ==
    /\ pc[t] = "awake"
    /\ pc' = [pc EXCEPT ![t] = "looking"]
    /\ UNCHANGED <<current, word, seen, waking, launcher>>

\* Each time it wakes, a thread looks for the launcher first
\* (exit_if_orphaned).
WakeUp(t) ==
    /\ pc[t] = "awake"
    /\ pc' = [pc EXCEPT ![t] = IF launcher = Gone THEN "dead" ELSE "looking"]
    /\ UNCHANGED <<current, word, seen, waking, launcher>>

\* A thread that always runs looks for it at one yield in 4096.
LeaveOrphaned(t) ==
    /\ pc[t] = "running"
    /\ launcher = Gone
    /\ pc' = [pc EXCEPT ![t] = "dead"]
    /\ UNCHANGED <<current, word, seen, waking, launcher>>

\* A thread dies with its process, wherever it is.
Die(t) ==
    /\ pc[t] # "dead"
    /\ pc' = [pc EXCEPT ![t] = "dead"]
    /\ UNCHANGED <<current, word, seen, waking, launcher>>

\* The launcher gives the baton out at the start (Coordinator::start) and
\* when its holder is dead (Coordinator::process_died), and then wakes the
\* new holder as any other giver does.
LauncherGives(u) ==
    /\ launcher = None
    /\ current = None \/ (current \in Thread /\ pc[current] = "dead")
    /\ pc[u] # "dead"
    /\ Chosen(u)
    /\ launcher' = u
    /\ UNCHANGED <<seen, pc, waking>>

LauncherUnparks ==
    /\ launcher \in Thread
    /\ pc' = [pc EXCEPT ![launcher] = Woken(launcher)]
    /\ launcher' = None
    /\ UNCHANGED <<current, word, seen, waking>>

LauncherDies ==
    /\ launcher # Gone
    /\ launcher' = Gone
    /\ UNCHANGED <<current, word, seen, pc, waking>>

\* The run is over: nobody is left, or nobody who would give the baton out
Done == (\A t \in Thread : pc[t] = "dead") /\ UNCHANGED vars

Parked(t) == Look(t) \/ FallAsleep(t) \/ TimeOut(t) \/ WakeUp(t)

Next ==
    \/ \E t, u \in Thread : HandOff(t, u)
    \/ \E t \in Thread : Unpark(t) \/ Parked(t) \/ LeaveOrphaned(t) \/ Die(t) \/ LauncherGives(t)
    \/ LauncherUnparks \/ LauncherDies
    \/ Done

Spec == Init /\ [][Next]_vars

\* Every step on the way to a sleep and out of it is the kernel's or a few
\* instructions of the thread's own, and a thread that runs again and again
\* comes to a yield that looks for the launcher.  That a giver lives to wake
\* the new holder is not assumed.
Fairness ==
    \A t \in Thread : WF_vars(Unpark(t)) /\ WF_vars(Parked(t)) /\ SF_vars(LeaveOrphaned(t))
FairSpec == Spec /\ Fairness

----------------------------------------------------------------------------
\* Only the thread that was given the baton last runs.
OneRuns == \A t \in Thread : pc[t] = "running" => current = t

\* A thread's word is the one it saw, or one ahead of it for the holder that
\* has not noticed yet: so the word may wrap, and no hand-off is missed or
\* seen twice.
AtMostOneAhead ==
    \A t \in Thread :
        pc[t] \in {"waking", "looking", "falling", "asleep", "awake"} =>
            word[t] = IF current = t THEN Succ(seen[t]) ELSE seen[t]

\* It is a baton.
Abstract == INSTANCE Baton WITH
    holder  <- current,
    running <- {t \in Thread : pc[t] = "running"},
    dead    <- {t \in Thread : pc[t] = "dead"}
ImplementsBaton == Abstract!Spec

\* Guests do not outlive the launcher.
GuestsFollowLauncher == launcher = Gone ~> \A t \in Thread : pc[t] = "dead"
=============================================================================
