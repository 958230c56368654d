-------------------------- MODULE SchedulerProofs --------------------------
(***************************************************************************)
(* The scheduler for any sizes of its tables, any run file and any calls:  *)
(* types, who holds the baton, and who is still in the schedule; then the  *)
(* life of a process, from its slot in the table to its last thread: what  *)
(* becomes of a run that has been stopped, of the thread that tears itself *)
(* down and of an entry that is restarted.  The invariants of a life are   *)
(* inductive relative to IInv, the one of the first part.                  *)
(***************************************************************************)
EXTENDS Scheduler, TLAPS

\* A thread whose real thread is in the supervisor or the program
Active(t) == pc[t] \notin {"none", "boot", "gone"}

\* Slots are taken in order: a real thread has a slot, and a slot in use has
\* an owner that was registered.
Placed ==
    /\ \A t \in Tid :
         /\ pc[t] # "none" => threads[t].state # "unused"
         /\ threads[t].state # "unused" => t <= run.nthreads /\ threads[t].pid \in 1..run.nprocs
         /\ threads[t].state = "unused" => threads[t].pid = NoProc
    /\ \A p \in Pid : (real[p] # "none" => p <= run.nprocs) /\ procs[p].replacedBy \in 0..run.nprocs

\* An active thread's process is really there, and has attached.
Tenants ==
    \A t \in Tid : Active(t) =>
        real[threads[t].pid] = "up" /\ procs[threads[t].pid].state # "starting"

\* SIGKILL is sent to crashed processes only.
OnlyCrashedSignalled == \A p \in Pid : procs[p].signalled => procs[p].killed

\* A thread that polls was given the baton last and runs no program; its
\* process was not crashed when the hand-off found nobody to run.
PollersIdle ==
    \A t \in Tid : pc[t] = "polling" =>
        /\ run.current = t
        /\ threads[t].state # "running"
        /\ pick.phase = "none" => ~procs[threads[t].pid].killed

\* While a hand-off is under way nobody runs, and it is the thread that gives
\* the baton away, or the launcher for one that cannot.
HandingOver ==
    pick.phase # "none" =>
        /\ \A t \in Tid : ~Inside(t) /\ threads[t].state # "running"
        /\ launcher.started
        /\ pick.by # "nobody"
        /\ pick.by = "guest" =>
             /\ pick.me \in Tid /\ pick.me = run.current
             /\ pc[pick.me] \in {"parked", "polling"}
             /\ ~procs[threads[pick.me].pid].signalled
        /\ pick.by # "guest" => run.current = NoThread \/ ~Active(run.current)

\* The launcher gives the baton out once, and passes on that of a process it
\* has seen dead.
Launching ==
    /\ launcher.at = "booting" => ~launcher.started
    /\ ~launcher.started => run.current = NoThread
    /\ launcher.at \in {"ending", "burying"} =>
         launcher.proc \in Pid /\ real[launcher.proc] = "reaped"
    /\ launcher.at = "respawning" \/ (pick.phase # "none" /\ pick.by = "launcher") =>
         launcher.proc \in Pid

Safe ==
    /\ Placed /\ Tenants /\ OnlyCrashedSignalled /\ PollersIdle /\ HandingOver /\ Launching
    /\ OneHolder /\ OneRunning /\ ScheduleIsAlive

\* A thread that takes aim (my_kill) has a target that was alive when it
\* looked and is not its own process, and that nobody has crashed since.
Aimed ==
    \A t \in Tid : pc[t] = "killing" =>
        /\ run.target \in Pid /\ run.target # Owner(t)
        /\ procs[run.target].state # "unused" /\ ~procs[run.target].killed

Base == TypeOK /\ Safe
IInv == Base /\ Aimed

----------------------------------------------------------------------------
(***************************************************************************)
(* What the operators on the tables keep and what they change.             *)
(***************************************************************************)
Threads == [Tid -> ThreadRec]
Procs   == [Pid -> ProcRec]

\* The tables th2 and th differ in nothing that Safe speaks of, except that
\* some blocked threads have become runnable.
Woken(th, th2) ==
    /\ th2 \in Threads
    /\ \A t \in Tid :
         /\ th2[t].pid = th[t].pid
         /\ \/ th2[t].state = th[t].state
            \/ th[t].state = "blocked" /\ th2[t].state = "runnable"

\* Process tables that differ in nothing that Safe speaks of
Alike(pr, pr2) ==
    /\ pr2 \in Procs
    /\ \A p \in Pid :
         /\ pr2[p].state = pr[p].state
         /\ pr2[p].killed = pr[p].killed
         /\ pr2[p].signalled = pr[p].signalled
         /\ pr2[p].replacedBy = pr[p].replacedBy

\* A time that has come nearer is a time.
LEMMA LaterType == ASSUME NEW x \in Time, NEW d \in Nat PROVE Later(x, d) \in Time
BY DEF Later, Time, NoTime

\* A budget that is used up (register_restart) is still a budget.
LEMMA SpendType == ASSUME NEW n \in Count PROVE Spend(n) \in Count
BY DEF Spend, Count, NoLimit

\* A duration of at least 1 (draw_crash) is a time.
LEMMA AtLeast1Type == ASSUME NEW x \in Nat PROVE AtLeast1(x) \in Nat /\ AtLeast1(x) \in Time
BY DEF AtLeast1, Time

\* A record put into a table
LEMMA ProcsUpdate ==
    ASSUME NEW pr \in Procs, NEW p, NEW rec \in ProcRec
    PROVE  [pr EXCEPT ![p] = rec] \in Procs
BY DEF Procs

\* Ready makes blocked threads runnable and does nothing else.
LEMMA ReadyLemma ==
    ASSUME NEW th \in Threads, NEW S
    PROVE  /\ Ready(th, S) \in Threads
           /\ \A t \in Tid :
                /\ Ready(th, S)[t].pid = th[t].pid
                /\ Ready(th, S)[t].state = IF t \in S THEN "runnable" ELSE th[t].state
BY DEF Ready, Threads, ThreadRec

\* Waking threads (wake_all, wake_io) changes no more than states, and only
\* of those woken.
LEMMA ReadyWoken ==
    ASSUME NEW th \in Threads, NEW S, S \subseteq Blocked(th) PROVE Woken(th, Ready(th, S))
BY ReadyLemma DEF Woken, Blocked

\* Retire takes the threads of p out of the schedule, and nobody else.
LEMMA RetireLemma ==
    ASSUME NEW th \in Threads, NEW p
    PROVE  /\ Retire(th, p) \in Threads
           /\ \A t \in Tid :
                /\ Retire(th, p)[t].pid = th[t].pid
                /\ Retire(th, p)[t].state =
                     IF th[t].pid = p /\ th[t].state # "unused" THEN "exited" ELSE th[t].state
BY DEF Retire, ThreadsOf, Threads, ThreadRec, Time

\* The clock moves deadlines and dates of faults, nothing else.
LEMMA ThreadsLaterLemma ==
    ASSUME NEW th \in Threads, NEW d \in Nat PROVE Woken(th, ThreadsLater(th, d))
<1>1. \A t \in Tid : Later(th[t].deadline, d) \in Time
  BY LaterType DEF Threads, ThreadRec
<1> QED
  BY <1>1 DEF ThreadsLater, Threads, ThreadRec, Woken

\* The clock changes only the times of a process (hand_off, clock_read).
LEMMA ProcsLaterLemma ==
    ASSUME NEW pr \in Procs, NEW d \in Nat PROVE Alike(pr, ProcsLater(pr, d))
<1>1. ASSUME NEW rec \in ProcRec, NEW a \in Time, NEW b \in Time, NEW c \in Time, NEW e \in Time
      PROVE  [rec EXCEPT !.crash = a, !.shutdown = b, !.kill = c, !.alarm = e] \in ProcRec
  BY DEF ProcRec
<1>2. ASSUME NEW p \in Pid
      PROVE  [pr[p] EXCEPT !.crash = Later(@, d), !.shutdown = Later(@, d),
                           !.kill = Later(@, d), !.alarm = Later(@, d)] \in ProcRec
  <2>1. pr[p] \in ProcRec
    BY DEF Procs
  <2>2. /\ Later(pr[p].crash, d) \in Time /\ Later(pr[p].shutdown, d) \in Time
        /\ Later(pr[p].kill, d) \in Time /\ Later(pr[p].alarm, d) \in Time
    BY LaterType, <2>1 DEF ProcRec
  <2> QED BY <1>1, <2>1, <2>2, Zenon
<1>3. ProcsLater(pr, d) \in Procs
  BY <1>2, Zenon DEF ProcsLater, Procs
<1>4. ASSUME NEW rec \in ProcRec, NEW a, NEW b, NEW c, NEW e
      PROVE  LET later == [rec EXCEPT !.crash = a, !.shutdown = b, !.kill = c, !.alarm = e]
             IN /\ later.state = rec.state /\ later.killed = rec.killed
                /\ later.signalled = rec.signalled /\ later.replacedBy = rec.replacedBy
  BY DEF ProcRec
<1>5. ASSUME NEW p \in Pid
      PROVE  /\ ProcsLater(pr, d)[p].state = pr[p].state
             /\ ProcsLater(pr, d)[p].killed = pr[p].killed
             /\ ProcsLater(pr, d)[p].signalled = pr[p].signalled
             /\ ProcsLater(pr, d)[p].replacedBy = pr[p].replacedBy
  <2>1. pr[p] \in ProcRec
    BY DEF Procs
  <2>2. ProcsLater(pr, d)[p] =
          [pr[p] EXCEPT !.crash = Later(pr[p].crash, d), !.shutdown = Later(pr[p].shutdown, d),
                        !.kill = Later(pr[p].kill, d), !.alarm = Later(pr[p].alarm, d)]
    BY Zenon DEF ProcsLater
  <2> QED BY <1>4, <2>1, <2>2
<1> QED
  BY <1>3, <1>5 DEF Alike

\* The clock changes only the time left until the stop.
LEMMA RunLaterLemma ==
    ASSUME NEW rn \in RunRec, NEW d \in Nat
    PROVE  /\ RunLater(rn, d) \in RunRec
           /\ RunLater(rn, d).current = rn.current
           /\ RunLater(rn, d).nthreads = rn.nthreads
           /\ RunLater(rn, d).nprocs = rn.nprocs
<1>1. Later(rn.stopIn, d) \in Time
  BY LaterType DEF RunRec
<1> QED
  BY <1>1 DEF RunLater, RunRec

\* take_kills marks the processes it takes, and nothing else.
LEMMA SignalledLemma ==
    ASSUME NEW pr \in Procs, NEW S
    PROVE  /\ Signalled(pr, S) \in Procs
           /\ \A p \in Pid :
                /\ Signalled(pr, S)[p].state = pr[p].state
                /\ Signalled(pr, S)[p].killed = pr[p].killed
                /\ Signalled(pr, S)[p].signalled => pr[p].signalled \/ p \in S
                /\ Signalled(pr, S)[p].replacedBy = pr[p].replacedBy
<1>1. ASSUME NEW p \in Pid PROVE [pr[p] EXCEPT !.signalled = TRUE] \in ProcRec
  <2>1. pr[p] \in ProcRec
    BY DEF Procs
  <2> QED BY <2>1 DEF ProcRec
<1>2. ASSUME NEW p \in Pid
      PROVE  (IF p \in S THEN [pr[p] EXCEPT !.signalled = TRUE] ELSE pr[p]) \in ProcRec
  BY <1>1, Zenon DEF Procs
<1>3. Signalled(pr, S) \in Procs
  BY <1>2, Zenon DEF Signalled, Procs
<1>4. ASSUME NEW p \in Pid PROVE Signalled(pr, S)[p].state = pr[p].state
  BY DEF Signalled, Procs, ProcRec
<1>5. ASSUME NEW p \in Pid PROVE Signalled(pr, S)[p].killed = pr[p].killed
  <2>1. CASE p \in S
    BY <2>1 DEF Signalled, Procs, ProcRec
  <2>2. CASE p \notin S
    BY <2>2 DEF Signalled, Procs, ProcRec
  <2> QED BY <2>1, <2>2
<1>6. ASSUME NEW p \in Pid PROVE Signalled(pr, S)[p].signalled => pr[p].signalled \/ p \in S
  BY DEF Signalled, Procs, ProcRec
<1>7. ASSUME NEW p \in Pid PROVE Signalled(pr, S)[p].replacedBy = pr[p].replacedBy
  BY DEF Signalled, Procs, ProcRec
<1> QED
  BY <1>3, <1>4, <1>5, <1>6, <1>7

\* forget_unsettled changes nothing the invariant looks at.
LEMMA SettledLemma == ASSUME NEW pr \in Procs PROVE Alike(pr, Settled(pr))
<1>0. ASSUME NEW p \in Pid PROVE [pr[p] EXCEPT !.unsettled = FALSE] \in ProcRec
  <2>1. pr[p] \in ProcRec
    BY DEF Procs
  <2> QED BY <2>1 DEF ProcRec
<1>1. Settled(pr) \in Procs
  BY <1>0, Zenon DEF Procs, Settled
<1>2. ASSUME NEW p \in Pid
      PROVE  /\ Settled(pr)[p].state = pr[p].state
             /\ Settled(pr)[p].killed = pr[p].killed
             /\ Settled(pr)[p].signalled = pr[p].signalled
             /\ Settled(pr)[p].replacedBy = pr[p].replacedBy
  BY DEF Settled, Procs, ProcRec
<1> QED
  BY <1>1, <1>2 DEF Alike

\* Every process slot has a Faults record, its entry's or the zeroed one.
LEMMA FaultsType == ASSUME NEW e \in Entry \cup {0} PROVE Faults(e) \in FaultPlan
<1>1. NoFaults \in FaultPlan
  BY DEF NoFaults, FaultPlan, Count
<1> QED
  BY <1>1, InputsAssumption DEF Faults

\* A slot as add_proc and add_thread leave it
LEMMA FreshProcLemma ==
    ASSUME NEW par \in Pid \cup {NoProc}, NEW e \in Entry \cup {0}
    PROVE  /\ FreshProc(par, e) \in ProcRec
           /\ FreshProc(par, e).state = "starting"
           /\ ~FreshProc(par, e).killed /\ ~FreshProc(par, e).signalled
           /\ FreshProc(par, e).spec = e /\ FreshProc(par, e).replacedBy = NoProc
<1>1. Faults(e) \in FaultPlan
  BY FaultsType
<1>2. Faults(e).crashes \in Count /\ Faults(e).shutdowns \in Count /\ Faults(e).restarts \in Count
  BY <1>1 DEF FaultPlan
<1> QED
  BY <1>2 DEF FreshProc, ProcRec, Time, NoTime, NoThread, NoProc

\* A slot as add_thread leaves it is a thread.
LEMMA FreshThreadLemma ==
    ASSUME NEW p \in Pid, NEW moved \in BOOLEAN
    PROVE  /\ FreshThread(p, moved) \in ThreadRec
           /\ FreshThread(p, moved).state = "runnable"
           /\ FreshThread(p, moved).pid = p
BY DEF FreshThread, ThreadRec, SpecialKeys, Time, NoTime

----------------------------------------------------------------------------
(***************************************************************************)
(* A restart and a crash.                                                  *)
(***************************************************************************)

\* What register_restart leaves: the tables as they were, or one process and
\* one thread more, in slots nobody had.
Registered(th, pr, rn) ==
    /\ threads' \in Threads /\ procs' \in Procs /\ run' \in RunRec
    /\ run'.current = rn.current
    /\ run'.nprocs >= rn.nprocs /\ run'.nthreads >= rn.nthreads
    /\ \A t \in Tid :
         \/ threads'[t] = th[t]
         \/ /\ t > rn.nthreads /\ t <= run'.nthreads
            /\ threads'[t].state = "blocked"
            /\ threads'[t].pid \in 1..run'.nprocs
            /\ procs'[threads'[t].pid].state = "starting"
            /\ ~procs'[threads'[t].pid].killed
    /\ \A p \in Pid :
         \/ /\ procs'[p].state = pr[p].state
            /\ procs'[p].killed = pr[p].killed
            /\ procs'[p].signalled = pr[p].signalled
            /\ procs'[p].replacedBy \in {pr[p].replacedBy, run'.nprocs}
         \/ /\ p > rn.nprocs
            /\ procs'[p].state = "starting"
            /\ ~procs'[p].killed /\ ~procs'[p].signalled
            /\ procs'[p].replacedBy = NoProc

\* The two draws of draw_crash are times.
LEMMA DrawLemma ==
    ASSUME NEW rec \in ProcRec, NEW d \in Nat
    PROVE  CrashTimes(rec, d) \subseteq Time /\ ShutdownTimes(rec, d) \subseteq Time
<1>1. rec.spec \in Entry \cup {0}
  BY DEF ProcRec
<1>2. Faults(rec.spec).crash \subseteq Nat /\ Faults(rec.spec).shutdown \subseteq Nat
  BY <1>1, FaultsType DEF FaultPlan
<1>3. \A x \in Nat : AtLeast1(d + x) \in Time
  BY AtLeast1Type
<1>4. NoTime \in Time
  BY DEF Time
<1>5. CrashTimes(rec, d) \subseteq Time
  BY <1>2, <1>3, <1>4 DEF CrashTimes
<1>6. ShutdownTimes(rec, d) \subseteq Time
  BY <1>2, <1>3, <1>4 DEF ShutdownTimes
<1> QED BY <1>5, <1>6

\* register_restart leaves the tables as they were, or adds one process and
\* its blocked main thread at the end of them.
LEMMA RegisterRestartLemma ==
    ASSUME NEW th \in Threads, NEW pr \in Procs, NEW rn \in RunRec, NEW v \in Pid, NEW failed,
           run \in RunRec, rn.nprocs = run.nprocs, rn.nthreads = run.nthreads,
           RegisterRestart(th, pr, rn, v, failed)
    PROVE  Registered(th, pr, rn)
<1>1. CASE threads' = th /\ procs' = pr /\ run' = rn
  <2>1. rn.nprocs \in Nat /\ rn.nthreads \in Nat
    BY DEF RunRec
  <2> QED BY <1>1, <2>1 DEF Registered
<1>2. CASE RestartDue(pr, v, failed) /\ HasRoom /\ ~(threads' = th /\ procs' = pr /\ run' = rn)
  <2> DEFINE e    == pr[v].spec
             new  == rn.nprocs + 1
             main == rn.nthreads + 1
             rec  == [ FreshProc(NoProc, e) EXCEPT
                         !.crashesLeft   = pr[v].crashesLeft,
                         !.shutdownsLeft = pr[v].shutdownsLeft,
                         !.restartsLeft  = Spend(pr[v].restartsLeft) ]
  <2>1. e \in Entry /\ e # 0
    BY <1>2 DEF RestartDue, Procs, ProcRec
  <2>2. new \in Pid /\ main \in Tid
    BY <1>2, SizesAssumption DEF HasRoom, RunRec, Pid, Tid
  <2>3. pr[v].crashesLeft \in Count /\ pr[v].shutdownsLeft \in Count
        /\ Spend(pr[v].restartsLeft) \in Count
    BY SpendType DEF Procs, ProcRec
  <2>4. FreshProc(NoProc, e) \in ProcRec
    BY <2>1, FreshProcLemma
  <2>5. rec \in ProcRec /\ rec.spec = e
    <3>1. ASSUME NEW r \in ProcRec, NEW i \in Count, NEW j \in Count, NEW k \in Count
          PROVE  [r EXCEPT !.crashesLeft = i, !.shutdownsLeft = j, !.restartsLeft = k] \in ProcRec
      BY DEF ProcRec
    <3>2. rec \in ProcRec
      BY <3>1, <2>3, <2>4, Zenon
    <3>3. rec.spec = FreshProc(NoProc, e).spec
      BY <2>4 DEF ProcRec
    <3> QED BY <3>2, <3>3, <2>1, FreshProcLemma
  <2> HIDE DEF rec
  <2>6. PICK down \in Faults(e).delay :
          \E c \in CrashTimes(rec, AtLeast1(down)), s \in ShutdownTimes(rec, AtLeast1(down)) :
            /\ procs' = [p \in Pid |->
                   IF p = new THEN [rec EXCEPT !.crash = c, !.shutdown = s]
                   ELSE IF p = v THEN [pr[p] EXCEPT !.replacedBy = new]
                   ELSE pr[p]]
            /\ threads' = [th EXCEPT ![main] =
                             [FreshThread(new, FALSE) EXCEPT !.state = "blocked",
                                 !.key = "restart", !.deadline = AtLeast1(down)]]
            /\ run' = [rn EXCEPT !.nprocs = new, !.nthreads = main]
    BY <1>2, Zenon DEF RegisterRestart, rec
  <2>7. down \in Nat
    BY <2>1, FaultsType DEF FaultPlan
  <2>8. PICK c \in CrashTimes(rec, AtLeast1(down)), s \in ShutdownTimes(rec, AtLeast1(down)) :
            /\ procs' = [p \in Pid |->
                   IF p = new THEN [rec EXCEPT !.crash = c, !.shutdown = s]
                   ELSE IF p = v THEN [pr[p] EXCEPT !.replacedBy = new]
                   ELSE pr[p]]
            /\ threads' = [th EXCEPT ![main] =
                             [FreshThread(new, FALSE) EXCEPT !.state = "blocked",
                                 !.key = "restart", !.deadline = AtLeast1(down)]]
            /\ run' = [rn EXCEPT !.nprocs = new, !.nthreads = main]
    BY <2>6
  <2>9. c \in Time /\ s \in Time
    BY <2>1, <2>5, <2>7, AtLeast1Type, DrawLemma
  <2> DEFINE life  == [rec EXCEPT !.crash = c, !.shutdown = s]
             first == [FreshThread(new, FALSE) EXCEPT !.state = "blocked",
                         !.key = "restart", !.deadline = AtLeast1(down)]
             old   == [pr[v] EXCEPT !.replacedBy = new]
  <2>10. /\ life \in ProcRec /\ life.state = "starting"
         /\ ~life.killed /\ ~life.signalled /\ life.replacedBy = NoProc
    <3>1. /\ rec.state = "starting" /\ ~rec.killed /\ ~rec.signalled
          /\ rec.replacedBy = NoProc
      BY <2>1, <2>4, FreshProcLemma DEF rec, ProcRec
    <3>2. life \in ProcRec
      BY <2>5, <2>9 DEF ProcRec
    <3>3. life.state = rec.state
      BY <2>5 DEF ProcRec
    <3>4. life.killed = rec.killed
      BY <2>5 DEF ProcRec
    <3>5. life.signalled = rec.signalled
      BY <2>5 DEF ProcRec
    <3>6. life.replacedBy = rec.replacedBy
      BY <2>5 DEF ProcRec
    <3> HIDE DEF life
    <3> QED BY <3>1, <3>2, <3>3, <3>4, <3>5, <3>6
  <2>11. old \in ProcRec /\ old.state = pr[v].state /\ old.killed = pr[v].killed
         /\ old.signalled = pr[v].signalled /\ old.replacedBy = new
    <3>1. pr[v] \in ProcRec
      BY DEF Procs
    <3>2. old \in ProcRec
      BY <3>1, <2>2 DEF ProcRec
    <3>3. old.state = pr[v].state
      BY <3>1 DEF ProcRec
    <3>4. old.killed = pr[v].killed
      BY <3>1 DEF ProcRec
    <3>5. old.signalled = pr[v].signalled
      BY <3>1 DEF ProcRec
    <3>6. old.replacedBy = new
      BY <3>1 DEF ProcRec
    <3> QED BY <3>2, <3>3, <3>4, <3>5, <3>6
  <2>12. first \in ThreadRec /\ first.state = "blocked" /\ first.pid = new
    <3>1. FreshThread(new, FALSE) \in ThreadRec /\ FreshThread(new, FALSE).pid = new
      BY <2>2, FreshThreadLemma
    <3>2. AtLeast1(down) \in Time
      BY <2>7, AtLeast1Type
    <3>3. first \in ThreadRec
      BY <3>1, <3>2 DEF ThreadRec, SpecialKeys
    <3>4. first.state = "blocked"
      BY <3>1 DEF ThreadRec
    <3>5. first.pid = new
      BY <3>1 DEF ThreadRec
    <3> QED BY <3>3, <3>4, <3>5
  <2>13. procs' = [p \in Pid |-> IF p = new THEN life ELSE IF p = v THEN old ELSE pr[p]]
    <3>1. ASSUME NEW p \in Pid
          PROVE  (IF p = new THEN life
                  ELSE IF p = v THEN [pr[p] EXCEPT !.replacedBy = new] ELSE pr[p])
                 = IF p = new THEN life ELSE IF p = v THEN old ELSE pr[p]
      OBVIOUS
    <3>2. procs' = [p \in Pid |-> IF p = new THEN life
                                  ELSE IF p = v THEN [pr[p] EXCEPT !.replacedBy = new]
                                  ELSE pr[p]]
      BY <2>8, Zenon
    <3> HIDE DEF life, old, new
    <3> QED BY <3>1, <3>2, Zenon
  <2>14. threads' = [th EXCEPT ![main] = first]
    BY <2>8, Zenon
  <2>15. /\ run' \in RunRec /\ run'.current = rn.current
         /\ run'.nprocs = new /\ run'.nthreads = main
    <3>1. run' = [rn EXCEPT !.nprocs = new, !.nthreads = main]
      BY <2>8, Zenon
    <3>2. new \in 0..MaxProcs /\ main \in 0..MaxThreads
      BY <2>2 DEF Pid, Tid
    <3> HIDE DEF new, main
    <3> QED BY <3>1, <3>2 DEF RunRec
  <2> HIDE DEF life, first, old
  <2>16. /\ new > rn.nprocs /\ new >= rn.nprocs /\ new \in 1..new
         /\ main > rn.nthreads /\ main >= rn.nthreads /\ main <= main
    BY DEF RunRec
  <2> HIDE DEF new, main
  <2>17. procs' \in Procs
    BY <2>10, <2>11, <2>13 DEF Procs
  <2>18. procs'[new] = life
    BY <2>2, <2>13 DEF Procs
  <2>19. ASSUME NEW p \in Pid, p # new
         PROVE  /\ procs'[p].state = pr[p].state
                /\ procs'[p].killed = pr[p].killed
                /\ procs'[p].signalled = pr[p].signalled
                /\ procs'[p].replacedBy \in {pr[p].replacedBy, new}
    <3>1. procs'[p] = IF p = v THEN old ELSE pr[p]
      BY <2>13, <2>19 DEF Procs
    <3> QED BY <3>1, <2>11
  <2>20. threads' \in Threads /\ \A t \in Tid : t # main => threads'[t] = th[t]
    BY <2>12, <2>14 DEF Threads
  <2>21. threads'[main] = first
    BY <2>2, <2>14 DEF Threads
  <2>22. ASSUME NEW t \in Tid
         PROVE  \/ threads'[t] = th[t]
                \/ /\ t > rn.nthreads /\ t <= run'.nthreads
                   /\ threads'[t].state = "blocked"
                   /\ threads'[t].pid \in 1..run'.nprocs
                   /\ procs'[threads'[t].pid].state = "starting"
                   /\ ~procs'[threads'[t].pid].killed
    BY <2>10, <2>12, <2>15, <2>16, <2>18, <2>20, <2>21
  <2>23. ASSUME NEW p \in Pid
         PROVE  \/ /\ procs'[p].state = pr[p].state
                   /\ procs'[p].killed = pr[p].killed
                   /\ procs'[p].signalled = pr[p].signalled
                   /\ procs'[p].replacedBy \in {pr[p].replacedBy, run'.nprocs}
                \/ /\ p > rn.nprocs
                   /\ procs'[p].state = "starting"
                   /\ ~procs'[p].killed /\ ~procs'[p].signalled
                   /\ procs'[p].replacedBy = NoProc
    BY <2>10, <2>15, <2>16, <2>18, <2>19
  <2> QED
    BY <2>15, <2>16, <2>17, <2>20, <2>22, <2>23 DEF Registered
<1> QED
  BY <1>1, <1>2 DEF RegisterRestart

\* What is left when process v dies, known or not to be killed: its threads
\* are out of the schedule, some blocked ones are runnable, and its next life
\* may be registered.  Nothing else has changed that Safe speaks of.
Felled(th, pr, rn, v) ==
    /\ threads' \in Threads /\ procs' \in Procs /\ run' \in RunRec
    /\ run'.current = rn.current
    /\ run'.nprocs >= rn.nprocs /\ run'.nthreads >= rn.nthreads
    /\ \A t \in Tid :
         \/ /\ threads'[t].pid = th[t].pid
            /\ \/ th[t].pid = v /\ th[t].state # "unused" /\ threads'[t].state = "exited"
               \/ /\ th[t].pid # v \/ th[t].state = "unused"
                  /\ \/ threads'[t].state = th[t].state
                     \/ th[t].state = "blocked" /\ threads'[t].state = "runnable"
         \/ /\ t > rn.nthreads /\ t <= run'.nthreads
            /\ threads'[t].state = "blocked"
            /\ threads'[t].pid \in 1..run'.nprocs
            /\ procs'[threads'[t].pid].state = "starting"
            /\ ~procs'[threads'[t].pid].killed
    /\ \A p \in Pid :
         \/ /\ p # v
            /\ procs'[p].state = pr[p].state
            /\ procs'[p].killed = pr[p].killed
            /\ procs'[p].signalled = pr[p].signalled
            /\ procs'[p].replacedBy \in {pr[p].replacedBy, run'.nprocs}
         \/ /\ p = v
            /\ procs'[p].state = pr[p].state \/ procs'[p].state = "exited"
            /\ procs'[p].signalled = pr[p].signalled
            /\ pr[p].killed => procs'[p].killed
            /\ procs'[p].replacedBy \in {pr[p].replacedBy, run'.nprocs}
         \/ /\ p > rn.nprocs
            /\ procs'[p].state = "starting"
            /\ ~procs'[p].killed /\ ~procs'[p].signalled
            /\ procs'[p].replacedBy = NoProc

\* The threads of v retire, and some of those that are left wake up.
LEMMA RetireReady ==
    ASSUME NEW th \in Threads, NEW v, NEW S, S \subseteq Blocked(Retire(th, v))
    PROVE  /\ Ready(Retire(th, v), S) \in Threads
           /\ \A t \in Tid :
                /\ Ready(Retire(th, v), S)[t].pid = th[t].pid
                /\ \/ /\ th[t].pid = v /\ th[t].state # "unused"
                      /\ Ready(Retire(th, v), S)[t].state = "exited"
                   \/ /\ th[t].pid # v \/ th[t].state = "unused"
                      /\ \/ Ready(Retire(th, v), S)[t].state = th[t].state
                         \/ th[t].state = "blocked" /\ Ready(Retire(th, v), S)[t].state = "runnable"
<1>1. Retire(th, v) \in Threads
  BY RetireLemma
<1>2. Woken(Retire(th, v), Ready(Retire(th, v), S))
  BY <1>1, ReadyWoken
<1> QED
  BY <1>1, <1>2, RetireLemma DEF Woken

\* A death (crash, process_died) wakes only blocked threads.
LEMMA WokenByDeathBlocked ==
    ASSUME NEW th, NEW pr, NEW p PROVE WokenByDeath(th, pr, p) \subseteq Blocked(th)
BY DEF WokenByDeath, WaitingForIO, WaitingOn

\* A process taken off the dates of its faults
LEMMA UnscheduledLemma ==
    ASSUME NEW rec \in ProcRec
    PROVE  /\ Unscheduled(rec) \in ProcRec
           /\ Unscheduled(rec).state = rec.state
           /\ Unscheduled(rec).killed = rec.killed
           /\ Unscheduled(rec).signalled = rec.signalled
           /\ Unscheduled(rec).replacedBy = rec.replacedBy
<1>1. Unscheduled(rec) \in ProcRec
  BY DEF Unscheduled, ProcRec, Time, NoTime
<1>2. Unscheduled(rec).state = rec.state
  BY DEF Unscheduled, ProcRec
<1>3. Unscheduled(rec).killed = rec.killed
  BY DEF Unscheduled, ProcRec
<1>4. Unscheduled(rec).signalled = rec.signalled
  BY DEF Unscheduled, ProcRec
<1>5. Unscheduled(rec).replacedBy = rec.replacedBy
  BY DEF Unscheduled, ProcRec
<1> QED BY <1>1, <1>2, <1>3, <1>4, <1>5

\* A death and the restart that follows it
LEMMA FelledLemma ==
    ASSUME NEW th \in Threads, NEW pr \in Procs, NEW pr2 \in Procs, NEW rn \in RunRec,
           NEW v \in Pid, NEW failed, NEW S, S \subseteq Blocked(Retire(th, v)),
           run \in RunRec, rn.nprocs = run.nprocs, rn.nthreads = run.nthreads,
           \A p \in Pid \ {v} : pr2[p] = pr[p],
           pr2[v].state \in {pr[v].state, "exited"},
           pr2[v].signalled = pr[v].signalled, pr2[v].replacedBy = pr[v].replacedBy,
           pr[v].killed => pr2[v].killed,
           RegisterRestart(Ready(Retire(th, v), S), pr2, rn, v, failed)
    PROVE  Felled(th, pr, rn, v) /\ (pr2[v].killed /\ procs'[v].signalled => procs'[v].killed)
<1> DEFINE th2 == Ready(Retire(th, v), S)
<1>1. th2 \in Threads
  BY RetireReady
<1>2. Registered(th2, pr2, rn)
  BY <1>1, RegisterRestartLemma
<1>3. ASSUME NEW t \in Tid
      PROVE  /\ th2[t].pid = th[t].pid
             /\ \/ th[t].pid = v /\ th[t].state # "unused" /\ th2[t].state = "exited"
                \/ /\ th[t].pid # v \/ th[t].state = "unused"
                   /\ \/ th2[t].state = th[t].state
                      \/ th[t].state = "blocked" /\ th2[t].state = "runnable"
  BY RetireReady
<1> HIDE DEF th2
<1>4. ASSUME NEW t \in Tid
      PROVE
         \/ /\ threads'[t].pid = th[t].pid
            /\ \/ th[t].pid = v /\ th[t].state # "unused" /\ threads'[t].state = "exited"
               \/ /\ th[t].pid # v \/ th[t].state = "unused"
                  /\ \/ threads'[t].state = th[t].state
                     \/ th[t].state = "blocked" /\ threads'[t].state = "runnable"
         \/ /\ t > rn.nthreads /\ t <= run'.nthreads
            /\ threads'[t].state = "blocked"
            /\ threads'[t].pid \in 1..run'.nprocs
            /\ procs'[threads'[t].pid].state = "starting"
            /\ ~procs'[threads'[t].pid].killed
  BY <1>2, <1>3 DEF Registered
<1>5. ASSUME NEW p \in Pid
      PROVE
         \/ /\ p # v
            /\ procs'[p].state = pr[p].state
            /\ procs'[p].killed = pr[p].killed
            /\ procs'[p].signalled = pr[p].signalled
            /\ procs'[p].replacedBy \in {pr[p].replacedBy, run'.nprocs}
         \/ /\ p = v
            /\ procs'[p].state = pr[p].state \/ procs'[p].state = "exited"
            /\ procs'[p].signalled = pr[p].signalled
            /\ pr[p].killed => procs'[p].killed
            /\ procs'[p].replacedBy \in {pr[p].replacedBy, run'.nprocs}
         \/ /\ p > rn.nprocs
            /\ procs'[p].state = "starting"
            /\ ~procs'[p].killed /\ ~procs'[p].signalled
            /\ procs'[p].replacedBy = NoProc
  BY <1>2 DEF Registered
<1>7. pr2[v].killed /\ procs'[v].signalled => procs'[v].killed
  BY <1>2 DEF Registered
<1> QED
  BY <1>2, <1>4, <1>5, <1>7 DEF Registered, Felled

\* crash fells its victim.
LEMMA CrashLemma ==
    ASSUME NEW th \in Threads, NEW pr \in Procs, NEW rn \in RunRec, NEW v \in Pid,
           run \in RunRec, rn.nprocs = run.nprocs, rn.nthreads = run.nthreads,
           Crash(th, pr, rn, v)
    PROVE  Felled(th, pr, rn, v) /\ (procs'[v].signalled => procs'[v].killed)
<1> DEFINE b   == pr[v].state = "live"
           rec == [Unscheduled(pr[v]) EXCEPT !.killed = TRUE, !.unsettled = b]
           pr2 == [pr EXCEPT ![v] = rec]
<1>1. pr[v] \in ProcRec
  BY DEF Procs
<1>2. /\ Unscheduled(pr[v]) \in ProcRec
      /\ Unscheduled(pr[v]).state = pr[v].state
      /\ Unscheduled(pr[v]).signalled = pr[v].signalled
      /\ Unscheduled(pr[v]).replacedBy = pr[v].replacedBy
  BY <1>1, UnscheduledLemma
<1>3. b \in BOOLEAN
  OBVIOUS
<1> HIDE DEF b
<1>4. rec \in ProcRec
  BY <1>2, <1>3 DEF ProcRec
<1>5. rec.state = pr[v].state
  BY <1>2 DEF ProcRec
<1>6. rec.signalled = pr[v].signalled
  BY <1>2 DEF ProcRec
<1>7. rec.killed
  BY <1>2 DEF ProcRec
<1>r. rec.replacedBy = pr[v].replacedBy
  BY <1>2 DEF ProcRec
<1>8. RegisterRestart(Ready(Retire(th, v), WokenByDeath(Retire(th, v), pr, v)), pr2, rn, v, TRUE)
  BY DEF Crash, b
<1> HIDE DEF rec
<1>9. pr2 \in Procs /\ pr2[v] = rec /\ \A p \in Pid \ {v} : pr2[p] = pr[p]
  BY <1>4 DEF Procs
<1> HIDE DEF pr2
<1> QED
  BY <1>5, <1>6, <1>7, <1>r, <1>8, <1>9, WokenByDeathBlocked, FelledLemma

----------------------------------------------------------------------------
(***************************************************************************)
(* Steps that leave the baton where it is.                                 *)
(***************************************************************************)
InsidePcs == {"guest", "checking", "blocking", "awaiting", "killing", "settling"}

\* Nobody but the thread that was given the baton starts to run, and threads
\* that die die with their process.
Quiet ==
    /\ Woken(threads, threads')
    /\ \A p \in Pid :
         /\ procs'[p].signalled => procs'[p].killed
         /\ p <= run.nprocs =>
              /\ \/ procs'[p].state = procs[p].state
                 \/ procs[p].state = "starting" /\ procs'[p].state = "live"
              /\ procs'[p].killed = procs[p].killed
         /\ procs'[p].replacedBy \in {procs[p].replacedBy, NoProc}
         /\ pick.phase # "none" => procs'[p].signalled = procs[p].signalled
    /\ run'.current = run.current /\ run'.nthreads = run.nthreads /\ run'.nprocs >= run.nprocs
    /\ pick'.phase = "none" <=> pick.phase = "none"
    /\ pick'.by = pick.by /\ pick'.me = pick.me
    /\ launcher'.started = launcher.started
    /\ \A t \in Tid :
         \/ pc'[t] = pc[t]
         \/ Inside(t) /\ pc'[t] \in InsidePcs
         \/ /\ threads[t].state # "unused" /\ pc'[t] \in {"boot", "gone"}
            /\ pick.phase # "none" /\ pick.by = "guest" => t # pick.me
         \/ /\ pick.phase = "none" /\ pc[t] = "parked" /\ pc'[t] \in InsidePcs
            /\ run.current = t /\ threads[t].state = "running"
         \/ /\ pick.phase = "none" /\ threads[t].state # "unused" /\ pc'[t] = "parked"
            /\ procs'[threads[t].pid].state # "starting"
    /\ \A t \in Tid :
         pc'[t] \notin {"none", "boot", "gone"} => real'[threads[t].pid] = "up"
    /\ \A p \in Pid : real'[p] # "none" => p <= run.nprocs

\* A step that touches neither the tables nor who runs keeps the invariant.
LEMMA QuietStep == ASSUME IInv, TypeOK', Quiet, Launching' PROVE Safe'
<1> USE DEF Quiet, IInv, Base, Safe, Woken
<1>0. /\ threads \in Threads /\ run \in RunRec /\ run' \in RunRec
      /\ pc \in [Tid -> Pcs] /\ pc' \in [Tid -> Pcs]
  BY DEF TypeOK, Threads
<1>n. /\ run.nprocs \in Nat /\ run.nthreads \in Nat /\ run.nprocs <= MaxProcs
      /\ run'.nprocs \in Nat
  BY <1>0, SizesAssumption DEF RunRec
<1>1. Placed'
  <2>1. ASSUME NEW t \in Tid
        PROVE  /\ pc'[t] # "none" => threads'[t].state # "unused"
               /\ threads'[t].state # "unused" =>
                    t <= run'.nthreads /\ threads'[t].pid \in 1..run'.nprocs
               /\ threads'[t].state = "unused" => threads'[t].pid = NoProc
    <3>1. pc'[t] # "none" => threads[t].state # "unused"
      BY DEF Inside, Placed
    <3>2. threads'[t].state = "unused" <=> threads[t].state = "unused"
      OBVIOUS
    <3>3. threads[t].pid \in 1..run.nprocs => threads'[t].pid \in 1..run'.nprocs
      BY <1>n
    <3> QED BY <3>1, <3>2, <3>3 DEF Placed
  <2>2. \A p \in Pid :
          (real'[p] # "none" => p <= run'.nprocs) /\ procs'[p].replacedBy \in 0..run'.nprocs
    BY <1>n DEF Placed, Pid, NoProc
  <2> QED BY <2>1, <2>2 DEF Placed
<1>p. \A t \in Tid : pc[t] # "none" => threads[t].pid \in Pid /\ threads[t].pid <= run.nprocs
  BY <1>n, SizesAssumption DEF Placed, Pid
<1>2. Tenants'
  <2> SUFFICES ASSUME NEW t \in Tid, Active(t)'
               PROVE  real'[threads'[t].pid] = "up" /\ procs'[threads'[t].pid].state # "starting"
    BY DEF Tenants
  <2>1. real'[threads'[t].pid] = "up"
    BY DEF Active
  <2>2. CASE Active(t)
    <3>1. /\ threads[t].pid \in Pid /\ threads[t].pid <= run.nprocs
          /\ procs[threads[t].pid].state # "starting"
      BY <2>2, <1>p DEF Tenants, Active
    <3> QED BY <3>1, <2>1
  <2>3. CASE ~Active(t)
    BY <2>1, <2>3 DEF Active, Inside, InsidePcs
  <2> QED BY <2>2, <2>3
<1>3. OnlyCrashedSignalled'
  BY DEF OnlyCrashedSignalled
<1>4. PollersIdle'
  BY <1>p DEF PollersIdle, Inside, InsidePcs
<1>i. \A t \in Tid : Inside(t)' =>
        \/ Inside(t)
        \/ /\ pick.phase = "none" /\ pc[t] = "parked"
           /\ run.current = t /\ threads[t].state = "running"
  BY DEF Inside
<1>5. HandingOver'
  <2> SUFFICES ASSUME pick'.phase # "none" PROVE HandingOver'
    BY DEF HandingOver
  <2>1. \A t \in Tid : ~Inside(t)' /\ threads'[t].state # "running"
    BY <1>i DEF HandingOver
  <2>2. pick'.by = "guest" =>
             /\ pick'.me \in Tid /\ pick'.me = run'.current
             /\ pc'[pick'.me] \in {"parked", "polling"}
             /\ ~procs'[threads'[pick'.me].pid].signalled
    <3> SUFFICES ASSUME pick'.by = "guest"
                 PROVE  /\ pick'.me \in Tid /\ pick'.me = run'.current
                        /\ pc'[pick'.me] \in {"parked", "polling"}
                        /\ ~procs'[threads'[pick'.me].pid].signalled
      OBVIOUS
    <3>1. pick.me \in Tid /\ pc[pick.me] \in {"parked", "polling"}
      BY DEF HandingOver
    <3>2. threads[pick.me].pid \in Pid
      BY <3>1, <1>p
    <3> QED BY <3>1, <3>2 DEF HandingOver, Inside
  <2>3. pick'.by # "guest" => run'.current = NoThread \/ ~Active(run.current)'
    <3> SUFFICES ASSUME pick'.by # "guest", run'.current # NoThread
                 PROVE  ~Active(run.current)'
      OBVIOUS
    <3>1. run.current \in Tid
      BY <1>0 DEF RunRec
    <3> QED BY <3>1 DEF HandingOver, Active, Inside
  <2> QED BY <2>1, <2>2, <2>3 DEF HandingOver
<1>6. OneHolder'
  <2> SUFFICES ASSUME NEW t \in Tid, Inside(t)'
               PROVE  /\ run'.current = t
                      /\ threads'[t].state = "running"
                      /\ procs'[threads'[t].pid].state = "live"
                      /\ ~procs'[threads'[t].pid].killed
    BY DEF OneHolder, Owner
  <2>1. CASE Inside(t)
    <3>1. pc[t] # "none"
      BY <2>1 DEF Inside
    <3> QED BY <2>1, <3>1, <1>p DEF OneHolder, Owner
  <2>2. CASE ~Inside(t)
    <3>1. pc[t] = "parked" /\ run.current = t /\ threads[t].state = "running"
      BY <2>2, <1>i
    <3>2. threads[t].pid \in Pid /\ threads[t].pid <= run.nprocs
      BY <3>1, <1>p
    <3>3. procs[threads[t].pid].state = "live" /\ ~procs[threads[t].pid].killed
      BY <3>1 DEF ScheduleIsAlive, Tenants, Active, Owner
    <3> QED BY <3>1, <3>2, <3>3
  <2> QED BY <2>1, <2>2
<1>7. OneRunning'
  BY DEF OneRunning
<1>8. ScheduleIsAlive'
  <2> SUFFICES ASSUME NEW t \in Tid, threads'[t].state \in {"runnable", "running", "blocked"}
               PROVE  /\ procs'[threads'[t].pid].state \in {"starting", "live"}
                      /\ ~procs'[threads'[t].pid].killed
    BY DEF ScheduleIsAlive, Owner
  <2>1. threads[t].state \in {"runnable", "running", "blocked"}
    OBVIOUS
  <2>2. threads[t].pid \in Pid /\ threads[t].pid <= run.nprocs
    BY <2>1, <1>n, SizesAssumption DEF Placed, Pid
  <2> QED BY <2>1, <2>2 DEF ScheduleIsAlive, Owner
<1> QED
  BY <1>1, <1>2, <1>3, <1>4, <1>5, <1>6, <1>7, <1>8

\* What every step may assume
LEMMA Basics ==
    ASSUME IInv
    PROVE  /\ threads \in Threads /\ procs \in Procs /\ run \in RunRec
           /\ pc \in [Tid -> Pcs]
           /\ Woken(threads, threads) /\ Alike(procs, procs)
           /\ \A t \in Tid : threads[t].state # "unused" =>
                threads[t].pid \in Pid /\ threads[t].pid <= run.nprocs
           /\ \A t \in Tid : pc[t] # "none" => threads[t].state # "unused"
           /\ \A t \in Tid : Owner(t) \in Pid \cup {NoProc}
<1>1. threads \in Threads /\ procs \in Procs /\ run \in RunRec /\ pc \in [Tid -> Pcs]
  BY DEF IInv, Base, TypeOK, Threads, Procs
<1>2. run.nprocs \in Nat /\ run.nprocs <= MaxProcs
  BY <1>1, SizesAssumption DEF RunRec
<1>3. \A t \in Tid : threads[t].state # "unused" =>
                threads[t].pid \in Pid /\ threads[t].pid <= run.nprocs
  BY <1>2, SizesAssumption DEF IInv, Base, Safe, Placed, Pid
<1>4. \A t \in Tid : Owner(t) \in Pid \cup {NoProc}
  BY <1>1 DEF Threads, ThreadRec, Owner
<1> QED
  BY <1>1, <1>3, <1>4 DEF Woken, Alike, IInv, Base, Safe, Placed

\* A step that changes nothing but what waits for what
LEMMA TableStep ==
    ASSUME IInv, TypeOK', Woken(threads, threads'), Alike(procs, procs'),
           run'.current = run.current, run'.nthreads = run.nthreads, run'.nprocs = run.nprocs,
           UNCHANGED <<pick, real, launcher>>,
           \A t \in Tid : pc'[t] = pc[t] \/ (Inside(t) /\ pc'[t] \in InsidePcs)
    PROVE  Safe'
<1>1. Launching'
  BY DEF IInv, Base, Safe, Launching
<1>2. \A t \in Tid : pc'[t] \notin {"none", "boot", "gone"} => real'[threads[t].pid] = "up"
  BY DEF IInv, Base, Safe, Tenants, Active, Inside
<1>3. \A p \in Pid :
         /\ procs'[p].signalled => procs'[p].killed
         /\ procs'[p].state = procs[p].state
         /\ procs'[p].killed = procs[p].killed
         /\ procs'[p].signalled = procs[p].signalled
         /\ procs'[p].replacedBy = procs[p].replacedBy
  BY DEF IInv, Base, Safe, OnlyCrashedSignalled, Alike
<1>4. run.nprocs \in Nat
  BY Basics DEF RunRec
<1>5. \A p \in Pid : real'[p] # "none" => p <= run.nprocs
  BY DEF IInv, Base, Safe, Placed
<1>6. Quiet
  BY <1>2, <1>3, <1>4, <1>5 DEF Quiet
<1> QED
  BY <1>1, <1>6, QuietStep

\* The real processes in S die, and the run does not know.
LEMMA DeathStep ==
    ASSUME IInv, TypeOK', NEW S, S \subseteq Pid, NEW status,
           RealDeath(S, status), pc' = ThreadsGone(pc, S),
           \/ pick.phase = "none"
           \/ pick.by = "guest" => threads[pick.me].pid \notin S,
           Woken(threads, threads'), Alike(procs, procs'),
           run'.current = run.current, run'.nthreads = run.nthreads, run'.nprocs = run.nprocs,
           UNCHANGED <<pick, launcher>>
    PROVE  Safe'
<1>1. \A p \in Pid :
         real'[p] = IF p \in S /\ real[p] = "up" THEN status ELSE real[p]
  BY DEF RealDeath
<1>2. \A t \in Tid : pc'[t] = IF threads[t].pid \in S THEN "gone" ELSE pc[t]
  BY DEF ThreadsGone, Owner
<1>3. \A t \in Tid : threads[t].pid \in S => threads[t].state # "unused"
  BY DEF IInv, Base, Safe, Placed, NoProc, Pid
<1>4. Launching'
  BY <1>1 DEF IInv, Base, Safe, Launching
<1>5. \A t \in Tid : pc'[t] \notin {"none", "boot", "gone"} => real'[threads[t].pid] = "up"
  BY <1>1, <1>2, Basics DEF IInv, Base, Safe, Tenants, Active
<1>6. \A p \in Pid :
         /\ procs'[p].signalled => procs'[p].killed
         /\ procs'[p].state = procs[p].state
         /\ procs'[p].killed = procs[p].killed
         /\ procs'[p].signalled = procs[p].signalled
         /\ procs'[p].replacedBy = procs[p].replacedBy
  BY DEF IInv, Base, Safe, OnlyCrashedSignalled, Alike
<1>7. run.nprocs \in Nat
  BY Basics DEF RunRec
<1>8. \A p \in Pid : real'[p] # "none" => p <= run.nprocs
  BY <1>1 DEF IInv, Base, Safe, Placed
<1>9. Quiet
  BY <1>2, <1>3, <1>5, <1>6, <1>7, <1>8 DEF Quiet
<1> QED
  BY <1>4, <1>9, QuietStep

\* A real death leaves every real process in a state it can have.
LEMMA RealDeathType ==
    ASSUME TypeOK, NEW S, NEW status \in {"exit0", "failed"}, RealDeath(S, status)
    PROVE  real' \in [Pid -> {"none", "up", "exit0", "failed", "reaped"}]
BY DEF TypeOK, RealDeath

\* Threads that go with their process are at a place a thread can be.
LEMMA ThreadsGoneType ==
    ASSUME NEW pcs \in [Tid -> Pcs], NEW S PROVE ThreadsGone(pcs, S) \in [Tid -> Pcs]
BY DEF ThreadsGone, Pcs

----------------------------------------------------------------------------
(***************************************************************************)
(* One lemma per action: those of the program and of the holder.           *)
(***************************************************************************)
\* Two records of a process that Safe does not tell apart
Same(rec, rec2) ==
    /\ rec2 \in ProcRec
    /\ rec2.state = rec.state /\ rec2.killed = rec.killed
    /\ rec2.signalled = rec.signalled /\ rec2.replacedBy = rec.replacedBy

\* has_outside_threads does not matter to the invariant.
LEMMA SameOutside ==
    ASSUME NEW rec \in ProcRec, NEW b \in BOOLEAN PROVE Same(rec, [rec EXCEPT !.outside = b])
<1>1. [rec EXCEPT !.outside = b] \in ProcRec
  BY DEF ProcRec
<1>2. [rec EXCEPT !.outside = b].state = rec.state
  BY DEF ProcRec
<1>3. [rec EXCEPT !.outside = b].killed = rec.killed
  BY DEF ProcRec
<1>4. [rec EXCEPT !.outside = b].signalled = rec.signalled
  BY DEF ProcRec
<1>5. [rec EXCEPT !.outside = b].replacedBy = rec.replacedBy
  BY DEF ProcRec
<1> QED BY <1>1, <1>2, <1>3, <1>4, <1>5 DEF Same

\* sig_pending does not matter to the invariant.
LEMMA SamePending ==
    ASSUME NEW rec \in ProcRec, NEW b \in BOOLEAN PROVE Same(rec, [rec EXCEPT !.pending = b])
<1>1. [rec EXCEPT !.pending = b] \in ProcRec
  BY DEF ProcRec
<1>2. [rec EXCEPT !.pending = b].state = rec.state
  BY DEF ProcRec
<1>3. [rec EXCEPT !.pending = b].killed = rec.killed
  BY DEF ProcRec
<1>4. [rec EXCEPT !.pending = b].signalled = rec.signalled
  BY DEF ProcRec
<1>5. [rec EXCEPT !.pending = b].replacedBy = rec.replacedBy
  BY DEF ProcRec
<1> QED BY <1>1, <1>2, <1>3, <1>4, <1>5 DEF Same

\* reaped does not matter to the invariant.
LEMMA SameReaped ==
    ASSUME NEW rec \in ProcRec, NEW b \in BOOLEAN PROVE Same(rec, [rec EXCEPT !.reaped = b])
<1>1. [rec EXCEPT !.reaped = b] \in ProcRec
  BY DEF ProcRec
<1>2. [rec EXCEPT !.reaped = b].state = rec.state
  BY DEF ProcRec
<1>3. [rec EXCEPT !.reaped = b].killed = rec.killed
  BY DEF ProcRec
<1>4. [rec EXCEPT !.reaped = b].signalled = rec.signalled
  BY DEF ProcRec
<1>5. [rec EXCEPT !.reaped = b].replacedBy = rec.replacedBy
  BY DEF ProcRec
<1> QED BY <1>1, <1>2, <1>3, <1>4, <1>5 DEF Same

\* exiting_port does not matter to the invariant.
LEMMA SameExiting ==
    ASSUME NEW rec \in ProcRec, NEW t \in Tid \cup {NoThread}
    PROVE  Same(rec, [rec EXCEPT !.exiting = t])
<1>1. [rec EXCEPT !.exiting = t] \in ProcRec
  BY DEF ProcRec
<1>2. [rec EXCEPT !.exiting = t].state = rec.state
  BY DEF ProcRec
<1>3. [rec EXCEPT !.exiting = t].killed = rec.killed
  BY DEF ProcRec
<1>4. [rec EXCEPT !.exiting = t].signalled = rec.signalled
  BY DEF ProcRec
<1>5. [rec EXCEPT !.exiting = t].replacedBy = rec.replacedBy
  BY DEF ProcRec
<1> QED BY <1>1, <1>2, <1>3, <1>4, <1>5 DEF Same

\* alarm_at does not matter to the invariant.
LEMMA SameAlarm ==
    ASSUME NEW rec \in ProcRec, NEW a \in Time PROVE Same(rec, [rec EXCEPT !.alarm = a])
<1>1. [rec EXCEPT !.alarm = a] \in ProcRec
  BY DEF ProcRec
<1>2. [rec EXCEPT !.alarm = a].state = rec.state
  BY DEF ProcRec
<1>3. [rec EXCEPT !.alarm = a].killed = rec.killed
  BY DEF ProcRec
<1>4. [rec EXCEPT !.alarm = a].signalled = rec.signalled
  BY DEF ProcRec
<1>5. [rec EXCEPT !.alarm = a].replacedBy = rec.replacedBy
  BY DEF ProcRec
<1> QED BY <1>1, <1>2, <1>3, <1>4, <1>5 DEF Same

\* alarm_interval does not matter to the invariant.
LEMMA SameInterval ==
    ASSUME NEW rec \in ProcRec, NEW i \in Nat PROVE Same(rec, [rec EXCEPT !.interval = i])
<1>1. [rec EXCEPT !.interval = i] \in ProcRec
  BY DEF ProcRec
<1>2. [rec EXCEPT !.interval = i].state = rec.state
  BY DEF ProcRec
<1>3. [rec EXCEPT !.interval = i].killed = rec.killed
  BY DEF ProcRec
<1>4. [rec EXCEPT !.interval = i].signalled = rec.signalled
  BY DEF ProcRec
<1>5. [rec EXCEPT !.interval = i].replacedBy = rec.replacedBy
  BY DEF ProcRec
<1> QED BY <1>1, <1>2, <1>3, <1>4, <1>5 DEF Same

\* stopped does not matter to the invariant.
LEMMA SameStopped ==
    ASSUME NEW rec \in ProcRec PROVE Same(rec, [rec EXCEPT !.stopped = TRUE])
<1>1. [rec EXCEPT !.stopped = TRUE] \in ProcRec
  BY DEF ProcRec
<1>2. [rec EXCEPT !.stopped = TRUE].state = rec.state
  BY DEF ProcRec
<1>3. [rec EXCEPT !.stopped = TRUE].killed = rec.killed
  BY DEF ProcRec
<1>4. [rec EXCEPT !.stopped = TRUE].signalled = rec.signalled
  BY DEF ProcRec
<1>5. [rec EXCEPT !.stopped = TRUE].replacedBy = rec.replacedBy
  BY DEF ProcRec
<1> QED BY <1>1, <1>2, <1>3, <1>4, <1>5 DEF Same

\* Records that are the same make tables that are alike.
LEMMA AlikeUpdate ==
    ASSUME NEW pr \in Procs, NEW p, NEW rec \in ProcRec, p \in Pid => Same(pr[p], rec)
    PROVE  Alike(pr, [pr EXCEPT ![p] = rec])
BY DEF Same, Alike, Procs

\* Process tables are alike if their records are, one by one.
LEMMA AlikePointwise ==
    ASSUME NEW pr \in Procs, NEW pr2, pr2 = [p \in Pid |-> pr2[p]],
           \A p \in Pid : Same(pr[p], pr2[p])
    PROVE  Alike(pr, pr2)
<1>1. \A p \in Pid : pr2[p] \in ProcRec
  BY DEF Same
<1>2. pr2 \in Procs
  BY <1>1, Zenon DEF Procs
<1> QED
  BY <1>2 DEF Alike, Same

\* Being alike is transitive, so that one change may follow another.
LEMMA AlikeTransitive ==
    ASSUME NEW a, NEW b, NEW c, Alike(a, b), Alike(b, c) PROVE Alike(a, c)
BY DEF Alike

\* wake_all and wake_io by the holder keep the invariant.
LEMMA WakeStep == ASSUME IInv, NEW t \in Tid, Wake(t) PROVE Base'
<1>1. threads \in Threads
  BY Basics
<1>2. PICK S : threads' = Ready(threads, S) /\ S \subseteq Blocked(threads)
  <2>1. WaitingForIO(threads) \subseteq Blocked(threads)
    BY DEF WaitingForIO
  <2>2. \A k \in Keys : WaitingOn(threads, Owner(t), k) \subseteq Blocked(threads)
    BY DEF WaitingOn
  <2> QED BY <2>1, <2>2 DEF Wake
<1>3. Woken(threads, threads')
  BY <1>1, <1>2, ReadyWoken
<1>4. TypeOK'
  BY <1>3 DEF Wake, IInv, Base, TypeOK, Woken, Threads
<1>5. Alike(procs, procs')
  BY Basics DEF Wake
<1> QED
  BY <1>3, <1>4, <1>5, TableStep DEF Wake, IInv, Base

\* The wakes of a thread outside the schedule (note_outside_wake) keep it.
LEMMA OutsideWakeStep == ASSUME IInv, NEW p \in Pid, OutsideWake(p) PROVE Base'
<1>1. threads \in Threads /\ procs \in Procs
  BY Basics
<1>2. PICK W : /\ W \subseteq Blocked(threads)
               /\ threads' = [t \in Tid |->
                    [Ready(threads, W)[t] EXCEPT !.stale = @ \/ t \in ThreadsOf(threads, p)]]
  <2>1. \A W \in {WaitingOn(threads, p, k) : k \in Keys} \cup {WaitingForIO(threads)} :
           W \subseteq Blocked(threads)
    BY DEF WaitingOn, WaitingForIO
  <2> QED BY <2>1 DEF OutsideWake
<1>3. Woken(threads, Ready(threads, W))
  BY <1>1, <1>2, ReadyWoken
<1> DEFINE th == Ready(threads, W)
<1>4. ASSUME NEW t \in Tid
      PROVE  /\ threads'[t] \in ThreadRec
             /\ threads'[t].pid = th[t].pid /\ threads'[t].state = th[t].state
  <2> DEFINE b == th[t].stale \/ t \in ThreadsOf(threads, p)
  <2>1. th[t] \in ThreadRec
    BY <1>3 DEF Woken, Threads
  <2>2. threads'[t] = [th[t] EXCEPT !.stale = b]
    BY <1>2
  <2>3. b \in BOOLEAN
    BY <2>1 DEF ThreadRec
  <2> HIDE DEF b, th
  <2> QED BY <2>1, <2>2, <2>3 DEF ThreadRec
<1>5. threads' = [t \in Tid |-> threads'[t]]
  BY <1>2
<1> HIDE DEF th
<1>6. threads' \in Threads
  BY <1>4, <1>5, Zenon DEF Threads
<1>7. Woken(threads, threads')
  BY <1>3, <1>4, <1>6 DEF Woken, th
<1>8. Alike(procs, procs')
  <2>1. procs[p] \in ProcRec
    BY <1>1 DEF Procs
  <2> DEFINE rec == [procs[p] EXCEPT !.outside = TRUE]
  <2>2. Same(procs[p], rec)
    BY <2>1, SameOutside
  <2>3. procs' = [procs EXCEPT ![p] = rec]
    BY DEF OutsideWake
  <2> HIDE DEF rec
  <2> QED BY <1>1, <2>2, <2>3, AlikeUpdate DEF Same
<1>9. TypeOK'
  BY <1>6, <1>8 DEF OutsideWake, IInv, Base, TypeOK, Alike, Threads, Procs
<1> QED
  BY <1>7, <1>8, <1>9, TableStep DEF OutsideWake, IInv, Base

\* clock_read keeps it.
LEMMA ReadClockStep == ASSUME IInv, NEW t \in Tid, ReadClock(t) PROVE Base'
<1>1. Woken(threads, threads') /\ Alike(procs, procs')
  BY Basics, ThreadsLaterLemma, ProcsLaterLemma DEF ReadClock
<1>2. /\ run' \in RunRec /\ run'.current = run.current
      /\ run'.nthreads = run.nthreads /\ run'.nprocs = run.nprocs
  BY Basics, RunLaterLemma DEF ReadClock
<1>3. TypeOK'
  BY <1>1, <1>2 DEF ReadClock, IInv, Base, TypeOK, Woken, Alike, Threads, Procs
<1> QED
  BY <1>1, <1>2, <1>3, TableStep DEF ReadClock, IInv, Base

\* my_setitimer keeps it.
LEMMA SetTimerStep == ASSUME IInv, NEW t \in Tid, SetTimer(t) PROVE Base'
<1> DEFINE p == Owner(t)
<1>1. PICK x \in Timers :
        procs' = [procs EXCEPT ![p].alarm = x[1], ![p].interval = x[2]]
  BY DEF SetTimer
<1>2. x[1] \in Time /\ x[2] \in Nat
  BY InputsAssumption
<1>3. p \in Pid
  BY Basics DEF SetTimer, Runs, Owner
<1>4. procs \in Procs /\ procs[p] \in ProcRec
  BY <1>3, Basics DEF Procs
<1> DEFINE one == [procs[p] EXCEPT !.alarm = x[1]]
           two == [one EXCEPT !.interval = x[2]]
<1>5. Same(procs[p], one)
  BY <1>2, <1>4, SameAlarm
<1>6. one \in ProcRec
  BY <1>5 DEF Same
<1> HIDE DEF one
<1>7. Same(one, two)
  BY <1>2, <1>6, SameInterval
<1> HIDE DEF two
<1>8. Same(procs[p], two)
  BY <1>5, <1>7 DEF Same
<1>9. procs' = [procs EXCEPT ![p] = two]
  BY <1>1, <1>3, <1>4 DEF one, two, Procs
<1>10. Alike(procs, procs')
  BY <1>4, <1>8, <1>9, AlikeUpdate DEF Same
<1>11. Woken(threads, threads')
  BY Basics DEF SetTimer
<1>12. TypeOK'
  BY <1>10 DEF SetTimer, IInv, Base, TypeOK, Alike, Procs
<1> QED
  BY <1>10, <1>11, <1>12, TableStep DEF SetTimer, IInv, Base

\* A thread inside goes to another place inside.
LEMMA GoesInside ==
    ASSUME IInv, NEW t \in Tid, Inside(t), NEW place \in InsidePcs, Goes(t, place)
    PROVE  /\ pc' \in [Tid -> Pcs]
           /\ \A u \in Tid : pc'[u] = pc[u] \/ (Inside(u) /\ pc'[u] \in InsidePcs)
BY Basics DEF Goes, InsidePcs, Pcs

\* my_kill with a signal other than SIGKILL (post_signal) keeps it.
LEMMA SignalStep == ASSUME IInv, NEW t \in Tid, NEW q \in Pid, Signal(t, q) PROVE Base'
<1>1. threads \in Threads /\ procs \in Procs /\ procs[q] \in ProcRec
  BY Basics DEF Procs
<1>2. Interruptible(threads, q) \cup WaitingForIO(threads) \subseteq Blocked(threads)
  BY DEF Interruptible, WaitingForIO
<1>3. Woken(threads, threads')
  BY <1>1, <1>2, ReadyWoken DEF Signal
<1> DEFINE rec == [procs[q] EXCEPT !.pending = TRUE]
<1>4. Same(procs[q], rec)
  BY <1>1, SamePending
<1>5. procs' = [procs EXCEPT ![q] = rec]
  BY DEF Signal
<1> HIDE DEF rec
<1>6. Alike(procs, procs')
  BY <1>1, <1>4, <1>5, AlikeUpdate DEF Same
<1>7. /\ pc' \in [Tid -> Pcs]
      /\ \A u \in Tid : pc'[u] = pc[u] \/ (Inside(u) /\ pc'[u] \in InsidePcs)
  BY GoesInside DEF Signal, Strikes, Inside, InsidePcs
<1>8. /\ run' \in RunRec /\ run'.current = run.current
      /\ run'.nthreads = run.nthreads /\ run'.nprocs = run.nprocs
  BY Basics DEF Signal, Struck, RunRec
<1>9. TypeOK'
  <2>1. threads' \in [Tid -> ThreadRec] /\ procs' \in [Pid -> ProcRec]
    BY <1>3, <1>6 DEF Woken, Alike, Threads, Procs
  <2>2. pick' = pick /\ real' = real /\ launcher' = launcher
    BY DEF Signal
  <2>3. TypeOK
    BY DEF IInv, Base
  <2> QED
    BY <1>7, <1>8, <2>1, <2>2, <2>3 DEF TypeOK
<1> QED
  BY <1>3, <1>6, <1>7, <1>8, <1>9, TableStep DEF Signal, IInv, Base

\* settle_deaths of a thread that runs keeps it.
LEMMA SettleDeathsStep == ASSUME IInv, NEW t \in Tid, SettleDeaths(t) PROVE Base'
<1>1. Woken(threads, threads')
  <2>1. WaitingForIO(threads) \subseteq Blocked(threads)
    BY DEF WaitingForIO
  <2> QED BY <2>1, Basics, ReadyWoken DEF SettleDeaths, SettledThreads
<1>2. Alike(procs, procs')
  BY Basics, SettledLemma DEF SettleDeaths
<1>3. /\ pc' \in [Tid -> Pcs]
      /\ \A u \in Tid : pc'[u] = pc[u] \/ (Inside(u) /\ pc'[u] \in InsidePcs)
  BY GoesInside DEF SettleDeaths, Inside, InsidePcs
<1>4. TypeOK'
  BY <1>1, <1>2, <1>3 DEF SettleDeaths, IInv, Base, TypeOK, Woken, Alike, Threads, Procs
<1> QED
  BY <1>1, <1>2, <1>3, <1>4, TableStep DEF SettleDeaths, IInv, Base

\* The first half of my_kill keeps it.
LEMMA AimStep == ASSUME IInv, NEW t \in Tid, NEW q \in Pid, Aim(t, q) PROVE Base'
<1>1. /\ pc' \in [Tid -> Pcs]
      /\ \A u \in Tid : pc'[u] = pc[u] \/ (Inside(u) /\ pc'[u] \in InsidePcs)
  BY GoesInside DEF Aim, Runs, Inside, InsidePcs
<1>2. UNCHANGED <<threads, procs, pick, real, launcher>>
  BY DEF Aim
<1>3. /\ run' \in RunRec /\ run'.current = run.current
      /\ run'.nthreads = run.nthreads /\ run'.nprocs = run.nprocs
  BY Basics DEF Aim, RunRec
<1>4. Woken(threads, threads') /\ Alike(procs, procs')
  BY <1>2, Basics
<1>5. TypeOK'
  BY <1>1, <1>2, <1>3 DEF IInv, Base, TypeOK
<1> QED
  BY <1>1, <1>2, <1>3, <1>4, <1>5, TableStep DEF IInv, Base

\* The start of my_waitpid keeps it.
LEMMA WaitpidStep ==
    ASSUME IInv, NEW t \in Tid, Waitpid(t) \/ AwaitAttach(t) PROVE Base'
<1>1. /\ pc' \in [Tid -> Pcs]
      /\ \A u \in Tid : pc'[u] = pc[u] \/ (Inside(u) /\ pc'[u] \in InsidePcs)
  BY GoesInside DEF Waitpid, AwaitAttach, Runs, Inside, InsidePcs
<1>2. UNCHANGED <<threads, procs, run, pick, real, launcher>>
  BY DEF Waitpid, AwaitAttach
<1>3. Woken(threads, threads') /\ Alike(procs, procs')
  BY <1>2, Basics
<1>4. TypeOK'
  BY <1>1, <1>2 DEF IInv, Base, TypeOK
<1> QED
  BY <1>1, <1>2, <1>3, <1>4, TableStep DEF IInv, Base

\* The look of wait_for_child for a dead child keeps it.
LEMMA CheckChildrenStep == ASSUME IInv, NEW t \in Tid, CheckChildren(t) PROVE Base'
<1>1. PICK found :
        /\ procs' = [p \in Pid |-> IF p \in found THEN [procs[p] EXCEPT !.reaped = TRUE]
                                                  ELSE procs[p]]
        /\ Goes(t, "blocking") \/ Goes(t, "guest")
  BY DEF CheckChildren
<1>2. ASSUME NEW p \in Pid PROVE Same(procs[p], procs'[p])
  <2>1. procs[p] \in ProcRec
    BY Basics DEF Procs
  <2>2. Same(procs[p], [procs[p] EXCEPT !.reaped = TRUE]) /\ Same(procs[p], procs[p])
    BY <2>1, SameReaped DEF Same
  <2>3. procs'[p] = [procs[p] EXCEPT !.reaped = TRUE] \/ procs'[p] = procs[p]
    BY <1>1
  <2> QED BY <2>2, <2>3
<1>3. procs' = [p \in Pid |-> procs'[p]]
  BY <1>1
<1>4. Alike(procs, procs')
  BY <1>2, <1>3, Basics, AlikePointwise
<1>5. /\ pc' \in [Tid -> Pcs]
      /\ \A u \in Tid : pc'[u] = pc[u] \/ (Inside(u) /\ pc'[u] \in InsidePcs)
  BY <1>1, GoesInside DEF CheckChildren, Inside, InsidePcs
<1>6. Woken(threads, threads')
  BY Basics DEF CheckChildren
<1>7. TypeOK'
  BY <1>4, <1>5 DEF CheckChildren, IInv, Base, TypeOK, Alike, Procs
<1> QED
  BY <1>4, <1>5, <1>6, <1>7, TableStep DEF CheckChildren, IInv, Base

\* A death between hand-offs that changes no table
LEMMA PlainDeath ==
    ASSUME IInv, NEW p \in Pid, NEW status \in {"exit0", "failed"},
           RealDeath({p}, status), pc' = ThreadsGone(pc, {p}),
           pick.phase = "none" \/ (pick.by = "guest" => threads[pick.me].pid # p),
           UNCHANGED <<threads, procs, run, pick, launcher>>
    PROVE  Base'
<1>1. TypeOK'
  BY Basics, RealDeathType, ThreadsGoneType DEF IInv, Base, TypeOK
<1>2. Woken(threads, threads') /\ Alike(procs, procs')
  BY Basics
<1>3. /\ {p} \subseteq Pid
      /\ pick.phase = "none" \/ (pick.by = "guest" => threads[pick.me].pid \notin {p})
  OBVIOUS
<1> QED
  BY <1>1, <1>2, <1>3, DeathStep DEF IInv, Base

\* A thread that is anywhere at all belongs to a process.
LEMMA ActiveOwner == ASSUME IInv, NEW t \in Tid, pc[t] # "none" PROVE Owner(t) \in Pid
BY Basics DEF Owner

\* The end of a process by its own doing keeps it.
LEMMA ExitProcessStep == ASSUME IInv, NEW t \in Tid, ExitProcess(t) PROVE Base'
<1>1. Owner(t) \in Pid /\ pick.phase = "none"
  BY ActiveOwner DEF ExitProcess, Runs, LockFree
<1>2. PICK status \in {"exit0", "failed"} : RealDeath({Owner(t)}, status)
  BY DEF ExitProcess
<1> QED
  BY <1>1, <1>2, PlainDeath DEF ExitProcess

\* die_if_stopped keeps it.
LEMMA DieStoppedStep == ASSUME IInv, NEW t \in Tid, DieStopped(t) PROVE Base'
<1>1. Owner(t) \in Pid /\ pick.phase = "none"
  BY ActiveOwner DEF DieStopped, MayTakeUp, LockFree
<1> QED
  BY <1>1, PlainDeath DEF DieStopped

\* The end of the idle loop of yield_baton_as keeps it.
LEMMA PollGivesUpStep == ASSUME IInv, NEW t \in Tid, PollGivesUp(t) PROVE Base'
<1>1. Owner(t) \in Pid /\ pick.phase = "none"
  BY ActiveOwner DEF PollGivesUp, LockFree
<1> QED
  BY <1>1, PlainDeath DEF PollGivesUp

\* A SIGKILL that is answered keeps it.
LEMMA SlainStep == ASSUME IInv, NEW p \in Pid, Slain(p) PROVE Base'
<1>1. pick.phase = "none" \/ (pick.by = "guest" => threads[pick.me].pid # p)
  BY DEF Slain, IInv, Base, Safe, HandingOver
<1> QED
  BY <1>1, PlainDeath DEF Slain

\* A process that dies before join_run is through keeps it.
LEMMA FailToAttachStep == ASSUME IInv, NEW p \in Pid, FailToAttach(p) PROVE Base'
BY PlainDeath DEF FailToAttach, LockFree

\* The end of a thread's teardown keeps it.
LEMMA LeaveStep == ASSUME IInv, NEW t \in Tid, Leave(t) PROVE Base'
<1> DEFINE p == Owner(t)
<1>1. p \in Pid
  BY ActiveOwner DEF Leave
<1>2. pc \in [Tid -> Pcs] /\ pc' = [pc EXCEPT ![t] = "gone"]
  BY Basics DEF Leave, Goes
<1>3. pick.phase # "none" /\ pick.by = "guest" =>
        pick.me \in Tid /\ pc[pick.me] \in {"parked", "polling"}
  BY DEF IInv, Base, Safe, HandingOver
<1>4. CASE \A u \in ThreadsOf(threads, p) : u = t \/ pc[u] = "gone"
  <2>1. \A u \in Tid : threads[u].pid = p => u = t \/ pc[u] = "gone"
    BY <1>1, <1>4 DEF ThreadsOf, IInv, Base, Safe, Placed, NoProc, Pid
  <2>2. pc' = ThreadsGone(pc, {p})
    BY <1>2, <2>1 DEF ThreadsGone, Owner
  <2>3. pick.phase = "none" \/ (pick.by = "guest" => threads[pick.me].pid # p)
    BY <1>3, <2>1 DEF Leave
  <2>4. RealDeath({p}, "exit0")
    BY <1>4 DEF Leave
  <2> HIDE DEF p
  <2> QED BY <1>1, <2>2, <2>3, <2>4, PlainDeath DEF Leave
<1>5. CASE ~\A u \in ThreadsOf(threads, p) : u = t \/ pc[u] = "gone"
  <2>1. real' = real
    BY <1>5 DEF Leave
  <2>2. TypeOK'
    BY <1>2, <2>1 DEF Leave, IInv, Base, TypeOK, Pcs
  <2>3. Launching'
    BY <2>1 DEF Leave, IInv, Base, Safe, Launching
  <2>4. \A u \in Tid :
           \/ pc'[u] = pc[u]
           \/ /\ threads[u].state # "unused" /\ pc'[u] \in {"boot", "gone"}
              /\ pick.phase # "none" /\ pick.by = "guest" => u # pick.me
    BY <1>2, <1>3, Basics DEF Leave
  <2>5. \A u \in Tid :
           pc'[u] \notin {"none", "boot", "gone"} => real'[threads[u].pid] = "up"
    BY <1>2, <2>1 DEF IInv, Base, Safe, Tenants, Active
  <2>6. run.nprocs \in Nat
    BY Basics DEF RunRec
  <2>7. Quiet
    BY <2>1, <2>4, <2>5, <2>6, Basics
       DEF Quiet, Leave, IInv, Base, Safe, OnlyCrashedSignalled, Placed
  <2> QED BY <2>2, <2>3, <2>7, QuietStep DEF IInv, Base
<1> QED
  BY <1>4, <1>5

\* take_up_baton keeps it.
LEMMA TakeUpStep == ASSUME IInv, NEW t \in Tid, TakeUp(t) PROVE Base'
<1> DEFINE p == Owner(t)
<1>1. /\ p \in Pid /\ pick.phase = "none" /\ pc[t] = "parked"
      /\ run.current = t /\ threads[t].state = "running"
  BY ActiveOwner DEF TakeUp, MayTakeUp, LockFree
<1>2. Woken(threads, threads')
  <2>1. WaitingForIO(threads) \subseteq Blocked(threads)
    BY DEF WaitingForIO
  <2> QED BY <2>1, Basics, ReadyWoken DEF TakeUp, SettledThreads
<1> DEFINE pr  == Settled(procs)
           one == [pr[p] EXCEPT !.exiting = NoThread]
           two == [one EXCEPT !.pending = FALSE]
<1>3. Alike(procs, pr)
  BY Basics, SettledLemma
<1>4. pr \in Procs /\ pr[p] \in ProcRec
  BY <1>1, <1>3 DEF Alike, Procs
<1>5. procs' = [pr EXCEPT ![p].exiting = NoThread, ![p].pending = FALSE]
  BY DEF TakeUp
<1> HIDE DEF pr, p
<1>6. Same(pr[p], one)
  BY <1>4, SameExiting
<1>7. one \in ProcRec
  BY <1>6 DEF Same
<1>8. procs' = [pr EXCEPT ![p] = two]
  BY <1>1, <1>4, <1>5 DEF Procs
<1> HIDE DEF one
<1>9. Same(one, two)
  BY <1>7, SamePending
<1> HIDE DEF two
<1>10. Same(pr[p], two)
  BY <1>6, <1>9 DEF Same
<1>11. Alike(pr, procs')
  BY <1>4, <1>8, <1>10, AlikeUpdate DEF Same
<1>12. Alike(procs, procs')
  BY <1>3, <1>11, AlikeTransitive
<1>13. CASE \E place \in {"checking", "guest"} : Goes(t, place) /\ UNCHANGED real
  <2>1. PICK place \in {"checking", "guest"} : Goes(t, place) /\ UNCHANGED real
    BY <1>13
  <2>2. pc' \in [Tid -> Pcs] /\ pc' = [pc EXCEPT ![t] = place]
    BY <2>1, Basics DEF Goes, Pcs
  <2>3. TypeOK'
    BY <1>2, <1>12, <2>1, <2>2 DEF TakeUp, IInv, Base, TypeOK, Woken, Alike, Threads, Procs
  <2>4. Launching'
    BY <2>1 DEF TakeUp, IInv, Base, Safe, Launching
  <2>5. \A u \in Tid : pc'[u] # pc[u] => u = t /\ pc'[u] \in InsidePcs
    BY <2>2, Basics DEF InsidePcs
  <2>6. \A u \in Tid :
          pc'[u] \notin {"none", "boot", "gone"} => real'[threads[u].pid] = "up"
    BY <1>1, <2>1, <2>5 DEF IInv, Base, Safe, Tenants, Active
  <2>7. \A q \in Pid :
          /\ procs'[q].signalled => procs'[q].killed
          /\ procs'[q].state = procs[q].state
          /\ procs'[q].killed = procs[q].killed
          /\ procs'[q].signalled = procs[q].signalled
          /\ procs'[q].replacedBy = procs[q].replacedBy
    BY <1>12 DEF IInv, Base, Safe, OnlyCrashedSignalled, Alike
  <2>8. run.nprocs \in Nat /\ UNCHANGED <<run, pick, launcher>>
    BY Basics DEF RunRec, TakeUp
  <2>9. \A q \in Pid : real'[q] # "none" => q <= run.nprocs
    BY <2>1 DEF IInv, Base, Safe, Placed
  <2>10. Quiet
    BY <1>1, <1>2, <2>5, <2>6, <2>7, <2>8, <2>9 DEF Quiet
  <2> QED BY <2>3, <2>4, <2>10, QuietStep DEF IInv, Base
<1>14. CASE RealDeath({p}, "failed") /\ pc' = ThreadsGone(pc, {p})
  <2>1. TypeOK'
    BY <1>2, <1>12, <1>14, Basics, RealDeathType, ThreadsGoneType
       DEF TakeUp, IInv, Base, TypeOK, Woken, Alike, Threads, Procs
  <2>2. {p} \subseteq Pid /\ UNCHANGED <<run, pick, launcher>>
    BY <1>1 DEF TakeUp
  <2>3. run'.current = run.current /\ run'.nthreads = run.nthreads /\ run'.nprocs = run.nprocs
    BY <2>2
  <2> QED BY <1>1, <1>2, <1>12, <1>14, <2>1, <2>2, <2>3, DeathStep DEF IInv, Base
<1> QED
  BY <1>13, <1>14 DEF TakeUp, p

\* join_run keeps it.
LEMMA AttachStep == ASSUME IInv, NEW p \in Pid, Attach(p) PROVE Base'
<1>1. /\ pick.phase = "none" /\ real[p] = "up" /\ procs[p].state = "starting"
      /\ procs \in Procs /\ procs[p] \in ProcRec /\ p <= run.nprocs /\ run.nprocs \in Nat
  BY Basics DEF Attach, LockFree, Procs, RunRec, IInv, Base, Safe, Placed
<1>2. Woken(threads, threads') /\ UNCHANGED <<threads, run, pick, launcher>>
  BY Basics DEF Attach
<1>3. CASE procs[p].killed
  <2> DEFINE rec == [procs[p] EXCEPT !.signalled = TRUE]
  <2>1. rec \in ProcRec
    BY <1>1 DEF ProcRec
  <2>2. rec.state = procs[p].state
    BY <1>1 DEF ProcRec
  <2>3. rec.killed = procs[p].killed
    BY <1>1 DEF ProcRec
  <2>4. rec.replacedBy = procs[p].replacedBy
    BY <1>1 DEF ProcRec
  <2>5. procs' = [procs EXCEPT ![p] = rec]
    BY <1>3 DEF Attach
  <2> HIDE DEF rec
  <2>6. procs' \in Procs
    BY <1>1, <2>1, <2>5, ProcsUpdate
  <2>7. \A q \in Pid :
          /\ procs'[q].signalled => procs'[q].killed
          /\ procs'[q].state = procs[q].state
          /\ procs'[q].killed = procs[q].killed
          /\ procs'[q].replacedBy = procs[q].replacedBy
    BY <1>1, <1>3, <2>2, <2>3, <2>4, <2>5 DEF IInv, Base, Safe, OnlyCrashedSignalled, Procs
  <2>8. RealDeath({p}, "failed") /\ pc' = ThreadsGone(pc, {p})
    BY <1>3 DEF Attach
  <2>9. \A q \in Pid : real'[q] = IF q = p /\ real[q] = "up" THEN "failed" ELSE real[q]
    BY <2>8 DEF RealDeath
  <2>10. \A t \in Tid : pc'[t] = IF threads[t].pid = p THEN "gone" ELSE pc[t]
    BY <2>8 DEF ThreadsGone, Owner
  <2>11. TypeOK'
    BY <1>2, <2>6, <2>8, Basics, RealDeathType, ThreadsGoneType DEF IInv, Base, TypeOK, Procs
  <2>12. Launching'
    BY <1>2, <2>9 DEF IInv, Base, Safe, Launching
  <2>13. \A t \in Tid : threads[t].pid = p => threads[t].state # "unused"
    BY DEF IInv, Base, Safe, Placed, NoProc, Pid
  <2>14. \A t \in Tid : pc'[t] \notin {"none", "boot", "gone"} => real'[threads[t].pid] = "up"
    BY <2>9, <2>10, Basics DEF IInv, Base, Safe, Tenants, Active
  <2>15. \A q \in Pid : real'[q] # "none" => q <= run.nprocs
    BY <2>9 DEF IInv, Base, Safe, Placed
  <2>16. Quiet
    BY <1>1, <1>2, <2>7, <2>10, <2>13, <2>14, <2>15 DEF Quiet
  <2> QED BY <2>11, <2>12, <2>16, QuietStep DEF IInv, Base
<1>4. CASE ~procs[p].killed
  <2> DEFINE one == [procs[p] EXCEPT !.known = TRUE]
             rec == [one EXCEPT !.state = "live"]
  <2>1. one \in ProcRec
    BY <1>1 DEF ProcRec
  <2>2. one.killed = procs[p].killed
    BY <1>1 DEF ProcRec
  <2>3. one.signalled = procs[p].signalled
    BY <1>1 DEF ProcRec
  <2>4. one.replacedBy = procs[p].replacedBy
    BY <1>1 DEF ProcRec
  <2>5. procs' = [procs EXCEPT ![p] = rec]
    BY <1>1, <1>4 DEF Attach, Procs
  <2> HIDE DEF one
  <2>6. rec \in ProcRec
    BY <2>1 DEF ProcRec
  <2>7. rec.state = "live"
    BY <2>1 DEF ProcRec
  <2>8. rec.killed = one.killed
    BY <2>1 DEF ProcRec
  <2>9. rec.signalled = one.signalled
    BY <2>1 DEF ProcRec
  <2>10. rec.replacedBy = one.replacedBy
    BY <2>1 DEF ProcRec
  <2> HIDE DEF rec
  <2>11. procs' \in Procs
    BY <1>1, <2>5, <2>6, ProcsUpdate
  <2>12. \A q \in Pid : procs'[q] = IF q = p THEN rec ELSE procs[q]
    BY <1>1, <2>5 DEF Procs
  <2>13. \A q \in Pid :
          /\ procs'[q].signalled => procs'[q].killed
          /\ \/ procs'[q].state = procs[q].state
             \/ procs[q].state = "starting" /\ procs'[q].state = "live"
          /\ procs'[q].killed = procs[q].killed
          /\ procs'[q].replacedBy = procs[q].replacedBy
    BY <1>1, <2>2, <2>3, <2>4, <2>7, <2>8, <2>9, <2>10, <2>12
       DEF IInv, Base, Safe, OnlyCrashedSignalled
  <2>14. /\ real' = real
         /\ pc' = [t \in Tid |-> IF Owner(t) = p /\ threads[t].state # "unused"
                                 THEN "parked" ELSE pc[t]]
    BY <1>4 DEF Attach
  <2>15. \A t \in Tid :
           \/ pc'[t] = pc[t]
           \/ threads[t].pid = p /\ threads[t].state # "unused" /\ pc'[t] = "parked"
    BY <2>14 DEF Owner
  <2>16. pc' \in [Tid -> Pcs]
    BY <2>14, Basics DEF Pcs
  <2>17. TypeOK'
    BY <1>2, <2>11, <2>14, <2>16 DEF IInv, Base, TypeOK, Procs
  <2>18. Launching'
    BY <1>2, <2>14 DEF IInv, Base, Safe, Launching
  <2>19. \A t \in Tid : pc'[t] \notin {"none", "boot", "gone"} => real'[threads[t].pid] = "up"
    BY <1>1, <2>14, <2>15 DEF IInv, Base, Safe, Tenants, Active
  <2>20. \A q \in Pid : real'[q] # "none" => q <= run.nprocs
    BY <2>14 DEF IInv, Base, Safe, Placed
  <2>21. Quiet
    BY <1>1, <1>2, <2>7, <2>12, <2>13, <2>15, <2>19, <2>20 DEF Quiet
  <2> QED BY <2>17, <2>18, <2>21, QuietStep DEF IInv, Base
<1> QED
  BY <1>3, <1>4

\* The assertions of add_proc and add_thread keep it, whatever slot they
\* leave taken.
LEMMA ExhaustStep == ASSUME IInv, NEW t \in Tid, Exhaust(t) PROVE Base'
<1> DEFINE p == Owner(t)
<1>1. p \in Pid /\ pick.phase = "none"
  BY ActiveOwner DEF Exhaust, Runs, LockFree
<1>2. /\ RealDeath({p}, "failed") /\ pc' = ThreadsGone(pc, {p})
      /\ UNCHANGED <<threads, pick, launcher>>
  BY DEF Exhaust
<1>3. CASE UNCHANGED <<procs, run>>
  <2> HIDE DEF p
  <2> QED BY <1>1, <1>2, <1>3, PlainDeath
<1>4. CASE /\ run.nprocs < MaxProcs
           /\ run' = [run EXCEPT !.nprocs = @ + 1]
           /\ procs' = [procs EXCEPT ![run.nprocs + 1] = FreshProc(p, 0)]
  <2> DEFINE new == run.nprocs + 1
             rec == FreshProc(p, 0)
  <2>1. run \in RunRec /\ run.nprocs \in Nat /\ new \in Pid /\ new > run.nprocs
        /\ new \in 0..MaxProcs
    BY <1>4, Basics, SizesAssumption DEF RunRec, Pid
  <2>2. /\ rec \in ProcRec /\ ~rec.signalled /\ rec.replacedBy = NoProc
    BY <1>1, FreshProcLemma
  <2>3. /\ run' \in RunRec /\ run'.current = run.current
        /\ run'.nthreads = run.nthreads /\ run'.nprocs = new
    BY <1>4, <2>1 DEF RunRec
  <2> HIDE DEF rec
  <2>4. /\ procs' \in Procs
        /\ \A q \in Pid : procs'[q] = IF q = new THEN rec ELSE procs[q]
    BY <1>4, <2>2, Basics DEF Procs, rec
  <2>5. \A q \in Pid : real'[q] = IF q = p /\ real[q] = "up" THEN "failed" ELSE real[q]
    BY <1>2 DEF RealDeath
  <2>6. \A u \in Tid : pc'[u] = IF threads[u].pid = p THEN "gone" ELSE pc[u]
    BY <1>2 DEF ThreadsGone, Owner
  <2> HIDE DEF new
  <2>7. TypeOK'
    BY <1>2, <2>3, <2>4, Basics, RealDeathType, ThreadsGoneType DEF IInv, Base, TypeOK, Procs
  <2>8. Launching'
    BY <1>2, <2>3, <2>5 DEF IInv, Base, Safe, Launching
  <2>9. \A u \in Tid : threads[u].pid = p => threads[u].state # "unused"
    BY <1>1 DEF IInv, Base, Safe, Placed, NoProc, Pid
  <2>10. \A u \in Tid : pc'[u] \notin {"none", "boot", "gone"} => real'[threads[u].pid] = "up"
    BY <2>5, <2>6, Basics DEF IInv, Base, Safe, Tenants, Active
  <2>11. \A q \in Pid : real'[q] # "none" => q <= run.nprocs
    BY <2>5 DEF IInv, Base, Safe, Placed
  <2>12. \A q \in Pid :
          /\ procs'[q].signalled => procs'[q].killed
          /\ q <= run.nprocs => procs'[q] = procs[q]
          /\ procs'[q].replacedBy \in {procs[q].replacedBy, NoProc}
    <3> SUFFICES ASSUME NEW q \in Pid
                 PROVE  /\ procs'[q].signalled => procs'[q].killed
                        /\ q <= run.nprocs => procs'[q] = procs[q]
                        /\ procs'[q].replacedBy \in {procs[q].replacedBy, NoProc}
      OBVIOUS
    <3>1. q <= run.nprocs => q # new
      BY <2>1 DEF Pid
    <3> QED BY <2>2, <2>4, <3>1 DEF IInv, Base, Safe, OnlyCrashedSignalled
  <2>13. Woken(threads, threads') /\ run'.nprocs >= run.nprocs
    BY <1>2, <2>1, <2>3, Basics DEF Pid
  <2>14. Quiet
    BY <1>1, <1>2, <2>3, <2>6, <2>9, <2>10, <2>11, <2>12, <2>13 DEF Quiet
  <2> QED BY <2>7, <2>8, <2>14, QuietStep DEF IInv, Base
<1> QED
  BY <1>3, <1>4 DEF Exhaust

\* One thread more, in the next slot, between hand-offs; perhaps with a
\* process of its own
LEMMA GrownStep ==
    ASSUME IInv, TypeOK', pick.phase = "none", UNCHANGED <<pick, launcher>>,
           NEW new \in Tid, new = run.nthreads + 1, run'.nthreads = new,
           run'.current = run.current, run'.nprocs >= run.nprocs,
           \A t \in Tid : t # new => threads'[t] = threads[t],
           threads'[new].state \in {"runnable", "exited"},
           threads'[new].pid \in 1..run'.nprocs,
           threads'[new].state = "runnable" =>
             /\ procs'[threads'[new].pid].state \in {"starting", "live"}
             /\ ~procs'[threads'[new].pid].killed,
           \A p \in Pid :
             /\ \/ procs'[p] = procs[p]
                \/ p > run.nprocs /\ ~procs'[p].signalled /\ procs'[p].replacedBy = NoProc
             /\ p <= run.nprocs => real'[p] = real[p]
             /\ real'[p] # "none" => p <= run'.nprocs,
           \A t \in Tid : t # new => pc'[t] = pc[t] \/ (Inside(t) /\ pc'[t] \in InsidePcs),
           \/ pc'[new] \in {"boot", "gone"}
           \/ /\ pc'[new] = "parked" /\ real'[threads'[new].pid] = "up"
              /\ procs'[threads'[new].pid].state # "starting"
    PROVE  Safe'
<1> USE DEF IInv, Base, Safe
<1>0. /\ run \in RunRec /\ run' \in RunRec /\ run.nprocs \in Nat /\ run'.nprocs \in Nat
      /\ run.nthreads \in Nat /\ run'.nprocs <= MaxProcs
      /\ threads' \in Threads
  <2>1. run \in RunRec /\ run' \in RunRec /\ threads' \in Threads
    BY DEF TypeOK, Threads
  <2> QED BY <2>1, SizesAssumption DEF RunRec
<1>1. \A t \in Tid : threads[t].state # "unused" =>
        /\ t # new
        /\ threads[t].pid \in Pid /\ threads[t].pid <= run.nprocs
        /\ procs'[threads[t].pid] = procs[threads[t].pid]
        /\ real'[threads[t].pid] = real[threads[t].pid]
  BY <1>0, Basics DEF Placed, Tid
<1>2. \A t \in Tid : t # new /\ pc'[t] # "none" => threads[t].state # "unused"
  BY Basics DEF Inside
<1>3. Placed'
  <2>1. \A t \in Tid :
         /\ pc'[t] # "none" => threads'[t].state # "unused"
         /\ threads'[t].state # "unused" => t <= run'.nthreads /\ threads'[t].pid \in 1..run'.nprocs
         /\ threads'[t].state = "unused" => threads'[t].pid = NoProc
    <3> SUFFICES ASSUME NEW t \in Tid
         PROVE
         /\ pc'[t] # "none" => threads'[t].state # "unused"
         /\ threads'[t].state # "unused" => t <= run'.nthreads /\ threads'[t].pid \in 1..run'.nprocs
         /\ threads'[t].state = "unused" => threads'[t].pid = NoProc
      OBVIOUS
    <3>1. CASE t = new
      BY <3>1, <1>0
    <3>2. CASE t # new
      <4>1. t <= run.nthreads => t <= new
        BY <1>0 DEF Tid
      <4>2. threads[t].pid \in 1..run.nprocs => threads[t].pid \in 1..run'.nprocs
        BY <1>0
      <4> QED BY <3>2, <1>2, <4>1, <4>2 DEF Placed
    <3> QED BY <3>1, <3>2
  <2>2. \A p \in Pid :
          (real'[p] # "none" => p <= run'.nprocs) /\ procs'[p].replacedBy \in 0..run'.nprocs
    <3> SUFFICES ASSUME NEW p \in Pid PROVE procs'[p].replacedBy \in 0..run'.nprocs
      OBVIOUS
    <3>1. p <= run.nprocs \/ p > run.nprocs
      BY <1>0 DEF Pid
    <3> QED BY <1>0, <3>1 DEF Placed, NoProc
  <2> QED BY <2>1, <2>2 DEF Placed
<1>4. Tenants'
  BY <1>1, Basics DEF Tenants, Active, Inside, InsidePcs
<1>5. OnlyCrashedSignalled'
  <2> SUFFICES ASSUME NEW p \in Pid PROVE procs'[p].signalled => procs'[p].killed
    BY DEF OnlyCrashedSignalled
  <2>1. p <= run.nprocs \/ p > run.nprocs
    BY <1>0 DEF Pid
  <2> QED BY <2>1 DEF OnlyCrashedSignalled
<1>6. PollersIdle'
  BY <1>1, Basics DEF PollersIdle, InsidePcs
<1>7. HandingOver' /\ Launching'
  <2>1. \A p \in Pid : real[p] = "reaped" => real'[p] = real[p]
    BY <1>0 DEF Placed, Pid
  <2> QED BY <2>1 DEF HandingOver, Launching
<1>8. OneHolder'
  <2> SUFFICES ASSUME NEW t \in Tid, Inside(t)'
               PROVE  /\ run'.current = t
                      /\ threads'[t].state = "running"
                      /\ procs'[threads'[t].pid].state = "live"
                      /\ ~procs'[threads'[t].pid].killed
    BY DEF OneHolder, Owner
  <2>1. t # new /\ Inside(t)
    BY DEF Inside
  <2>2. threads[t].state # "unused"
    BY <2>1, Basics DEF Inside
  <2> QED BY <2>1, <2>2, <1>1 DEF OneHolder, Owner
<1>9. OneRunning'
  BY DEF OneRunning
<1>10. ScheduleIsAlive'
  BY <1>1 DEF ScheduleIsAlive, Owner
<1> QED
  BY <1>3, <1>4, <1>5, <1>6, <1>7, <1>8, <1>9, <1>10

\* my_pthread_create keeps it.
LEMMA CreateThreadStep == ASSUME IInv, NEW t \in Tid, CreateThread(t) PROVE Base'
<1> DEFINE p     == Owner(t)
           new   == run.nthreads + 1
           moved == procs[p].outside
           rec   == FreshThread(p, moved)
<1>1. /\ pick.phase = "none" /\ Inside(t) /\ p \in Pid /\ p = threads[t].pid
      /\ p <= run.nprocs /\ threads \in Threads /\ pc \in [Tid -> Pcs]
      /\ procs[p] \in ProcRec /\ run \in RunRec /\ run.nthreads \in Nat /\ run.nprocs \in Nat
  BY ActiveOwner, Basics DEF CreateThread, Runs, LockFree, Inside, Owner, Procs, RunRec
<1>2. new \in Tid /\ new \in 0..MaxThreads
  BY <1>1, SizesAssumption DEF CreateThread, Tid
<1>3. real[p] = "up" /\ procs[p].state = "live" /\ ~procs[p].killed
  BY <1>1 DEF IInv, Base, Safe, Tenants, Active, OneHolder, Inside
<1>4. rec \in ThreadRec /\ rec.state = "runnable" /\ rec.pid = p
  <2>1. moved \in BOOLEAN
    BY <1>1 DEF ProcRec
  <2> QED BY <1>1, <2>1, FreshThreadLemma
<1>5. /\ threads' = [threads EXCEPT ![new] = rec]
      /\ pc' = [pc EXCEPT ![new] = "parked"]
      /\ run' = [run EXCEPT !.nthreads = new]
      /\ UNCHANGED <<procs, pick, real, launcher>>
  BY DEF CreateThread
<1> HIDE DEF rec, new, p
<1>6. /\ run' \in RunRec /\ run'.current = run.current
      /\ run'.nthreads = new /\ run'.nprocs = run.nprocs
  BY <1>1, <1>2, <1>5 DEF RunRec
<1>7. threads' \in Threads /\ pc' \in [Tid -> Pcs]
  BY <1>1, <1>2, <1>4, <1>5 DEF Threads, Pcs
<1>8. TypeOK'
  BY <1>5, <1>6, <1>7 DEF IInv, Base, TypeOK, Threads
<1>9. /\ threads'[new] = rec /\ pc'[new] = "parked"
      /\ \A u \in Tid : u # new => threads'[u] = threads[u] /\ pc'[u] = pc[u]
  BY <1>1, <1>2, <1>5 DEF Threads
<1>10. \A q \in Pid :
         procs'[q] = procs[q] /\ real'[q] = real[q] /\ (real'[q] # "none" => q <= run'.nprocs)
  BY <1>5, <1>6 DEF IInv, Base, Safe, Placed
<1>11. new = run.nthreads + 1 /\ run'.nprocs >= run.nprocs /\ p \in 1..run'.nprocs
  BY <1>1, <1>6 DEF new, Pid
<1>12. \A u \in Tid : u # new => pc'[u] = pc[u] \/ (Inside(u) /\ pc'[u] \in InsidePcs)
  BY <1>9
<1>13. /\ \A u \in Tid : u # new => threads'[u] = threads[u]
       /\ threads'[new].state \in {"runnable", "exited"}
       /\ threads'[new].pid \in 1..run'.nprocs
  BY <1>4, <1>9, <1>11
<1>14. /\ threads'[new].state = "runnable" =>
             /\ procs'[threads'[new].pid].state \in {"starting", "live"}
             /\ ~procs'[threads'[new].pid].killed
       /\ \/ pc'[new] \in {"boot", "gone"}
          \/ /\ pc'[new] = "parked" /\ real'[threads'[new].pid] = "up"
             /\ procs'[threads'[new].pid].state # "starting"
  BY <1>3, <1>4, <1>5, <1>9
<1>15. \A q \in Pid :
             /\ \/ procs'[q] = procs[q]
                \/ q > run.nprocs /\ ~procs'[q].signalled /\ procs'[q].replacedBy = NoProc
             /\ q <= run.nprocs => real'[q] = real[q]
             /\ real'[q] # "none" => q <= run'.nprocs
  BY <1>10
<1>16. UNCHANGED <<pick, launcher>>
  BY <1>5
<1> QED
  BY <1>1, <1>2, <1>6, <1>8, <1>11, <1>12, <1>13, <1>14, <1>15, <1>16, GrownStep DEF IInv, Base

\* spawn_rewritten keeps it, with and without a child to show for it.
LEMMA SpawnChildStep == ASSUME IInv, NEW t \in Tid, SpawnChild(t) PROVE Base'
<1> DEFINE p     == Owner(t)
           child == run.nprocs + 1
           main  == run.nthreads + 1
           proc  == FreshProc(p, 0)
           thr   == FreshThread(child, FALSE)
<1>1. /\ pick.phase = "none" /\ Inside(t) /\ p \in Pid
      /\ threads \in Threads /\ pc \in [Tid -> Pcs] /\ procs \in Procs
      /\ run \in RunRec /\ run.nthreads \in Nat /\ run.nprocs \in Nat
  BY ActiveOwner, Basics DEF SpawnChild, Runs, LockFree, Inside, RunRec
<1>2. main \in Tid /\ main \in 0..MaxThreads /\ child \in Pid /\ child \in 0..MaxProcs
  BY <1>1, SizesAssumption DEF SpawnChild, HasRoom, Tid, Pid
<1>3. /\ proc \in ProcRec /\ proc.state = "starting"
      /\ ~proc.killed /\ ~proc.signalled /\ proc.replacedBy = NoProc
  BY <1>1, FreshProcLemma
<1>4. thr \in ThreadRec /\ thr.state = "runnable" /\ thr.pid = child
  BY <1>2, FreshThreadLemma
<1>5. /\ run' = [run EXCEPT !.nprocs = child, !.nthreads = main]
      /\ UNCHANGED <<pick, launcher>>
      /\ \/ /\ threads' = [threads EXCEPT ![main] = thr]
            /\ procs' = [procs EXCEPT ![child] = [proc EXCEPT !.known = TRUE]]
            /\ real' = [real EXCEPT ![child] = "up"]
            /\ pc' = [pc EXCEPT ![main] = "boot", ![t] = "awaiting"]
         \/ /\ threads' = [threads EXCEPT ![main] = [thr EXCEPT !.state = "exited"]]
            /\ procs' = [procs EXCEPT ![child] =
                           [proc EXCEPT !.state = "exited", !.reaped = TRUE]]
            /\ pc' = [pc EXCEPT ![main] = "gone"]
            /\ UNCHANGED real
  BY DEF SpawnChild
<1>6. main = run.nthreads + 1 /\ child > run.nprocs /\ child \in 1..child /\ child >= run.nprocs
  BY <1>1
<1> HIDE DEF p, child, main, proc, thr
<1>7. /\ run' \in RunRec /\ run'.current = run.current
      /\ run'.nthreads = main /\ run'.nprocs = child
  BY <1>1, <1>2, <1>5 DEF RunRec
<1>8. t # main
  BY <1>1, <1>6, Basics DEF Inside, IInv, Base, Safe, Placed, Tid
<1>9. /\ real \in [Pid -> {"none", "up", "exit0", "failed", "reaped"}]
      /\ \A q \in Pid : real[q] # "none" => q <= run.nprocs
  BY DEF IInv, Base, TypeOK, Safe, Placed
<1>c. \A q \in Pid : q <= run.nprocs => q # child /\ q <= child
  BY <1>1, <1>6 DEF Pid
\* What both outcomes have in common
<1>10. ASSUME NEW rec \in ProcRec, ~rec.signalled, rec.replacedBy = NoProc, ~rec.killed,
              NEW th \in ThreadRec, th.pid = child,
              \/ th.state = "exited"
              \/ th.state = "runnable" /\ rec.state = "starting",
              NEW place \in {"boot", "gone"},
              threads' = [threads EXCEPT ![main] = th],
              procs' = [procs EXCEPT ![child] = rec],
              pc' \in [Tid -> Pcs], pc'[main] = place,
              \A u \in Tid : u # main => pc'[u] = pc[u] \/ (Inside(u) /\ pc'[u] \in InsidePcs),
              \/ real' = real
              \/ real' = [real EXCEPT ![child] = "up"]
       PROVE  Base'
  <2>1. threads' \in Threads /\ procs' \in Procs
    BY <1>1, <1>10 DEF Threads, Procs
  <2>2. real' \in [Pid -> {"none", "up", "exit0", "failed", "reaped"}]
    BY <1>9, <1>10
  <2>3. TypeOK'
    BY <1>5, <1>7, <1>10, <2>1, <2>2 DEF IInv, Base, TypeOK, Threads, Procs
  <2>4. /\ \A u \in Tid : u # main => threads'[u] = threads[u]
        /\ threads'[main] = th
    BY <1>1, <1>2, <1>10 DEF Threads
  <2>5. /\ procs'[child] = rec
        /\ \A q \in Pid : q # child => procs'[q] = procs[q]
    BY <1>1, <1>2, <1>10 DEF Procs
  <2>6. \A q \in Pid : q # child => real'[q] = real[q]
    BY <1>9, <1>10
  <2>7. /\ threads'[main].state \in {"runnable", "exited"}
        /\ threads'[main].pid \in 1..run'.nprocs
    BY <1>6, <1>7, <1>10, <2>4
  <2>8. /\ threads'[main].state = "runnable" =>
             /\ procs'[threads'[main].pid].state \in {"starting", "live"}
             /\ ~procs'[threads'[main].pid].killed
        /\ \/ pc'[main] \in {"boot", "gone"}
           \/ /\ pc'[main] = "parked" /\ real'[threads'[main].pid] = "up"
              /\ procs'[threads'[main].pid].state # "starting"
    BY <1>10, <2>4, <2>5
  <2>9. \A q \in Pid :
             /\ \/ procs'[q] = procs[q]
                \/ q > run.nprocs /\ ~procs'[q].signalled /\ procs'[q].replacedBy = NoProc
             /\ q <= run.nprocs => real'[q] = real[q]
             /\ real'[q] # "none" => q <= run'.nprocs
    <3> SUFFICES ASSUME NEW q \in Pid
        PROVE/\ \/ procs'[q] = procs[q]
                \/ q > run.nprocs /\ ~procs'[q].signalled /\ procs'[q].replacedBy = NoProc
             /\ q <= run.nprocs => real'[q] = real[q]
             /\ real'[q] # "none" => q <= run'.nprocs
      OBVIOUS
    <3>1. CASE q = child
      BY <3>1, <1>6, <1>7, <1>c, <1>10, <2>5
    <3>2. CASE q # child
      BY <3>2, <1>7, <1>9, <1>c, <2>5, <2>6
    <3> QED BY <3>1, <3>2
  <2>10. UNCHANGED <<pick, launcher>> /\ run'.nprocs >= run.nprocs
    BY <1>5, <1>6, <1>7
  <2> QED
    BY <1>1, <1>2, <1>6, <1>7, <1>10, <2>3, <2>4, <2>7, <2>8, <2>9, <2>10, GrownStep DEF IInv, Base
<1>11. CASE /\ threads' = [threads EXCEPT ![main] = thr]
            /\ procs' = [procs EXCEPT ![child] = [proc EXCEPT !.known = TRUE]]
            /\ real' = [real EXCEPT ![child] = "up"]
            /\ pc' = [pc EXCEPT ![main] = "boot", ![t] = "awaiting"]
  <2> DEFINE rec == [proc EXCEPT !.known = TRUE]
  <2>1. rec \in ProcRec
    BY <1>3, ZenonT(60) DEF ProcRec
  <2>2. rec.state = "starting"
    BY <1>3 DEF ProcRec
  <2>3. ~rec.killed
    BY <1>3 DEF ProcRec
  <2>4. ~rec.signalled
    BY <1>3 DEF ProcRec
  <2>5. rec.replacedBy = NoProc
    BY <1>3 DEF ProcRec
  <2>6. procs' = [procs EXCEPT ![child] = rec]
    BY <1>11
  <2>7. /\ pc' \in [Tid -> Pcs] /\ pc'[main] = "boot"
        /\ \A u \in Tid : u # main => pc'[u] = pc[u] \/ (Inside(u) /\ pc'[u] \in InsidePcs)
    BY <1>1, <1>2, <1>8, <1>11 DEF Pcs, InsidePcs
  <2> HIDE DEF rec
  <2> QED
    BY <1>4, <1>10, <1>11, <2>1, <2>2, <2>3, <2>4, <2>5, <2>6, <2>7
<1>12. CASE /\ threads' = [threads EXCEPT ![main] = [thr EXCEPT !.state = "exited"]]
            /\ procs' = [procs EXCEPT ![child] =
                           [proc EXCEPT !.state = "exited", !.reaped = TRUE]]
            /\ pc' = [pc EXCEPT ![main] = "gone"]
            /\ UNCHANGED real
  <2> DEFINE rec == [proc EXCEPT !.state = "exited", !.reaped = TRUE]
             th  == [thr EXCEPT !.state = "exited"]
  <2>1. rec \in ProcRec
    BY <1>3, ZenonT(60) DEF ProcRec
  <2>3. ~rec.killed
    BY <1>3 DEF ProcRec
  <2>4. ~rec.signalled
    BY <1>3 DEF ProcRec
  <2>5. rec.replacedBy = NoProc
    BY <1>3 DEF ProcRec
  <2>6. procs' = [procs EXCEPT ![child] = rec] /\ threads' = [threads EXCEPT ![main] = th]
    BY <1>12
  <2>7. /\ pc' \in [Tid -> Pcs] /\ pc'[main] = "gone"
        /\ \A u \in Tid : u # main => pc'[u] = pc[u] \/ (Inside(u) /\ pc'[u] \in InsidePcs)
    BY <1>1, <1>2, <1>8, <1>12 DEF Pcs, InsidePcs
  <2>8. th \in ThreadRec /\ th.state = "exited" /\ th.pid = child
    BY <1>4 DEF ThreadRec
  <2>9. real' = real
    BY <1>12
  <2> HIDE DEF rec, th
  <2> QED
    BY <1>10, <2>1, <2>3, <2>4, <2>5, <2>6, <2>7, <2>8, <2>9
<1> QED
  BY <1>5, <1>11, <1>12

----------------------------------------------------------------------------
(***************************************************************************)
(* Steps that give the baton away.                                         *)
(***************************************************************************)

\* The last holder starts a hand-off: it does not run any more, and neither
\* does anybody else.
LEMMA HandOffStep ==
    ASSUME IInv, TypeOK', NEW t \in Tid, pick.phase = "none", run.current = t, Active(t),
           ~procs[Owner(t)].killed,
           \A u \in Tid :
             /\ threads'[u].pid = threads[u].pid
             /\ threads'[u].state = "unused" <=> threads[u].state = "unused"
             /\ threads'[u].state # "exited" => threads[u].state # "exited"
             /\ threads'[u].state = "running" => threads[u].state = "running" /\ u # t,
           Alike(procs, procs'), UNCHANGED <<run, real, launcher>>,
           pick'.phase # "none", pick'.by = "guest", pick'.me = t,
           pc'[t] \in {"parked", "polling"},
           \A u \in Tid : u # t => pc'[u] = pc[u]
    PROVE  Safe'
<1> USE DEF IInv, Base, Safe, Alike
<1>0. \A u \in Tid : threads'[u].state \in {"runnable", "running", "blocked"} =>
        threads[u].state \in {"runnable", "running", "blocked"}
  BY DEF TypeOK, ThreadRec
<1>1. \A u \in Tid : ~Inside(u)' /\ threads'[u].state # "running"
  BY DEF OneHolder, OneRunning, Inside
<1>2. Placed'
  <2>1. ASSUME NEW u \in Tid
        PROVE  /\ pc'[u] # "none" => threads'[u].state # "unused"
               /\ threads'[u].state # "unused" =>
                    u <= run'.nthreads /\ threads'[u].pid \in 1..run'.nprocs
               /\ threads'[u].state = "unused" => threads'[u].pid = NoProc
    BY DEF Placed, Active
  <2>2. \A p \in Pid :
          (real'[p] # "none" => p <= run'.nprocs) /\ procs'[p].replacedBy \in 0..run'.nprocs
    BY DEF Placed
  <2> QED BY <2>1, <2>2 DEF Placed
<1>3. Tenants'
  BY Basics DEF Tenants, Active
<1>4. OnlyCrashedSignalled'
  BY DEF OnlyCrashedSignalled
<1>5. PollersIdle'
  BY <1>1 DEF PollersIdle
<1>6. HandingOver'
  <2>1. launcher.started
    BY SizesAssumption DEF Launching, NoThread, Tid
  <2>2. Owner(t) \in Pid
    BY ActiveOwner DEF Active
  <2>3. ~procs'[threads'[t].pid].signalled
    BY <2>2 DEF OnlyCrashedSignalled, Owner
  <2> QED BY <1>1, <2>1, <2>3 DEF HandingOver
<1>7. Launching'
  BY DEF Launching
<1>8. OneHolder' /\ OneRunning'
  BY <1>1 DEF OneHolder, OneRunning
<1>9. ScheduleIsAlive'
  BY <1>0, Basics DEF ScheduleIsAlive, Owner
<1> QED
  BY <1>2, <1>3, <1>4, <1>5, <1>6, <1>7, <1>8, <1>9

\* A thread that runs has the baton, and its process was not crashed.
LEMMA HolderLemma ==
    ASSUME IInv, NEW t \in Tid, Inside(t)
    PROVE  /\ run.current = t /\ Active(t) /\ threads[t].state = "running"
           /\ Owner(t) \in Pid /\ ~procs[Owner(t)].killed
BY ActiveOwner DEF IInv, Base, Safe, OneHolder, Active, Inside

\* hand_off(Some(t, st, k)), whatever else woke up in the same section
LEMMA GivesAway ==
    ASSUME IInv, NEW t \in Tid, Inside(t), pick.phase = "none",
           NEW th, Woken(threads, th),
           NEW st \in {"runnable", "blocked", "exited"},
           NEW k \in SpecialKeys \cup Keys, NEW d \in Time,
           threads' = [th EXCEPT ![t] = [@ EXCEPT !.state = st, !.key = k, !.deadline = d]],
           pick' = [phase |-> "tick", by |-> "guest", me |-> t, add |-> SwitchNs],
           Goes(t, "parked"), Alike(procs, procs'),
           UNCHANGED <<run, real, launcher>>
    PROVE  Base'
<1>1. /\ run.current = t /\ Active(t) /\ threads[t].state = "running"
      /\ ~procs[Owner(t)].killed
  BY HolderLemma
<1>2. th \in Threads /\ th[t].state # "unused"
  BY <1>1 DEF Woken
<1>3. /\ threads' \in Threads
      /\ \A u \in Tid : u # t => threads'[u] = th[u]
      /\ threads'[t].pid = th[t].pid /\ threads'[t].state = st
  <2> DEFINE rec == [th[t] EXCEPT !.state = st, !.key = k, !.deadline = d]
  <2>1. th[t] \in ThreadRec
    BY <1>2 DEF Threads
  <2>2. rec \in ThreadRec
    BY <2>1 DEF ThreadRec
  <2>4. rec.pid = th[t].pid
    BY <2>1 DEF ThreadRec
  <2>5. rec.state = st
    BY <2>1 DEF ThreadRec
  <2>3. threads' = [th EXCEPT ![t] = rec]
    OBVIOUS
  <2> HIDE DEF rec
  <2> QED BY <1>2, <2>2, <2>3, <2>4, <2>5 DEF Threads
<1>4. /\ pc' \in [Tid -> Pcs] /\ pc'[t] = "parked"
      /\ \A u \in Tid : u # t => pc'[u] = pc[u]
  BY Basics DEF Goes, Pcs
<1>5. pick' \in [ phase: {"none", "tick", "faults"}, by: {"nobody", "guest", "launcher", "start"},
                  me: Tid \cup {NoThread}, add: Nat ]
  BY SizesAssumption
<1>6. TypeOK'
  BY <1>3, <1>4, <1>5 DEF IInv, Base, TypeOK, Threads, Alike, Procs
<1>7. \A u \in Tid :
        /\ threads'[u].pid = threads[u].pid
        /\ threads'[u].state = "unused" <=> threads[u].state = "unused"
        /\ threads'[u].state # "exited" => threads[u].state # "exited"
        /\ threads'[u].state = "running" => threads[u].state = "running" /\ u # t
  <2> SUFFICES ASSUME NEW u \in Tid
      PROVE
        /\ threads'[u].pid = threads[u].pid
        /\ threads'[u].state = "unused" <=> threads[u].state = "unused"
        /\ threads'[u].state # "exited" => threads[u].state # "exited"
        /\ threads'[u].state = "running" => threads[u].state = "running" /\ u # t
    OBVIOUS
  <2>1. CASE u = t
    BY <2>1, <1>1, <1>3 DEF Woken
  <2>2. CASE u # t
    BY <2>2, <1>3 DEF Woken
  <2> QED BY <2>1, <2>2
<1>8. pick'.phase # "none" /\ pick'.by = "guest" /\ pick'.me = t
  OBVIOUS
<1>9. UNCHANGED <<run, real, launcher>> /\ pc'[t] \in {"parked", "polling"}
  BY <1>4
<1> QED
  BY <1>1, <1>4, <1>6, <1>7, <1>8, <1>9, HandOffStep DEF IInv, Base

\* yield_baton keeps it.
LEMMA YieldStep == ASSUME IInv, NEW t \in Tid, Yield(t) PROVE Base'
<1>1. Inside(t) /\ pick.phase = "none"
  BY DEF Yield, Runs, LockFree, Inside
<1>2. "none" \in SpecialKeys \cup Keys /\ NoTime \in Time
  BY DEF SpecialKeys, Time
<1>3. Alike(procs, procs') /\ Woken(threads, threads)
  BY Basics DEF Yield
<1>4. UNCHANGED <<run, real, launcher>>
  BY DEF Yield
<1> QED
  BY <1>1, <1>2, <1>3, <1>4, GivesAway DEF Yield, GuestHandOff

\* A thread that blocks gives the baton away; one that backs out keeps it.
LEMMA BlockOnStep ==
    ASSUME IInv, NEW t \in Tid, Inside(t), pick.phase = "none",
           NEW k \in SpecialKeys \cup Keys, NEW d \in Time, NEW back \in InsidePcs,
           BlockOn(t, k, d, back), UNCHANGED <<procs, run, real, launcher>>
    PROVE  Base'
<1>1. Alike(procs, procs') /\ Woken(threads, threads)
  BY Basics
<1>2. CASE threads[t].stale
  <2> DEFINE rec == [threads[t] EXCEPT !.stale = FALSE]
  <2>1. threads[t] \in ThreadRec
    BY Basics DEF Threads
  <2>2. rec \in ThreadRec /\ rec.pid = threads[t].pid /\ rec.state = threads[t].state
    BY <2>1 DEF ThreadRec
  <2>3. threads' = [threads EXCEPT ![t] = rec] /\ Goes(t, back) /\ UNCHANGED pick
    BY <1>2 DEF BlockOn
  <2> HIDE DEF rec
  <2>4. threads' \in Threads
    BY <2>2, <2>3, Basics DEF Threads
  <2>5. Woken(threads, threads')
    BY <2>2, <2>3, <2>4, Basics DEF Woken, Threads
  <2>6. /\ pc' \in [Tid -> Pcs]
        /\ \A u \in Tid : pc'[u] = pc[u] \/ (Inside(u) /\ pc'[u] \in InsidePcs)
    BY <2>3, GoesInside
  <2>7. TypeOK'
    BY <2>3, <2>4, <2>6 DEF IInv, Base, TypeOK, Threads
  <2> QED
    BY <1>1, <2>3, <2>5, <2>6, <2>7, TableStep DEF IInv, Base
<1>3. CASE ~threads[t].stale
  <2>1. GuestHandOff(t, "blocked", k, d) /\ Goes(t, "parked")
    BY <1>3 DEF BlockOn
  <2> QED
    BY <1>1, <2>1, GivesAway DEF GuestHandOff
<1> QED
  BY <1>2, <1>3

\* block_until keeps it.
LEMMA BlockStep == ASSUME IInv, NEW t \in Tid, Block(t) PROVE Base'
<1>1. Inside(t) /\ pick.phase = "none" /\ UNCHANGED <<procs, run, real, launcher>>
  BY DEF Block, Runs, LockFree, Inside
<1>2. PICK k \in Keys \cup {"io"} \cup JoinKeys(t), d \in Waits : BlockOn(t, k, d, "guest")
  BY DEF Block
<1>3. k \in SpecialKeys \cup Keys
  <2>1. JoinKeys(t) \subseteq {"join"}
    BY DEF JoinKeys
  <2> QED BY <1>2, <2>1 DEF SpecialKeys
<1>4. d \in Time /\ "guest" \in InsidePcs
  BY InputsAssumption DEF InsidePcs
<1> QED
  BY <1>1, <1>2, <1>3, <1>4, BlockOnStep

\* The wait of wait_for_child keeps it.
LEMMA BlockOnChildrenStep == ASSUME IInv, NEW t \in Tid, BlockOnChildren(t) PROVE Base'
<1>1. Inside(t) /\ pick.phase = "none" /\ UNCHANGED <<procs, run, real, launcher>>
  BY DEF BlockOnChildren, LockFree, Inside
<1>2. "wait" \in SpecialKeys \cup Keys /\ NoTime \in Time /\ "checking" \in InsidePcs
  BY DEF SpecialKeys, Time, InsidePcs
<1>3. BlockOn(t, "wait", NoTime, "checking")
  BY DEF BlockOnChildren
<1> QED
  BY <1>1, <1>2, <1>3, BlockOnStep

\* The last round of thread_teardown keeps it.
LEMMA ExitThreadStep == ASSUME IInv, NEW t \in Tid, ExitThread(t) PROVE Base'
<1> DEFINE p   == Owner(t)
           th  == Ready(threads, WaitingOn(threads, p, "join"))
           rec == [procs[p] EXCEPT !.exiting = t]
<1>1. Inside(t) /\ pick.phase = "none" /\ UNCHANGED <<run, real, launcher>>
  BY DEF ExitThread, Runs, LockFree, Inside
<1>2. p \in Pid /\ procs[p] \in ProcRec /\ procs \in Procs
  BY <1>1, HolderLemma, Basics DEF Procs
<1>3. Woken(threads, th)
  <2>1. WaitingOn(threads, p, "join") \subseteq Blocked(threads)
    BY DEF WaitingOn
  <2> QED BY <2>1, Basics, ReadyWoken
<1>4. Same(procs[p], rec)
  BY <1>2, SameExiting
<1>5. procs' = [procs EXCEPT ![p] = rec]
  BY DEF ExitThread
<1>6. threads' = [th EXCEPT ![t] =
                    [@ EXCEPT !.state = "exited", !.key = "none", !.deadline = NoTime]]
      /\ pick' = [phase |-> "tick", by |-> "guest", me |-> t, add |-> SwitchNs]
      /\ Goes(t, "parked")
  BY DEF ExitThread
<1> HIDE DEF rec, th
<1>7. Alike(procs, procs')
  BY <1>2, <1>4, <1>5, AlikeUpdate DEF Same
<1>8. "none" \in SpecialKeys \cup Keys /\ NoTime \in Time
  BY DEF SpecialKeys, Time
<1> QED
  BY <1>1, <1>3, <1>6, <1>7, <1>8, GivesAway

\* A round of the idle loop of yield_baton_as keeps it.
LEMMA PollStep == ASSUME IInv, NEW t \in Tid, Poll(t) PROVE Base'
<1>1. /\ pick.phase = "none" /\ pc[t] = "polling" /\ Active(t)
      /\ run.current = t /\ threads[t].state # "running" /\ ~procs[Owner(t)].killed
      /\ UNCHANGED <<threads, procs, run, pc, real, launcher>>
      /\ pick' = [phase |-> "tick", by |-> "guest", me |-> t, add |-> 0]
  BY DEF Poll, LockFree, Active, IInv, Base, Safe, PollersIdle, Owner
<1>2. pick' \in [ phase: {"none", "tick", "faults"}, by: {"nobody", "guest", "launcher", "start"},
                  me: Tid \cup {NoThread}, add: Nat ]
  BY <1>1
<1>3. TypeOK'
  BY <1>1, <1>2 DEF IInv, Base, TypeOK
<1>4. \A u \in Tid :
        /\ threads'[u].pid = threads[u].pid
        /\ threads'[u].state = "unused" <=> threads[u].state = "unused"
        /\ threads'[u].state # "exited" => threads[u].state # "exited"
        /\ threads'[u].state = "running" => threads[u].state = "running" /\ u # t
  BY <1>1
<1>5. Alike(procs, procs') /\ pick'.phase # "none" /\ pick'.by = "guest" /\ pick'.me = t
  BY <1>1, Basics
<1>6. pc'[t] \in {"parked", "polling"} /\ \A u \in Tid : u # t => pc'[u] = pc[u]
  BY <1>1
<1> QED
  BY <1>1, <1>3, <1>4, <1>5, <1>6, HandOffStep DEF IInv, Base

----------------------------------------------------------------------------
(***************************************************************************)
(* Deaths that the run is told of.                                         *)
(***************************************************************************)

\* The tables after a process has fallen
LEMMA FelledTables ==
    ASSUME IInv, run' \in RunRec, threads' \in Threads,
           NEW v \in Pid, NEW pr, NEW rn, Felled(threads, pr, rn, v),
           rn.current = run.current, rn.nprocs = run.nprocs, rn.nthreads = run.nthreads,
           \A p \in Pid : /\ pr[p].state = procs[p].state /\ pr[p].killed = procs[p].killed
                          /\ pr[p].replacedBy = procs[p].replacedBy
                          /\ p # v /\ pr[p].signalled => pr[p].killed,
           procs'[v].signalled => procs'[v].killed,
           real' = real,
           \A t \in Tid : pc'[t] = pc[t] \/ (Inside(t) /\ pc'[t] \in InsidePcs)
    PROVE  /\ Placed' /\ Tenants' /\ OnlyCrashedSignalled' /\ OneRunning' /\ ScheduleIsAlive'
           /\ \A t \in Tid : threads[t].state # "unused" =>
                /\ threads'[t].pid = threads[t].pid
                /\ threads[t].pid = v => threads'[t].state = "exited"
                /\ threads[t].state = "running" /\ threads[t].pid # v => threads'[t].state = "running"
                /\ threads'[t].state = "running" => threads[t].state = "running"
                /\ procs'[threads[t].pid].signalled = pr[threads[t].pid].signalled
                /\ threads[t].pid # v =>
                     /\ procs'[threads[t].pid].state = procs[threads[t].pid].state
                     /\ procs'[threads[t].pid].killed = procs[threads[t].pid].killed
<1> USE DEF IInv, Base, Safe
<1>0. /\ run.nprocs \in Nat /\ run'.nprocs \in Nat /\ run.nthreads \in Nat /\ run'.nthreads \in Nat
      /\ run'.nprocs >= run.nprocs /\ run'.nthreads >= run.nthreads
      /\ run'.nprocs <= MaxProcs /\ run'.current = run.current
  BY Basics, SizesAssumption DEF RunRec, Felled
\* Slots that were in use
<1>1. ASSUME NEW t \in Tid, threads[t].state # "unused"
      PROVE  /\ threads'[t].pid = threads[t].pid
             /\ \/ threads[t].pid = v /\ threads'[t].state = "exited"
                \/ /\ threads[t].pid # v
                   /\ \/ threads'[t].state = threads[t].state
                      \/ threads[t].state = "blocked" /\ threads'[t].state = "runnable"
  <2>1. t <= run.nthreads /\ ~(t > run.nthreads)
    BY <1>0, <1>1 DEF Placed, Tid
  <2> QED BY <1>1, <2>1 DEF Felled
<1>2. ASSUME NEW p \in Pid, p <= run.nprocs
      PROVE  /\ procs'[p].signalled = pr[p].signalled
             /\ procs'[p].replacedBy \in {procs[p].replacedBy, run'.nprocs}
             /\ procs'[p].state \in {procs[p].state, "exited"}
             /\ procs[p].killed => procs'[p].killed
             /\ p # v => procs'[p].state = procs[p].state /\ procs'[p].killed = procs[p].killed
  <2>1. ~(p > run.nprocs)
    BY <1>0, <1>2 DEF Pid
  <2> QED BY <2>1 DEF Felled
\* Any slot that is in use afterwards
<1>3. ASSUME NEW t \in Tid
      PROVE  \/ /\ threads[t].state # "unused" /\ threads[t].pid \in Pid
                /\ threads[t].pid <= run.nprocs
             \/ /\ threads[t].state = "unused" /\ threads'[t].state = "unused"
                /\ threads'[t].pid = NoProc
             \/ /\ threads[t].state = "unused"
                /\ t <= run'.nthreads /\ threads'[t].state = "blocked"
                /\ threads'[t].pid \in 1..run'.nprocs
                /\ procs'[threads'[t].pid].state = "starting"
                /\ ~procs'[threads'[t].pid].killed
  <2>1. CASE threads[t].state # "unused"
    BY <2>1, Basics
  <2>2. CASE threads[t].state = "unused"
    <3>1. threads[t].pid = NoProc
      BY <2>2 DEF Placed
    <3> QED BY <2>2, <3>1 DEF Felled
  <2> QED BY <2>1, <2>2
<1>4. \A t \in Tid : pc'[t] # "none" => threads[t].state # "unused"
  BY Basics DEF Inside
<1>5. Placed'
  <2>1. ASSUME NEW t \in Tid
        PROVE  /\ pc'[t] # "none" => threads'[t].state # "unused"
               /\ threads'[t].state # "unused" =>
                    t <= run'.nthreads /\ threads'[t].pid \in 1..run'.nprocs
               /\ threads'[t].state = "unused" => threads'[t].pid = NoProc
    <3>1. CASE threads[t].state # "unused"
      <4>1. t <= run.nthreads => t <= run'.nthreads
        BY <1>0 DEF Tid
      <4>2. threads[t].pid \in 1..run.nprocs => threads[t].pid \in 1..run'.nprocs
        BY <1>0
      <4> QED BY <3>1, <1>1, <4>1, <4>2 DEF Placed
    <3>2. CASE threads[t].state = "unused"
      BY <3>2, <1>3, <1>4
    <3> QED BY <3>1, <3>2
  <2>2. ASSUME NEW p \in Pid
        PROVE  (real'[p] # "none" => p <= run'.nprocs) /\ procs'[p].replacedBy \in 0..run'.nprocs
    <3>1. procs'[p].replacedBy \in {procs[p].replacedBy, run'.nprocs, NoProc}
      BY DEF Felled
    <3>2. procs[p].replacedBy \in 0..run'.nprocs
      BY <1>0 DEF Placed
    <3>3. real[p] # "none" => p <= run'.nprocs
      BY <1>0 DEF Placed, Pid
    <3> QED BY <1>0, <3>1, <3>2, <3>3 DEF NoProc
  <2> QED BY <2>1, <2>2 DEF Placed
<1>6. Tenants'
  <2> SUFFICES ASSUME NEW t \in Tid, Active(t)'
               PROVE  real'[threads'[t].pid] = "up" /\ procs'[threads'[t].pid].state # "starting"
    BY DEF Tenants
  <2>1. Active(t)
    BY DEF Active, Inside
  <2>2. /\ threads[t].state # "unused" /\ threads[t].pid \in Pid
        /\ threads[t].pid <= run.nprocs
    BY <2>1, Basics DEF Active
  <2>3. threads'[t].pid = threads[t].pid
    BY <2>2, <1>1
  <2> QED BY <2>1, <2>2, <2>3, <1>2 DEF Tenants
<1>7. OnlyCrashedSignalled'
  <2> SUFFICES ASSUME NEW p \in Pid PROVE procs'[p].signalled => procs'[p].killed
    BY DEF OnlyCrashedSignalled
  <2> QED BY DEF Felled
<1>8. OneRunning'
  BY <1>0, <1>1, <1>3 DEF OneRunning
<1>9. ScheduleIsAlive'
  <2> SUFFICES ASSUME NEW t \in Tid, threads'[t].state \in {"runnable", "running", "blocked"}
               PROVE  /\ procs'[threads'[t].pid].state \in {"starting", "live"}
                      /\ ~procs'[threads'[t].pid].killed
    BY DEF ScheduleIsAlive, Owner
  <2>1. CASE threads[t].state = "unused"
    BY <2>1, <1>3
  <2>2. CASE threads[t].state # "unused"
    <3>1. threads[t].pid \in Pid /\ threads[t].pid <= run.nprocs
      BY <2>2, Basics
    <3>2. /\ threads'[t].pid = threads[t].pid /\ threads[t].pid # v
          /\ threads[t].state \in {"runnable", "running", "blocked"}
      BY <2>2, <1>1
    <3> QED BY <3>1, <3>2, <1>2 DEF ScheduleIsAlive, Owner
  <2> QED BY <2>1, <2>2
<1>10. \A t \in Tid : threads[t].state # "unused" =>
         threads[t].pid \in Pid /\ threads[t].pid <= run.nprocs
  BY Basics
<1>11. ASSUME NEW t \in Tid, threads[t].state # "unused"
       PROVE  /\ threads'[t].pid = threads[t].pid
              /\ threads[t].pid = v => threads'[t].state = "exited"
              /\ threads[t].state = "running" /\ threads[t].pid # v => threads'[t].state = "running"
              /\ threads'[t].state = "running" => threads[t].state = "running"
  BY <1>1, <1>11
<1>12. ASSUME NEW t \in Tid, threads[t].state # "unused"
       PROVE  /\ procs'[threads[t].pid].signalled = pr[threads[t].pid].signalled
              /\ threads[t].pid # v =>
                     /\ procs'[threads[t].pid].state = procs[threads[t].pid].state
                     /\ procs'[threads[t].pid].killed = procs[threads[t].pid].killed
  BY <1>2, <1>10, <1>12
<1> QED
  BY <1>5, <1>6, <1>7, <1>8, <1>9, <1>11, <1>12

\* my_kill with SIGKILL (crash, signal_crashed) keeps it.
LEMMA KillStep == ASSUME IInv, NEW t \in Tid, NEW q \in Pid, Kill(t, q) PROVE Base'
<1> DEFINE K  == Condemned([procs EXCEPT ![q].killed = TRUE], Owing)
           pr == Signalled(procs, K)
           rn == [Struck EXCEPT !.unsignalled = FALSE]
<1>1. /\ pick.phase = "none" /\ Inside(t) /\ run.current = t /\ Owner(t) # q
      /\ threads[t].state # "unused"
      /\ Crash(threads, pr, rn, q) /\ Goes(t, "settling")
      /\ UNCHANGED <<pick, real, launcher>>
  BY HolderLemma DEF Kill, Strikes, LockFree, Inside, IInv, Aimed
<1>2. /\ rn \in RunRec /\ rn.current = run.current
      /\ rn.nprocs = run.nprocs /\ rn.nthreads = run.nthreads
  BY Basics DEF RunRec, Struck
<1>3. /\ pr \in Procs
      /\ \A p \in Pid : /\ pr[p].state = procs[p].state /\ pr[p].killed = procs[p].killed
                        /\ pr[p].replacedBy = procs[p].replacedBy
                        /\ pr[p].signalled => procs[p].signalled \/ p \in K
  BY Basics, SignalledLemma
<1>4. \A p \in K : p # q => procs[p].killed
  BY Basics DEF Condemned, Procs
<1> HIDE DEF K, pr, rn
<1>5. Felled(threads, pr, rn, q) /\ (procs'[q].signalled => procs'[q].killed)
  BY <1>1, <1>2, <1>3, Basics, CrashLemma
<1>6. \A p \in Pid : /\ pr[p].state = procs[p].state /\ pr[p].killed = procs[p].killed
                     /\ pr[p].replacedBy = procs[p].replacedBy
                     /\ p # q /\ pr[p].signalled => pr[p].killed
  BY <1>3, <1>4 DEF IInv, Base, Safe, OnlyCrashedSignalled
<1>7. /\ pc' \in [Tid -> Pcs]
      /\ \A u \in Tid : pc'[u] = pc[u] \/ (Inside(u) /\ pc'[u] \in InsidePcs)
  BY <1>1, GoesInside DEF InsidePcs
<1>8. threads' \in Threads /\ procs' \in Procs /\ run' \in RunRec /\ run'.current = run.current
  BY <1>2, <1>5 DEF Felled
<1>9. /\ Placed' /\ Tenants' /\ OnlyCrashedSignalled' /\ OneRunning' /\ ScheduleIsAlive'
      /\ \A u \in Tid : threads[u].state # "unused" =>
           /\ threads'[u].pid = threads[u].pid
           /\ threads[u].state = "running" /\ threads[u].pid # q => threads'[u].state = "running"
           /\ threads[u].pid # q =>
                     /\ procs'[threads[u].pid].state = procs[threads[u].pid].state
                     /\ procs'[threads[u].pid].killed = procs[threads[u].pid].killed
  BY <1>1, <1>2, <1>5, <1>6, <1>7, <1>8, FelledTables
<1>10. TypeOK'
  BY <1>1, <1>7, <1>8 DEF IInv, Base, TypeOK, Threads, Procs
<1>11. HandingOver' /\ Launching'
  BY <1>1, <1>8 DEF IInv, Base, Safe, HandingOver, Launching
<1>12. \A u \in Tid : Inside(u)' => u = t
  BY <1>1, <1>7, HolderLemma DEF Inside
<1>13. OneHolder'
  BY <1>1, <1>8, <1>9, <1>12, HolderLemma DEF IInv, Base, Safe, OneHolder, Owner
<1>14. PollersIdle'
  <2>1. \A u \in Tid : pc'[u] # "polling"
    BY <1>1, <1>7, Basics DEF InsidePcs, Goes, IInv, Base, Safe, PollersIdle, Inside
  <2> QED BY <2>1 DEF PollersIdle
<1> QED
  BY <1>9, <1>10, <1>11, <1>13, <1>14 DEF IInv, Base, Safe

\* A crash in the middle of a hand-off
LEMMA CrashInHandOff ==
    ASSUME IInv, pick.phase # "none", NEW v \in Pid, NEW pr, Alike(procs, pr),
           Crash(threads, pr, Owing, v), UNCHANGED <<pick, pc, real, launcher>>
    PROVE  Base'
<1>1. /\ Owing \in RunRec /\ Owing.current = run.current
      /\ Owing.nprocs = run.nprocs /\ Owing.nthreads = run.nthreads
  BY Basics DEF Owing, RunRec
<1>2. pr \in Procs
  BY DEF Alike
<1> HIDE DEF Owing
<1>3. Felled(threads, pr, Owing, v) /\ (procs'[v].signalled => procs'[v].killed)
  BY <1>1, <1>2, Basics, CrashLemma
<1>4. \A p \in Pid : /\ pr[p].state = procs[p].state /\ pr[p].killed = procs[p].killed
                     /\ pr[p].replacedBy = procs[p].replacedBy
                     /\ pr[p].signalled = procs[p].signalled
                     /\ pr[p].signalled => pr[p].killed
  BY DEF Alike, IInv, Base, Safe, OnlyCrashedSignalled
<1>5. threads' \in Threads /\ procs' \in Procs /\ run' \in RunRec /\ run'.current = run.current
  BY <1>1, <1>3 DEF Felled
<1>6. /\ Placed' /\ Tenants' /\ OnlyCrashedSignalled' /\ OneRunning' /\ ScheduleIsAlive'
      /\ \A u \in Tid : threads[u].state # "unused" =>
           /\ threads'[u].pid = threads[u].pid
           /\ threads'[u].state = "running" => threads[u].state = "running"
           /\ procs'[threads[u].pid].signalled = pr[threads[u].pid].signalled
  BY <1>1, <1>3, <1>4, <1>5, FelledTables
<1>7. TypeOK'
  BY <1>5 DEF IInv, Base, TypeOK, Threads, Procs
<1>8. Launching'
  BY <1>5 DEF IInv, Base, Safe, Launching
<1>9. \A u \in Tid : ~Inside(u)' /\ threads'[u].state # "running"
  <2> SUFFICES ASSUME NEW u \in Tid PROVE ~Inside(u)' /\ threads'[u].state # "running"
    OBVIOUS
  <2>1. ~Inside(u)'
    BY DEF IInv, Base, Safe, HandingOver, Inside
  <2>2. threads[u].state # "unused" => threads'[u].state # "running"
    BY <1>6 DEF IInv, Base, Safe, HandingOver
  <2>3. threads[u].state = "unused" => threads'[u].state # "running"
    BY <1>3 DEF Felled
  <2> QED BY <2>1, <2>2, <2>3
<1>10. OneHolder'
  BY <1>9 DEF OneHolder
<1>11. PollersIdle'
  BY <1>5, <1>9 DEF IInv, Base, Safe, PollersIdle
<1>12. HandingOver'
  <2>1. pick.by = "guest" => ~procs'[threads'[pick.me].pid].signalled
    <3> SUFFICES ASSUME pick.by = "guest" PROVE ~procs'[threads'[pick.me].pid].signalled
      OBVIOUS
    <3>1. pick.me \in Tid /\ pc[pick.me] \in {"parked", "polling"}
          /\ ~procs[threads[pick.me].pid].signalled
      BY DEF IInv, Base, Safe, HandingOver
    <3>2. threads[pick.me].state # "unused" /\ threads[pick.me].pid \in Pid
      BY <3>1, Basics
    <3> QED BY <3>1, <3>2, <1>4, <1>6
  <2>2. \A t \in Tid : Active(t)' <=> Active(t)
    BY DEF Active
  <2>3. run.current # NoThread => run.current \in Tid
    BY Basics DEF RunRec
  <2> QED BY <1>5, <1>9, <2>1, <2>2, <2>3 DEF IInv, Base, Safe, HandingOver, Active
<1> QED
  BY <1>6, <1>7, <1>8, <1>10, <1>11, <1>12 DEF IInv, Base, Safe

\* A victim whose crash was counted
LEMMA SameCrashesLeft ==
    ASSUME NEW rec \in ProcRec, NEW n \in Count
    PROVE  Same(rec, [rec EXCEPT !.crashesLeft = n])
<1>1. [rec EXCEPT !.crashesLeft = n] \in ProcRec
  BY DEF ProcRec
<1>2. [rec EXCEPT !.crashesLeft = n].state = rec.state
  BY DEF ProcRec
<1>3. [rec EXCEPT !.crashesLeft = n].killed = rec.killed
  BY DEF ProcRec
<1>4. [rec EXCEPT !.crashesLeft = n].signalled = rec.signalled
  BY DEF ProcRec
<1>5. [rec EXCEPT !.crashesLeft = n].replacedBy = rec.replacedBy
  BY DEF ProcRec
<1> QED BY <1>1, <1>2, <1>3, <1>4, <1>5 DEF Same

\* inject_due_crashes keeps it.
LEMMA InjectCrashStep == ASSUME IInv, InjectCrash PROVE Base'
<1>1. PICK v \in Pid :
        Crash(threads, [procs EXCEPT ![v].crashesLeft = Spend(@)], Owing, v)
  BY DEF InjectCrash, FirstOf, CrashesDue
<1> DEFINE rec == [procs[v] EXCEPT !.crashesLeft = Spend(procs[v].crashesLeft)]
           pr  == [procs EXCEPT ![v] = rec]
<1>2. procs \in Procs /\ procs[v] \in ProcRec
  BY Basics DEF Procs
<1>3. Same(procs[v], rec)
  BY <1>2, SpendType, SameCrashesLeft DEF ProcRec
<1>4. Crash(threads, pr, Owing, v)
  BY <1>1
<1>5. pick.phase # "none" /\ UNCHANGED <<pick, pc, real, launcher>>
  BY DEF InjectCrash
<1> HIDE DEF rec
<1>6. Alike(procs, pr)
  BY <1>2, <1>3, AlikeUpdate DEF Same
<1> HIDE DEF pr
<1> QED
  BY <1>4, <1>5, <1>6, CrashInHandOff

\* A process that was asked to shut down
LEMMA SameShutDown ==
    ASSUME NEW rec \in ProcRec, NEW n \in Count, NEW k \in Time
    PROVE  Same(rec, [rec EXCEPT !.shutdownsLeft = n, !.shutdown = NoTime, !.kill = k,
                                 !.shutDown = TRUE, !.pending = TRUE])
<1> DEFINE new == [rec EXCEPT !.shutdownsLeft = n, !.shutdown = NoTime, !.kill = k,
                              !.shutDown = TRUE, !.pending = TRUE]
<1>1. new \in ProcRec
  BY DEF ProcRec, Time
<1>2. new.state = rec.state
  BY DEF ProcRec
<1>3. new.killed = rec.killed
  BY DEF ProcRec
<1>4. new.signalled = rec.signalled
  BY DEF ProcRec
<1>5. new.replacedBy = rec.replacedBy
  BY DEF ProcRec
<1> QED BY <1>1, <1>2, <1>3, <1>4, <1>5 DEF Same

\* inject_due_shutdowns keeps it.
LEMMA InjectShutdownStep == ASSUME IInv, InjectShutdown PROVE Base'
<1>0. pick.phase # "none" /\ UNCHANGED <<pick, pc, real, launcher>>
  BY DEF InjectShutdown
<1>1. CASE \E v \in Pid : Crash(threads, procs, Owing, v)
  BY <1>0, <1>1, Basics, CrashInHandOff
<1>2. CASE \E v \in Pid :
              /\ procs' = [procs EXCEPT ![v] =
                   [@ EXCEPT !.shutdownsLeft = Spend(procs[v].shutdownsLeft), !.shutdown = NoTime,
                             !.kill = AtLeast1(Faults(procs[v].spec).grace),
                             !.shutDown = TRUE, !.pending = TRUE]]
              /\ threads' = Ready(threads, Interruptible(threads, v) \cup WaitingForIO(threads))
              /\ UNCHANGED run
  <2>1. PICK v \in Pid :
              /\ procs' = [procs EXCEPT ![v] =
                   [@ EXCEPT !.shutdownsLeft = Spend(procs[v].shutdownsLeft), !.shutdown = NoTime,
                             !.kill = AtLeast1(Faults(procs[v].spec).grace),
                             !.shutDown = TRUE, !.pending = TRUE]]
              /\ threads' = Ready(threads, Interruptible(threads, v) \cup WaitingForIO(threads))
              /\ UNCHANGED run
    BY <1>2
  <2>2. threads \in Threads /\ procs \in Procs /\ procs[v] \in ProcRec
    BY Basics DEF Procs
  <2>3. Interruptible(threads, v) \cup WaitingForIO(threads) \subseteq Blocked(threads)
    BY DEF Interruptible, WaitingForIO
  <2>4. Woken(threads, threads')
    BY <2>1, <2>2, <2>3, ReadyWoken
  <2> DEFINE n   == Spend(procs[v].shutdownsLeft)
             k   == AtLeast1(Faults(procs[v].spec).grace)
             rec == [procs[v] EXCEPT !.shutdownsLeft = n, !.shutdown = NoTime, !.kill = k,
                                     !.shutDown = TRUE, !.pending = TRUE]
  <2>5. n \in Count /\ k \in Time
    <3>1. procs[v].spec \in Entry \cup {0} /\ procs[v].shutdownsLeft \in Count
      BY <2>2 DEF ProcRec
    <3>2. Faults(procs[v].spec).grace \in Nat
      BY <3>1, FaultsType DEF FaultPlan
    <3> QED BY <3>1, <3>2, SpendType, AtLeast1Type
  <2>6. procs' = [procs EXCEPT ![v] = rec]
    BY <2>1
  <2> HIDE DEF n, k
  <2>7. Same(procs[v], rec)
    BY <2>2, <2>5, SameShutDown
  <2> HIDE DEF rec
  <2>8. Alike(procs, procs')
    BY <2>2, <2>6, <2>7, AlikeUpdate DEF Same
  <2>9. TypeOK'
    BY <1>0, <2>1, <2>4, <2>8, ZenonT(60) DEF IInv, Base, TypeOK, Woken, Alike, Threads, Procs
  <2> QED
    BY <1>0, <2>1, <2>4, <2>8, <2>9, TableStep DEF IInv, Base
<1> QED
  BY <1>1, <1>2 DEF InjectShutdown, FirstOf, ShutdownsDue

----------------------------------------------------------------------------
(***************************************************************************)
(* The rounds of `pick' and its outcome.                                   *)
(***************************************************************************)
LEMMA WokenTransitive ==
    ASSUME NEW a, NEW b, NEW c, Woken(a, b), Woken(b, c) PROVE Woken(a, c)
BY DEF Woken

\* Deadlines and timers that are due wake blocked threads only.
LEMMA ReleasedLemma == ASSUME IInv PROVE Woken(threads, Released)
<1>1. threads \in Threads
  BY Basics
<1>2. Woken(threads, Expired)
  <2>1. ASSUME NEW t \in Tid
        PROVE  [threads[t] EXCEPT !.state = "runnable", !.deadline = NoTime] \in ThreadRec
    <3>1. threads[t] \in ThreadRec
      BY <1>1 DEF Threads
    <3> QED BY <3>1 DEF ThreadRec, Time
  <2>2. Expired \in Threads
    BY <1>1, <2>1 DEF Expired, Threads
  <2>3. ASSUME NEW t \in Tid
        PROVE  /\ Expired[t].pid = threads[t].pid
               /\ \/ Expired[t].state = threads[t].state
                  \/ threads[t].state = "blocked" /\ Expired[t].state = "runnable"
    <3>1. threads[t] \in ThreadRec
      BY <1>1 DEF Threads
    <3> QED BY <3>1 DEF Expired, Blocked, ThreadRec
  <2> QED BY <2>2, <2>3 DEF Woken
<1> DEFINE W == UNION {FirstOf({t \in Blocked(Expired) : Expired[t].pid = p}) : p \in Ringing}
<1>3. W \subseteq Blocked(Expired)
  BY DEF FirstOf
<1>4. Expired \in Threads
  BY <1>2 DEF Woken
<1>5. Released = Ready(Expired, W)
  BY DEF Released
<1> HIDE DEF W
<1>6. Woken(Expired, Released)
  BY <1>3, <1>4, <1>5, ReadyWoken
<1> QED
  BY <1>2, <1>6, WokenTransitive

\* fire_alarms changes nothing of a process the invariant looks at.
LEMMA RungLemma == ASSUME IInv PROVE Alike(procs, Rung)
<1>1. ASSUME NEW p \in Pid PROVE Same(procs[p], Rung[p])
  <2>1. procs[p] \in ProcRec
    BY Basics DEF Procs
  <2> DEFINE a   == IF procs[p].interval = 0 THEN NoTime ELSE procs[p].interval
             one == [procs[p] EXCEPT !.pending = TRUE]
             two == [one EXCEPT !.alarm = a]
  <2>2. a \in Time
    BY <2>1 DEF ProcRec, Time
  <2>3. Rung[p] = two \/ Rung[p] = procs[p]
    BY <2>1 DEF Rung, ProcRec
  <2> HIDE DEF a
  <2>4. Same(procs[p], one) /\ Same(procs[p], procs[p])
    BY <2>1, SamePending DEF Same
  <2>5. one \in ProcRec
    BY <2>4 DEF Same
  <2> HIDE DEF one
  <2>6. Same(one, two)
    BY <2>2, <2>5, SameAlarm
  <2> HIDE DEF two
  <2>7. Same(procs[p], two)
    BY <2>4, <2>6 DEF Same
  <2> QED BY <2>3, <2>4, <2>7
<1>2. Rung = [p \in Pid |-> Rung[p]]
  BY DEF Rung
<1> QED
  BY <1>1, <1>2, Basics, AlikePointwise

\* A round of `pick' that goes on with the next
LEMMA RoundStep ==
    ASSUME IInv, TypeOK', Woken(threads, threads'), Alike(procs, procs'),
           run'.current = run.current, run'.nthreads = run.nthreads, run'.nprocs = run.nprocs,
           UNCHANGED <<pc, real, launcher>>,
           pick.phase # "none", pick'.phase # "none", pick'.by = pick.by, pick'.me = pick.me
    PROVE  Safe'
<1>1. Launching'
  BY DEF IInv, Base, Safe, Launching
<1>2. \A t \in Tid : pc'[t] \notin {"none", "boot", "gone"} => real'[threads[t].pid] = "up"
  BY DEF IInv, Base, Safe, Tenants, Active
<1>3. \A p \in Pid :
         /\ procs'[p].signalled => procs'[p].killed
         /\ procs'[p].state = procs[p].state
         /\ procs'[p].killed = procs[p].killed
         /\ procs'[p].signalled = procs[p].signalled
         /\ procs'[p].replacedBy = procs[p].replacedBy
  BY DEF IInv, Base, Safe, OnlyCrashedSignalled, Alike
<1>4. run.nprocs \in Nat
  BY Basics DEF RunRec
<1>5. \A p \in Pid : real'[p] # "none" => p <= run.nprocs
  BY DEF IInv, Base, Safe, Placed
<1>6. Quiet
  BY <1>2, <1>3, <1>4, <1>5 DEF Quiet
<1> QED
  BY <1>1, <1>6, QuietStep

\* The top of a round of pick, with stop_run, wakes threads and marks processes.
LEMMA TickTables ==
    ASSUME IInv, Tick
    PROVE  /\ Woken(threads, threads') /\ Alike(procs, procs')
           /\ run' \in RunRec /\ run'.current = run.current
           /\ run'.nthreads = run.nthreads /\ run'.nprocs = run.nprocs
<1> DEFINE th == ThreadsLater(threads, pick.add)
           pr == ProcsLater(procs, pick.add)
           rn == RunLater(run, pick.add)
           S  == {t \in Tid : th[t].state \notin {"unused", "exited"} /\ Alive(pr, th[t].pid)}
<1>1. pick.add \in Nat
  BY DEF IInv, Base, TypeOK
<1>2. Woken(threads, th) /\ Alike(procs, pr)
  BY <1>1, Basics, ThreadsLaterLemma, ProcsLaterLemma
<1>3. /\ rn \in RunRec /\ rn.current = run.current
      /\ rn.nthreads = run.nthreads /\ rn.nprocs = run.nprocs
  BY <1>1, Basics, RunLaterLemma
<1>4. /\ pick.phase = "tick"
      /\ threads' = Ready(th, S) \/ threads' = th
      /\ procs' = StoppedProcs(pr) \/ procs' = pr
      /\ run' = [rn EXCEPT !.stopped = TRUE] \/ run' = rn
      /\ pick' = [pick EXCEPT !.phase = "faults", !.add = 0]
      /\ UNCHANGED <<pc, real, launcher>>
  BY DEF Tick, StoppedThreads
<1> HIDE DEF th, pr, rn
<1>5. Woken(threads, Ready(th, S))
  <2>1. th \in Threads
    BY <1>2 DEF Woken
  <2>2. S \subseteq Tid /\ \A t \in S : th[t].state \notin {"unused", "exited"}
    OBVIOUS
  <2>3. \A t \in S : th[t].state \in {"runnable", "blocked"}
    <3>1. \A t \in Tid : th[t].state # "running"
      BY <1>2, <1>4 DEF Woken, IInv, Base, Safe, HandingOver
    <3> QED BY <2>1, <2>2, <3>1 DEF Threads, ThreadRec
  <2> HIDE DEF S
  <2>4. Woken(th, Ready(th, S))
    BY <2>1, <2>2, <2>3, ReadyLemma DEF Woken
  <2> QED BY <1>2, <2>4, WokenTransitive
<1>6. Alike(procs, StoppedProcs(pr))
  <2>1. pr \in Procs
    BY <1>2 DEF Alike
  <2>2. ASSUME NEW p \in Pid PROVE Same(pr[p], StoppedProcs(pr)[p])
    <3>1. pr[p] \in ProcRec
      BY <2>1 DEF Procs
    <3>2. Same(pr[p], [pr[p] EXCEPT !.stopped = TRUE]) /\ Same(pr[p], pr[p])
      BY <3>1, SameStopped DEF Same
    <3>3. \/ StoppedProcs(pr)[p] = [pr[p] EXCEPT !.stopped = TRUE]
          \/ StoppedProcs(pr)[p] = pr[p]
      BY DEF StoppedProcs
    <3> QED BY <3>2, <3>3
  <2>3. StoppedProcs(pr) = [p \in Pid |-> StoppedProcs(pr)[p]]
    BY DEF StoppedProcs
  <2>4. Alike(pr, StoppedProcs(pr))
    BY <2>1, <2>2, <2>3, AlikePointwise
  <2> QED BY <1>2, <2>4, AlikeTransitive
<1>7. Woken(threads, threads') /\ Alike(procs, procs')
  BY <1>2, <1>4, <1>5, <1>6
<1>8. /\ run' \in RunRec /\ run'.current = run.current
      /\ run'.nthreads = run.nthreads /\ run'.nprocs = run.nprocs
  BY <1>3, <1>4 DEF RunRec
<1> QED
  BY <1>7, <1>8

\* It keeps the invariant.
LEMMA TickStep == ASSUME IInv, Tick PROVE Base'
<1>4. /\ pick.phase = "tick"
      /\ pick' = [pick EXCEPT !.phase = "faults", !.add = 0]
      /\ UNCHANGED <<pc, real, launcher>>
  BY DEF Tick
<1>7. Woken(threads, threads') /\ Alike(procs, procs')
  BY TickTables
<1>8. /\ run' \in RunRec /\ run'.current = run.current
      /\ run'.nthreads = run.nthreads /\ run'.nprocs = run.nprocs
  BY TickTables
<1> DEFINE PickType ==
             [ phase: {"none", "tick", "faults"}, by: {"nobody", "guest", "launcher", "start"},
               me: Tid \cup {NoThread}, add: Nat ]
<1>9. pick' \in PickType /\ pick'.phase = "faults" /\ pick'.by = pick.by /\ pick'.me = pick.me
  <2>1. pick \in PickType
    BY DEF IInv, Base, TypeOK
  <2> QED BY <1>4, <2>1
<1>10. TypeOK'
  BY <1>4, <1>7, <1>8, <1>9 DEF IInv, Base, TypeOK, Woken, Alike, Threads, Procs
<1> HIDE DEF PickType
<1> QED
  BY <1>4, <1>7, <1>8, <1>9, <1>10, RoundStep DEF IInv, Base

\* A jump of the clock to the next event (pick) keeps it.
LEMMA JumpStep == ASSUME IInv, Jump PROVE Base'
<1>1. PICK d \in FirstOf(NextEvents) : pick' = [pick EXCEPT !.phase = "tick", !.add = d]
  BY DEF Jump
<1>2. /\ pick.phase = "faults" /\ threads' = Released /\ procs' = Rung
      /\ UNCHANGED <<run, pc, real, launcher>>
  BY DEF Jump, FaultsDone
<1>3. Woken(threads, threads') /\ Alike(procs, procs')
  BY <1>2, ReleasedLemma, RungLemma
<1>4. d \in Nat
  <2>1. NextEvents \subseteq Nat
    <3>1. Released \in Threads /\ Rung \in Procs
      BY <1>2, <1>3 DEF Woken, Alike
    <3>2. \A t \in Tid : Released[t].deadline \in Time
      BY <3>1 DEF Threads, ThreadRec
    <3>3. \A p \in Pid : /\ Rung[p].crash \in Time /\ Rung[p].shutdown \in Time
                         /\ Rung[p].kill \in Time /\ Rung[p].alarm \in Time
      BY <3>1 DEF Procs, ProcRec
    <3>4. run.stopIn \in Time
      BY Basics DEF RunRec
    <3> SUFFICES ASSUME NEW x \in NextEvents PROVE x \in Time /\ x # NoTime
      BY DEF Time
    <3>5. x \in Deadlines \cup FaultDates \cup AlarmDates \cup StopDate
      BY DEF NextEvents
    <3>6. x # NoTime
      BY DEF NextEvents
    <3>7. x \in Deadlines => x \in Time
      BY <3>2 DEF Deadlines, Blocked
    <3>8. x \in FaultDates => x \in Time
      BY <3>3 DEF FaultDates
    <3>9. x \in AlarmDates => x \in Time
      BY <3>3 DEF AlarmDates
    <3>10. x \in StopDate => x \in Time
      BY <3>4 DEF StopDate
    <3> QED BY <3>5, <3>6, <3>7, <3>8, <3>9, <3>10
  <2> QED BY <1>1, <2>1 DEF FirstOf
<1> DEFINE PickType ==
             [ phase: {"none", "tick", "faults"}, by: {"nobody", "guest", "launcher", "start"},
               me: Tid \cup {NoThread}, add: Nat ]
<1>5. pick' \in PickType /\ pick'.phase = "tick" /\ pick'.by = pick.by /\ pick'.me = pick.me
  <2>1. pick \in PickType
    BY DEF IInv, Base, TypeOK
  <2> QED BY <1>1, <1>4, <2>1
<1>6. TypeOK'
  BY <1>2, <1>3, <1>5 DEF IInv, Base, TypeOK, Woken, Alike, Threads, Procs
<1> HIDE DEF PickType
<1>7. run'.current = run.current /\ run'.nthreads = run.nthreads /\ run'.nprocs = run.nprocs
  BY <1>2
<1> QED
  BY <1>2, <1>3, <1>5, <1>6, <1>7, RoundStep DEF IInv, Base

\* Only the thread that gives the baton away may have been polling.
LEMMA NoOtherPoller ==
    ASSUME IInv, pick.phase # "none", NEW u \in Tid, pc[u] = "polling"
    PROVE  pick.by = "guest" /\ u = pick.me
<1>1. run.current = u
  BY DEF IInv, Base, Safe, PollersIdle
<1>2. Active(u) /\ u # NoThread
  BY DEF Active, Tid, NoThread
<1> QED
  BY <1>1, <1>2 DEF IInv, Base, Safe, HandingOver

\* The hand-off is over.
LEMMA PickEnds ==
    ASSUME IInv, TypeOK', pick.phase # "none", pick'.phase = "none", pick'.by = "nobody",
           \A u \in Tid :
             /\ threads'[u].pid = threads[u].pid
             /\ threads'[u].state = "unused" <=> threads[u].state = "unused"
             /\ threads'[u].state # "exited" => threads[u].state # "exited"
             /\ threads'[u].state = "running" => run'.current = u,
           \A p \in Pid :
             /\ procs'[p].state = procs[p].state /\ procs'[p].killed = procs[p].killed
             /\ procs'[p].replacedBy = procs[p].replacedBy
             /\ procs'[p].signalled => procs'[p].killed
             /\ real'[p] # "none" => real[p] # "none",
           run'.nthreads = run.nthreads, run'.nprocs = run.nprocs,
           \A u \in Tid :
             \/ pc'[u] = pc[u]
             \/ /\ pick.by = "guest" /\ u = pick.me
                /\ pc'[u] \in {"parked", "leaving", "polling"}
             \/ pc'[u] = "gone" /\ threads[u].state # "unused",
           \A u \in Tid : pc'[u] \notin {"none", "boot", "gone"} => real'[threads[u].pid] = "up",
           \A u \in Tid : pc'[u] = "polling" =>
             /\ run'.current = u /\ threads'[u].state # "running"
             /\ ~procs'[threads'[u].pid].killed,
           Launching'
    PROVE  Safe'
<1> USE DEF IInv, Base, Safe
<1>0. \A u \in Tid : threads'[u].state \in {"runnable", "running", "blocked"} =>
        threads[u].state \in {"runnable", "running", "blocked"}
  BY DEF TypeOK, ThreadRec
<1>1. \A u \in Tid : pc'[u] # "none" => threads[u].state # "unused"
  BY Basics DEF HandingOver
<1>2. Placed'
  <2>1. ASSUME NEW u \in Tid
        PROVE  /\ pc'[u] # "none" => threads'[u].state # "unused"
               /\ threads'[u].state # "unused" =>
                    u <= run'.nthreads /\ threads'[u].pid \in 1..run'.nprocs
               /\ threads'[u].state = "unused" => threads'[u].pid = NoProc
    BY <1>1 DEF Placed
  <2>2. \A p \in Pid :
          (real'[p] # "none" => p <= run'.nprocs) /\ procs'[p].replacedBy \in 0..run'.nprocs
    BY DEF Placed
  <2> QED BY <2>1, <2>2 DEF Placed
<1>3. Tenants'
  <2> SUFFICES ASSUME NEW u \in Tid, Active(u)'
               PROVE  real'[threads'[u].pid] = "up" /\ procs'[threads'[u].pid].state # "starting"
    BY DEF Tenants
  <2>1. Active(u)
    BY DEF Active, HandingOver
  <2>2. threads[u].pid \in Pid
    BY <2>1, Basics DEF Active
  <2> QED BY <2>1, <2>2 DEF Tenants, Active
<1>4. OnlyCrashedSignalled'
  BY DEF OnlyCrashedSignalled
<1>5. PollersIdle'
  BY DEF PollersIdle
<1>6. HandingOver'
  BY DEF HandingOver
<1>7. OneHolder'
  BY DEF OneHolder, HandingOver, Inside
<1>8. OneRunning'
  BY DEF OneRunning
<1>9. ScheduleIsAlive'
  BY <1>0, Basics DEF ScheduleIsAlive, Owner
<1> QED
  BY <1>2, <1>3, <1>4, <1>5, <1>6, <1>7, <1>8, <1>9

\* A step that ends a hand-off sends what SIGKILLs are owed.
LEMMA KillsSentLemma ==
    ASSUME IInv, NEW pr2,
           \/ pr2 = Rung
           \/ pr2 = Signalled(Rung, Condemned(Rung, run))
    PROVE  /\ pr2 \in Procs
           /\ \A p \in Pid :
                /\ pr2[p].state = procs[p].state /\ pr2[p].killed = procs[p].killed
                /\ pr2[p].replacedBy = procs[p].replacedBy
                /\ pr2[p].signalled => pr2[p].killed
<1>1. Alike(procs, Rung)
  BY RungLemma
<1>2. Rung \in Procs
  BY <1>1 DEF Alike
<1>3. \A p \in Condemned(Rung, run) : Rung[p].killed
  BY DEF Condemned
<1> DEFINE K == Condemned(Rung, run)
<1>4. /\ Signalled(Rung, K) \in Procs
      /\ \A p \in Pid :
           /\ Signalled(Rung, K)[p].state = Rung[p].state
           /\ Signalled(Rung, K)[p].killed = Rung[p].killed
           /\ Signalled(Rung, K)[p].signalled => Rung[p].signalled \/ p \in K
           /\ Signalled(Rung, K)[p].replacedBy = Rung[p].replacedBy
  BY <1>2, SignalledLemma
<1>5. \A p \in Pid : Rung[p].signalled => Rung[p].killed
  BY <1>1 DEF Alike, IInv, Base, Safe, OnlyCrashedSignalled
<1> QED
  BY <1>1, <1>2, <1>3, <1>4, <1>5 DEF Alike

\* Where the caller of the hand-off goes
LEMMA AfterHandOffLemma ==
    ASSUME IInv, pick.phase # "none", NEW th, NEW pcs, pcs = AfterHandOff(th)
    PROVE  /\ pcs \in [Tid -> Pcs]
           /\ \A u \in Tid :
                \/ pcs[u] = pc[u] /\ (pick.by = "guest" => u # pick.me)
                \/ pick.by = "guest" /\ u = pick.me /\ pcs[u] \in {"parked", "leaving"}
           /\ \A u \in Tid : pcs[u] # "polling"
<1>1. pc \in [Tid -> Pcs] /\ (pick.by = "guest" => pick.me \in Tid)
  BY Basics DEF IInv, Base, Safe, HandingOver
<1>2. pcs \in [Tid -> Pcs]
  BY <1>1 DEF AfterHandOff, Pcs
<1>3. \A u \in Tid :
        \/ pcs[u] = pc[u] /\ (pick.by = "guest" => u # pick.me)
        \/ pick.by = "guest" /\ u = pick.me /\ pcs[u] \in {"parked", "leaving"}
  BY <1>1 DEF AfterHandOff
<1>4. \A u \in Tid : pcs[u] # "polling"
  BY <1>3, NoOtherPoller
<1> QED
  BY <1>2, <1>3, <1>4

\* Where the launcher goes from a hand-off is a place it can be.
LEMMA LauncherAfterLemma ==
    ASSUME IInv, pick.phase # "none", launcher' = LauncherAfter, pick'.by = "nobody",
           real' = real
    PROVE  /\ launcher' \in [ at: {"booting", "started", "serving", "ending", "burying", "handing", "respawning", "over"},
                      proc: Pid \cup {NoProc}, failed: BOOLEAN,
                      started: BOOLEAN, stopping: BOOLEAN ]
           /\ Launching'
<1> DEFINE LauncherType ==
       [ at: {"booting", "started", "serving", "ending", "burying", "handing", "respawning", "over"},
         proc: Pid \cup {NoProc}, failed: BOOLEAN, started: BOOLEAN, stopping: BOOLEAN ]
<1>1. launcher \in LauncherType
  BY DEF IInv, Base, TypeOK
<1>2. \/ /\ launcher' = [launcher EXCEPT !.at = "respawning"] /\ pick.by = "launcher"
      \/ launcher' = [launcher EXCEPT !.at = "started"]
      \/ launcher' = launcher
  BY DEF LauncherAfter
<1>3. launcher' \in LauncherType
  BY <1>1, <1>2
<1>4. /\ launcher'.proc = launcher.proc /\ launcher'.started = launcher.started
      /\ \/ launcher'.at = "respawning" /\ pick.by = "launcher"
         \/ launcher'.at = "started"
         \/ launcher'.at = launcher.at
  BY <1>1, <1>2
<1>5. launcher.started
  BY DEF IInv, Base, Safe, HandingOver
<1> HIDE DEF LauncherType
<1>6. Launching'
  BY <1>4, <1>5 DEF IInv, Base, Safe, Launching
<1> QED
  BY <1>3, <1>6 DEF LauncherType

\* The threads as `pick' has woken them: nobody runs yet.
LEMMA ReleasedStates ==
    ASSUME IInv, pick.phase # "none"
    PROVE  /\ Released \in Threads
           /\ \A u \in Tid :
                /\ Released[u].pid = threads[u].pid
                /\ Released[u].state = "unused" <=> threads[u].state = "unused"
                /\ Released[u].state # "exited" => threads[u].state # "exited"
                /\ Released[u].state # "running"
<1>1. Woken(threads, Released)
  BY ReleasedLemma
<1>2. \A u \in Tid : threads[u].state # "running"
  BY DEF IInv, Base, Safe, HandingOver
<1> QED
  BY <1>1, <1>2 DEF Woken

\* choose keeps it: the new holder is the only thread that runs.
LEMMA ChooseStep == ASSUME IInv, NEW t \in Tid, Choose(t) PROVE Base'
<1>1. /\ pick.phase # "none" /\ Released[t].state = "runnable"
      /\ threads' = [Released EXCEPT ![t].state = "running"]
      /\ KillsSent(Rung)
      /\ run' = [run EXCEPT !.current = t, !.unsignalled = StillUnsignalled]
      /\ pc' = AfterHandOff(Released) /\ launcher' = LauncherAfter /\ pick' = NoPick
      /\ UNCHANGED <<real>>
  BY DEF Choose, FaultsDone, Runnable
<1>2. /\ Released \in Threads
      /\ \A u \in Tid :
           /\ Released[u].pid = threads[u].pid
           /\ Released[u].state = "unused" <=> threads[u].state = "unused"
           /\ Released[u].state # "exited" => threads[u].state # "exited"
           /\ Released[u].state # "running"
  BY <1>1, ReleasedStates
<1> DEFINE rec == [Released[t] EXCEPT !.state = "running"]
<1>3. rec \in ThreadRec /\ rec.pid = Released[t].pid /\ rec.state = "running"
  <2>1. Released[t] \in ThreadRec
    BY <1>2 DEF Threads
  <2> QED BY <2>1 DEF ThreadRec
<1>4. threads' = [Released EXCEPT ![t] = rec]
  BY <1>1
<1> HIDE DEF rec
<1>5. /\ threads' \in Threads /\ threads'[t] = rec
      /\ \A u \in Tid : u # t => threads'[u] = Released[u]
  BY <1>2, <1>3, <1>4 DEF Threads
<1>6. /\ run' \in RunRec /\ run'.current = t
      /\ run'.nthreads = run.nthreads /\ run'.nprocs = run.nprocs
  <2>1. StillUnsignalled \in BOOLEAN
    BY Basics DEF StillUnsignalled, RunRec
  <2> HIDE DEF StillUnsignalled
  <2> QED BY <1>1, <2>1, Basics DEF RunRec
<1>7. procs' = Rung \/ procs' = Signalled(Rung, Condemned(Rung, run))
  BY <1>1 DEF KillsSent
<1>8. /\ procs' \in Procs
      /\ \A p \in Pid :
           /\ procs'[p].state = procs[p].state /\ procs'[p].killed = procs[p].killed
           /\ procs'[p].replacedBy = procs[p].replacedBy
           /\ procs'[p].signalled => procs'[p].killed
  BY <1>7, KillsSentLemma
<1>9. /\ pc' \in [Tid -> Pcs]
      /\ \A u \in Tid :
           \/ pc'[u] = pc[u]
           \/ pick.by = "guest" /\ u = pick.me /\ pc'[u] \in {"parked", "leaving"}
      /\ \A u \in Tid : pc'[u] # "polling"
  BY <1>1, AfterHandOffLemma
<1>10. pick' \in [ phase: {"none", "tick", "faults"}, by: {"nobody", "guest", "launcher", "start"},
                   me: Tid \cup {NoThread}, add: Nat ]
       /\ pick'.phase = "none" /\ pick'.by = "nobody"
  BY <1>1 DEF NoPick
<1>11. /\ launcher' \in [ at: {"booting", "started", "serving", "ending", "burying", "handing", "respawning", "over"},
                      proc: Pid \cup {NoProc}, failed: BOOLEAN,
                      started: BOOLEAN, stopping: BOOLEAN ]
       /\ Launching'
  BY <1>1, <1>10, LauncherAfterLemma
<1>12. TypeOK'
  BY <1>1, <1>5, <1>6, <1>8, <1>9, <1>10, <1>11 DEF IInv, Base, TypeOK, Threads, Procs
<1>13. \A u \in Tid :
             /\ threads'[u].pid = threads[u].pid
             /\ threads'[u].state = "unused" <=> threads[u].state = "unused"
             /\ threads'[u].state # "exited" => threads[u].state # "exited"
             /\ threads'[u].state = "running" => run'.current = u
  <2> SUFFICES ASSUME NEW u \in Tid
      PROVE  /\ threads'[u].pid = threads[u].pid
             /\ threads'[u].state = "unused" <=> threads[u].state = "unused"
             /\ threads'[u].state # "exited" => threads[u].state # "exited"
             /\ threads'[u].state = "running" => run'.current = u
    OBVIOUS
  <2>1. CASE u = t
    BY <2>1, <1>1, <1>2, <1>3, <1>5, <1>6
  <2>2. CASE u # t
    BY <2>2, <1>2, <1>5
  <2> QED BY <2>1, <2>2
<1>14. \A u \in Tid :
         pc'[u] \notin {"none", "boot", "gone"} => real'[threads[u].pid] = "up"
  BY <1>1, <1>9 DEF IInv, Base, Safe, Tenants, Active, HandingOver
<1>15. /\ \A p \in Pid : real'[p] # "none" => real[p] # "none"
       /\ \A u \in Tid :
             \/ pc'[u] = pc[u]
             \/ /\ pick.by = "guest" /\ u = pick.me
                /\ pc'[u] \in {"parked", "leaving", "polling"}
             \/ pc'[u] = "gone" /\ threads[u].state # "unused"
  BY <1>1, <1>9
<1> QED
  BY <1>1, <1>6, <1>8, <1>9, <1>10, <1>11, <1>12, <1>13, <1>14, <1>15, PickEnds DEF IInv, Base

\* A guest that finds nothing runnable (carry_out, yield_baton_as) keeps it.
LEMMA IdleGuestStep == ASSUME IInv, IdleGuest PROVE Base'
<1> DEFINE me    == pick.me
           own   == Owner(me)
           stuck == Released[me].state # "exited" \/ AnyAlive(Released)
           crashed == Rung[own].killed
           K     == Condemned(Rung, run)
<1>1. /\ pick.phase # "none" /\ pick.by = "guest" /\ threads' = Released
      /\ run' = [run EXCEPT !.unsignalled = FALSE]
      /\ pick' = NoPick /\ UNCHANGED launcher
  BY DEF IdleGuest, Idle, FaultsDone
<1>2. PICK gcd \in BOOLEAN, anywhere \in BOOLEAN :
         LET aborts == ~crashed /\ stuck /\ ~anywhere
             dead == IF aborts THEN {own} ELSE {}
             polls == ~crashed /\ stuck /\ anywhere
         IN /\ procs' = [Signalled(Rung, K) EXCEPT ![own].outside =
                           @ \/ (gcd /\ ~crashed /\ stuck)]
            /\ RealDeath(dead, "failed")
            /\ pc' = ThreadsGone(IF polls THEN [pc EXCEPT ![me] = "polling"]
                                          ELSE AfterHandOff(Released), dead)
  <2>1. \A gcd \in BOOLEAN :
          (gcd \/ \E p \in Pid : Rung[p].state = "live" /\ Rung[p].outside) \in BOOLEAN
    OBVIOUS
  <2>2. (IF "outside" \in Calls THEN BOOLEAN ELSE {FALSE}) \subseteq BOOLEAN
    OBVIOUS
  <2> QED BY <2>1, <2>2 DEF IdleGuest
<1> DEFINE aborts == ~crashed /\ stuck /\ ~anywhere
           polls  == ~crashed /\ stuck /\ anywhere
           dead   == IF aborts THEN {own} ELSE {}
           pcs    == IF polls THEN [pc EXCEPT ![me] = "polling"] ELSE AfterHandOff(Released)
           sent   == Signalled(Rung, K)
           b      == sent[own].outside \/ (gcd /\ ~crashed /\ stuck)
           rec    == [sent[own] EXCEPT !.outside = b]
<1>3. /\ procs' = [sent EXCEPT ![own] = rec]
      /\ RealDeath(dead, "failed") /\ pc' = ThreadsGone(pcs, dead)
  BY <1>2
<1>4. /\ me \in Tid /\ me = run.current /\ pc[me] \in {"parked", "polling"}
      /\ own \in Pid /\ threads[me].state # "unused" /\ own = threads[me].pid
  BY <1>1, Basics DEF IInv, Base, Safe, HandingOver, Owner
<1>5. /\ Released \in Threads
      /\ \A u \in Tid :
           /\ Released[u].pid = threads[u].pid
           /\ Released[u].state = "unused" <=> threads[u].state = "unused"
           /\ Released[u].state # "exited" => threads[u].state # "exited"
           /\ Released[u].state # "running"
  BY <1>1, ReleasedStates
<1>6. /\ sent \in Procs
      /\ \A p \in Pid :
           /\ sent[p].state = procs[p].state /\ sent[p].killed = procs[p].killed
           /\ sent[p].replacedBy = procs[p].replacedBy
           /\ sent[p].signalled => sent[p].killed
  BY KillsSentLemma
<1>7. crashed = procs[own].killed
  BY <1>4, RungLemma DEF Alike
<1> HIDE DEF sent, me, own, stuck, crashed
<1>8. sent[own] \in ProcRec /\ b \in BOOLEAN
  <2>1. sent[own] \in ProcRec
    BY <1>4, <1>6 DEF Procs
  <2> QED BY <2>1 DEF ProcRec
<1> HIDE DEF b
<1>9. Same(sent[own], rec)
  BY <1>8, SameOutside
<1> HIDE DEF rec
<1>10. Alike(sent, procs')
  BY <1>3, <1>6, <1>9, AlikeUpdate DEF Same
<1>11. /\ procs' \in Procs
       /\ \A p \in Pid :
            /\ procs'[p].state = procs[p].state /\ procs'[p].killed = procs[p].killed
            /\ procs'[p].replacedBy = procs[p].replacedBy
            /\ procs'[p].signalled => procs'[p].killed
  BY <1>6, <1>10 DEF Alike
<1>12. /\ pcs \in [Tid -> Pcs]
       /\ \A u \in Tid :
            \/ pcs[u] = pc[u]
            \/ u = me /\ pcs[u] \in {"parked", "leaving", "polling"}
       /\ \A u \in Tid : pcs[u] = "polling" => u = me /\ polls
  <2>1. CASE polls
    <3>1. pcs = [pc EXCEPT ![me] = "polling"]
      BY <2>1
    <3>2. \A u \in Tid : pc[u] = "polling" => u = me
      BY <1>1, NoOtherPoller DEF me
    <3> HIDE DEF pcs, polls
    <3> QED BY <2>1, <3>1, <3>2, <1>4, Basics DEF Pcs
  <2>2. CASE ~polls
    <3>1. pcs = AfterHandOff(Released)
      BY <2>2
    <3>2. \A u \in Tid : u = me <=> u = pick.me
      BY DEF me
    <3> HIDE DEF pcs, polls
    <3> QED BY <1>1, <3>1, <3>2, AfterHandOffLemma
  <2> QED BY <2>1, <2>2
<1> HIDE DEF pcs
<1>13. /\ pc' \in [Tid -> Pcs]
       /\ \A u \in Tid : pc'[u] = IF threads[u].pid \in dead THEN "gone" ELSE pcs[u]
  BY <1>3, <1>12, ThreadsGoneType DEF ThreadsGone, Owner
<1>14. \A p \in Pid : real'[p] = IF p \in dead /\ real[p] = "up" THEN "failed" ELSE real[p]
  BY <1>3 DEF RealDeath
<1>15. real' \in [Pid -> {"none", "up", "exit0", "failed", "reaped"}]
  BY <1>3, RealDeathType DEF IInv, Base
<1>16. /\ run' \in RunRec /\ run'.current = run.current
       /\ run'.nthreads = run.nthreads /\ run'.nprocs = run.nprocs
  BY <1>1, Basics DEF RunRec
<1>17. pick' \in [ phase: {"none", "tick", "faults"}, by: {"nobody", "guest", "launcher", "start"},
                   me: Tid \cup {NoThread}, add: Nat ]
       /\ pick'.phase = "none" /\ pick'.by = "nobody"
  BY <1>1 DEF NoPick
<1>18. TypeOK'
  BY <1>1, <1>5, <1>11, <1>13, <1>15, <1>16, <1>17 DEF IInv, Base, TypeOK, Threads, Procs
<1>19. \A u \in Tid : threads[u].pid \in dead => threads[u].state # "unused"
  BY <1>4 DEF IInv, Base, Safe, Placed, NoProc, Pid
<1>20. \A u \in Tid :
             \/ pc'[u] = pc[u]
             \/ /\ pick.by = "guest" /\ u = pick.me
                /\ pc'[u] \in {"parked", "leaving", "polling"}
             \/ pc'[u] = "gone" /\ threads[u].state # "unused"
  BY <1>1, <1>12, <1>13, <1>19 DEF me
<1>21. \A u \in Tid : pc'[u] \notin {"none", "boot", "gone"} => real'[threads[u].pid] = "up"
  <2> SUFFICES ASSUME NEW u \in Tid, pc'[u] \notin {"none", "boot", "gone"}
               PROVE  real'[threads[u].pid] = "up"
    OBVIOUS
  <2>1. threads[u].pid \notin dead
    BY <1>13
  <2>2. pc[u] \notin {"none", "boot", "gone"}
    BY <1>4, <1>12, <1>13, <2>1
  <2> HIDE DEF dead
  <2> QED BY <2>1, <2>2, <1>14, Basics DEF IInv, Base, Safe, Tenants, Active
<1>22. \A u \in Tid : pc'[u] = "polling" =>
             /\ run'.current = u /\ threads'[u].state # "running"
             /\ ~procs'[threads'[u].pid].killed
  <2> SUFFICES ASSUME NEW u \in Tid, pc'[u] = "polling"
               PROVE  /\ run'.current = u /\ threads'[u].state # "running"
                      /\ ~procs'[threads'[u].pid].killed
    OBVIOUS
  <2>1. u = me /\ ~crashed
    BY <1>12, <1>13
  <2> QED BY <2>1, <1>1, <1>4, <1>5, <1>7, <1>11, <1>16
<1>23. Launching'
  <2>1. \A p \in Pid : real[p] = "reaped" => real'[p] = "reaped"
    BY <1>14
  <2> QED BY <1>1, <1>16, <1>17, <2>1 DEF IInv, Base, Safe, Launching
<1>24. \A u \in Tid :
             /\ threads'[u].pid = threads[u].pid
             /\ threads'[u].state = "unused" <=> threads[u].state = "unused"
             /\ threads'[u].state # "exited" => threads[u].state # "exited"
             /\ threads'[u].state = "running" => run'.current = u
  BY <1>1, <1>5
<1>25. \A p \in Pid : real'[p] # "none" => real[p] # "none"
  BY <1>14
<1> HIDE DEF aborts, polls, dead
<1> QED
  BY <1>1, <1>11, <1>16, <1>17, <1>18, <1>20, <1>21, <1>22, <1>23, <1>24, <1>25, PickEnds DEF IInv, Base

\* The launcher finding nothing runnable (process_died, end_run) keeps it.
LEMMA IdleLauncherStep == ASSUME IInv, IdleLauncher PROVE Base'
<1> DEFINE deadlock == pick.by = "launcher" /\ AnyAlive(Released) /\ ~run.stopped
<1>1. /\ pick.phase # "none" /\ pick.by # "guest" /\ threads' = Released
      /\ KillsSent(Rung)
      /\ run' = [run EXCEPT !.unsignalled = StillUnsignalled]
      /\ pick' = NoPick
  BY DEF IdleLauncher, Idle, FaultsDone
<1>2. \/ /\ real' = [p \in Pid |-> IF real[p] = "none" THEN "none" ELSE "reaped"]
         /\ pc' = ThreadsGone(pc, Pid)
         /\ launcher' = [launcher EXCEPT !.at = "over"]
      \/ launcher' = LauncherAfter /\ UNCHANGED <<real, pc>>
  BY DEF IdleLauncher
<1>3. /\ Released \in Threads
      /\ \A u \in Tid :
           /\ Released[u].pid = threads[u].pid
           /\ Released[u].state = "unused" <=> threads[u].state = "unused"
           /\ Released[u].state # "exited" => threads[u].state # "exited"
           /\ Released[u].state # "running"
  BY <1>1, ReleasedStates
<1>4. procs' = Rung \/ procs' = Signalled(Rung, Condemned(Rung, run))
  BY <1>1 DEF KillsSent
<1>5. /\ procs' \in Procs
      /\ \A p \in Pid :
           /\ procs'[p].state = procs[p].state /\ procs'[p].killed = procs[p].killed
           /\ procs'[p].replacedBy = procs[p].replacedBy
           /\ procs'[p].signalled => procs'[p].killed
  BY <1>4, KillsSentLemma
<1>6. /\ run' \in RunRec /\ run'.current = run.current
      /\ run'.nthreads = run.nthreads /\ run'.nprocs = run.nprocs
  <2>1. StillUnsignalled \in BOOLEAN
    BY Basics DEF StillUnsignalled, RunRec
  <2> HIDE DEF StillUnsignalled
  <2> QED BY <1>1, <2>1, Basics DEF RunRec
<1>7. pick' \in [ phase: {"none", "tick", "faults"}, by: {"nobody", "guest", "launcher", "start"},
                   me: Tid \cup {NoThread}, add: Nat ]
       /\ pick'.phase = "none" /\ pick'.by = "nobody"
  BY <1>1 DEF NoPick
<1> DEFINE LauncherType ==
       [ at: {"booting", "started", "serving", "ending", "burying", "handing", "respawning", "over"},
         proc: Pid \cup {NoProc}, failed: BOOLEAN, started: BOOLEAN, stopping: BOOLEAN ]
           RealType == [Pid -> {"none", "up", "exit0", "failed", "reaped"}]
<1>8. /\ launcher \in LauncherType /\ real \in RealType
      /\ pc \in [Tid -> Pcs] /\ launcher.started
  BY <1>1, Basics DEF IInv, Base, TypeOK, Safe, HandingOver
\* Either way nobody comes to life, and nobody polls.
<1>9. /\ launcher' \in LauncherType /\ Launching' /\ real' \in RealType /\ pc' \in [Tid -> Pcs]
      /\ \A p \in Pid : real'[p] # "none" => real[p] # "none"
      /\ \A u \in Tid : pc'[u] = pc[u] \/ (pc'[u] = "gone" /\ threads[u].state # "unused")
      /\ \A u \in Tid : pc'[u] \notin {"none", "boot", "gone"} => real'[threads[u].pid] = "up"
  <2>1. CASE launcher' = LauncherAfter /\ UNCHANGED <<real, pc>>
    <3>1. launcher' \in LauncherType /\ Launching'
      BY <1>1, <1>7, <2>1, LauncherAfterLemma
    <3>2. \A u \in Tid : pc[u] \notin {"none", "boot", "gone"} => real[threads[u].pid] = "up"
      BY DEF IInv, Base, Safe, Tenants, Active
    <3> HIDE DEF LauncherType, RealType
    <3> QED BY <1>8, <2>1, <3>1, <3>2
  <2>2. CASE /\ real' = [p \in Pid |-> IF real[p] = "none" THEN "none" ELSE "reaped"]
             /\ pc' = ThreadsGone(pc, Pid)
             /\ launcher' = [launcher EXCEPT !.at = "over"]
    <3>1. /\ launcher' \in LauncherType /\ launcher'.at = "over" /\ launcher'.started
      BY <1>8, <2>2
    <3>2. Launching'
      BY <1>7, <3>1 DEF Launching
    <3>3. pc' \in [Tid -> Pcs] /\ real' \in RealType
      BY <1>8, <2>2, ThreadsGoneType
    <3>4. \A u \in Tid : pc'[u] = IF threads[u].pid \in Pid THEN "gone" ELSE pc[u]
      BY <2>2 DEF ThreadsGone, Owner
    <3>5. \A u \in Tid : threads[u].pid \in Pid => threads[u].state # "unused"
      BY DEF IInv, Base, Safe, Placed, NoProc, Pid
    <3>6. \A u \in Tid : threads[u].pid \notin Pid => pc[u] = "none"
      BY Basics
    <3>7. \A p \in Pid : real'[p] # "none" => real[p] # "none"
      BY <2>2
    <3> HIDE DEF LauncherType, RealType
    <3> QED BY <3>1, <3>2, <3>3, <3>4, <3>5, <3>6, <3>7
  <2> QED BY <1>2, <2>1, <2>2
<1>10. TypeOK'
  BY <1>1, <1>3, <1>5, <1>6, <1>7, <1>9 DEF IInv, Base, TypeOK, Threads, Procs
<1>11. \A u \in Tid : pc'[u] # "polling"
  BY <1>1, <1>9, NoOtherPoller
<1>12. \A u \in Tid :
             /\ threads'[u].pid = threads[u].pid
             /\ threads'[u].state = "unused" <=> threads[u].state = "unused"
             /\ threads'[u].state # "exited" => threads[u].state # "exited"
             /\ threads'[u].state = "running" => run'.current = u
  BY <1>1, <1>3
<1> HIDE DEF LauncherType, RealType
<1> QED
  BY <1>1, <1>5, <1>6, <1>7, <1>9, <1>10, <1>11, <1>12, PickEnds DEF IInv, Base

----------------------------------------------------------------------------
(***************************************************************************)
(* The launcher.                                                           *)
(***************************************************************************)
LauncherType ==
    [ at: {"booting", "started", "serving", "ending", "burying", "handing", "respawning", "over"},
      proc: Pid \cup {NoProc}, failed: BOOLEAN, started: BOOLEAN, stopping: BOOLEAN ]
RealType == [Pid -> {"none", "up", "exit0", "failed", "reaped"}]

\* A step of the launcher that leaves the schedule alone
LEMMA LauncherOnly ==
    ASSUME IInv, pick.phase = "none", UNCHANGED <<threads, procs, pick, pc>>,
           run' \in RunRec, run'.current = run.current,
           run'.nthreads = run.nthreads, run'.nprocs = run.nprocs,
           launcher' \in LauncherType, Launching', launcher'.started = launcher.started,
           real' \in RealType,
           \A p \in Pid : real'[p] = real[p] \/ (real[p] \notin {"none", "up"})
    PROVE  Base'
<1>1. TypeOK'
  BY DEF IInv, Base, TypeOK, LauncherType, RealType
<1>2. \A t \in Tid : pc'[t] \notin {"none", "boot", "gone"} => real'[threads[t].pid] = "up"
  BY Basics DEF IInv, Base, Safe, Tenants, Active
<1>3. \A p \in Pid :
         /\ procs'[p].signalled => procs'[p].killed
         /\ procs'[p].state = procs[p].state
         /\ procs'[p].killed = procs[p].killed
         /\ procs'[p].signalled = procs[p].signalled
         /\ procs'[p].replacedBy = procs[p].replacedBy
  BY DEF IInv, Base, Safe, OnlyCrashedSignalled
<1>4. run.nprocs \in Nat /\ Woken(threads, threads')
  BY Basics DEF RunRec
<1>5. \A p \in Pid : real'[p] # "none" => p <= run.nprocs
  BY DEF IInv, Base, Safe, Placed
<1>6. Quiet
  BY <1>2, <1>3, <1>4, <1>5 DEF Quiet
<1> QED
  BY <1>1, <1>6, QuietStep DEF IInv, Base

\* The launcher and the real processes have their types.
LEMMA LauncherTypes == ASSUME IInv PROVE launcher \in LauncherType /\ real \in RealType
BY DEF IInv, Base, TypeOK, LauncherType, RealType

\* Before the run has started nobody has the baton.
LEMMA StartStep == ASSUME IInv, Start PROVE Base'
<1>1. /\ pick.phase = "none" /\ launcher.at = "booting"
      /\ launcher' = [launcher EXCEPT !.at = "handing", !.started = TRUE]
      /\ pick' = [phase |-> "tick", by |-> "start", me |-> NoThread, add |-> 0]
      /\ UNCHANGED <<threads, procs, run, pc, real>>
  BY DEF Start, LockFree
<1>2. run.current = NoThread
  BY <1>1 DEF IInv, Base, Safe, Launching
<1>3. \A t \in Tid : ~Inside(t) /\ threads[t].state # "running" /\ pc[t] # "polling"
  BY <1>2 DEF IInv, Base, Safe, OneHolder, OneRunning, PollersIdle, NoThread, Tid
<1>4. /\ launcher' \in LauncherType /\ launcher'.at = "handing" /\ launcher'.started
  BY <1>1, LauncherTypes DEF LauncherType
<1>5. /\ pick' \in [ phase: {"none", "tick", "faults"}, by: {"nobody", "guest", "launcher", "start"},
                     me: Tid \cup {NoThread}, add: Nat ]
      /\ pick'.phase = "tick" /\ pick'.by = "start"
  BY <1>1
<1>6. TypeOK'
  BY <1>1, <1>4, <1>5 DEF IInv, Base, TypeOK, LauncherType
<1>7. HandingOver' /\ Launching'
  BY <1>1, <1>2, <1>3, <1>4, <1>5 DEF HandingOver, Launching, Inside
<1>8. OneHolder' /\ OneRunning' /\ PollersIdle'
  BY <1>1, <1>3 DEF OneHolder, OneRunning, PollersIdle, Inside
<1>9. Placed' /\ Tenants' /\ OnlyCrashedSignalled' /\ ScheduleIsAlive'
  BY <1>1 DEF IInv, Base, Safe, Placed, Tenants, OnlyCrashedSignalled, ScheduleIsAlive, Active, Owner
<1> QED
  BY <1>6, <1>7, <1>8, <1>9 DEF IInv, Base, Safe

\* stop_now changes only when the stop is due.
LEMMA StopNowLemma ==
    ASSUME IInv, StopNow
    PROVE  /\ run' \in RunRec /\ run'.current = run.current
           /\ run'.nthreads = run.nthreads /\ run'.nprocs = run.nprocs
<1>1. 0 \in Time
  BY DEF Time
<1> QED
  BY <1>1, Basics DEF StopNow, RunRec

\* What supervise_started does before its loop keeps it.
LEMMA StartedStep == ASSUME IInv, Started PROVE Base'
<1>1. /\ pick.phase = "none" /\ launcher.at = "started"
      /\ StopNow \/ UNCHANGED run
      /\ \/ launcher' = [launcher EXCEPT !.at = "serving", !.stopping = TRUE]
         \/ launcher' = [launcher EXCEPT !.at = "serving"]
      /\ UNCHANGED <<threads, procs, pick, pc, real>>
  BY DEF Started, LockFree
<1>2. /\ run' \in RunRec /\ run'.current = run.current
      /\ run'.nthreads = run.nthreads /\ run'.nprocs = run.nprocs
  BY <1>1, StopNowLemma, Basics
<1>3. /\ launcher' \in LauncherType /\ launcher'.at = "serving"
      /\ launcher'.started = launcher.started /\ launcher'.proc = launcher.proc
  BY <1>1, LauncherTypes DEF LauncherType
<1>4. Launching'
  BY <1>1, <1>2, <1>3 DEF IInv, Base, Safe, Launching
<1>5. real' \in RealType
  BY <1>1, LauncherTypes
<1> QED
  BY <1>1, <1>2, <1>3, <1>4, <1>5, LauncherOnly

\* An exit event (supervise_started) keeps it.
LEMMA NoticeExitStep == ASSUME IInv, NEW p \in Pid, NoticeExit(p) PROVE Base'
<1>1. /\ pick.phase = "none" /\ Dead(p)
      /\ launcher' = [launcher EXCEPT !.at = "ending", !.proc = p, !.failed = (real[p] = "failed")]
         \/ launcher' = [launcher EXCEPT !.at = "burying", !.proc = p, !.failed = (real[p] = "failed")]
      /\ real' = [real EXCEPT ![p] = "reaped"]
      /\ UNCHANGED <<threads, procs, run, pick, pc>>
  BY DEF NoticeExit, LockFree
<1>2. /\ launcher' \in LauncherType /\ launcher'.at \in {"ending", "burying"}
      /\ launcher'.started = launcher.started /\ launcher'.proc = p
  BY <1>1, LauncherTypes DEF LauncherType
<1>3. /\ real' \in RealType /\ real'[p] = "reaped"
      /\ \A q \in Pid : q # p => real'[q] = real[q]
  BY <1>1, LauncherTypes DEF RealType
<1>4. Launching'
  BY <1>1, <1>2, <1>3 DEF IInv, Base, Safe, Launching
<1>5. /\ run' \in RunRec /\ run'.current = run.current
      /\ run'.nthreads = run.nthreads /\ run'.nprocs = run.nprocs
  BY <1>1, Basics
<1>6. \A q \in Pid : real'[q] = real[q] \/ (real[q] \notin {"none", "up"})
  BY <1>1, <1>3 DEF Dead
<1> QED
  BY <1>1, <1>2, <1>3, <1>4, <1>5, <1>6, LauncherOnly

\* stop_or_end keeps it.
LEMMA EndRunStep == ASSUME IInv, EndRun PROVE Base'
<1>1. /\ pick.phase = "none" /\ launcher.at = "ending" /\ StopNow
      /\ launcher' = [launcher EXCEPT !.at = "burying", !.stopping = TRUE]
      /\ UNCHANGED <<threads, procs, pick, pc, real>>
  BY DEF EndRun, LockFree
<1>2. /\ run' \in RunRec /\ run'.current = run.current
      /\ run'.nthreads = run.nthreads /\ run'.nprocs = run.nprocs
  BY <1>1, StopNowLemma
<1>3. /\ launcher' \in LauncherType /\ launcher'.at = "burying"
      /\ launcher'.started = launcher.started /\ launcher'.proc = launcher.proc
  BY <1>1, LauncherTypes DEF LauncherType
<1>4. Launching'
  BY <1>1, <1>2, <1>3 DEF IInv, Base, Safe, Launching
<1>5. real' \in RealType
  BY <1>1, LauncherTypes
<1> QED
  BY <1>1, <1>2, <1>3, <1>4, <1>5, LauncherOnly

\* The end of supervise_started keeps it.
LEMMA FinishStep == ASSUME IInv, Finish PROVE Base'
<1>1. /\ pick.phase = "none" /\ launcher.at = "serving"
      /\ launcher' = [launcher EXCEPT !.at = "over"]
      /\ UNCHANGED <<threads, procs, run, pick, pc, real>>
  BY DEF Finish, LockFree
<1>2. /\ launcher' \in LauncherType /\ launcher'.at = "over"
      /\ launcher'.started = launcher.started /\ launcher'.proc = launcher.proc
  BY <1>1, LauncherTypes DEF LauncherType
<1>3. Launching'
  BY <1>1, <1>2 DEF IInv, Base, Safe, Launching
<1>4. real' \in RealType /\ run' \in RunRec
  BY <1>1, LauncherTypes, Basics
<1> QED
  BY <1>1, <1>2, <1>3, <1>4, LauncherOnly

\* respawn keeps it.
LEMMA RespawnStep == ASSUME IInv, Respawn PROVE Base'
<1> DEFINE new == procs[launcher.proc].replacedBy
           K   == Condemned(procs, run)
<1>1. /\ pick.phase = "none" /\ launcher.at = "respawning"
      /\ procs' = Signalled(procs, K)
      /\ run' = [run EXCEPT !.unsignalled = FALSE]
      /\ real' = [p \in Pid |-> IF p = new /\ real[p] = "none" THEN "up" ELSE real[p]]
      /\ pc' = [t \in Tid |-> IF new # NoProc /\ Owner(t) = new THEN "boot" ELSE pc[t]]
      /\ launcher' = [launcher EXCEPT !.at = IF launcher.started THEN "serving" ELSE "booting",
                                      !.proc = NoProc, !.failed = FALSE]
      /\ UNCHANGED <<threads, pick>>
  BY DEF Respawn, LockFree
<1>2. new \in 0..run.nprocs
  BY <1>1 DEF IInv, Base, Safe, Launching, Placed
<1>3. /\ procs' \in Procs
      /\ \A p \in Pid :
           /\ procs'[p].state = procs[p].state
           /\ procs'[p].killed = procs[p].killed
           /\ procs'[p].signalled => procs[p].signalled \/ p \in K
           /\ procs'[p].replacedBy = procs[p].replacedBy
  BY <1>1, Basics, SignalledLemma
<1>4. \A p \in K : procs[p].killed
  BY DEF Condemned
<1> HIDE DEF K, new
<1>5. \A p \in Pid : procs'[p].signalled => procs'[p].killed
  BY <1>3, <1>4 DEF IInv, Base, Safe, OnlyCrashedSignalled
<1>6. /\ launcher' \in LauncherType /\ launcher'.started = launcher.started
      /\ launcher'.at = IF launcher.started THEN "serving" ELSE "booting"
  BY <1>1, LauncherTypes DEF LauncherType
<1>7. /\ run' \in RunRec /\ run'.current = run.current /\ run.nprocs \in Nat
      /\ run'.nthreads = run.nthreads /\ run'.nprocs = run.nprocs
  <2>1. run' = [run EXCEPT !.unsignalled = FALSE]
    BY <1>1
  <2>2. run \in RunRec /\ run.nprocs \in Nat
    BY Basics DEF RunRec
  <2> QED BY <2>1, <2>2 DEF RunRec
<1>8. Launching'
  BY <1>1, <1>6, <1>7 DEF IInv, Base, Safe, Launching
<1>9. /\ real' \in RealType
      /\ \A p \in Pid : real'[p] # real[p] => p = new /\ real'[p] = "up"
  BY <1>1, LauncherTypes DEF RealType
<1>10. /\ pc' \in [Tid -> Pcs]
       /\ \A t \in Tid : pc'[t] = pc[t] \/ (pc'[t] = "boot" /\ threads[t].pid # NoProc)
  BY <1>1, Basics DEF Pcs, Owner
<1>11. \A t \in Tid : threads[t].pid # NoProc => threads[t].state # "unused"
  BY DEF IInv, Base, Safe, Placed
<1>12. \A t \in Tid : pc'[t] \notin {"none", "boot", "gone"} => real'[threads[t].pid] = "up"
  <2> SUFFICES ASSUME NEW t \in Tid, pc'[t] \notin {"none", "boot", "gone"}
               PROVE  real'[threads[t].pid] = "up"
    OBVIOUS
  <2>1. Active(t) /\ threads[t].pid \in Pid
    BY <1>10, Basics DEF Active
  <2>2. real[threads[t].pid] = "up"
    BY <2>1 DEF IInv, Base, Safe, Tenants
  <2> QED BY <2>1, <2>2, <1>9
<1>13. \A p \in Pid : real'[p] # "none" => p <= run.nprocs
  BY <1>2, <1>7, <1>9 DEF IInv, Base, Safe, Placed
<1>14. TypeOK'
  BY <1>1, <1>3, <1>6, <1>7, <1>9, <1>10 DEF IInv, Base, TypeOK, LauncherType, RealType, Procs
<1>15. Woken(threads, threads') /\ run'.nprocs >= run.nprocs
  BY <1>1, <1>7, Basics
<1>16. Quiet
  BY <1>1, <1>3, <1>5, <1>6, <1>7, <1>10, <1>11, <1>12, <1>13, <1>15 DEF Quiet
<1> QED
  BY <1>8, <1>14, <1>16, QuietStep DEF IInv, Base

\* process_died fells the process, unless a crash has done so already; then
\* its threads have left before and nothing is woken.
LEMMA BuryFells ==
    ASSUME IInv, Bury
    PROVE  Felled(threads, procs, run, launcher.proc)
<1> DEFINE p   == launcher.proc
           one == [procs[p] EXCEPT !.state = "exited"]
           pr1 == [procs EXCEPT ![p] = one]
           two == Unscheduled(one)
           pr2 == [pr1 EXCEPT ![p] = two]
           th1 == Retire(threads, p)
<1>1. p \in Pid /\ procs \in Procs /\ procs[p] \in ProcRec /\ threads \in Threads /\ run \in RunRec
  BY Basics DEF Bury, IInv, Base, Safe, Launching, Procs
<1>2. \/ threads' = th1 /\ procs' = pr1 /\ UNCHANGED run
      \/ RegisterRestart(Ready(th1, WokenByDeath(th1, procs, p)), pr2, run, p, launcher.failed)
  <2>1. [pr1 EXCEPT ![p] = Unscheduled(@)] = pr2
    BY <1>1 DEF Procs
  <2> QED BY <2>1 DEF Bury
<1>3. /\ one \in ProcRec /\ one.state = "exited" /\ one.killed = procs[p].killed
      /\ one.signalled = procs[p].signalled /\ one.replacedBy = procs[p].replacedBy
  <2>1. one \in ProcRec
    BY <1>1 DEF ProcRec
  <2>2. one.state = "exited"
    BY <1>1 DEF ProcRec
  <2>3. one.killed = procs[p].killed
    BY <1>1 DEF ProcRec
  <2>4. one.signalled = procs[p].signalled
    BY <1>1 DEF ProcRec
  <2>5. one.replacedBy = procs[p].replacedBy
    BY <1>1 DEF ProcRec
  <2> QED BY <2>1, <2>2, <2>3, <2>4, <2>5
<1> HIDE DEF one
<1>4. /\ two \in ProcRec /\ two.state = "exited" /\ two.killed = procs[p].killed
      /\ two.signalled = procs[p].signalled /\ two.replacedBy = procs[p].replacedBy
  BY <1>3, UnscheduledLemma
<1> HIDE DEF two
<1>5. CASE threads' = th1 /\ procs' = pr1 /\ UNCHANGED run
  <2>1. /\ th1 \in Threads
        /\ \A t \in Tid :
             /\ th1[t].pid = threads[t].pid
             /\ th1[t].state =
                  IF threads[t].pid = p /\ threads[t].state # "unused" THEN "exited" ELSE threads[t].state
    BY <1>1, RetireLemma
  <2>2. /\ pr1 \in Procs /\ pr1[p] = one
        /\ \A q \in Pid : q # p => pr1[q] = procs[q]
    BY <1>1, <1>3 DEF Procs
  <2>3. run.nprocs >= run.nprocs /\ run.nthreads >= run.nthreads
    BY <1>1 DEF RunRec
  <2>4. ASSUME NEW q \in Pid
        PROVE
         \/ /\ q # p
            /\ procs'[q].state = procs[q].state
            /\ procs'[q].killed = procs[q].killed
            /\ procs'[q].signalled = procs[q].signalled
            /\ procs'[q].replacedBy \in {procs[q].replacedBy, run'.nprocs}
         \/ /\ q = p
            /\ procs'[q].state = procs[q].state \/ procs'[q].state = "exited"
            /\ procs'[q].signalled = procs[q].signalled
            /\ procs[q].killed => procs'[q].killed
            /\ procs'[q].replacedBy \in {procs[q].replacedBy, run'.nprocs}
    BY <1>3, <1>5, <2>2
  <2> HIDE DEF th1, pr1, p
  <2> QED BY <1>1, <1>5, <2>1, <2>2, <2>3, <2>4 DEF Felled, p
<1>6. CASE RegisterRestart(Ready(th1, WokenByDeath(th1, procs, p)), pr2, run, p, launcher.failed)
  <2>1. /\ pr2 \in Procs /\ pr2[p] = two
        /\ \A q \in Pid \ {p} : pr2[q] = procs[q]
    BY <1>1, <1>3, <1>4 DEF Procs
  <2>2. WokenByDeath(th1, procs, p) \subseteq Blocked(th1)
    BY WokenByDeathBlocked
  <2> HIDE DEF pr2, p
  <2> QED BY <1>1, <1>4, <1>6, <2>1, <2>2, FelledLemma DEF p
<1> QED
  BY <1>2, <1>5, <1>6

\* process_died keeps it.
LEMMA BuryStep == ASSUME IInv, Bury PROVE Base'
<1> DEFINE p == launcher.proc
<1>1. /\ pick.phase = "none" /\ launcher.at = "burying" /\ p \in Pid /\ real[p] = "reaped"
      /\ UNCHANGED <<pc, real>>
      /\ \/ /\ HeldBy(p)
            /\ pick' = [phase |-> "tick", by |-> "launcher", me |-> run.current, add |-> SwitchNs]
            /\ launcher' = [launcher EXCEPT !.at = "handing"]
         \/ /\ ~HeldBy(p)
            /\ launcher' = [launcher EXCEPT !.at = "respawning"] /\ UNCHANGED pick
  BY DEF Bury, LockFree, IInv, Base, Safe, Launching
<1>2. Felled(threads, procs, run, p)
  BY BuryFells
<1> HIDE DEF p
<1>3. threads' \in Threads /\ procs' \in Procs /\ run' \in RunRec /\ run'.current = run.current
  BY <1>2 DEF Felled
<1>4. procs[p].signalled => procs[p].killed
  BY <1>1 DEF IInv, Base, Safe, OnlyCrashedSignalled
<1>5. procs'[p].signalled => procs'[p].killed
  BY <1>1, <1>2, <1>4 DEF Felled
<1>6. \A q \in Pid : q # p /\ procs[q].signalled => procs[q].killed
  BY DEF IInv, Base, Safe, OnlyCrashedSignalled
<1>7. /\ Placed' /\ Tenants' /\ OnlyCrashedSignalled' /\ OneRunning' /\ ScheduleIsAlive'
      /\ \A u \in Tid : threads[u].state # "unused" =>
           /\ threads'[u].pid = threads[u].pid
           /\ threads[u].pid = p => threads'[u].state = "exited"
           /\ threads[u].state = "running" /\ threads[u].pid # p => threads'[u].state = "running"
           /\ threads'[u].state = "running" => threads[u].state = "running"
           /\ threads[u].pid # p =>
                     /\ procs'[threads[u].pid].state = procs[threads[u].pid].state
                     /\ procs'[threads[u].pid].killed = procs[threads[u].pid].killed
  BY <1>1, <1>2, <1>3, <1>5, <1>6, FelledTables
<1>8. pick' \in [ phase: {"none", "tick", "faults"}, by: {"nobody", "guest", "launcher", "start"},
                  me: Tid \cup {NoThread}, add: Nat ]
  <2>1. run.current \in Tid \cup {NoThread}
    BY Basics DEF RunRec
  <2> QED BY <1>1, <2>1, SizesAssumption DEF IInv, Base, TypeOK
<1>9. /\ launcher' \in LauncherType /\ launcher'.started = launcher.started
      /\ launcher'.proc = launcher.proc
      /\ launcher'.at = "handing" \/ launcher'.at = "respawning"
  BY <1>1, LauncherTypes DEF LauncherType
<1>10. TypeOK'
  BY <1>1, <1>3, <1>8, <1>9 DEF IInv, Base, TypeOK, LauncherType, Threads, Procs
<1>11. Launching'
  BY <1>1, <1>3, <1>9 DEF IInv, Base, Safe, Launching, p
\* No thread of the dead process is active.
<1>12. \A u \in Tid : Active(u) => threads[u].pid # p /\ threads[u].state # "unused"
  BY <1>1, Basics DEF IInv, Base, Safe, Tenants, Active
<1>13. \A u \in Tid : Inside(u) => Active(u)
  BY DEF Inside, Active
<1>14. OneHolder'
  BY <1>1, <1>3, <1>7, <1>12, <1>13 DEF IInv, Base, Safe, OneHolder, Inside, Owner
<1>15. PollersIdle'
  <2> SUFFICES ASSUME NEW u \in Tid, pc[u] = "polling"
               PROVE  /\ run'.current = u
                      /\ threads'[u].state # "running"
                      /\ ~procs'[threads'[u].pid].killed
    BY <1>1 DEF PollersIdle
  <2>1. /\ run.current = u /\ threads[u].state # "running"
        /\ ~procs[threads[u].pid].killed
    BY <1>1 DEF IInv, Base, Safe, PollersIdle
  <2>2. threads[u].pid # p /\ threads[u].state # "unused"
    BY <1>12 DEF Active
  <2> QED BY <2>1, <2>2, <1>3, <1>7
<1>16. HandingOver'
  <2>1. CASE ~HeldBy(p)
    BY <1>1, <2>1 DEF HandingOver
  <2>2. CASE HeldBy(p)
    <3>1. /\ run.current \in Tid /\ threads[run.current].pid = p
          /\ pick'.phase = "tick" /\ pick'.by = "launcher"
      BY <1>1, <2>2, Basics DEF HeldBy, Owner, RunRec
    <3>2. ~Active(run.current)
      BY <3>1, <1>12
    <3>3. \A u \in Tid : ~Inside(u)
      BY <3>2, <1>13 DEF IInv, Base, Safe, OneHolder
    <3>4. threads[run.current].state # "unused"
      BY <3>1, <1>1 DEF IInv, Base, Safe, Placed, NoProc, Pid
    <3>5. threads'[run.current].state = "exited"
      BY <3>1, <3>4, <1>7
    <3>6. \A u \in Tid : threads'[u].state # "running"
      BY <3>5, <1>3, <1>7 DEF OneRunning
    <3>7. launcher.started
      BY <3>1 DEF IInv, Base, Safe, Launching, NoThread, Tid
    <3> QED BY <1>1, <1>3, <1>9, <3>1, <3>2, <3>3, <3>6, <3>7 DEF HandingOver, Inside, Active
  <2> QED BY <2>1, <2>2
<1> QED
  BY <1>7, <1>10, <1>11, <1>14, <1>15, <1>16 DEF IInv, Base, Safe

----------------------------------------------------------------------------
(***************************************************************************)
(* The invariant.                                                          *)
(***************************************************************************)
LEMMA InitType == ASSUME Init PROVE TypeOK
<1>1. Entry \subseteq Pid /\ Entry \subseteq Tid /\ NEntries \in Nat
  BY SizesAssumption DEF Entry, Pid, Tid
<1>2. threads \in Threads
  <2>1. NoThreadRec \in ThreadRec
    BY DEF NoThreadRec, FreshThread, ThreadRec, SpecialKeys, Time
  <2>2. \A t \in Entry : FreshThread(t, FALSE) \in ThreadRec
    BY <1>1, FreshThreadLemma
  <2> QED BY <2>1, <2>2 DEF Init, Threads
<1>3. procs \in Procs
  <2>1. PICK draw \in [Entry -> UNION {Draws(e) : e \in Entry}] :
          /\ \A e \in Entry : draw[e] \in Draws(e)
          /\ procs = [p \in Pid |-> IF p \in Entry
                                    THEN [FreshProc(NoProc, p) EXCEPT !.crash = draw[p][1],
                                                                      !.shutdown = draw[p][2]]
                                    ELSE NoProcRec]
    BY DEF Init
  <2>2. ASSUME NEW p \in Entry
        PROVE  [FreshProc(NoProc, p) EXCEPT !.crash = draw[p][1], !.shutdown = draw[p][2]]
                 \in ProcRec
    <3>1. FreshProc(NoProc, p) \in ProcRec
      BY FreshProcLemma
    <3>2. draw[p] \in CrashTimes(FreshProc(NoProc, p), 0) \X ShutdownTimes(FreshProc(NoProc, p), 0)
      BY <2>1 DEF Draws
    <3>3. draw[p][1] \in Time /\ draw[p][2] \in Time
      BY <3>1, <3>2, DrawLemma
    <3> QED BY <3>1, <3>3 DEF ProcRec
  <2>3. NoProcRec \in ProcRec
    <3>1. FreshProc(NoProc, 0) \in ProcRec
      BY FreshProcLemma
    <3> QED BY <3>1 DEF NoProcRec, ProcRec
  <2>4. \A p \in Pid :
          (IF p \in Entry THEN [FreshProc(NoProc, p) EXCEPT !.crash = draw[p][1], !.shutdown = draw[p][2]]
           ELSE NoProcRec) \in ProcRec
    BY <2>2, <2>3
  <2> QED BY <2>1, <2>4, Zenon DEF Procs
<1>4. run \in RunRec
  <2>1. NEntries \in 0..MaxThreads /\ NEntries \in 0..MaxProcs
    BY SizesAssumption
  <2>2. StopAfter \in Time
    BY InputsAssumption
  <2>3. PICK calls \in Programs :
          run = [ current |-> NoThread, nthreads |-> NEntries, nprocs |-> NEntries,
                  stopIn |-> StopAfter, stopped |-> FALSE, unsignalled |-> FALSE,
                  calls |-> calls, target |-> NoProc ]
    BY DEF Init
  <2> QED BY <2>1, <2>2, <2>3 DEF RunRec
<1>5. pick \in [ phase: {"none", "tick", "faults"}, by: {"nobody", "guest", "launcher", "start"},
                 me: Tid \cup {NoThread}, add: Nat ]
  BY DEF Init, NoPick
<1>6. pc \in [Tid -> Pcs]
  BY DEF Init, Pcs
<1>7. real \in RealType /\ launcher \in LauncherType
  BY DEF Init, RealType, LauncherType
<1> QED
  BY <1>2, <1>3, <1>4, <1>5, <1>6, <1>7 DEF TypeOK, Threads, Procs, RealType, LauncherType

\* Nobody runs when the run starts (supervise), and only entries have
\* processes and threads.
LEMMA InitSafe == ASSUME Init PROVE Safe
<1>1. Entry \subseteq Pid /\ Entry \subseteq Tid /\ NEntries \in Nat
  BY SizesAssumption DEF Entry, Pid, Tid
<1>2. \A t \in Tid :
        /\ threads[t] = IF t \in Entry THEN FreshThread(t, FALSE) ELSE NoThreadRec
        /\ pc[t] = IF t \in Entry THEN "boot" ELSE "none"
  BY DEF Init
<1>3. /\ \A t \in Entry : FreshThread(t, FALSE).state = "runnable" /\ FreshThread(t, FALSE).pid = t
      /\ NoThreadRec.state = "unused" /\ NoThreadRec.pid = NoProc
  BY DEF FreshThread, NoThreadRec
<1>4. \A p \in Pid :
        /\ procs[p].state = IF p \in Entry THEN "starting" ELSE "unused"
        /\ ~procs[p].killed /\ ~procs[p].signalled /\ procs[p].replacedBy = NoProc
  <2>1. PICK draw \in [Entry -> UNION {Draws(e) : e \in Entry}] :
          procs = [p \in Pid |-> IF p \in Entry
                                 THEN [FreshProc(NoProc, p) EXCEPT !.crash = draw[p][1],
                                                                   !.shutdown = draw[p][2]]
                                 ELSE NoProcRec]
    BY DEF Init
  <2>2. \A rec, c, s : rec \in ProcRec =>
          /\ [rec EXCEPT !.crash = c, !.shutdown = s].state = rec.state
          /\ [rec EXCEPT !.crash = c, !.shutdown = s].killed = rec.killed
    BY DEF ProcRec
  <2>3. \A rec, c, s : rec \in ProcRec =>
          /\ [rec EXCEPT !.crash = c, !.shutdown = s].signalled = rec.signalled
          /\ [rec EXCEPT !.crash = c, !.shutdown = s].replacedBy = rec.replacedBy
    BY DEF ProcRec
  <2>4. \A p \in Entry \cup {0} :
          /\ FreshProc(NoProc, p) \in ProcRec /\ FreshProc(NoProc, p).state = "starting"
          /\ ~FreshProc(NoProc, p).killed /\ ~FreshProc(NoProc, p).signalled
          /\ FreshProc(NoProc, p).replacedBy = NoProc
    BY FreshProcLemma
  <2>5. /\ NoProcRec.state = "unused" /\ ~NoProcRec.killed /\ ~NoProcRec.signalled
        /\ NoProcRec.replacedBy = NoProc
    BY <2>4 DEF NoProcRec, ProcRec
  <2> SUFFICES ASSUME NEW p \in Pid
               PROVE  /\ procs[p].state = IF p \in Entry THEN "starting" ELSE "unused"
                      /\ ~procs[p].killed /\ ~procs[p].signalled /\ procs[p].replacedBy = NoProc
    OBVIOUS
  <2>6. CASE p \in Entry
    <3>1. procs[p] = [FreshProc(NoProc, p) EXCEPT !.crash = draw[p][1], !.shutdown = draw[p][2]]
      BY <2>1, <2>6
    <3> QED BY <3>1, <2>2, <2>3, <2>4, <2>6
  <2>7. CASE p \notin Entry
    BY <2>1, <2>5, <2>7
  <2> QED BY <2>6, <2>7
<1>5. /\ run.current = NoThread /\ run.nthreads = NEntries /\ run.nprocs = NEntries
      /\ pick.phase = "none" /\ pick.by = "nobody"
      /\ launcher.at = "booting" /\ ~launcher.started
  <2>1. run.current = NoThread /\ run.nthreads = NEntries /\ run.nprocs = NEntries
    <3>1. PICK calls \in Programs :
            run = [current |-> NoThread, nthreads |-> NEntries, nprocs |-> NEntries,
                   stopIn |-> StopAfter, stopped |-> FALSE, unsignalled |-> FALSE,
                   calls |-> calls, target |-> NoProc]
      BY DEF Init
    <3> QED BY <3>1
  <2>2. /\ pick.phase = "none" /\ pick.by = "nobody"
        /\ launcher.at = "booting" /\ ~launcher.started
    BY DEF Init, NoPick
  <2> QED BY <2>1, <2>2
<1>6. \A p \in Pid : real[p] # "none" => p \in Entry
  BY DEF Init
<1>7. Placed
  <2>1. \A t \in Tid :
         /\ pc[t] # "none" => threads[t].state # "unused"
         /\ threads[t].state # "unused" => t <= run.nthreads /\ threads[t].pid \in 1..run.nprocs
         /\ threads[t].state = "unused" => threads[t].pid = NoProc
    <3> SUFFICES ASSUME NEW t \in Tid
                 PROVE  /\ pc[t] # "none" => threads[t].state # "unused"
                        /\ threads[t].state # "unused" => t <= run.nthreads /\ threads[t].pid \in 1..run.nprocs
                        /\ threads[t].state = "unused" => threads[t].pid = NoProc
      OBVIOUS
    <3>1. CASE t \in Entry
      <4>1. threads[t].state = "runnable" /\ threads[t].pid = t
        BY <1>2, <1>3, <3>1
      <4>2. t <= run.nthreads /\ t \in 1..run.nprocs
        BY <1>1, <1>5, <3>1 DEF Entry
      <4> QED BY <4>1, <4>2
    <3>2. CASE t \notin Entry
      <4>1. threads[t].state = "unused" /\ threads[t].pid = NoProc
        BY <1>2, <1>3, <3>2
      <4>2. pc[t] = "none"
        BY <1>2, <3>2
      <4> QED BY <4>1, <4>2
    <3> QED BY <3>1, <3>2
  <2>2. \A p \in Pid : (real[p] # "none" => p <= run.nprocs) /\ procs[p].replacedBy \in 0..run.nprocs
    BY <1>1, <1>4, <1>5, <1>6 DEF Entry, NoProc
  <2> QED BY <2>1, <2>2 DEF Placed
<1>8. \A t \in Tid : ~Active(t) /\ ~Inside(t) /\ pc[t] # "polling" /\ threads[t].state # "running"
  BY <1>2, <1>3 DEF Active, Inside
<1>9. Tenants /\ PollersIdle /\ OneHolder /\ OneRunning
  BY <1>8 DEF Tenants, PollersIdle, OneHolder, OneRunning
<1>10. OnlyCrashedSignalled /\ HandingOver /\ Launching
  BY <1>4, <1>5 DEF OnlyCrashedSignalled, HandingOver, Launching
<1>11. ScheduleIsAlive
  <2> SUFFICES ASSUME NEW t \in Tid,
                      threads[t].state \in {"runnable", "running", "blocked"}
               PROVE  procs[Owner(t)].state \in {"starting", "live"} /\ ~procs[Owner(t)].killed
    BY DEF ScheduleIsAlive, Alive
  <2>1. t \in Entry
    BY <1>2, <1>3
  <2>2. Owner(t) = t
    BY <1>2, <1>3, <2>1 DEF Owner
  <2>3. t \in Pid
    BY <1>1, <2>1
  <2> QED BY <1>4, <2>1, <2>2, <2>3
<1> QED
  BY <1>7, <1>9, <1>10, <1>11 DEF Safe

\* A step that changes nothing
LEMMA StutterStep == ASSUME IInv, UNCHANGED vars PROVE Base'
<1>1. TypeOK'
  BY DEF vars, IInv, Base, TypeOK
<1>2. Placed' /\ Tenants' /\ OnlyCrashedSignalled' /\ PollersIdle'
  BY DEF vars, IInv, Base, Safe, Placed, Tenants, OnlyCrashedSignalled, PollersIdle, Active
<1>3. HandingOver' /\ Launching'
  BY DEF vars, IInv, Base, Safe, HandingOver, Launching, Active, Inside
<1>4. OneHolder' /\ OneRunning' /\ ScheduleIsAlive'
  BY DEF vars, IInv, Base, Safe, OneHolder, OneRunning, ScheduleIsAlive, Owner, Inside
<1> QED
  BY <1>1, <1>2, <1>3, <1>4 DEF IInv, Base, Safe

\* Every action keeps types and safety: one step of the proof per action.
LEMMA BaseStep == ASSUME IInv, [Next]_vars PROVE Base'
<1>1. CASE PickStep
  BY <1>1, TickStep, InjectCrashStep, InjectShutdownStep, JumpStep, IdleGuestStep,
     IdleLauncherStep, ChooseStep DEF PickStep
<1>2. ASSUME NEW t \in Tid, Return(t) PROVE Base'
  BY <1>2, DieStoppedStep, TakeUpStep, SettleDeathsStep, WaitpidStep, CheckChildrenStep,
     BlockOnChildrenStep, PollStep, PollGivesUpStep, KillStep, SignalStep DEF Return
<1>3. ASSUME NEW t \in Tid, Guest(t) PROVE Base'
  BY <1>3, YieldStep, BlockStep, WakeStep, CreateThreadStep, ExhaustStep, ExitThreadStep,
     ExitProcessStep, ReadClockStep, SetTimerStep, SpawnChildStep, WaitpidStep, AimStep DEF Guest
<1>4. CASE Aside
  BY <1>4, LeaveStep, OutsideWakeStep, SlainStep, AttachStep, FailToAttachStep DEF Aside
<1>5. CASE LauncherStep
  BY <1>5, StartStep, StartedStep, EndRunStep, BuryStep, RespawnStep, FinishStep,
     NoticeExitStep DEF LauncherStep
<1>6. CASE UNCHANGED vars
  BY <1>6, StutterStep
<1> QED
  BY <1>1, <1>2, <1>3, <1>4, <1>5, <1>6 DEF Next, Over

\* While a thread takes aim it keeps the baton: no hand-off is under way, and
\* nobody else is inside or polls.
LEMMA AimerAlone ==
    ASSUME IInv, NEW t \in Tid, pc[t] = "killing"
    PROVE  /\ run.current = t /\ pick.phase = "none" /\ launcher.started
           /\ threads[t].state = "running"
           /\ \A u \in Tid : u # t => ~Inside(u) /\ pc[u] # "polling" /\ ~MayTakeUp(u)
           /\ ~MayTakeUp(t) /\ run.nprocs \in Nat
<1>1. Inside(t)
  BY DEF Inside
<1>2. run.current = t /\ threads[t].state = "running"
  BY <1>1 DEF IInv, Base, Safe, OneHolder
<1>3. pick.phase = "none"
  BY <1>1 DEF IInv, Base, Safe, HandingOver
<1>4. launcher.started
  BY <1>2 DEF IInv, Base, Safe, Launching, Tid, NoThread
<1> QED
  BY <1>1, <1>2, <1>3, <1>4, Basics DEF IInv, Base, Safe, OneHolder, PollersIdle, MayTakeUp, RunRec

\* Only the first half of my_kill takes aim.
LEMMA NewAim ==
    ASSUME IInv, [Next]_vars, NEW t \in Tid, pc[t] # "killing", pc'[t] = "killing"
    PROVE  \E q \in Pid : Aim(t, q)
<1>0. pc \in [Tid -> Pcs]
  BY Basics
<1>1. ~PickStep
  <2>1. AfterHandOff(Released)[t] # "killing"
    BY <1>0 DEF AfterHandOff
  <2>2. ~(Tick \/ InjectCrash \/ InjectShutdown \/ Jump)
    BY DEF Tick, InjectCrash, InjectShutdown, Jump
  <2>3. ASSUME NEW u \in Tid PROVE ~Choose(u)
    BY <2>1 DEF Choose
  <2>4. ~IdleGuest
    <3> SUFFICES ASSUME IdleGuest PROVE FALSE
      OBVIOUS
    <3>1. PICK pcs, S : /\ pc' = ThreadsGone(pcs, S)
                        /\ pcs = [pc EXCEPT ![pick.me] = "polling"] \/ pcs = AfterHandOff(Released)
      BY DEF IdleGuest
    <3> QED BY <1>0, <2>1, <3>1 DEF ThreadsGone
  <2>5. ~IdleLauncher
    BY DEF IdleLauncher, ThreadsGone
  <2> QED BY <2>2, <2>3, <2>4, <2>5 DEF PickStep
<1>2. ASSUME NEW u \in Tid PROVE ~Return(u)
  <2>1. ~(DieStopped(u) \/ PollGivesUp(u) \/ Poll(u))
    BY DEF DieStopped, PollGivesUp, Poll, ThreadsGone
  <2>2. ~(SettleDeaths(u) \/ AwaitAttach(u) \/ CheckChildren(u))
    BY <1>0 DEF SettleDeaths, AwaitAttach, CheckChildren, Goes
  <2>3. ~TakeUp(u)
    BY <1>0 DEF TakeUp, ThreadsGone, Goes
  <2>4. ~BlockOnChildren(u)
    BY <1>0 DEF BlockOnChildren, BlockOn, Goes
  <2>5. \A q \in Pid : ~Kill(u, q) /\ ~Signal(u, q)
    BY <1>0 DEF Kill, Signal, Goes
  <2> QED BY <2>1, <2>2, <2>3, <2>4, <2>5 DEF Return
<1>3. ASSUME NEW u \in Tid, Guest(u) PROVE \E q \in Pid : Aim(t, q)
  <2>1. ~(Wake(u) \/ ReadClock(u) \/ SetTimer(u) \/ ExitProcess(u) \/ Exhaust(u))
    BY DEF Wake, ReadClock, SetTimer, ExitProcess, Exhaust, ThreadsGone
  <2>2. ~(Yield(u) \/ ExitThread(u) \/ Waitpid(u))
    BY <1>0 DEF Yield, ExitThread, Waitpid, Goes
  <2>3. ~Block(u)
    BY <1>0 DEF Block, BlockOn, Goes
  <2>4. ~CreateThread(u)
    BY <1>0 DEF CreateThread
  <2>5. ~SpawnChild(u)
    BY <1>0 DEF SpawnChild
  <2>6. PICK q \in Pid : Aim(u, q)
    BY <1>3, <2>1, <2>2, <2>3, <2>4, <2>5 DEF Guest
  <2>7. u = t
    BY <1>0, <2>6 DEF Aim, Goes
  <2> QED BY <2>6, <2>7
<1>4. ~Aside
  BY <1>0 DEF Aside, Leave, OutsideWake, Slain, Attach, FailToAttach, ThreadsGone, Goes
<1>5. ~LauncherStep /\ ~UNCHANGED vars
  BY <1>0 DEF LauncherStep, Start, Started, EndRun, Bury, Respawn, Finish, NoticeExit, vars
<1> QED
  BY <1>1, <1>2, <1>3, <1>4, <1>5 DEF Next, Over

\* While a thread takes aim nobody else has the baton: only what goes on off
\* the baton goes on.
LEMMA WhileAiming ==
    ASSUME IInv, [Next]_vars, NEW t \in Tid, pc[t] = "killing", pc'[t] = "killing"
    PROVE  Aside \/ LauncherStep \/ UNCHANGED vars
<1>2. ~PickStep
  <2>1. pick.phase = "none"
    BY AimerAlone
  <2> QED BY <2>1 DEF PickStep, Tick, InjectCrash, InjectShutdown, Jump, IdleGuest, IdleLauncher,
                      Idle, Choose, FaultsDone
<1>3. ASSUME NEW u \in Tid PROVE ~Return(u)
  <2>1. u # t \/ u = t
    OBVIOUS
  <2>2. pc[u] \notin {"parked", "settling", "awaiting", "checking", "blocking", "polling"} \/ ~MayTakeUp(u)
    BY AimerAlone
  <2>3. ~(DieStopped(u) \/ TakeUp(u))
    BY AimerAlone DEF DieStopped, TakeUp
  <2>4. pc[u] \notin {"settling", "awaiting", "checking", "blocking", "polling"}
    BY AimerAlone DEF Inside
  <2>5. ASSUME NEW r \in Pid, Kill(u, r) \/ Signal(u, r) PROVE FALSE
    <3>1. u = t
      BY <2>5, AimerAlone DEF Kill, Signal, Strikes, Inside
    <3>2. pc'[t] # "killing"
      BY <2>5, <3>1, Basics DEF Kill, Signal, Goes
    <3> QED BY <3>2
  <2> QED BY <2>3, <2>4, <2>5 DEF Return, SettleDeaths, AwaitAttach, CheckChildren,
                                  BlockOnChildren, Poll, PollGivesUp
<1>4. ASSUME NEW u \in Tid PROVE ~Guest(u)
  <2>1. pc[u] # "guest"
    BY AimerAlone DEF Inside
  <2> QED BY <2>1 DEF Guest, Yield, Block, Wake, CreateThread, Exhaust, ExitThread, ExitProcess,
                      ReadClock, SetTimer, SpawnChild, Waitpid, Aim, Runs
<1> QED
  BY <1>2, <1>3, <1>4 DEF Next, Over

\* The target of a thread that takes aim may be buried meanwhile
\* (process_died), or attach (join_run), and is nevertheless not crashed.
LEMMA AimKept ==
    ASSUME IInv, [Next]_vars, NEW t \in Tid, pc[t] = "killing", pc'[t] = "killing"
    PROVE  /\ run'.target = run.target /\ Owner(t)' = Owner(t)
           /\ procs'[run.target].state # "unused" /\ ~procs'[run.target].killed
<1> DEFINE q == run.target
<1>0. /\ q \in Pid /\ q # Owner(t)
      /\ procs[q].state # "unused" /\ ~procs[q].killed
  BY DEF IInv, Aimed
<1>1. /\ threads \in Threads /\ procs \in Procs /\ run \in RunRec /\ procs[q] \in ProcRec
      /\ threads[t].state # "unused" /\ t <= run.nthreads /\ run.nprocs \in Nat /\ run.nthreads \in Nat
  BY <1>0, Basics DEF IInv, Base, Safe, Placed, Procs, RunRec
<1>5. CASE Aside
  <2>1. UNCHANGED run
    BY <1>5 DEF Aside, Leave, OutsideWake, Slain, Attach, FailToAttach
  <2>2. Owner(t)' = Owner(t)
    <3>1. CASE UNCHANGED threads
      BY <3>1 DEF Owner
    <3>2. CASE ~UNCHANGED threads
      <4>1. PICK p \in Pid : OutsideWake(p)
        BY <1>5, <3>2 DEF Aside, Leave, Slain, Attach, FailToAttach
      <4>2. PICK W : threads' = [x \in Tid |->
               [Ready(threads, W)[x] EXCEPT !.stale = @ \/ x \in ThreadsOf(threads, p)]]
        BY <4>1 DEF OutsideWake
      <4>3. Ready(threads, W)[t] \in ThreadRec /\ Ready(threads, W)[t].pid = threads[t].pid
        BY <1>1, ReadyLemma DEF Threads
      <4> QED BY <4>2, <4>3 DEF Owner, ThreadRec
    <3> QED BY <3>1, <3>2
  <2>3. procs'[q].state # "unused" /\ ~procs'[q].killed
    <3>1. CASE UNCHANGED procs
      BY <1>0, <3>1
    <3>2. CASE \E p \in Pid : OutsideWake(p)
      BY <1>0, <1>1, <3>2 DEF OutsideWake, Procs, ProcRec
    <3>3. CASE \E p \in Pid : Attach(p)
      BY <1>0, <1>1, <3>3 DEF Attach, Procs, ProcRec
    <3> QED BY <1>5, <3>1, <3>2, <3>3 DEF Aside, Leave, Slain, FailToAttach
  <2> QED BY <1>1, <2>1, <2>2, <2>3
<1>6. CASE Bury
  <2> DEFINE p   == launcher.proc
             one == [procs[p] EXCEPT !.state = "exited"]
             pr1 == [procs EXCEPT ![p] = one]
             two == Unscheduled(one)
             pr2 == [pr1 EXCEPT ![p] = two]
             th1 == Retire(threads, p)
             th2 == Ready(th1, WokenByDeath(th1, procs, p))
  <2>1. p \in Pid /\ procs[p] \in ProcRec
    BY <1>1, <1>6 DEF Bury, IInv, Base, Safe, Launching, Procs
  <2>2. \/ threads' = th1 /\ procs' = pr1 /\ UNCHANGED run
        \/ RegisterRestart(th2, pr2, run, p, launcher.failed)
    <3>1. [pr1 EXCEPT ![p] = Unscheduled(@)] = pr2
      BY <1>1, <2>1 DEF Procs
    <3> QED BY <1>6, <3>1 DEF Bury
  <2>3. one \in ProcRec /\ one.state = "exited" /\ one.killed = procs[p].killed
    BY <2>1 DEF ProcRec
  <2> HIDE DEF one
  <2>4. two \in ProcRec /\ two.state = "exited" /\ two.killed = procs[p].killed
    BY <2>3, UnscheduledLemma
  <2> HIDE DEF two
  <2>5. /\ th1 \in Threads /\ th2 \in Threads /\ th1[t].pid = threads[t].pid
        /\ th2[t].pid = threads[t].pid
    BY <1>1, RetireLemma, ReadyLemma
  <2>6. /\ pr1 \in Procs /\ pr2 \in Procs
        /\ pr1[q].state # "unused" /\ ~pr1[q].killed
        /\ pr2[q].state # "unused" /\ ~pr2[q].killed
    BY <1>0, <1>1, <2>1, <2>3, <2>4 DEF Procs
  <2> HIDE DEF th1, th2, pr1, pr2
  <2>7. CASE threads' = th1 /\ procs' = pr1 /\ UNCHANGED run
    BY <1>1, <2>5, <2>6, <2>7 DEF Owner
  <2>8. CASE RegisterRestart(th2, pr2, run, p, launcher.failed)
    <3>1. Registered(th2, pr2, run)
      BY <1>1, <2>1, <2>5, <2>6, <2>8, RegisterRestartLemma
    <3>2. run'.target = run.target
      BY <1>1, <2>8 DEF RegisterRestart, RunRec
    <3>3. ~(t > run.nthreads)
      BY <1>0, <1>1 DEF Tid, Pid
    <3> QED BY <1>0, <2>5, <2>6, <3>1, <3>2, <3>3 DEF Registered, Owner
  <2> QED BY <2>2, <2>7, <2>8
<1>7. CASE Respawn
  <2>1. run'.target = run.target /\ UNCHANGED threads
    BY <1>1, <1>7 DEF Respawn, RunRec
  <2>2. procs' = Signalled(procs, Condemned(procs, run))
    BY <1>7 DEF Respawn
  <2> QED BY <1>0, <1>1, <2>1, <2>2, SignalledLemma DEF Owner
<1>8. CASE Start \/ Started \/ EndRun \/ Finish \/ (\E p \in Pid : NoticeExit(p)) \/ UNCHANGED vars
  <2>1. UNCHANGED <<threads, procs>>
    BY <1>8 DEF Start, Started, EndRun, Finish, NoticeExit, vars
  <2>2. run'.target = run.target
    BY <1>1, <1>8 DEF Start, Started, EndRun, Finish, NoticeExit, vars, StopNow, RunRec
  <2> QED BY <1>0, <1>1, <2>1, <2>2 DEF Owner
<1> QED
  BY <1>5, <1>6, <1>7, <1>8, WhileAiming DEF LauncherStep

\* my_kill looks before it strikes, and what it looked at keeps.
LEMMA AimedStep == ASSUME IInv, [Next]_vars PROVE Aimed'
<1> SUFFICES ASSUME NEW t \in Tid, pc'[t] = "killing"
             PROVE  /\ run'.target \in Pid /\ run'.target # Owner(t)'
                    /\ procs'[run'.target].state # "unused" /\ ~procs'[run'.target].killed
  BY DEF Aimed
<1>1. CASE pc[t] = "killing"
  <2>1. /\ run'.target = run.target /\ Owner(t)' = Owner(t)
        /\ procs'[run.target].state # "unused" /\ ~procs'[run.target].killed
    BY <1>1, AimKept
  <2> QED BY <1>1, <2>1 DEF IInv, Aimed
<1>2. CASE pc[t] # "killing"
  <2>1. PICK q \in Pid : Aim(t, q)
    BY <1>2, NewAim
  <2>2. run' = [run EXCEPT !.target = q] /\ UNCHANGED <<threads, procs>>
        /\ Alive(procs, q) /\ q # Owner(t)
    BY <2>1 DEF Aim
  <2>3. run'.target = q
    BY <2>2, Basics DEF RunRec
  <2> QED BY <2>2, <2>3 DEF Alive, Owner
<1> QED
  BY <1>1, <1>2

\* IInv is inductive.
LEMMA NextStep == ASSUME IInv, [Next]_vars PROVE IInv'
BY BaseStep, AimedStep DEF IInv

----------------------------------------------------------------------------
(***************************************************************************)
(* What holds in every run.                                                *)
(***************************************************************************)

\* The tables, the clocks and the launcher keep their types whatever the run
\* file, the program and the world do (MAX_PROCS and MAX_THREADS are never
\* exceeded: add_proc, add_thread and has_room see to it), and the
\* invariant that the properties rest on holds.
THEOREM Invariance == Spec => []IInv
<1>1. Init => IInv
  <2> SUFFICES ASSUME Init PROVE IInv
    OBVIOUS
  <2>1. \A t \in Tid : pc[t] # "killing"
    BY DEF Init
  <2>2. PICK calls \in Programs :
          run = [ current |-> NoThread, nthreads |-> NEntries, nprocs |-> NEntries,
                  stopIn |-> StopAfter, stopped |-> FALSE, unsignalled |-> FALSE, calls |-> calls,
                  target |-> NoProc ]
    BY Zenon DEF Init
  <2>3. Aimed
    BY <2>1, <2>2 DEF Aimed
  <2> QED BY <2>3, InitType, InitSafe DEF IInv, Base
<1>2. IInv /\ [Next]_vars => IInv'
  BY NextStep
<1> QED
  BY <1>1, <1>2, PTL DEF Spec

\* Every field of State stays what its type says.
THEOREM TypeCorrect == Spec => []TypeOK
BY Invariance, PTL DEF IInv, Base

\* There is one baton: at most one thread of all processes executes the
\* program, it is the one `current' names, and no thread of a process that
\* was crashed or has not attached is ever let in (hand_off, take_up_baton,
\* crash).
THEOREM OneBaton == Spec => []OneHolder
BY Invariance, PTL DEF IInv, Base, Safe

\* The table marks no thread as running but the last one that was chosen.
THEOREM RunningIsCurrent == Spec => []OneRunning
BY Invariance, PTL DEF IInv, Base, Safe

\* No wake, deadline, timer, stop or restart brings a thread of a crashed or
\* buried process back into the schedule (crash, process_died, stop_run).
THEOREM DeadStayDead == Spec => []ScheduleIsAlive
BY Invariance, PTL DEF IInv, Base, Safe

----------------------------------------------------------------------------
(***************************************************************************)
(* What the operators on the tables keep of a process.                     *)
(***************************************************************************)

\* What makes a life: who it is, how far it has come and who comes after it
SameCore(rec, rec2) ==
    /\ rec2.spec = rec.spec /\ rec2.parent = rec.parent /\ rec2.state = rec.state
    /\ rec2.killed = rec.killed /\ rec2.replacedBy = rec.replacedBy
    /\ rec2.reaped = rec.reaped /\ rec2.known = rec.known
    /\ rec.signalled => rec2.signalled

\* The same, and the marks a hand-off and a take-up look at
SameLife(rec, rec2) ==
    /\ SameCore(rec, rec2)
    /\ rec2.unsettled = rec.unsettled /\ rec2.stopped = rec.stopped
    /\ rec2.exiting = rec.exiting

\* Tables that tell the same of every process
Steady(pr, pr2) == \A p \in Pid : SameLife(pr[p], pr2[p])

\* The clock moves no more than dates (hand_off, clock_read).
LEMMA ProcsLaterSteady == ASSUME NEW pr \in Procs, NEW d PROVE Steady(pr, ProcsLater(pr, d))
<1>1. ASSUME NEW rec \in ProcRec, NEW a, NEW b, NEW c, NEW e
      PROVE  SameLife(rec, [rec EXCEPT !.crash = a, !.shutdown = b, !.kill = c, !.alarm = e])
  BY DEF ProcRec, SameLife, SameCore
<1>2. ASSUME NEW p \in Pid PROVE SameLife(pr[p], ProcsLater(pr, d)[p])
  <2>1. pr[p] \in ProcRec
    BY DEF Procs
  <2>2. ProcsLater(pr, d)[p] =
          [pr[p] EXCEPT !.crash = Later(pr[p].crash, d), !.shutdown = Later(pr[p].shutdown, d),
                        !.kill = Later(pr[p].kill, d), !.alarm = Later(pr[p].alarm, d)]
    BY Zenon DEF ProcsLater
  <2>3. SameLife(pr[p],
          [pr[p] EXCEPT !.crash = Later(pr[p].crash, d), !.shutdown = Later(pr[p].shutdown, d),
                        !.kill = Later(pr[p].kill, d), !.alarm = Later(pr[p].alarm, d)])
    BY <1>1, <2>1, Zenon
  <2> QED BY <2>2, <2>3, Zenon
<1> QED BY <1>2 DEF Steady

\* A timer that rings (fire_alarms) moves no more than itself.
LEMMA RungSteady == ASSUME procs \in Procs PROVE Steady(procs, Rung)
<1>1. ASSUME NEW rec \in ProcRec, NEW a, NEW b
      PROVE  SameLife(rec, [rec EXCEPT !.pending = b, !.alarm = a])
  BY DEF ProcRec, SameLife, SameCore
<1>2. ASSUME NEW p \in Pid PROVE SameLife(procs[p], Rung[p])
  <2>1. procs[p] \in ProcRec
    BY DEF Procs
  <2>2. CASE p \in Ringing
    <3> DEFINE a == IF procs[p].interval = 0 THEN NoTime ELSE procs[p].interval
    <3>1. Rung[p] = [procs[p] EXCEPT !.pending = TRUE, !.alarm = a]
      BY <2>2, Zenon DEF Rung
    <3>2. SameLife(procs[p], [procs[p] EXCEPT !.pending = TRUE, !.alarm = a])
      BY <1>1, <2>1, Zenon
    <3> QED BY <3>1, <3>2, Zenon
  <2>3. CASE p \notin Ringing
    <3>1. Rung[p] = procs[p]
      BY <2>3, Zenon DEF Rung
    <3> QED BY <3>1 DEF SameLife, SameCore
  <2> QED BY <2>2, <2>3
<1> QED BY <1>2 DEF Steady

\* A SIGKILL that is sent (take_kills) is noted, and nothing else is.
LEMMA SignalledSteady == ASSUME NEW pr \in Procs, NEW S PROVE Steady(pr, Signalled(pr, S))
<1>1. ASSUME NEW rec \in ProcRec PROVE SameLife(rec, [rec EXCEPT !.signalled = TRUE])
  BY DEF ProcRec, SameLife, SameCore
<1>2. ASSUME NEW p \in Pid PROVE SameLife(pr[p], Signalled(pr, S)[p])
  <2>1. pr[p] \in ProcRec
    BY DEF Procs
  <2>2. Signalled(pr, S)[p] = pr[p] \/ Signalled(pr, S)[p] = [pr[p] EXCEPT !.signalled = TRUE]
    BY DEF Signalled
  <2>3. SameLife(pr[p], pr[p])
    BY DEF SameLife, SameCore
  <2> QED BY <1>1, <2>1, <2>2, <2>3
<1> QED BY <1>2 DEF Steady

\* One change may follow another.
LEMMA SteadyTransitive ==
    ASSUME NEW a, NEW b, NEW c, Steady(a, b), Steady(b, c) PROVE Steady(a, c)
BY DEF Steady, SameLife, SameCore

\* No change is one of them.
LEMMA SteadyReflexive == \A pr : Steady(pr, pr)
BY DEF Steady, SameLife, SameCore

\* Most steps tell nothing new of any process.
LEMMA SteadySteps ==
    ASSUME IInv
    PROVE  /\ UNCHANGED procs => Steady(procs, procs')
           /\ Jump => Steady(procs, procs')
           /\ IdleGuest => Steady(procs, procs')
           /\ IdleLauncher => Steady(procs, procs')
           /\ \A t \in Tid : Choose(t) \/ ReadClock(t) \/ SetTimer(t) => Steady(procs, procs')
           /\ \A t \in Tid, q \in Pid : Signal(t, q) => Steady(procs, procs')
           /\ \A p \in Pid : OutsideWake(p) => Steady(procs, procs')
           /\ Respawn => Steady(procs, procs')
<1>1. procs \in Procs /\ Rung \in Procs
  BY Basics, RungLemma DEF Alike
<1>2. Steady(procs, procs) /\ Steady(procs, Rung)
  BY <1>1, SteadyReflexive, RungSteady
<1>3. \A S : Steady(procs, Signalled(Rung, S))
  BY <1>1, <1>2, SignalledSteady, SteadyTransitive
<1>4. ASSUME NEW rec \in ProcRec, NEW a, NEW b
      PROVE  /\ SameLife(rec, [rec EXCEPT !.alarm = a, !.interval = b])
             /\ SameLife(rec, [rec EXCEPT !.outside = a])
             /\ SameLife(rec, [rec EXCEPT !.pending = a])
  BY DEF ProcRec, SameLife, SameCore
<1>5. ASSUME NEW pr \in Procs, NEW p, NEW rec, p \in Pid => SameLife(pr[p], rec)
      PROVE  Steady(pr, [pr EXCEPT ![p] = rec])
  <2>1. \A q \in Pid : [pr EXCEPT ![p] = rec][q] = IF q = p THEN rec ELSE pr[q]
    BY DEF Procs
  <2>2. \A q \in Pid : SameLife(pr[q], pr[q])
    BY DEF SameLife, SameCore
  <2> QED BY <1>5, <2>1, <2>2 DEF Steady
<1>6. KillsSent(Rung) => Steady(procs, procs')
  BY <1>2, <1>3 DEF KillsSent
<1>7. Jump => Steady(procs, procs')
  BY <1>2 DEF Jump
<1>8. ASSUME IdleGuest PROVE Steady(procs, procs')
  <2> DEFINE own == Owner(pick.me)
             K   == Condemned(Rung, run)
             stuck == Released[pick.me].state # "exited" \/ AnyAlive(Released)
  <2>0. PICK gcd \in BOOLEAN : procs' = [Signalled(Rung, K) EXCEPT ![own].outside =
                                           @ \/ (gcd /\ ~Rung[own].killed /\ stuck)]
    BY <1>8, Zenon DEF IdleGuest
  <2>1. PICK b : procs' = [Signalled(Rung, K) EXCEPT ![own].outside = b]
    BY <2>0, Zenon
  <2>2. Signalled(Rung, K) \in Procs
    BY <1>1, SignalledLemma
  <2> DEFINE pr  == Signalled(Rung, K)
             rec == [pr[own] EXCEPT !.outside = b]
  <2>3. procs' = [pr EXCEPT ![own] = rec]
    BY <2>1
  <2>4. own \in Pid => SameLife(pr[own], rec)
    <3>1. own \in Pid => pr[own] \in ProcRec
      BY <2>2 DEF Procs
    <3> HIDE DEF pr
    <3> QED BY <1>4, <3>1
  <2>5. Steady(procs, pr)
    BY <1>3
  <2> HIDE DEF rec, pr, own
  <2>6. pr \in Procs
    BY <2>2 DEF pr
  <2> QED BY <1>5, <2>3, <2>4, <2>5, <2>6, SteadyTransitive
<1>9. IdleLauncher => Steady(procs, procs')
  BY <1>6 DEF IdleLauncher
<1>10. ASSUME NEW t \in Tid, Choose(t) \/ ReadClock(t) \/ SetTimer(t) PROVE Steady(procs, procs')
  <2>1. CASE Choose(t)
    BY <1>6, <2>1 DEF Choose
  <2>2. CASE ReadClock(t)
    BY <1>1, <2>2, ProcsLaterSteady DEF ReadClock
  <2>3. CASE SetTimer(t)
    <3> DEFINE p == Owner(t)
    <3>1. PICK x \in Timers : procs' = [procs EXCEPT ![p].alarm = x[1], ![p].interval = x[2]]
      BY <2>3 DEF SetTimer
    <3> DEFINE rec == [procs[p] EXCEPT !.alarm = x[1], !.interval = x[2]]
    <3>2. p \in Pid
      BY <2>3, Basics DEF SetTimer, Runs, Owner
    <3>3. procs' = [procs EXCEPT ![p] = rec]
      BY <1>1, <3>1, <3>2 DEF Procs
    <3>4. SameLife(procs[p], rec)
      BY <1>1, <1>4, <3>2 DEF Procs
    <3> HIDE DEF rec, p
    <3> QED BY <1>1, <1>5, <3>3, <3>4
  <2> QED BY <1>10, <2>1, <2>2, <2>3
<1>11. ASSUME NEW t \in Tid, NEW q \in Pid, Signal(t, q) PROVE Steady(procs, procs')
  <2>1. procs' = [procs EXCEPT ![q] = [procs[q] EXCEPT !.pending = TRUE]]
    BY <1>11 DEF Signal
  <2>2. SameLife(procs[q], [procs[q] EXCEPT !.pending = TRUE])
    BY <1>1, <1>4 DEF Procs
  <2> QED BY <1>1, <1>5, <2>1, <2>2
<1>12. ASSUME NEW p \in Pid, OutsideWake(p) PROVE Steady(procs, procs')
  <2>1. procs' = [procs EXCEPT ![p] = [procs[p] EXCEPT !.outside = TRUE]]
    BY <1>12 DEF OutsideWake
  <2>2. SameLife(procs[p], [procs[p] EXCEPT !.outside = TRUE])
    BY <1>1, <1>4 DEF Procs
  <2> QED BY <1>1, <1>5, <2>1, <2>2
<1>13. Respawn => Steady(procs, procs')
  BY <1>1, SignalledSteady DEF Respawn
<1> QED
  BY <1>2, <1>7, <1>8, <1>9, <1>10, <1>11, <1>12, <1>13

----------------------------------------------------------------------------
(***************************************************************************)
(* A death, and the life that may follow it.                               *)
(***************************************************************************)

\* A life that nothing has happened to
Newborn(rec, par, e) ==
    /\ rec.spec = e /\ rec.parent = par /\ rec.state = "starting"
    /\ ~rec.killed /\ rec.replacedBy = NoProc /\ ~rec.reaped
    /\ ~rec.unsettled /\ ~rec.stopped /\ rec.exiting = NoThread
    /\ ~rec.signalled

\* What register_restart makes of the tables it is given: what they were, or
\* a new life with a thread that sleeps until its delay is over.
Succeeded(th, pr, rn, v, failed) ==
    \/ threads' = th /\ procs' = pr /\ run' = rn
    \/ /\ RestartDue(pr, v, failed) /\ pr[v].replacedBy = NoProc
       /\ rn.nprocs + 1 \in Pid /\ rn.nthreads + 1 \in Tid
       /\ run' = [rn EXCEPT !.nprocs = rn.nprocs + 1, !.nthreads = rn.nthreads + 1]
       /\ \A p \in Pid :
            IF p = rn.nprocs + 1 THEN Newborn(procs'[p], NoProc, pr[v].spec) /\ ~procs'[p].known
            ELSE procs'[p] = IF p = v THEN [pr[p] EXCEPT !.replacedBy = rn.nprocs + 1] ELSE pr[p]
       /\ \A t \in Tid :
            IF t = rn.nthreads + 1
            THEN /\ threads'[t].state = "blocked" /\ threads'[t].key = "restart"
                 /\ threads'[t].pid = rn.nprocs + 1 /\ threads'[t].deadline \in Nat
            ELSE threads'[t] = th[t]

\* A slot as add_proc leaves it
LEMMA FreshNewborn ==
    ASSUME NEW par, NEW e PROVE Newborn(FreshProc(par, e), par, e) /\ ~FreshProc(par, e).known
BY DEF FreshProc, Newborn

\* register_restart does no more and no less.
LEMMA SuccessionLemma ==
    ASSUME NEW th \in Threads, NEW pr \in Procs, NEW rn \in RunRec, NEW v \in Pid, NEW failed,
           run \in RunRec, rn.nprocs = run.nprocs, rn.nthreads = run.nthreads,
           RegisterRestart(th, pr, rn, v, failed)
    PROVE  Succeeded(th, pr, rn, v, failed)
<1>1. CASE threads' = th /\ procs' = pr /\ run' = rn
  BY <1>1 DEF Succeeded
<1>2. CASE /\ pr[v].replacedBy = NoProc /\ RestartDue(pr, v, failed) /\ HasRoom
           /\ ~(threads' = th /\ procs' = pr /\ run' = rn)
  <2> DEFINE e    == pr[v].spec
             new  == rn.nprocs + 1
             main == rn.nthreads + 1
             rec  == [ FreshProc(NoProc, e) EXCEPT
                         !.crashesLeft   = pr[v].crashesLeft,
                         !.shutdownsLeft = pr[v].shutdownsLeft,
                         !.restartsLeft  = Spend(pr[v].restartsLeft) ]
  <2>1. e \in Entry
    BY <1>2 DEF RestartDue, Procs, ProcRec
  <2>2. new \in Pid /\ main \in Tid
    BY <1>2, SizesAssumption DEF HasRoom, RunRec, Pid, Tid
  <2>3. PICK down \in Faults(e).delay :
          \E c \in CrashTimes(rec, AtLeast1(down)), s \in ShutdownTimes(rec, AtLeast1(down)) :
            /\ procs' = [p \in Pid |->
                   IF p = new THEN [rec EXCEPT !.crash = c, !.shutdown = s]
                   ELSE IF p = v THEN [pr[p] EXCEPT !.replacedBy = new]
                   ELSE pr[p]]
            /\ threads' = [th EXCEPT ![main] =
                             [FreshThread(new, FALSE) EXCEPT !.state = "blocked",
                                 !.key = "restart", !.deadline = AtLeast1(down)]]
            /\ run' = [rn EXCEPT !.nprocs = new, !.nthreads = main]
    BY <1>2, Zenon DEF RegisterRestart
  <2>4. PICK c \in CrashTimes(rec, AtLeast1(down)), s \in ShutdownTimes(rec, AtLeast1(down)) :
            /\ procs' = [p \in Pid |->
                   IF p = new THEN [rec EXCEPT !.crash = c, !.shutdown = s]
                   ELSE IF p = v THEN [pr[p] EXCEPT !.replacedBy = new]
                   ELSE pr[p]]
            /\ threads' = [th EXCEPT ![main] =
                             [FreshThread(new, FALSE) EXCEPT !.state = "blocked",
                                 !.key = "restart", !.deadline = AtLeast1(down)]]
            /\ run' = [rn EXCEPT !.nprocs = new, !.nthreads = main]
    BY <2>3
  <2>5. down \in Nat
    BY <2>1, <2>3, FaultsType DEF FaultPlan
  <2> DEFINE life  == [rec EXCEPT !.crash = c, !.shutdown = s]
             first == [FreshThread(new, FALSE) EXCEPT !.state = "blocked",
                         !.key = "restart", !.deadline = AtLeast1(down)]
             old   == [pr[v] EXCEPT !.replacedBy = new]
  <2>6. Newborn(life, NoProc, e) /\ ~life.known
    BY DEF FreshProc, Newborn
  <2>7. /\ first.state = "blocked" /\ first.key = "restart" /\ first.pid = new
        /\ first.deadline \in Nat
    BY <2>5, AtLeast1Type DEF FreshThread
  <2>8. /\ \A p \in Pid : procs'[p] = IF p = new THEN life ELSE IF p = v THEN old ELSE pr[p]
        /\ threads' = [th EXCEPT ![main] = first]
        /\ run' = [rn EXCEPT !.nprocs = new, !.nthreads = main]
    BY <2>4, Zenon
  <2> HIDE DEF life, first, rec, old
  <2>9. \A t \in Tid : threads'[t] = IF t = main THEN first ELSE th[t]
    BY <2>2, <2>8 DEF Threads
  <2>10. ASSUME NEW p \in Pid
         PROVE  IF p = new THEN Newborn(procs'[p], NoProc, pr[v].spec) /\ ~procs'[p].known
                ELSE procs'[p] = IF p = v THEN [pr[p] EXCEPT !.replacedBy = new] ELSE pr[p]
    <3>1. CASE p = new
      BY <2>6, <2>8, <3>1, Zenon
    <3>2. CASE p # new /\ p = v
      BY <2>8, <3>2, Zenon DEF old
    <3>3. CASE p # new /\ p # v
      BY <2>8, <3>3, Zenon
    <3> QED BY <3>1, <3>2, <3>3
  <2>11. ASSUME NEW t \in Tid
         PROVE  IF t = main
                THEN /\ threads'[t].state = "blocked" /\ threads'[t].key = "restart"
                     /\ threads'[t].pid = new /\ threads'[t].deadline \in Nat
                ELSE threads'[t] = th[t]
    BY <2>7, <2>9, <2>11
  <2> QED
    BY <1>2, <2>2, <2>8, <2>10, <2>11, Zenon DEF Succeeded
<1> QED
  BY <1>1, <1>2 DEF RegisterRestart

\* Of the run itself a new life takes two slots, no more.
LEMMA SucceededRun ==
    ASSUME NEW th, NEW pr, NEW rn \in RunRec, NEW v, NEW failed, Succeeded(th, pr, rn, v, failed)
    PROVE  /\ run'.stopped = rn.stopped /\ run'.current = rn.current
           /\ run'.unsignalled = rn.unsignalled /\ run'.calls = rn.calls
           /\ run'.nprocs \in {rn.nprocs, rn.nprocs + 1}
           /\ run'.nthreads \in {rn.nthreads, rn.nthreads + 1}
<1>1. CASE run' = rn
  BY <1>1
<1>2. CASE run' = [rn EXCEPT !.nprocs = rn.nprocs + 1, !.nthreads = rn.nthreads + 1]
  BY <1>2 DEF RunRec
<1> QED BY <1>1, <1>2 DEF Succeeded

\* The threads once v is dead: its own are out of the schedule, and whoever
\* waits for I/O or for v looks again.
Bereaved(v) == Ready(Retire(threads, v), WokenByDeath(Retire(threads, v), procs, v))

\* The slots that were in use, after a death and a restart
LEMMA SucceededOld ==
    ASSUME IInv, NEW pr \in Procs, NEW rn \in RunRec, NEW v \in Pid, NEW failed,
           rn.nprocs = run.nprocs, rn.nthreads = run.nthreads,
           Succeeded(Bereaved(v), pr, rn, v, failed)
    PROVE  /\ \A t \in Tid : threads[t].state # "unused" =>
                /\ threads'[t].pid = threads[t].pid
                /\ threads[t].pid = v => threads'[t].state = "exited"
                /\ threads[t].pid # v =>
                     \/ threads'[t].state = threads[t].state
                     \/ threads[t].state = "blocked" /\ threads'[t].state = "runnable"
           /\ \A p \in Pid : p <= run.nprocs =>
                /\ procs'[p].spec = pr[p].spec /\ procs'[p].parent = pr[p].parent
                /\ procs'[p].state = pr[p].state /\ procs'[p].killed = pr[p].killed
                /\ procs'[p].reaped = pr[p].reaped /\ procs'[p].known = pr[p].known
                /\ procs'[p].unsettled = pr[p].unsettled /\ procs'[p].stopped = pr[p].stopped
                /\ procs'[p].exiting = pr[p].exiting /\ procs'[p].signalled = pr[p].signalled
                /\ p # v => procs'[p].replacedBy = pr[p].replacedBy
<1>1. threads \in Threads /\ run.nprocs \in Nat /\ run.nthreads \in Nat
  BY Basics DEF RunRec
<1>2. WokenByDeath(Retire(threads, v), procs, v) \subseteq Blocked(Retire(threads, v))
  BY WokenByDeathBlocked
<1>3. ASSUME NEW t \in Tid, threads[t].state # "unused"
      PROVE  threads'[t] = Bereaved(v)[t]
  <2>1. t <= run.nthreads /\ t \in Nat
    BY <1>3 DEF IInv, Base, Safe, Placed, Tid
  <2> QED BY <1>1, <2>1 DEF Succeeded
<1>4. ASSUME NEW p \in Pid, p <= run.nprocs
      PROVE  procs'[p] = pr[p] \/ (p = v /\ procs'[p] = [pr[p] EXCEPT !.replacedBy = rn.nprocs + 1])
  <2>1. p \in Nat
    BY DEF Pid
  <2> QED BY <1>1, <1>4, <2>1 DEF Succeeded
<1>6. \A p \in Pid : pr[p] \in ProcRec
  BY DEF Procs
<1>7. ASSUME NEW t \in Tid, threads[t].state # "unused"
      PROVE  /\ threads'[t].pid = threads[t].pid
             /\ threads[t].pid = v => threads'[t].state = "exited"
             /\ threads[t].pid # v =>
                  \/ threads'[t].state = threads[t].state
                  \/ threads[t].state = "blocked" /\ threads'[t].state = "runnable"
  BY <1>1, <1>2, <1>3, <1>7, RetireReady DEF Bereaved
<1>8. ASSUME NEW p \in Pid, p <= run.nprocs
      PROVE  /\ procs'[p].spec = pr[p].spec /\ procs'[p].parent = pr[p].parent
             /\ procs'[p].state = pr[p].state /\ procs'[p].killed = pr[p].killed
             /\ procs'[p].reaped = pr[p].reaped /\ procs'[p].known = pr[p].known
             /\ procs'[p].unsettled = pr[p].unsettled /\ procs'[p].stopped = pr[p].stopped
             /\ procs'[p].exiting = pr[p].exiting /\ procs'[p].signalled = pr[p].signalled
             /\ p # v => procs'[p].replacedBy = pr[p].replacedBy
  <2>1. pr[p] \in ProcRec
    BY <1>6
  <2>2. CASE procs'[p] = pr[p]
    BY <2>2
  <2>3. CASE p = v /\ procs'[p] = [pr[p] EXCEPT !.replacedBy = rn.nprocs + 1]
    BY <2>1, <2>3 DEF ProcRec
  <2> QED BY <1>4, <1>8, <2>2, <2>3
<1> QED BY <1>7, <1>8

\* The table pr2 tells of a crash of v and of nothing else.
Crashed(pr, pr2, v) ==
    \A p \in Pid :
        IF p = v
        THEN /\ pr2[p].spec = pr[p].spec /\ pr2[p].parent = pr[p].parent
             /\ pr2[p].state = pr[p].state /\ pr2[p].replacedBy = pr[p].replacedBy
             /\ pr2[p].reaped = pr[p].reaped /\ pr2[p].known = pr[p].known
             /\ pr2[p].stopped = pr[p].stopped /\ pr2[p].exiting = pr[p].exiting
             /\ pr2[p].killed /\ pr2[p].unsettled = (pr[p].state = "live")
             /\ pr[p].signalled => pr2[p].signalled
        ELSE SameLife(pr[p], pr2[p])

\* The table pr2 tells of the launcher's having heard of v's death.
Buried(pr, pr2, v) ==
    \A p \in Pid :
        IF p = v
        THEN /\ pr2[p].spec = pr[p].spec /\ pr2[p].parent = pr[p].parent
             /\ pr2[p].state = "exited" /\ pr2[p].replacedBy = pr[p].replacedBy
             /\ pr2[p].shutDown = pr[p].shutDown
             /\ pr2[p].reaped = pr[p].reaped /\ pr2[p].known = pr[p].known
             /\ pr2[p].stopped = pr[p].stopped /\ pr2[p].exiting = pr[p].exiting
             /\ pr2[p].killed = pr[p].killed /\ pr2[p].unsettled = pr[p].unsettled
             /\ pr[p].signalled => pr2[p].signalled
        ELSE SameLife(pr[p], pr2[p])

\* crash: v is condemned in a table that told the same of everybody.
LEMMA CrashedLemma ==
    ASSUME IInv, NEW pr \in Procs, Steady(procs, pr), NEW rn \in RunRec, NEW v \in Pid,
           rn.nprocs = run.nprocs, rn.nthreads = run.nthreads,
           Crash(threads, pr, rn, v)
    PROVE  \E pr2 \in Procs : /\ Crashed(procs, pr2, v)
                              /\ Succeeded(Bereaved(v), pr2, rn, v, TRUE)
<1> DEFINE b   == pr[v].state = "live"
           rec == [Unscheduled(pr[v]) EXCEPT !.killed = TRUE, !.unsettled = b]
           pr2 == [pr EXCEPT ![v] = rec]
<1>1. pr[v] \in ProcRec /\ b \in BOOLEAN
  BY DEF Procs
<1>2. SameLife(pr[v], Unscheduled(pr[v])) /\ Unscheduled(pr[v]) \in ProcRec
  BY <1>1, UnscheduledLemma, ZenonT(60) DEF Unscheduled, ProcRec, SameLife, SameCore
<1>3. RegisterRestart(Ready(Retire(threads, v), WokenByDeath(Retire(threads, v), pr, v)),
                      pr2, rn, v, TRUE)
  BY DEF Crash
<1> HIDE DEF b
<1>4. /\ rec.spec = pr[v].spec /\ rec.parent = pr[v].parent
      /\ rec.state = pr[v].state /\ rec.replacedBy = pr[v].replacedBy
      /\ rec.reaped = pr[v].reaped /\ rec.known = pr[v].known
      /\ rec.stopped = pr[v].stopped /\ rec.exiting = pr[v].exiting
      /\ rec.killed /\ rec.unsettled = b
      /\ pr[v].signalled => rec.signalled
      /\ rec \in ProcRec
  BY <1>1, <1>2, ZenonT(60) DEF ProcRec, SameLife, SameCore
<1> HIDE DEF rec
<1>5. pr2 \in Procs /\ \A p \in Pid : pr2[p] = IF p = v THEN rec ELSE pr[p]
  BY <1>4 DEF Procs
<1> HIDE DEF pr2
<1>6. pr[v].parent = procs[v].parent
  BY DEF Steady, SameLife, SameCore
<1>7. Bereaved(v) = Ready(Retire(threads, v), WokenByDeath(Retire(threads, v), pr, v))
  BY <1>6 DEF Bereaved, WokenByDeath
<1>8. Bereaved(v) \in Threads
  BY Basics, RetireLemma, ReadyLemma DEF Bereaved
<1>9. Crashed(procs, pr2, v)
  BY <1>4, <1>5 DEF Crashed, Steady, SameLife, SameCore, b
<1>10. run \in RunRec
  BY Basics
<1>11. Succeeded(Bereaved(v), pr2, rn, v, TRUE)
  BY <1>3, <1>5, <1>7, <1>8, <1>10, SuccessionLemma
<1> QED BY <1>5, <1>9, <1>11

\* Nobody has crashed v, though it may have died and been buried.
Unharmed(v) == procs[v].state # "unused" /\ ~procs[v].killed

\* Every step that crashes a process: nobody had crashed the victim before,
\* and nothing else is said of anybody but of the life that may follow.
CrashStep(v) ==
    \E pr2 \in Procs, rn \in RunRec :
        /\ Unharmed(v) /\ Crashed(procs, pr2, v)
        /\ rn.nprocs = run.nprocs /\ rn.nthreads = run.nthreads
        /\ rn.current = run.current /\ rn.stopped = run.stopped /\ rn.calls = run.calls
        /\ Succeeded(Bereaved(v), pr2, rn, v, TRUE)

\* A kill is such a step, and so are the two injected deaths, of somebody
\* alive, unless a grace period begins.
LEMMA CrashSteps ==
    ASSUME IInv
    PROVE  /\ InjectCrash => (\E v \in Pid : Alive(procs, v) /\ CrashStep(v)) /\ run'.unsignalled
           /\ \A t \in Tid, q \in Pid : Kill(t, q) => CrashStep(q)
           /\ InjectShutdown =>
                \/ (\E v \in Pid : Alive(procs, v) /\ CrashStep(v)) /\ run'.unsignalled
                \/ /\ Steady(procs, procs') /\ run' = run
                   /\ \E v \in Pid : threads' = Ready(threads, Interruptible(threads, v)
                                                               \cup WaitingForIO(threads))
<1>1. procs \in Procs /\ run \in RunRec
  BY Basics
<1>2. /\ Owing \in RunRec /\ Owing.nprocs = run.nprocs /\ Owing.nthreads = run.nthreads
      /\ Owing.unsignalled /\ Owing.current = run.current /\ Owing.stopped = run.stopped /\ Owing.calls = run.calls
  BY <1>1 DEF Owing, RunRec
<1> DEFINE calm == [Struck EXCEPT !.unsignalled = FALSE]
<1>3. /\ calm \in RunRec /\ calm.nprocs = run.nprocs /\ calm.nthreads = run.nthreads
      /\ calm.current = run.current /\ calm.stopped = run.stopped /\ calm.calls = run.calls
  BY <1>1 DEF RunRec, Struck, NoProc
<1> HIDE DEF calm
<1>4. ASSUME NEW rec \in ProcRec, NEW n \in Count
      PROVE  [rec EXCEPT !.crashesLeft = n] \in ProcRec
             /\ SameLife(rec, [rec EXCEPT !.crashesLeft = n])
  BY DEF ProcRec, SameLife, SameCore
<1>5. ASSUME NEW rec \in ProcRec, NEW n, NEW k
      PROVE  SameLife(rec, [rec EXCEPT !.shutdownsLeft = n, !.shutdown = NoTime, !.kill = k,
                                       !.shutDown = TRUE, !.pending = TRUE])
  BY DEF ProcRec, SameLife, SameCore
<1>6. ASSUME InjectCrash PROVE (\E v \in Pid : Alive(procs, v) /\ CrashStep(v)) /\ run'.unsignalled
  <2>1. PICK v \in FirstOf(CrashesDue) :
          Crash(threads, [procs EXCEPT ![v].crashesLeft = Spend(@)], Owing, v)
    BY <1>6 DEF InjectCrash
  <2>2. v \in Pid /\ Alive(procs, v)
    BY DEF FirstOf, CrashesDue
  <2> DEFINE rec == [procs[v] EXCEPT !.crashesLeft = Spend(procs[v].crashesLeft)]
             pr  == [procs EXCEPT ![v] = rec]
  <2>3. procs[v] \in ProcRec /\ Spend(procs[v].crashesLeft) \in Count
    BY <1>1, <2>2, SpendType DEF Procs, ProcRec
  <2>4. rec \in ProcRec /\ SameLife(procs[v], rec)
    BY <1>4, <2>3
  <2>5. Crash(threads, pr, Owing, v)
    BY <2>1
  <2> HIDE DEF rec
  <2>6. pr \in Procs /\ \A p \in Pid : pr[p] = IF p = v THEN rec ELSE procs[p]
    BY <1>1, <2>4 DEF Procs
  <2>7. Steady(procs, pr)
    BY <2>4, <2>6 DEF Steady, SameLife, SameCore
  <2> HIDE DEF pr
  <2>8. \E pr2 \in Procs : Crashed(procs, pr2, v) /\ Succeeded(Bereaved(v), pr2, Owing, v, TRUE)
    BY <1>2, <2>2, <2>5, <2>6, <2>7, CrashedLemma
  <2> HIDE DEF Owing
  <2>9. run'.unsignalled
    BY <1>2, <2>8, SucceededRun
  <2> QED BY <1>2, <2>2, <2>8, <2>9 DEF CrashStep, Unharmed, Alive
<1>7. ASSUME NEW t \in Tid, NEW q \in Pid, Kill(t, q) PROVE CrashStep(q)
  <2> DEFINE K  == Condemned([procs EXCEPT ![q].killed = TRUE], Owing)
             pr == Signalled(procs, K)
  <2>1. Unharmed(q) /\ Crash(threads, pr, calm, q)
    BY <1>7 DEF Kill, Strikes, calm, Unharmed, IInv, Aimed
  <2>2. pr \in Procs /\ Steady(procs, pr)
    BY <1>1, SignalledLemma, SignalledSteady
  <2> HIDE DEF pr
  <2>3. \E pr2 \in Procs : Crashed(procs, pr2, q) /\ Succeeded(Bereaved(q), pr2, calm, q, TRUE)
    BY <1>3, <2>1, <2>2, CrashedLemma
  <2> QED BY <1>3, <2>1, <2>3 DEF CrashStep
<1>8. ASSUME InjectShutdown
      PROVE  \/ (\E v \in Pid : Alive(procs, v) /\ CrashStep(v)) /\ run'.unsignalled
             \/ /\ Steady(procs, procs') /\ run' = run
                /\ \E v \in Pid : threads' = Ready(threads, Interruptible(threads, v)
                                                            \cup WaitingForIO(threads))
  <2>1. PICK v \in FirstOf(ShutdownsDue) :
          \/ Crash(threads, procs, Owing, v)
          \/ /\ procs' = [procs EXCEPT ![v] =
                   [@ EXCEPT !.shutdownsLeft = Spend(procs[v].shutdownsLeft), !.shutdown = NoTime,
                             !.kill = AtLeast1(Faults(procs[v].spec).grace),
                             !.shutDown = TRUE, !.pending = TRUE]]
             /\ threads' = Ready(threads, Interruptible(threads, v) \cup WaitingForIO(threads))
             /\ UNCHANGED run
    BY <1>8 DEF InjectShutdown
  <2>2. v \in Pid /\ Alive(procs, v)
    BY DEF FirstOf, ShutdownsDue
  <2>3. CASE Crash(threads, procs, Owing, v)
    <3>1. \E pr2 \in Procs : Crashed(procs, pr2, v) /\ Succeeded(Bereaved(v), pr2, Owing, v, TRUE)
      BY <1>1, <1>2, <2>2, <2>3, SteadyReflexive, CrashedLemma
    <3> HIDE DEF Owing
    <3>2. run'.unsignalled
      BY <1>2, <3>1, SucceededRun
    <3> QED BY <1>2, <2>2, <3>1, <3>2 DEF CrashStep, Unharmed, Alive
  <2>4. CASE ~Crash(threads, procs, Owing, v)
    <3> DEFINE n   == Spend(procs[v].shutdownsLeft)
               k   == AtLeast1(Faults(procs[v].spec).grace)
               rec == [procs[v] EXCEPT !.shutdownsLeft = n, !.shutdown = NoTime, !.kill = k,
                                       !.shutDown = TRUE, !.pending = TRUE]
    <3>1. procs' = [procs EXCEPT ![v] = rec]
      BY <2>1, <2>4
    <3>2. procs[v] \in ProcRec
      BY <1>1, <2>2 DEF Procs
    <3> HIDE DEF n, k
    <3>3. SameLife(procs[v], rec)
      BY <1>5, <3>2
    <3> HIDE DEF rec
    <3>4. Steady(procs, procs')
      BY <1>1, <3>1, <3>3 DEF Procs, Steady, SameLife, SameCore
    <3> QED BY <2>1, <2>2, <2>4, <3>4
  <2> QED BY <2>3, <2>4
<1> QED
  BY <1>6, <1>7, <1>8

\* process_died: the tables once the launcher's process has been buried.
LEMMA BurySteps ==
    ASSUME IInv, Bury
    PROVE  /\ launcher.proc \in Pid /\ real[launcher.proc] = "reaped"
           /\ \E pr2 \in Procs :
                /\ Buried(procs, pr2, launcher.proc)
                /\ \/ /\ procs[launcher.proc].killed
                      /\ threads' = Retire(threads, launcher.proc) /\ procs' = pr2 /\ run' = run
                   \/ /\ ~procs[launcher.proc].killed
                      /\ Succeeded(Bereaved(launcher.proc), pr2, run, launcher.proc, launcher.failed)
<1> DEFINE p   == launcher.proc
           one == [procs[p] EXCEPT !.state = "exited"]
           pr1 == [procs EXCEPT ![p] = one]
           two == Unscheduled(one)
           pr2 == [pr1 EXCEPT ![p] = two]
<1>1. p \in Pid /\ real[p] = "reaped" /\ procs \in Procs /\ procs[p] \in ProcRec /\ run \in RunRec
  BY Basics DEF Bury, IInv, Base, Safe, Launching, Procs
<1>2. \/ procs[p].killed /\ threads' = Retire(threads, p) /\ procs' = pr1 /\ run' = run
      \/ ~procs[p].killed /\ RegisterRestart(Bereaved(p), pr2, run, p, launcher.failed)
  <2>1. [pr1 EXCEPT ![p] = Unscheduled(@)] = pr2
    BY <1>1 DEF Procs
  <2> QED BY <2>1 DEF Bury, Bereaved
<1>3. /\ one \in ProcRec /\ one.state = "exited"
      /\ one.spec = procs[p].spec /\ one.parent = procs[p].parent
      /\ one.replacedBy = procs[p].replacedBy /\ one.reaped = procs[p].reaped
      /\ one.known = procs[p].known /\ one.stopped = procs[p].stopped
      /\ one.exiting = procs[p].exiting /\ one.killed = procs[p].killed
      /\ one.unsettled = procs[p].unsettled /\ one.signalled = procs[p].signalled
      /\ one.shutDown = procs[p].shutDown
  BY <1>1 DEF ProcRec
<1> HIDE DEF one
<1>4. two \in ProcRec /\ SameLife(one, two) /\ two.shutDown = one.shutDown
  BY <1>3, UnscheduledLemma, ZenonT(60) DEF Unscheduled, ProcRec, SameLife, SameCore
<1> HIDE DEF two
<1>5. /\ pr1 \in Procs /\ \A q \in Pid : pr1[q] = IF q = p THEN one ELSE procs[q]
      /\ pr2 \in Procs /\ \A q \in Pid : pr2[q] = IF q = p THEN two ELSE procs[q]
  BY <1>1, <1>3, <1>4 DEF Procs
<1> HIDE DEF pr1, pr2
<1>6. Buried(procs, pr1, p) /\ Buried(procs, pr2, p)
  BY <1>3, <1>4, <1>5 DEF Buried, SameLife, SameCore
<1>7. Bereaved(p) \in Threads
  BY Basics, RetireLemma, ReadyLemma DEF Bereaved
<1>8. RegisterRestart(Bereaved(p), pr2, run, p, launcher.failed)
        => Succeeded(Bereaved(p), pr2, run, p, launcher.failed)
  BY <1>1, <1>5, <1>7, SuccessionLemma
<1> HIDE DEF p
<1>9. \E r \in Procs :
                /\ Buried(procs, r, p)
                /\ \/ procs[p].killed /\ threads' = Retire(threads, p) /\ procs' = r /\ run' = run
                   \/ ~procs[p].killed /\ Succeeded(Bereaved(p), r, run, p, launcher.failed)
  BY <1>2, <1>5, <1>6, <1>8
<1> QED BY <1>1, <1>9 DEF p

----------------------------------------------------------------------------
(***************************************************************************)
(* A stop is final.                                                        *)
(***************************************************************************)

\* Once the run's stop has come, whoever is alive was marked, and nobody is
\* inside: the mark is what take_up_baton looks at.
StopHolds ==
    run.stopped => /\ \A p \in Pid : Alive(procs, p) => procs[p].stopped
                   /\ \A t \in Tid : ~Inside(t)

\* A step that tells nothing new of who is alive and lets nobody in
StillStopped ==
    /\ \A p \in Pid : Alive(procs', p) =>
         Alive(procs, p) /\ procs'[p].stopped = procs[p].stopped
    /\ \A t \in Tid : Inside(t)' => Inside(t)

\* While the run is stopped nobody gets a next life.
LEMMA NoSuccession ==
    ASSUME run.stopped, NEW th, NEW pr, NEW rn, NEW v, NEW failed,
           Succeeded(th, pr, rn, v, failed)
    PROVE  threads' = th /\ procs' = pr /\ run' = rn
BY DEF Succeeded, RestartDue

\* A death while the run is stopped lets nobody in again.
LEMMA StopDeathStep ==
    ASSUME IInv, run.stopped, UNCHANGED pc, NEW v \in Pid, CrashStep(v) \/ (Bury /\ v = launcher.proc)
    PROVE  StillStopped
<1>1. PICK pr2 : /\ procs' = pr2
                 /\ Crashed(procs, pr2, v) \/ Buried(procs, pr2, v)
  <2>1. CASE CrashStep(v)
    BY <2>1, NoSuccession DEF CrashStep
  <2>2. CASE Bury /\ v = launcher.proc
    BY <2>2, NoSuccession, BurySteps
  <2> QED BY <2>1, <2>2
<1>2. \A p \in Pid : Alive(procs', p) =>
         Alive(procs, p) /\ procs'[p].stopped = procs[p].stopped
  BY <1>1 DEF Crashed, Buried, Alive, SameLife, SameCore
<1> QED BY <1>2 DEF StillStopped, Inside

\* Alive and stopped are fields of a life.
LEMMA SteadyStopped ==
    ASSUME Steady(procs, procs')
    PROVE  \A p \in Pid : Alive(procs', p) =>
             Alive(procs, p) /\ procs'[p].stopped = procs[p].stopped
BY DEF Steady, SameLife, SameCore, Alive

\* The clock may reach the stop date; then every live process is told.
LEMMA StopTick == ASSUME IInv, StopHolds, Tick PROVE StopHolds'
<1> DEFINE th == ThreadsLater(threads, pick.add)
           pr == ProcsLater(procs, pick.add)
           rn == RunLater(run, pick.add)
           stops == rn.stopIn = 0 /\ ~rn.stopped
<1>1. /\ UNCHANGED pc /\ \A t \in Tid : ~Inside(t)
      /\ procs' = IF stops THEN StoppedProcs(pr) ELSE pr
      /\ run' = IF stops THEN [rn EXCEPT !.stopped = TRUE] ELSE rn
  BY DEF Tick, IInv, Base, Safe, HandingOver
<1>2. pick.add \in Nat /\ procs \in Procs /\ run \in RunRec
  BY Basics DEF IInv, Base, TypeOK
<1>3. Steady(procs, pr) /\ pr \in Procs
  BY <1>2, ProcsLaterSteady, ProcsLaterLemma DEF Alike
<1>4. rn.stopped = run.stopped /\ rn \in RunRec
  BY <1>2, RunLaterLemma DEF RunLater, RunRec
<1> HIDE DEF pr, rn, stops
<1>5. \A t \in Tid : ~Inside(t)'
  BY <1>1 DEF Inside
<1>6. CASE stops
  <2>1. ASSUME NEW p \in Pid, Alive(StoppedProcs(pr), p) PROVE StoppedProcs(pr)[p].stopped
    <3>1. pr[p] \in ProcRec
      BY <1>3 DEF Procs
    <3>2. StoppedProcs(pr)[p] = IF Alive(pr, p) THEN [pr[p] EXCEPT !.stopped = TRUE] ELSE pr[p]
      BY DEF StoppedProcs
    <3>3. Alive(pr, p)
      BY <2>1, <3>2 DEF Alive
    <3> QED BY <3>1, <3>2, <3>3 DEF ProcRec
  <2> QED BY <1>1, <1>5, <1>6, <2>1 DEF StopHolds
<1>7. CASE ~stops
  BY <1>1, <1>3, <1>4, <1>5, <1>7 DEF StopHolds, Steady, SameLife, SameCore, Alive
<1> QED BY <1>6, <1>7

\* Only a hand-off stops the run, and what its program does is chosen once.
LEMMA RunStays ==
    ASSUME IInv, [Next]_vars
    PROVE  run'.calls = run.calls /\ (~Tick => run'.stopped = run.stopped)
<1> DEFINE Stays == run'.calls = run.calls /\ run'.stopped = run.stopped
<1>1. run \in RunRec
  BY Basics
<1>0. CASE Tick
  <2>1. pick.add \in Nat
    BY DEF IInv, Base, TypeOK
  <2>2. RunLater(run, pick.add) \in RunRec /\ RunLater(run, pick.add).calls = run.calls
    BY <1>1, <2>1, RunLaterLemma DEF RunLater, RunRec
  <2>3. \/ run' = RunLater(run, pick.add)
        \/ run' = [RunLater(run, pick.add) EXCEPT !.stopped = TRUE]
    BY <1>0 DEF Tick
  <2> QED BY <1>0, <2>2, <2>3 DEF RunRec
<1>2. ASSUME NEW v \in Pid, CrashStep(v) \/ Bury PROVE Stays
  <2>1. PICK rn, th, pr, u, failed :
          /\ rn \in RunRec
          /\ rn.stopped = run.stopped /\ rn.calls = run.calls
          /\ Succeeded(th, pr, rn, u, failed) \/ run' = rn
    BY <1>1, <1>2, BurySteps DEF CrashStep
  <2> QED BY <2>1, SucceededRun
<1>3. CASE PickStep /\ ~Tick
  <2>1. CASE InjectCrash
    BY <2>1, <1>2, CrashSteps
  <2>2. CASE InjectShutdown
    BY <2>2, <1>2, CrashSteps
  <2>3. CASE Jump \/ IdleGuest \/ IdleLauncher \/ \E t \in Tid : Choose(t)
    BY <1>1, <2>3 DEF Jump, IdleGuest, IdleLauncher, Choose, RunRec
  <2> QED BY <1>3, <2>1, <2>2, <2>3 DEF PickStep
<1>4. ASSUME NEW t \in Tid, Guest(t) PROVE Stays
  <2>1. CASE \E q \in Pid : Aim(t, q)
    BY <1>1, <2>1 DEF Aim, RunRec
  <2>2. CASE ReadClock(t)
    BY <1>1, <2>2 DEF ReadClock, RunLater, RunRec
  <2>3. CASE CreateThread(t)
    BY <1>1, <2>3 DEF CreateThread, RunRec
  <2>4. CASE Exhaust(t)
    BY <1>1, <2>4 DEF Exhaust, RunRec
  <2>5. CASE SpawnChild(t)
    BY <1>1, <2>5 DEF SpawnChild, RunRec
  <2>6. CASE UNCHANGED run
    BY <2>6
  <2> QED
    BY <1>4, <2>1, <2>2, <2>3, <2>4, <2>5, <2>6
       DEF Guest, Yield, Block, Wake, ExitThread, ExitProcess, SetTimer, Waitpid
<1>5. ASSUME NEW t \in Tid, Return(t) PROVE Stays
  <2>1. CASE \E q \in Pid : Kill(t, q)
    BY <2>1, <1>2, CrashSteps
  <2>2. CASE \E q \in Pid : Signal(t, q)
    BY <1>1, <2>2 DEF Signal, Struck, RunRec
  <2>3. CASE UNCHANGED run
    BY <2>3
  <2> QED
    BY <1>5, <2>1, <2>2, <2>3 DEF Return, DieStopped, TakeUp, SettleDeaths, AwaitAttach,
       CheckChildren, BlockOnChildren, Poll, PollGivesUp
<1>6. CASE Aside
  BY <1>6 DEF Aside, Leave, OutsideWake, Slain, Attach, FailToAttach
<1>7. CASE LauncherStep
  <2>1. CASE Bury
    BY <2>1, <1>2, BurySteps
  <2>2. CASE Started \/ EndRun \/ Respawn
    BY <1>1, <2>2 DEF Started, EndRun, Respawn, StopNow, RunRec
  <2> QED BY <1>7, <2>1, <2>2 DEF LauncherStep, Start, Finish, NoticeExit
<1>8. CASE UNCHANGED vars
  BY <1>8 DEF vars
<1> QED BY <1>0, <1>3, <1>4, <1>5, <1>6, <1>7, <1>8 DEF Next, Over

\* Everybody alive was marked when the run stopped, and a marked process dies
\* when it is given the baton.
LEMMA StopStep == ASSUME IInv, StopHolds, [Next]_vars PROVE StopHolds'
<1>1. CASE Tick
  BY <1>1, StopTick
<1>2. CASE ~Tick
  <2>0. SUFFICES ASSUME run.stopped PROVE StillStopped
    BY <1>2, RunStays DEF StillStopped, StopHolds
  <2>1. \A t \in Tid : ~Inside(t)
    BY <2>0 DEF StopHolds
  <2>2. /\ Steady(procs, procs') /\ (\A t \in Tid : pc'[t] = pc[t] \/ pc'[t] \notin InsidePcs)
           => StillStopped
    BY SteadyStopped DEF StillStopped, Inside, InsidePcs
  <2>3. pc \in [Tid -> Pcs]
    BY Basics
  <2>4. \A S, pcs : ThreadsGone(pcs, S) = [t \in Tid |-> IF Owner(t) \in S THEN "gone" ELSE pcs[t]]
    BY DEF ThreadsGone
  <2>5. CASE PickStep
    <3>1. CASE InjectCrash \/ InjectShutdown
      <4>1. UNCHANGED pc
        BY <3>1 DEF InjectCrash, InjectShutdown
      <4>2. CASE \E v \in Pid : CrashStep(v)
        BY <2>0, <4>1, <4>2, StopDeathStep
      <4>3. CASE Steady(procs, procs')
        BY <2>2, <4>1, <4>3
      <4> QED BY <3>1, <4>2, <4>3, CrashSteps
    <3>2. CASE Jump \/ IdleLauncher \/ \E t \in Tid : Choose(t)
      <4>1. Steady(procs, procs')
        BY <3>2, SteadySteps
      <4>2. pick.phase # "none"
        BY <3>2 DEF Jump, IdleLauncher, Choose, Idle, FaultsDone
      <4>3. \A t \in Tid : AfterHandOff(Released)[t] = pc[t] \/ AfterHandOff(Released)[t] \notin InsidePcs
        BY <4>2, AfterHandOffLemma DEF InsidePcs
      <4>4. \A t \in Tid : pc'[t] = pc[t] \/ pc'[t] \notin InsidePcs
        BY <2>4, <3>2, <4>3, ZenonT(60) DEF Jump, IdleLauncher, Choose, InsidePcs
      <4> QED BY <2>2, <4>1, <4>4
    <3>3. CASE IdleGuest
      <4>1. Steady(procs, procs')
        BY <3>3, SteadySteps
      <4>2. pick.phase # "none"
        BY <3>3 DEF IdleGuest, Idle, FaultsDone
      <4>3. \A t \in Tid : AfterHandOff(Released)[t] = pc[t] \/ AfterHandOff(Released)[t] \notin InsidePcs
        BY <4>2, AfterHandOffLemma DEF InsidePcs
      <4>4. PICK pcs, dead : /\ pc' = ThreadsGone(pcs, dead)
                             /\ \/ pcs = [pc EXCEPT ![pick.me] = "polling"]
                                \/ pcs = AfterHandOff(Released)
        BY <3>3 DEF IdleGuest
      <4>5. \A t \in Tid : pcs[t] = pc[t] \/ pcs[t] \notin InsidePcs
        BY <2>3, <4>3, <4>4 DEF InsidePcs
      <4>6. \A t \in Tid : pc'[t] = pc[t] \/ pc'[t] \notin InsidePcs
        BY <2>4, <4>4, <4>5 DEF InsidePcs
      <4> QED BY <2>2, <4>1, <4>6
    <3> QED BY <1>2, <2>5, <3>1, <3>2, <3>3 DEF PickStep
  <2>6. ASSUME NEW t \in Tid, Guest(t) PROVE FALSE
    BY <2>1, <2>6 DEF Guest, Yield, Block, Wake, CreateThread, Exhaust, ExitThread, ExitProcess,
                      ReadClock, SetTimer, SpawnChild, Waitpid, Aim, Runs, Inside
  <2>7. ASSUME NEW t \in Tid, Return(t) PROVE StillStopped
    <3>1. ~TakeUp(t)
      <4> SUFFICES ASSUME TakeUp(t) PROVE FALSE
        OBVIOUS
      <4>1. threads[t].state = "running" /\ ~procs[Owner(t)].stopped
        BY DEF TakeUp, MayTakeUp
      <4>2. Alive(procs, Owner(t))
        BY <4>1 DEF IInv, Base, Safe, ScheduleIsAlive, Alive
      <4>3. Owner(t) \in Pid
        BY <4>1, Basics DEF Owner
      <4> QED BY <2>0, <4>1, <4>2, <4>3 DEF StopHolds
    <3>2. DieStopped(t) \/ Poll(t) \/ PollGivesUp(t)
      BY <2>1, <2>7, <3>1 DEF Return, SettleDeaths, AwaitAttach, CheckChildren, BlockOnChildren,
         Kill, Signal, Strikes, Inside
    <3>3. UNCHANGED procs /\ \A u \in Tid : pc'[u] = pc[u] \/ pc'[u] = "gone"
      BY <2>4, <3>2 DEF DieStopped, Poll, PollGivesUp
    <3> QED BY <2>2, <3>3, SteadyReflexive DEF InsidePcs
  <2>8. CASE Aside
    <3>1. CASE \E p \in Pid : Attach(p)
      <4>1. PICK p \in Pid : Attach(p)
        BY <3>1
      <4>2. procs \in Procs /\ procs[p] \in ProcRec
        BY Basics DEF Procs
      <4>3. CASE procs[p].killed
        <5>1. procs' = [procs EXCEPT ![p] = [procs[p] EXCEPT !.signalled = TRUE]]
          BY <4>1, <4>3 DEF Attach
        <5>2. \A q \in Pid : Alive(procs', q) =>
                Alive(procs, q) /\ procs'[q].stopped = procs[q].stopped
          BY <4>2, <5>1 DEF Alive, Procs, ProcRec
        <5>3. \A u \in Tid : pc'[u] = pc[u] \/ pc'[u] = "gone"
          BY <2>4, <4>1, <4>3 DEF Attach
        <5> QED BY <5>2, <5>3 DEF StillStopped, Inside
      <4>4. CASE ~procs[p].killed
        <5>1. procs[p].state = "starting"
              /\ procs' = [procs EXCEPT ![p].known = TRUE, ![p].state = "live"]
          BY <4>1, <4>4 DEF Attach
        <5>2. procs' = [procs EXCEPT ![p] = [procs[p] EXCEPT !.known = TRUE, !.state = "live"]]
          BY <4>2, <5>1 DEF Procs
        <5>3. \A q \in Pid : Alive(procs', q) =>
                Alive(procs, q) /\ procs'[q].stopped = procs[q].stopped
          BY <4>2, <4>4, <5>1, <5>2 DEF Alive, Procs, ProcRec
        <5>4. \A u \in Tid : pc'[u] = pc[u] \/ pc'[u] = "parked"
          BY <2>4, <4>1, <4>4 DEF Attach
        <5> QED BY <5>3, <5>4 DEF StillStopped, Inside
      <4> QED BY <4>3, <4>4
    <3>2. CASE ~\E p \in Pid : Attach(p)
      <4>1. Steady(procs, procs')
        BY <2>8, <3>2, SteadySteps DEF Aside, Leave, Slain, FailToAttach
      <4>2. \A u \in Tid : pc'[u] = pc[u] \/ pc'[u] = "gone"
        BY <2>3, <2>4, <2>8, <3>2 DEF Aside, Leave, OutsideWake, Slain, FailToAttach, Goes
      <4> QED BY <2>2, <4>1, <4>2 DEF InsidePcs
    <3> QED BY <3>1, <3>2
  <2>9. CASE LauncherStep
    <3>1. CASE Bury
      <4>1. launcher.proc \in Pid /\ UNCHANGED pc
        BY <3>1, BurySteps DEF Bury
      <4> QED BY <2>0, <3>1, <4>1, StopDeathStep
    <3>2. CASE ~Bury
      <4>1. Steady(procs, procs')
        BY <2>9, <3>2, SteadySteps DEF LauncherStep, Start, Started, EndRun, Finish, NoticeExit
      <4>2. \A u \in Tid : pc'[u] = pc[u] \/ pc'[u] = "boot"
        BY <2>9, <3>2 DEF LauncherStep, Start, Started, EndRun, Respawn, Finish, NoticeExit
      <4> QED BY <2>2, <4>1, <4>2 DEF InsidePcs
    <3> QED BY <3>1, <3>2
  <2>10. CASE UNCHANGED vars
    BY <2>2, <2>10, SteadyReflexive DEF vars
  <2> QED BY <1>2, <2>5, <2>6, <2>7, <2>8, <2>9, <2>10 DEF Next, Over
<1> QED BY <1>1, <1>2

\* Once the run's stop has come no program code runs again, of any process,
\* whenever it was started (stop_run, die_if_stopped): whoever was alive is
\* marked, and register_restart starts nobody after it.
THEOREM StopIsFinalHolds == Spec => []StopIsFinal
<1>1. Init => StopHolds
  <2> SUFFICES ASSUME Init PROVE ~run.stopped
    BY DEF StopHolds
  <2>1. PICK calls \in Programs :
          run = [ current |-> NoThread, nthreads |-> NEntries, nprocs |-> NEntries,
                  stopIn |-> StopAfter, stopped |-> FALSE, unsignalled |-> FALSE, calls |-> calls,
                  target |-> NoProc ]
    BY Zenon DEF Init
  <2> QED BY <2>1
<1>2. IInv /\ StopHolds /\ [Next]_vars => StopHolds'
  BY StopStep
<1>3. StopHolds => StopIsFinal
  BY DEF StopHolds, StopIsFinal
<1> QED
  BY <1>1, <1>2, <1>3, Invariance, PTL DEF Spec

----------------------------------------------------------------------------
(***************************************************************************)
(* A teardown is over before the next thread of the process runs.          *)
(***************************************************************************)

\* A thread that exited and still holds the baton, or gives it away now: its
\* teardown has not begun.
Departing(t) ==
    /\ threads[t].state = "exited" /\ ~procs[threads[t].pid].killed
    /\ \/ pc[t] = "polling"
       \/ pick.phase # "none" /\ pick.by = "guest" /\ pick.me = t

\* exiting_port names the thread of the process that is in its teardown, and
\* nobody of the process is inside then; a thread about to begin its teardown
\* has left its port already.
TeardownHolds ==
    \A u \in Tid :
        /\ pc[u] = "leaving" =>
             /\ procs[threads[u].pid].exiting = u
             /\ \A t \in Tid : Inside(t) => threads[t].pid # threads[u].pid
        /\ Departing(u) => procs[threads[u].pid].exiting = u

\* Steps that begin no teardown, touch no port and let nobody in
TeardownCalm ==
    \A u \in Tid : threads[u].state # "unused" =>
        /\ threads'[u].pid = threads[u].pid
        /\ procs'[threads[u].pid].exiting = procs[threads[u].pid].exiting
        /\ threads'[u].state = "exited" /\ ~procs'[threads[u].pid].killed /\ Active(u)' =>
             threads[u].state = "exited" /\ ~procs[threads[u].pid].killed

\* and leave every teardown as it is.
LEMMA TeardownQuiet ==
    ASSUME IInv, IInv', TeardownHolds, TeardownCalm,
           pick'.phase # "none" /\ pick'.by = "guest" =>
             pick.phase # "none" /\ pick.by = "guest" /\ pick'.me = pick.me,
           \A u \in Tid : \/ pc'[u] \in {"gone", "boot", pc[u]}
                          \/ pc'[u] = "parked" /\ ~Departing(u)'
                          \/ Inside(u) /\ pc'[u] \in InsidePcs
    PROVE  TeardownHolds'
<1>1. \A u \in Tid : Departing(u)' => Active(u)'
  BY DEF IInv, Base, Safe, HandingOver, Departing, Active
<1>2. \A u \in Tid : Inside(u)' => Active(u)' /\ pc'[u] # "parked"
  BY DEF Inside, Active
<1>3. \A u \in Tid : pc'[u] = "leaving" => Active(u)'
  BY DEF Active
<1>4. ASSUME NEW u \in Tid, Active(u)'
      PROVE  \/ pc'[u] = "parked" /\ ~Departing(u)'
             \/ /\ threads'[u].pid = threads[u].pid
                /\ procs'[threads[u].pid].exiting = procs[threads[u].pid].exiting
                /\ pc'[u] = "leaving" => pc[u] = "leaving"
                /\ Inside(u)' => Inside(u)
                /\ Departing(u)' => Departing(u)
  <2>1. CASE pc'[u] = "parked" /\ ~Departing(u)'
    BY <2>1
  <2>2. CASE ~(pc'[u] = "parked" /\ ~Departing(u)')
    <3>1. Active(u) /\ (pc'[u] = pc[u] \/ (Inside(u) /\ pc'[u] \in InsidePcs))
      BY <1>4, <2>2 DEF Active, Inside
    <3>2. threads[u].state # "unused"
      BY <3>1, Basics DEF Active
    <3> QED BY <1>4, <3>1, <3>2 DEF TeardownCalm, Departing, Inside, InsidePcs
  <2> QED BY <2>1, <2>2
<1> QED
  BY <1>1, <1>2, <1>3, <1>4 DEF TeardownHolds

\* Threads that wake and processes of which nothing new is told
LEMMA CalmTables ==
    ASSUME IInv, Woken(threads, threads'),
           \A p \in Pid : /\ procs'[p].exiting = procs[p].exiting
                          /\ procs'[p].killed = procs[p].killed
    PROVE  TeardownCalm
BY Basics DEF TeardownCalm, Woken

\* A crash takes threads out of the schedule, and with them their claim to a
\* teardown.
LEMMA CrashCalm == ASSUME IInv, NEW v \in Pid, CrashStep(v) PROVE TeardownCalm
<1>1. PICK pr2 \in Procs, rn \in RunRec :
        /\ Crashed(procs, pr2, v) /\ rn.nprocs = run.nprocs /\ rn.nthreads = run.nthreads
        /\ Succeeded(Bereaved(v), pr2, rn, v, TRUE)
  BY DEF CrashStep
<1>2. ASSUME NEW u \in Tid, threads[u].state # "unused"
      PROVE  /\ threads'[u].pid = threads[u].pid
             /\ procs'[threads[u].pid].exiting = procs[threads[u].pid].exiting
             /\ threads'[u].state = "exited" /\ ~procs'[threads[u].pid].killed =>
                  threads[u].state = "exited" /\ ~procs[threads[u].pid].killed
  <2>1. threads[u].pid \in Pid /\ threads[u].pid <= run.nprocs
    BY <1>2, Basics
  <2>2. /\ pr2[threads[u].pid].exiting = procs[threads[u].pid].exiting
        /\ IF threads[u].pid = v THEN pr2[threads[u].pid].killed
           ELSE pr2[threads[u].pid].killed = procs[threads[u].pid].killed
    BY <1>1, <2>1 DEF Crashed, SameLife, SameCore
  <2>3. /\ threads'[u].pid = threads[u].pid
        /\ threads[u].pid # v /\ threads'[u].state = "exited" => threads[u].state = "exited"
    BY <1>1, <1>2, SucceededOld
  <2>4. /\ procs'[threads[u].pid].exiting = pr2[threads[u].pid].exiting
        /\ procs'[threads[u].pid].killed = pr2[threads[u].pid].killed
    BY <1>1, <2>1, SucceededOld
  <2> QED BY <2>2, <2>3, <2>4
<1> QED BY <1>2 DEF TeardownCalm

\* A hand-off under way
LEMMA TeardownPick == ASSUME IInv, IInv', TeardownHolds, PickStep PROVE TeardownHolds'
<1>1. CASE InjectCrash \/ InjectShutdown
  <2>1. UNCHANGED <<pick, pc>>
    BY <1>1 DEF InjectCrash, InjectShutdown
  <2>2. TeardownCalm
    <3>1. CASE \E v \in Pid : CrashStep(v)
      BY <3>1, CrashCalm
    <3>2. CASE /\ Steady(procs, procs')
               /\ \E v \in Pid : threads' = Ready(threads, Interruptible(threads, v)
                                                           \cup WaitingForIO(threads))
      <4>1. Woken(threads, threads')
        BY <3>2, Basics, ReadyWoken DEF Interruptible, WaitingForIO, Blocked
      <4> QED BY <3>2, <4>1, CalmTables DEF Steady, SameLife, SameCore
    <3> QED BY <1>1, <3>1, <3>2, CrashSteps
  <2> QED BY <2>1, <2>2, TeardownQuiet
<1>2. CASE Tick
  <2>1. /\ UNCHANGED pc /\ pick.phase = "tick"
        /\ pick' = [pick EXCEPT !.phase = "faults", !.add = 0] /\ pick.add \in Nat
    BY <1>2 DEF Tick, IInv, Base, TypeOK
  <2>2. pick'.by = pick.by /\ pick'.me = pick.me
    BY <2>1 DEF IInv, Base, TypeOK
  <2> DEFINE pr == ProcsLater(procs, pick.add)
  <2>3. Steady(procs, pr) /\ pr \in Procs
    BY <2>1, Basics, ProcsLaterSteady, ProcsLaterLemma DEF Alike
  <2>4. procs' = StoppedProcs(pr) \/ procs' = pr
    BY <1>2 DEF Tick
  <2> HIDE DEF pr
  <2>5. ASSUME NEW p \in Pid
        PROVE  /\ StoppedProcs(pr)[p].exiting = pr[p].exiting
               /\ StoppedProcs(pr)[p].killed = pr[p].killed
    <3>1. pr[p] \in ProcRec
      BY <2>3 DEF Procs
    <3> QED BY <3>1 DEF StoppedProcs, ProcRec
  <2>6. TeardownCalm
    BY <1>2, <2>3, <2>4, <2>5, TickTables, CalmTables DEF Steady, SameLife, SameCore
  <2> QED BY <2>1, <2>2, <2>6, TeardownQuiet
<1>3. CASE Jump
  <2>1. PICK d : pick' = [pick EXCEPT !.phase = "tick", !.add = d]
    BY <1>3 DEF Jump
  <2>2. UNCHANGED pc /\ pick.phase # "none" /\ threads' = Released
    BY <1>3 DEF Jump, FaultsDone
  <2>3. pick'.by = pick.by /\ pick'.me = pick.me
    BY <2>1 DEF IInv, Base, TypeOK
  <2>4. TeardownCalm
    BY <1>3, <2>2, SteadySteps, ReleasedLemma, CalmTables DEF Steady, SameLife, SameCore
  <2> QED BY <2>2, <2>3, <2>4, TeardownQuiet
<1>4. CASE IdleLauncher
  <2>1. /\ pick'.phase = "none" /\ threads' = Released
        /\ pc' = pc \/ pc' = ThreadsGone(pc, Pid)
    BY <1>4 DEF IdleLauncher, NoPick
  <2>2. TeardownCalm
    BY <1>4, <2>1, SteadySteps, ReleasedLemma, CalmTables DEF Steady, SameLife, SameCore
  <2>3. \A u \in Tid : pc'[u] \in {"gone", pc[u]}
    BY <2>1 DEF ThreadsGone
  <2> QED BY <2>1, <2>2, <2>3, TeardownQuiet
\* The caller goes on with its teardown, or polls, or parks.
<1>5. CASE IdleGuest \/ \E t \in Tid : Choose(t)
  <2>0. pick.phase # "none" /\ pick'.phase = "none"
    <3>1. NoPick.phase = "none"
      BY DEF NoPick
    <3>2. IdleGuest => pick.phase = "faults" /\ pick' = NoPick
      BY DEF IdleGuest, Idle, FaultsDone
    <3>3. \A t \in Tid : Choose(t) => pick.phase = "faults" /\ pick' = NoPick
      BY DEF Choose, FaultsDone
    <3> QED BY <1>5, <3>1, <3>2, <3>3
  <2>1. PICK pcs, dead :
          /\ pc' = ThreadsGone(pcs, dead) \/ pc' = pcs
          /\ \/ pick.by = "guest" /\ pcs = [pc EXCEPT ![pick.me] = "polling"]
             \/ pcs = AfterHandOff(Released)
    BY <1>5 DEF IdleGuest, Choose
  <2>2. ASSUME NEW u \in Tid
        PROVE  \/ pc'[u] \in {"gone", pc[u]} /\ (pick.by = "guest" /\ u = pick.me => pc'[u] = "gone")
               \/ pick.by = "guest" /\ u = pick.me /\ pc'[u] \in {"polling", "parked"}
               \/ /\ pick.by = "guest" /\ u = pick.me /\ pc'[u] = "leaving"
                  /\ Released[u].state = "exited" /\ ~procs[Owner(u)].killed
    <3>1. \/ pcs[u] = pc[u] /\ (pick.by = "guest" => u # pick.me)
          \/ pick.by = "guest" /\ u = pick.me /\ pcs[u] \in {"polling", "parked"}
          \/ /\ pick.by = "guest" /\ u = pick.me /\ pcs[u] = "leaving"
             /\ Released[u].state = "exited" /\ ~procs[Owner(u)].killed
      <4>1. pc \in [Tid -> Pcs]
        BY Basics
      <4>2. CASE pick.by = "guest" /\ pcs = [pc EXCEPT ![pick.me] = "polling"]
        BY <4>1, <4>2
      <4>3. CASE pick.by = "guest" /\ pcs = AfterHandOff(Released)
        BY <4>1, <4>3 DEF AfterHandOff
      <4>4. CASE pick.by # "guest" /\ pcs = AfterHandOff(Released)
        BY <4>4 DEF AfterHandOff
      <4> QED BY <2>1, <4>2, <4>3, <4>4
    <3> QED BY <2>1, <3>1 DEF ThreadsGone
  <2>3. Steady(procs, procs')
    BY <1>5, SteadySteps
  <2>4. /\ Released \in Threads
        /\ \A u \in Tid : Released[u].pid = threads[u].pid
                          /\ (Released[u].state = "exited" <=> threads[u].state = "exited")
    BY <2>0, ReleasedLemma DEF Woken
  <2>5. \A u \in Tid : threads'[u].pid = threads[u].pid
                       /\ (threads'[u].state = "exited" => threads[u].state = "exited")
    <3>1. CASE threads' = Released
      BY <2>4, <3>1
    <3>2. CASE \E t \in Tid : Choose(t)
      <4>1. PICK t \in Tid : threads' = [Released EXCEPT ![t].state = "running"]
        BY <3>2 DEF Choose
      <4> QED BY <2>4, <4>1 DEF Threads, ThreadRec
    <3> QED BY <1>5, <3>1, <3>2 DEF IdleGuest
  <2>6. \A u \in Tid : ~Inside(u)
    BY <2>0 DEF IInv, Base, Safe, HandingOver
  <2>7. \A u \in Tid : ~Inside(u)' /\ (pc[u] = "polling" => pick.by = "guest" /\ u = pick.me)
    <3>1. \A u \in Tid : pc[u] = "polling" => pick.by = "guest" /\ u = pick.me
      BY <2>0, NoOtherPoller
    <3>2. \A u \in Tid : pc'[u] \in {"gone", "polling", "parked", "leaving", pc[u]}
      BY <2>2
    <3> QED BY <2>6, <3>1, <3>2 DEF Inside
  <2>8. ASSUME NEW u \in Tid, pc'[u] = "leaving" PROVE procs'[threads'[u].pid].exiting = u
    <3>0. pc[u] # "none"
      BY <2>0, <2>2, <2>8 DEF IInv, Base, Safe, HandingOver
    <3>1. threads'[u].pid = threads[u].pid /\ threads[u].pid \in Pid
      BY <2>5, <3>0, Basics
    <3>2. procs[threads[u].pid].exiting = u
      BY <2>0, <2>2, <2>4, <2>8 DEF TeardownHolds, Departing, Owner
    <3> QED BY <2>3, <3>1, <3>2 DEF Steady, SameLife
  <2>9. ASSUME NEW u \in Tid, Departing(u)' PROVE procs'[threads'[u].pid].exiting = u
    <3>1. pc'[u] = "polling" /\ threads'[u].state = "exited"
          /\ ~procs'[threads'[u].pid].killed
      BY <2>0, <2>9 DEF Departing
    <3>2. pick.by = "guest" /\ u = pick.me /\ pc[u] # "none"
      BY <2>0, <2>2, <2>7, <3>1 DEF IInv, Base, Safe, HandingOver
    <3>3. threads'[u].pid = threads[u].pid /\ threads[u].pid \in Pid /\ threads[u].state = "exited"
      BY <2>5, <3>1, <3>2, Basics
    <3>4. Departing(u)
      BY <2>0, <2>3, <3>1, <3>2, <3>3 DEF Departing, Steady, SameLife, SameCore
    <3> QED BY <2>3, <3>3, <3>4 DEF TeardownHolds, Steady, SameLife
  <2> QED BY <2>7, <2>8, <2>9 DEF TeardownHolds
<1> QED
  BY <1>1, <1>2, <1>3, <1>4, <1>5 DEF PickStep

\* A thread that gives the baton away without leaving (yield_baton_as)
LEMMA TeardownHandOff ==
    ASSUME IInv, IInv', TeardownHolds, UNCHANGED procs, NEW t \in Tid, NEW k, NEW deadline,
           NEW st \in {"runnable", "blocked"}, GuestHandOff(t, st, k, deadline), Goes(t, "parked")
    PROVE  TeardownHolds'
<1>1. /\ threads' = [threads EXCEPT ![t] = [threads[t] EXCEPT !.state = st, !.key = k,
                                                              !.deadline = deadline]]
      /\ pick' = [phase |-> "tick", by |-> "guest", me |-> t, add |-> SwitchNs]
      /\ pc' = [pc EXCEPT ![t] = "parked"] /\ threads \in Threads /\ pc \in [Tid -> Pcs]
  BY Basics DEF GuestHandOff, Goes
<1>2. /\ threads'[t].pid = threads[t].pid /\ threads'[t].state = st
      /\ \A u \in Tid : u # t => threads'[u] = threads[u]
  BY <1>1 DEF Threads, ThreadRec
<1>3. \A u \in Tid : Departing(u)' => u # t /\ pc[u] = "polling"
  BY <1>1, <1>2 DEF Departing
<1>4. \A u \in Tid : Departing(u)' => Departing(u)
  BY <1>2, <1>3 DEF Departing
<1>5. \A u \in Tid : /\ u # t => pc'[u] = pc[u] /\ threads'[u] = threads[u]
                     /\ pc'[t] = "parked"
  BY <1>1, <1>2
<1> QED
  BY <1>2, <1>4, <1>5 DEF TeardownHolds, Inside

\* The new holder waits out the teardown before it forgets the port.
LEMMA TeardownTakeUp ==
    ASSUME IInv, IInv', TeardownHolds, NEW t \in Tid, TakeUp(t) PROVE TeardownHolds'
<1> DEFINE p == Owner(t)
           rec == [Settled(procs)[p] EXCEPT !.exiting = NoThread, !.pending = FALSE]
<1>1. /\ pick.phase = "none" /\ pc[t] = "parked" /\ run.current = t /\ ExitIsOver(p)
      /\ threads' = SettledThreads /\ UNCHANGED pick
  BY DEF TakeUp, MayTakeUp, LockFree
<1>2. p \in Pid /\ procs \in Procs /\ threads \in Threads /\ pc \in [Tid -> Pcs]
  BY <1>1, Basics DEF Owner
<1>3. Settled(procs) \in Procs /\ Settled(procs)[p] \in ProcRec
      /\ \A q \in Pid : Settled(procs)[q].exiting = procs[q].exiting
                        /\ Settled(procs)[q].killed = procs[q].killed
  BY <1>2, SettledLemma DEF Alike, Settled, Procs, ProcRec
<1>4. procs' = [Settled(procs) EXCEPT ![p] = rec]
  BY <1>2, <1>3 DEF TakeUp, Procs
<1>5. rec.killed = Settled(procs)[p].killed
  BY <1>3 DEF ProcRec
<1> HIDE DEF rec
<1>6. \A q \in Pid : /\ procs'[q].killed = procs[q].killed
                     /\ q # p => procs'[q].exiting = procs[q].exiting
  BY <1>2, <1>3, <1>4, <1>5 DEF Procs
<1>7. Woken(threads, threads')
  BY <1>1, <1>2, Basics, ReadyWoken DEF SettledThreads, WaitingForIO, Blocked
<1>8. \A u \in Tid : \/ pc'[u] \in {"gone", pc[u]}
                     \/ u = t /\ pc'[u] \in {"checking", "guest"}
  BY <1>2 DEF TakeUp, Goes, ThreadsGone
<1>9. \A u \in Tid : pc[u] # "polling" /\ ~Inside(u)
  <2>1. \A u \in Tid : u # t => pc[u] # "polling" /\ ~Inside(u)
    BY <1>1 DEF IInv, Base, Safe, PollersIdle, OneHolder
  <2> QED BY <1>1, <2>1 DEF Inside
<1>10. ASSUME NEW u \in Tid, pc[u] = "leaving" PROVE threads[u].pid # p /\ threads[u].pid \in Pid
  <2>1. threads[u].pid = p => procs[p].exiting = u
    BY <1>10 DEF TeardownHolds
  <2> QED BY <1>1, <1>10, <2>1, Basics DEF ExitIsOver
<1>11. \A u \in Tid : ~Departing(u)'
  BY <1>1, <1>8, <1>9 DEF Departing
<1>12. \A u \in Tid : pc'[u] = "leaving" =>
         pc[u] = "leaving" /\ procs'[threads'[u].pid].exiting = procs[threads[u].pid].exiting
  BY <1>6, <1>7, <1>8, <1>10 DEF Woken
<1>13. \A u \in Tid : Inside(u)' => u = t
  BY <1>8, <1>9 DEF Inside
<1>14. \A u \in Tid : threads'[u].pid = threads[u].pid
  BY <1>7 DEF Woken
<1> QED
  BY <1>10, <1>11, <1>12, <1>13, <1>14 DEF TeardownHolds, Owner

\* A thread that polls looks again, and its port is where it was.
LEMMA TeardownPoll ==
    ASSUME IInv, IInv', TeardownHolds, NEW t \in Tid, Poll(t) PROVE TeardownHolds'
<1>1. /\ UNCHANGED <<threads, procs, pc>> /\ pc[t] = "polling"
      /\ pick' = [phase |-> "tick", by |-> "guest", me |-> t, add |-> 0]
  BY DEF Poll
<1>2. \A u \in Tid : Departing(u)' => Departing(u)
  BY <1>1 DEF Departing
<1> QED
  BY <1>1, <1>2 DEF TeardownHolds, Inside

\* What the holder of the baton does by itself
LEMMA TeardownReturn ==
    ASSUME IInv, IInv', TeardownHolds, NEW t \in Tid, Return(t) PROVE TeardownHolds'
<1>0. procs \in Procs /\ pc \in [Tid -> Pcs]
  BY Basics
<1>1. CASE DieStopped(t) \/ PollGivesUp(t) \/ AwaitAttach(t)
  <2>1. UNCHANGED <<threads, procs, pick>> /\ Woken(threads, threads')
    BY <1>1, Basics DEF DieStopped, PollGivesUp, AwaitAttach
  <2>2. \A u \in Tid : \/ pc'[u] \in {"gone", pc[u]}
                       \/ Inside(u) /\ pc'[u] \in InsidePcs
    BY <1>0, <1>1 DEF DieStopped, PollGivesUp, AwaitAttach, ThreadsGone, Goes, Inside, InsidePcs
  <2> QED BY <2>1, <2>2, CalmTables, TeardownQuiet
<1>2. CASE SettleDeaths(t)
  <2>1. Woken(threads, threads')
    BY <1>2, Basics, ReadyWoken DEF SettleDeaths, SettledThreads, WaitingForIO, Blocked
  <2>2. \A p \in Pid : procs'[p].exiting = procs[p].exiting /\ procs'[p].killed = procs[p].killed
    BY <1>0, <1>2 DEF SettleDeaths, Settled, Procs, ProcRec
  <2>3. UNCHANGED pick /\ \A u \in Tid : pc'[u] = pc[u] \/ (Inside(u) /\ pc'[u] \in InsidePcs)
    BY <1>0, <1>2 DEF SettleDeaths, Goes, Inside, InsidePcs
  <2> QED BY <2>1, <2>2, <2>3, CalmTables, TeardownQuiet
<1>3. CASE CheckChildren(t)
  <2>1. Woken(threads, threads')
    BY <1>3, Basics DEF CheckChildren
  <2>2. \A p \in Pid : procs'[p].exiting = procs[p].exiting /\ procs'[p].killed = procs[p].killed
    BY <1>0, <1>3 DEF CheckChildren, Procs, ProcRec
  <2>3. UNCHANGED pick /\ \A u \in Tid : pc'[u] = pc[u] \/ (Inside(u) /\ pc'[u] \in InsidePcs)
    BY <1>0, <1>3 DEF CheckChildren, Goes, Inside, InsidePcs
  <2> QED BY <2>1, <2>2, <2>3, CalmTables, TeardownQuiet
<1>4. CASE BlockOnChildren(t)
  <2>1. UNCHANGED procs /\ pc[t] = "blocking"
    BY <1>4 DEF BlockOnChildren
  <2>2. CASE threads[t].stale
    <3>1. /\ threads' = [threads EXCEPT ![t].stale = FALSE]
          /\ UNCHANGED pick /\ pc' = [pc EXCEPT ![t] = "checking"]
      BY <1>4, <2>2 DEF BlockOnChildren, BlockOn, Goes
    <3>2. \A u \in Tid : threads'[u].pid = threads[u].pid /\ threads'[u].state = threads[u].state
      BY <3>1, Basics DEF Threads, ThreadRec
    <3>3. TeardownCalm
      BY <2>1, <3>2, Basics DEF TeardownCalm
    <3>4. \A u \in Tid : pc'[u] = pc[u] \/ (Inside(u) /\ pc'[u] \in InsidePcs)
      BY <1>0, <2>1, <3>1 DEF Inside, InsidePcs
    <3> QED BY <3>1, <3>3, <3>4, TeardownQuiet
  <2>3. CASE ~threads[t].stale
    <3>1. GuestHandOff(t, "blocked", "wait", NoTime) /\ Goes(t, "parked")
      BY <1>4, <2>3 DEF BlockOnChildren, BlockOn
    <3> QED BY <2>1, <3>1, TeardownHandOff
  <2> QED BY <2>2, <2>3
<1>5. CASE \E q \in Pid : Kill(t, q)
  <2>1. PICK q \in Pid : Kill(t, q)
    BY <1>5
  <2>2. TeardownCalm
    BY <2>1, CrashSteps, CrashCalm
  <2>3. /\ UNCHANGED pick
        /\ \A u \in Tid : pc'[u] = pc[u] \/ (Inside(u) /\ pc'[u] \in InsidePcs)
    BY <1>0, <2>1 DEF Kill, Strikes, Goes, Inside, InsidePcs
  <2> QED BY <2>2, <2>3, TeardownQuiet
<1>6. CASE \E q \in Pid : Signal(t, q)
  <2>0. PICK q \in Pid : Signal(t, q)
    BY <1>6
  <2>1. Steady(procs, procs')
    BY <2>0, SteadySteps
  <2>2. Woken(threads, threads')
    <3>1. Interruptible(threads, q) \cup WaitingForIO(threads) \subseteq Blocked(threads)
      BY DEF Interruptible, WaitingForIO
    <3> QED BY <2>0, <3>1, Basics, ReadyWoken DEF Signal
  <2>3. /\ UNCHANGED pick
        /\ \A u \in Tid : pc'[u] = pc[u] \/ (Inside(u) /\ pc'[u] \in InsidePcs)
    BY <1>0, <2>0 DEF Signal, Strikes, Goes, Inside, InsidePcs
  <2>4. TeardownCalm
    BY <2>1, <2>2, CalmTables DEF Steady, SameLife, SameCore
  <2> QED BY <2>3, <2>4, TeardownQuiet
<1> QED
  BY <1>1, <1>2, <1>3, <1>4, <1>5, <1>6, TeardownTakeUp, TeardownPoll DEF Return

\* add_proc and add_thread leave the slots in use alone.
LEMMA NewSlots ==
    ASSUME IInv, NEW t \in Tid, CreateThread(t) \/ Exhaust(t) \/ SpawnChild(t)
    PROVE  /\ \A u \in Tid : u # run.nthreads + 1 => threads'[u] = threads[u]
           /\ \A p \in Pid : p # run.nprocs + 1 => procs'[p] = procs[p]
           /\ \A u \in Tid : threads[u].state # "unused" =>
                threads'[u] = threads[u] /\ procs'[threads[u].pid] = procs[threads[u].pid]
<1>1. threads \in Threads /\ procs \in Procs /\ run.nprocs \in Nat /\ run.nthreads \in Nat
  BY Basics DEF RunRec
<1>2. \A u \in Tid : u # run.nthreads + 1 => threads'[u] = threads[u]
  BY <1>1 DEF CreateThread, Exhaust, SpawnChild, Threads
<1>3. \A p \in Pid : p # run.nprocs + 1 => procs'[p] = procs[p]
  BY <1>1 DEF CreateThread, Exhaust, SpawnChild, Procs
<1>4. ASSUME NEW u \in Tid, threads[u].state # "unused"
      PROVE  threads'[u] = threads[u] /\ procs'[threads[u].pid] = procs[threads[u].pid]
  <2>1. u <= run.nthreads /\ threads[u].pid \in Pid /\ threads[u].pid <= run.nprocs
    BY <1>4, Basics DEF IInv, Base, Safe, Placed
  <2> QED BY <1>1, <1>2, <1>3, <2>1 DEF Pid, Tid
<1> QED BY <1>2, <1>3, <1>4

\* The last round of thread_teardown leaves the port behind.
LEMMA TeardownExitThread ==
    ASSUME IInv, IInv', TeardownHolds, NEW t \in Tid, ExitThread(t) PROVE TeardownHolds'
<1> DEFINE p  == Owner(t)
           th == Ready(threads, WaitingOn(threads, p, "join"))
<1>1. /\ Inside(t) /\ pick.phase = "none" /\ run.current = t
      /\ pick' = [phase |-> "tick", by |-> "guest", me |-> t, add |-> SwitchNs]
      /\ pc' = [pc EXCEPT ![t] = "parked"] /\ pc \in [Tid -> Pcs]
      /\ threads' = [th EXCEPT ![t] =
                       [@ EXCEPT !.state = "exited", !.key = "none", !.deadline = NoTime]]
      /\ procs' = [procs EXCEPT ![p].exiting = t]
  BY Basics DEF ExitThread, Runs, LockFree, Inside, Goes, IInv, Base, Safe, OneHolder
<1>2. p \in Pid /\ procs \in Procs /\ procs[p] \in ProcRec
  BY <1>1, HolderLemma, Basics DEF Procs
<1>3. th \in Threads /\ Woken(threads, th)
  BY Basics, ReadyWoken DEF WaitingOn, Blocked, Woken
<1> HIDE DEF th
<1>4. /\ \A u \in Tid : threads'[u].pid = threads[u].pid
      /\ \A u \in Tid : u # t /\ threads'[u].state = "exited" => threads[u].state = "exited"
  BY <1>1, <1>3 DEF Threads, ThreadRec, Woken
<1>5. /\ procs'[p].exiting = t
      /\ \A q \in Pid : /\ procs'[q].killed = procs[q].killed
                        /\ q # p => procs'[q].exiting = procs[q].exiting
  BY <1>1, <1>2 DEF Procs, ProcRec
<1>6. \A u \in Tid : u # t => pc[u] # "polling" /\ ~Inside(u)
  BY <1>1 DEF IInv, Base, Safe, PollersIdle, OneHolder
<1>7. \A u \in Tid : Departing(u)' => u = t
  BY <1>1, <1>6 DEF Departing
<1>8. \A u \in Tid : ~Inside(u)'
  BY <1>1, <1>6 DEF Inside
<1>9. ASSUME NEW u \in Tid, pc'[u] = "leaving"
      PROVE  procs'[threads'[u].pid].exiting = u
  <2>1. pc[u] = "leaving" /\ u # t
    BY <1>1, <1>9
  <2>2. threads[u].pid \in Pid
    BY <2>1, Basics
  <2> QED BY <1>1, <1>4, <1>5, <2>1, <2>2 DEF TeardownHolds, Owner
<1> QED
  BY <1>4, <1>5, <1>7, <1>8, <1>9 DEF TeardownHolds, Owner

\* What the program does
LEMMA TeardownGuest ==
    ASSUME IInv, IInv', TeardownHolds, NEW t \in Tid, Guest(t) PROVE TeardownHolds'
<1>0. /\ threads \in Threads /\ procs \in Procs /\ pc \in [Tid -> Pcs]
      /\ pick.phase = "none" /\ pc[t] = "guest" /\ Inside(t)
      /\ Woken(threads, threads)
  BY Basics DEF Guest, Yield, Block, Wake, CreateThread, Exhaust, ExitThread, ExitProcess,
                ReadClock, SetTimer, SpawnChild, Waitpid, Aim, Runs, LockFree, Inside
<1>1. CASE Yield(t)
  BY <1>1, TeardownHandOff DEF Yield
<1>2. CASE Block(t)
  <2>1. PICK k, d : BlockOn(t, k, d, "guest") /\ UNCHANGED procs
    BY <1>2 DEF Block
  <2>2. CASE threads[t].stale
    <3>1. /\ threads' = [threads EXCEPT ![t].stale = FALSE]
          /\ UNCHANGED pick /\ pc' = [pc EXCEPT ![t] = "guest"]
      BY <2>1, <2>2 DEF BlockOn, Goes
    <3>2. \A u \in Tid : threads'[u].pid = threads[u].pid /\ threads'[u].state = threads[u].state
      BY <1>0, <3>1 DEF Threads, ThreadRec
    <3>3. TeardownCalm
      BY <2>1, <3>2, Basics DEF TeardownCalm
    <3> QED BY <1>0, <3>1, <3>3, TeardownQuiet
  <2>3. CASE ~threads[t].stale
    <3>1. GuestHandOff(t, "blocked", k, d) /\ Goes(t, "parked")
      BY <2>1, <2>3 DEF BlockOn
    <3> QED BY <2>1, <3>1, TeardownHandOff
  <2> QED BY <2>2, <2>3
<1>3. CASE Wake(t)
  <2>1. Woken(threads, threads')
    BY <1>0, <1>3, ReadyWoken DEF Wake, WaitingOn, WaitingForIO, Blocked
  <2> QED BY <1>3, <2>1, CalmTables, TeardownQuiet DEF Wake
<1>4. CASE CreateThread(t) \/ Exhaust(t) \/ SpawnChild(t)
  <2>1. TeardownCalm
    BY <1>4, NewSlots DEF TeardownCalm
  <2>2. UNCHANGED pick
    BY <1>4 DEF CreateThread, Exhaust, SpawnChild
  <2>3. \A u \in Tid : \/ pc'[u] \in {"gone", "boot", "parked", pc[u]}
                       \/ Inside(u) /\ pc'[u] = "awaiting"
    BY <1>0, <1>4 DEF CreateThread, Exhaust, SpawnChild, ThreadsGone
  <2>4. \A u \in Tid : pc'[u] = "parked" => ~Departing(u)'
    BY <1>0, <2>2 DEF Departing
  <2> QED BY <2>1, <2>2, <2>3, <2>4, TeardownQuiet DEF InsidePcs
<1>5. CASE ExitProcess(t) \/ Waitpid(t) \/ \E q \in Pid : Aim(t, q)
  <2>1. UNCHANGED <<threads, procs, pick>>
    BY <1>5 DEF ExitProcess, Waitpid, Aim
  <2>2. \A u \in Tid : \/ pc'[u] \in {"gone", pc[u]}
                       \/ Inside(u) /\ pc'[u] \in InsidePcs
    BY <1>0, <1>5 DEF ExitProcess, Waitpid, Aim, ThreadsGone, Goes, InsidePcs
  <2>3. TeardownCalm
    BY <1>0, <2>1, CalmTables
  <2> QED BY <2>1, <2>2, <2>3, TeardownQuiet
<1>6. CASE ReadClock(t) \/ SetTimer(t)
  <2>1. Steady(procs, procs')
    BY <1>6, SteadySteps
  <2>2. Woken(threads, threads')
    BY <1>0, <1>6, ThreadsLaterLemma DEF ReadClock, SetTimer
  <2>3. UNCHANGED <<pc, pick>>
    BY <1>6 DEF ReadClock, SetTimer
  <2>4. TeardownCalm
    BY <2>1, <2>2, CalmTables DEF Steady, SameLife, SameCore
  <2> QED BY <2>3, <2>4, TeardownQuiet
<1> QED
  BY <1>1, <1>2, <1>3, <1>4, <1>5, <1>6, TeardownExitThread DEF Guest

\* What happens off the baton, and what the launcher does
LEMMA TeardownAside ==
    ASSUME IInv, IInv', TeardownHolds, Aside \/ LauncherStep PROVE TeardownHolds'
<1>0. /\ threads \in Threads /\ procs \in Procs /\ pc \in [Tid -> Pcs]
      /\ Woken(threads, threads) /\ Steady(procs, procs)
  BY Basics, SteadyReflexive
<1>1. CASE \E p \in Pid : OutsideWake(p)
  <2>1. PICK p \in Pid : OutsideWake(p)
    BY <1>1
  <2>2. PICK W : /\ W \subseteq Blocked(threads)
                 /\ threads' = [t \in Tid |->
                      [Ready(threads, W)[t] EXCEPT !.stale = @ \/ t \in ThreadsOf(threads, p)]]
    BY <2>1 DEF OutsideWake, WaitingOn, WaitingForIO, Blocked
  <2>3. ASSUME NEW u \in Tid
        PROVE  /\ threads'[u].pid = threads[u].pid
               /\ threads'[u].state = "exited" => threads[u].state = "exited"
    <3> DEFINE th == Ready(threads, W)
               b  == th[u].stale \/ u \in ThreadsOf(threads, p)
    <3>1. threads'[u] = [th[u] EXCEPT !.stale = b]
      BY <2>2
    <3>2. th \in Threads /\ th[u].pid = threads[u].pid
          /\ (th[u].state = "exited" => threads[u].state = "exited")
      BY <1>0, ReadyLemma
    <3> HIDE DEF th, b
    <3> QED BY <3>1, <3>2 DEF Threads, ThreadRec
  <2>4. Steady(procs, procs') /\ UNCHANGED <<pc, pick>>
    BY <2>1, SteadySteps DEF OutsideWake
  <2>5. TeardownCalm
    BY <2>3, <2>4, Basics DEF TeardownCalm, Steady, SameLife, SameCore
  <2> QED BY <2>4, <2>5, TeardownQuiet
<1>2. CASE \E p \in Pid : Attach(p)
  <2>1. PICK p \in Pid : Attach(p)
    BY <1>2
  <2>2. UNCHANGED <<threads, pick>> /\ pick.phase = "none"
    BY <2>1 DEF Attach, LockFree
  <2>3. \A q \in Pid : procs'[q].exiting = procs[q].exiting /\ procs'[q].killed = procs[q].killed
    <3>1. \/ procs' = [procs EXCEPT ![p].signalled = TRUE]
          \/ procs' = [procs EXCEPT ![p].known = TRUE, ![p].state = "live"]
      BY <2>1 DEF Attach
    <3> QED BY <1>0, <3>1 DEF Procs, ProcRec
  <2>4. \A u \in Tid : pc'[u] \in {"gone", "parked", pc[u]}
    BY <2>1 DEF Attach, ThreadsGone
  <2>5. \A u \in Tid : pc'[u] = "parked" => ~Departing(u)'
    BY <2>2 DEF Departing
  <2>6. TeardownCalm
    BY <1>0, <2>2, <2>3, CalmTables
  <2> QED BY <2>2, <2>4, <2>5, <2>6, TeardownQuiet
<1>3. CASE (\E t \in Tid : Leave(t)) \/ (\E p \in Pid : Slain(p) \/ FailToAttach(p))
  <2>1. UNCHANGED <<threads, procs, pick>> /\ \A u \in Tid : pc'[u] \in {"gone", pc[u]}
    BY <1>0, <1>3 DEF Leave, Slain, FailToAttach, Goes, ThreadsGone
  <2> QED BY <1>0, <2>1, CalmTables, TeardownQuiet
<1>4. CASE Bury
  <2> DEFINE v == launcher.proc
  <2>1. /\ UNCHANGED <<pc, real>> /\ v \in Pid /\ real[v] = "reaped" /\ run \in RunRec
        /\ pick'.phase # "none" /\ pick'.by = "guest" => pick' = pick
    BY <1>4, BurySteps, Basics DEF Bury
  <2>2. PICK pr2 \in Procs :
                /\ Buried(procs, pr2, v)
                /\ \/ threads' = Retire(threads, v) /\ procs' = pr2 /\ run' = run
                   \/ Succeeded(Bereaved(v), pr2, run, v, launcher.failed)
    BY <1>4, BurySteps
  <2>3. ASSUME NEW u \in Tid, threads[u].state # "unused"
        PROVE  /\ threads'[u].pid = threads[u].pid
               /\ threads[u].pid # v /\ threads'[u].state = "exited" => threads[u].state = "exited"
               /\ procs'[threads[u].pid].exiting = procs[threads[u].pid].exiting
               /\ procs'[threads[u].pid].killed = procs[threads[u].pid].killed
    <3>1. threads[u].pid \in Pid /\ threads[u].pid <= run.nprocs
      BY <2>3, Basics
    <3>2. /\ pr2[threads[u].pid].exiting = procs[threads[u].pid].exiting
          /\ pr2[threads[u].pid].killed = procs[threads[u].pid].killed
      BY <2>2, <3>1 DEF Buried, SameLife, SameCore
    <3>3. CASE threads' = Retire(threads, v) /\ procs' = pr2
      BY <1>0, <3>2, <3>3, RetireLemma
    <3>4. CASE Succeeded(Bereaved(v), pr2, run, v, launcher.failed)
      <4> HIDE DEF v
      <4> QED BY <2>1, <2>3, <3>1, <3>2, <3>4, SucceededOld
    <3> QED BY <2>2, <3>3, <3>4
  <2>4. \A u \in Tid : Active(u)' => real[threads[u].pid] = "up"
    BY <2>1 DEF IInv, Base, Safe, Tenants, Active
  <2>5. TeardownCalm
    BY <2>1, <2>3, <2>4 DEF TeardownCalm
  <2> QED BY <2>1, <2>5, TeardownQuiet
<1>5. CASE LauncherStep /\ ~Bury
  <2>1. Steady(procs, procs')
    BY <1>0, <1>5, SteadySteps DEF LauncherStep, Start, Started, EndRun, Finish, NoticeExit
  <2>2. /\ threads' = threads /\ \A u \in Tid : pc'[u] \in {"boot", pc[u]}
        /\ pick'.by = "guest" => pick' = pick
    <3>1. CASE Start
      BY <3>1 DEF Start
    <3>2. CASE Respawn
      BY <1>0, <3>2 DEF Respawn
    <3>3. CASE Started \/ EndRun \/ Finish \/ \E p \in Pid : NoticeExit(p)
      BY <3>3 DEF Started, EndRun, Finish, NoticeExit
    <3> QED BY <1>5, <3>1, <3>2, <3>3 DEF LauncherStep
  <2>3. TeardownCalm
    BY <1>0, <2>1, <2>2, CalmTables DEF Steady, SameLife, SameCore
  <2> QED BY <2>2, <2>3, TeardownQuiet
<1> QED
  BY <1>1, <1>2, <1>3, <1>4, <1>5 DEF Aside

\* The next thread of a process runs when the one that left before it is
\* gone, whatever was crashed, buried, polled or restarted in between
\* (note_exiting, wait_out_exit).
THEOREM TeardownIsOver == Spec => []TeardownOver
<1>1. Init => TeardownHolds
  <2> SUFFICES ASSUME Init, NEW u \in Tid PROVE pc[u] \in {"boot", "none"} /\ pick.phase = "none"
    BY DEF TeardownHolds, Departing
  <2> QED BY DEF Init, NoPick
<1>2. ASSUME IInv, IInv', TeardownHolds, [Next]_vars PROVE TeardownHolds'
  <2>1. CASE UNCHANGED vars
    BY <1>2, <2>1 DEF vars, TeardownHolds, Departing, Inside
  <2> QED
    BY <1>2, <2>1, TeardownPick, TeardownReturn, TeardownGuest, TeardownAside DEF Next, Over
<1>3. TeardownHolds => TeardownOver
  BY DEF TeardownHolds, TeardownOver, Inside, Owner
<1> QED
  BY <1>1, <1>2, <1>3, Invariance, PTL DEF Spec

----------------------------------------------------------------------------
(***************************************************************************)
(* An entry has one life at a time.                                        *)
(***************************************************************************)

\* A life that has a successor in the table is over, and the successor is a
\* later life of the same entry; slots not taken yet belong to nobody.
Successors ==
    \A p \in Pid :
        /\ p > run.nprocs => procs[p].spec = 0 /\ procs[p].replacedBy = NoProc
        /\ procs[p].replacedBy # NoProc =>
             /\ procs[p].replacedBy > p /\ procs[p].spec # 0
             /\ procs[procs[p].replacedBy].spec = procs[p].spec
             /\ ~Alive(procs, p)

\* The lives of an entry follow one another: each has its successor no later
\* than the next of them, and is buried before that one is spawned.
Lineage ==
    \A p, q \in Pid : p < q /\ procs[p].spec = procs[q].spec /\ procs[p].spec # 0 =>
        /\ procs[p].replacedBy # NoProc /\ procs[p].replacedBy <= q
        /\ real[q] # "none" => real[p] = "reaped"

\* The launcher spawns the next life of a process it has seen dead.
HeardOf ==
    launcher.at = "respawning" \/ (pick.phase # "none" /\ pick.by = "launcher") =>
        real[launcher.proc] = "reaped"

OneLifeHolds == Successors /\ Lineage /\ HeardOf

\* Tables that tell the same of every lineage, and of nobody that he lives
\* again
SameLine(pr, pr2) ==
    \A p \in Pid :
        /\ pr2[p].spec = pr[p].spec /\ pr2[p].replacedBy = pr[p].replacedBy
        /\ Alive(pr2, p) => Alive(pr, p)

\* A table that tells the same of every life tells the same of its line.
LEMMA SteadyLine == ASSUME NEW pr, NEW pr2, Steady(pr, pr2) PROVE SameLine(pr, pr2)
BY DEF Steady, SameLife, SameCore, SameLine, Alive

\* What becomes of the real processes: one the launcher has seen dead stays
\* so, and only the launcher and posix_spawn make new ones.
LEMMA RealSteps ==
    ASSUME IInv, [Next]_vars, NEW p \in Pid
    PROVE  /\ real[p] = "reaped" => real'[p] = "reaped"
           /\ real[p] # "none" => real'[p] # "none"
           /\ real'[p] = "up" => real[p] \in {"none", "up"}
           /\ real[p] = "none" /\ real'[p] # "none" =>
                \/ Respawn /\ p = procs[launcher.proc].replacedBy
                \/ p = run.nprocs + 1 /\ \E t \in Tid : SpawnChild(t)
<1> DEFINE Goal == /\ real[p] = "reaped" => real'[p] = "reaped"
                   /\ real[p] # "none" => real'[p] # "none"
                   /\ real'[p] = "up" => real[p] \in {"none", "up"}
                   /\ real[p] = "none" /\ real'[p] # "none" =>
                        \/ Respawn /\ p = procs[launcher.proc].replacedBy
                        \/ p = run.nprocs + 1 /\ \E t \in Tid : SpawnChild(t)
<1>0. real \in [Pid -> {"none", "up", "exit0", "failed", "reaped"}] /\ run.nprocs \in Nat
  BY Basics DEF IInv, Base, TypeOK, RunRec
<1>1. UNCHANGED real => Goal
  OBVIOUS
<1>2. (\E S : \E status \in {"exit0", "failed"} : RealDeath(S, status)) => Goal
  BY <1>0 DEF RealDeath
<1>3. CASE PickStep
  <2>1. CASE IdleGuest
    BY <1>2, <2>1 DEF IdleGuest
  <2>2. CASE IdleLauncher
    BY <1>0, <2>2 DEF IdleLauncher
  <2>3. CASE ~IdleGuest /\ ~IdleLauncher
    BY <1>1, <1>3, <2>3 DEF PickStep, Tick, InjectCrash, InjectShutdown, Jump, Choose
  <2> QED BY <2>1, <2>2, <2>3
<1>4. ASSUME NEW t \in Tid, Return(t) PROVE Goal
  <2>1. UNCHANGED real \/ RealDeath({Owner(t)}, "failed")
    BY <1>4 DEF Return, DieStopped, TakeUp, SettleDeaths, AwaitAttach, CheckChildren,
                BlockOnChildren, Poll, PollGivesUp, Kill, Signal
  <2> QED BY <1>1, <1>2, <2>1
<1>5. ASSUME NEW t \in Tid, Guest(t) PROVE Goal
  <2>1. CASE SpawnChild(t)
    <3>1. real' = real \/ real' = [real EXCEPT ![run.nprocs + 1] = "up"]
      BY <2>1 DEF SpawnChild
    <3>2. p = run.nprocs + 1 => real[p] = "none"
      BY <1>0 DEF IInv, Base, Safe, Placed
    <3> QED BY <1>0, <2>1, <3>1, <3>2
  <2>2. CASE Exhaust(t) \/ ExitProcess(t)
    BY <1>2, <2>2 DEF Exhaust, ExitProcess
  <2>3. CASE ~SpawnChild(t) /\ ~Exhaust(t) /\ ~ExitProcess(t)
    BY <1>1, <1>5, <2>3 DEF Guest, Yield, Block, Wake, CreateThread, ExitThread, ReadClock,
                            SetTimer, Waitpid, Aim
  <2> QED BY <2>1, <2>2, <2>3
<1>6. CASE Aside
  BY <1>1, <1>2, <1>6 DEF Aside, Leave, OutsideWake, Slain, Attach, FailToAttach
<1>7. CASE LauncherStep
  <2>1. CASE Respawn
    BY <1>0, <2>1 DEF Respawn
  <2>2. CASE \E q \in Pid : NoticeExit(q)
    BY <1>0, <2>2 DEF NoticeExit, Dead
  <2>3. CASE ~Respawn /\ ~(\E q \in Pid : NoticeExit(q))
    BY <1>1, <1>7, <2>3 DEF LauncherStep, Start, Started, EndRun, Bury, Finish
  <2> QED BY <2>1, <2>2, <2>3
<1>8. CASE UNCHANGED vars
  BY <1>1, <1>8 DEF vars
<1> QED BY <1>3, <1>4, <1>5, <1>6, <1>7, <1>8 DEF Next, Over

\* A stop, a take-up, and an exit leave all that makes a life as it was.
CoreKept == \A p \in Pid : SameCore(procs[p], procs'[p])

\* What a hand-off's clock and the marks of the supervisor do to a process
LEMMA CoreSteps ==
    ASSUME IInv
    PROVE  /\ Steady(procs, procs') => CoreKept
           /\ Tick => CoreKept /\ \A p \in Pid : procs'[p].unsettled = procs[p].unsettled
                                               /\ procs'[p].exiting = procs[p].exiting
           /\ \A t \in Tid : TakeUp(t) \/ SettleDeaths(t) \/ ExitThread(t) => CoreKept
<1>0. procs \in Procs /\ \A p \in Pid : procs[p] \in ProcRec
  BY Basics DEF Procs
<1>1. Steady(procs, procs') => CoreKept
  BY DEF Steady, SameLife, CoreKept
<1>2. ASSUME Tick
      PROVE  CoreKept /\ \A p \in Pid : procs'[p].unsettled = procs[p].unsettled
                                      /\ procs'[p].exiting = procs[p].exiting
  <2> DEFINE pr == ProcsLater(procs, pick.add)
  <2>1. procs' = StoppedProcs(pr) \/ procs' = pr
    BY <1>2 DEF Tick
  <2>2. pick.add \in Nat
    BY DEF IInv, Base, TypeOK
  <2>3. Steady(procs, pr) /\ pr \in Procs
    BY <1>0, <2>2, ProcsLaterSteady, ProcsLaterLemma DEF Alike
  <2> HIDE DEF pr
  <2>4. ASSUME NEW p \in Pid
        PROVE  /\ SameCore(pr[p], StoppedProcs(pr)[p])
               /\ StoppedProcs(pr)[p].unsettled = pr[p].unsettled
               /\ StoppedProcs(pr)[p].exiting = pr[p].exiting
    <3>1. pr[p] \in ProcRec
      BY <2>3 DEF Procs
    <3>2. StoppedProcs(pr)[p] = IF Alive(pr, p) THEN [pr[p] EXCEPT !.stopped = TRUE] ELSE pr[p]
      BY DEF StoppedProcs
    <3> QED BY <3>1, <3>2 DEF ProcRec, SameCore
  <2>5. ASSUME NEW p \in Pid
        PROVE  /\ SameCore(procs[p], procs'[p])
               /\ procs'[p].unsettled = procs[p].unsettled
               /\ procs'[p].exiting = procs[p].exiting
    BY <2>1, <2>3, <2>4 DEF Steady, SameLife, SameCore
  <2> QED BY <2>5 DEF CoreKept
<1>3. ASSUME NEW p \in Pid
      PROVE  Settled(procs)[p] \in ProcRec /\ SameCore(procs[p], Settled(procs)[p])
  <2>1. ASSUME NEW rec \in ProcRec
        PROVE  /\ [rec EXCEPT !.unsettled = FALSE] \in ProcRec
               /\ SameCore(rec, [rec EXCEPT !.unsettled = FALSE])
    BY ZenonT(60) DEF ProcRec, SameCore
  <2>2. Settled(procs)[p] = [procs[p] EXCEPT !.unsettled = FALSE]
    BY Zenon DEF Settled
  <2> QED BY <1>0, <2>1, <2>2, Zenon
<1>7. ASSUME NEW rec \in ProcRec, NEW x
      PROVE  /\ SameCore(rec, [rec EXCEPT !.exiting = x, !.pending = FALSE])
             /\ SameCore(rec, [rec EXCEPT !.exiting = x])
  BY DEF ProcRec, SameCore
<1>4. ASSUME NEW t \in Tid, TakeUp(t) PROVE CoreKept
  <2> DEFINE o == Owner(t)
  <2>1. procs' = [Settled(procs) EXCEPT ![o].exiting = NoThread, ![o].pending = FALSE]
    BY <1>4 DEF TakeUp
  <2>2. Settled(procs) \in Procs
    BY <1>3 DEF Settled, Procs
  <2> HIDE DEF o
  <2>3. ASSUME NEW p \in Pid PROVE SameCore(procs[p], procs'[p])
    <3>1. procs'[p] = Settled(procs)[p]
          \/ procs'[p] = [Settled(procs)[p] EXCEPT !.exiting = NoThread, !.pending = FALSE]
      BY <2>1, <2>2 DEF Procs
    <3>2. SameCore(Settled(procs)[p], [Settled(procs)[p] EXCEPT !.exiting = NoThread, !.pending = FALSE])
      BY <1>3, <1>7, Zenon
    <3>3. SameCore(Settled(procs)[p], procs'[p])
      BY <3>1, <3>2 DEF SameCore
    <3> QED BY <1>3, <3>3 DEF SameCore
  <2> QED BY <2>3 DEF CoreKept
<1>5. ASSUME NEW t \in Tid, SettleDeaths(t) PROVE CoreKept
  BY <1>3, <1>5 DEF SettleDeaths, CoreKept
<1>6. ASSUME NEW t \in Tid, ExitThread(t) PROVE CoreKept
  <2> DEFINE o == Owner(t)
  <2>1. procs' = [procs EXCEPT ![o].exiting = t]
    BY <1>6 DEF ExitThread
  <2> HIDE DEF o
  <2>2. ASSUME NEW p \in Pid PROVE SameCore(procs[p], procs'[p])
    <3>1. procs'[p] = procs[p] \/ procs'[p] = [procs[p] EXCEPT !.exiting = t]
      BY <1>0, <2>1 DEF Procs
    <3>2. SameCore(procs[p], [procs[p] EXCEPT !.exiting = t]) /\ SameCore(procs[p], procs[p])
      BY <1>0, <1>7 DEF SameCore
    <3> QED BY <3>1, <3>2
  <2> QED BY <2>2 DEF CoreKept
<1> QED BY <1>1, <1>2, <1>4, <1>5, <1>6

\* The steps that crash a process
CrashAction(v) ==
    /\ CrashStep(v)
    /\ \/ Alive(procs, v) /\ (InjectCrash \/ InjectShutdown)
       \/ \E t \in Tid : Kill(t, v)

\* Everything that ever happens to the table of the processes.
LEMMA ProcSteps ==
    ASSUME IInv, [Next]_vars
    PROVE  \/ /\ run'.nprocs = run.nprocs
              /\ \/ Steady(procs, procs')
                 \/ Tick \/ \E t \in Tid : TakeUp(t) \/ SettleDeaths(t) \/ ExitThread(t)
                 \/ UNCHANGED real /\ \E t \in Tid : CheckChildren(t)
                 \/ \E p \in Pid : Attach(p)
           \/ UNCHANGED real /\ \E v \in Pid : CrashAction(v)
           \/ Bury
           \/ \E t \in Tid : SpawnChild(t) \/ Exhaust(t)
<1>0. procs \in Procs /\ run \in RunRec
  BY Basics
<1>1. UNCHANGED procs => Steady(procs, procs')
  BY SteadyReflexive
<1>2. CASE PickStep
  <2>1. CASE Tick
    BY <2>1, TickTables
  <2>2. CASE InjectCrash \/ InjectShutdown
    BY <2>2, CrashSteps DEF InjectCrash, InjectShutdown, CrashAction
  <2>3. CASE Jump \/ IdleLauncher \/ IdleGuest \/ \E t \in Tid : Choose(t)
    <3>1. Steady(procs, procs')
      BY <2>3, SteadySteps
    <3>2. run'.nprocs = run.nprocs
      BY <1>0, <2>3 DEF Jump, IdleLauncher, IdleGuest, Choose, RunRec
    <3> QED BY <3>1, <3>2
  <2> QED BY <1>2, <2>1, <2>2, <2>3 DEF PickStep
<1>3. CASE \E t \in Tid : Return(t)
  <2>1. PICK t \in Tid : Return(t)
    BY <1>3
  <2>2. CASE \E q \in Pid : Kill(t, q)
    BY <2>2, CrashSteps DEF Kill, CrashAction
  <2>3. CASE \E q \in Pid : Signal(t, q)
    BY <1>0, <2>3, SteadySteps DEF Signal, Struck, RunRec
  <2>4. ~(\E q \in Pid : Kill(t, q) \/ Signal(t, q)) => UNCHANGED run
    BY <2>1 DEF Return, DieStopped, TakeUp, SettleDeaths, AwaitAttach, CheckChildren,
                BlockOnChildren, Poll, PollGivesUp
  <2>5. ~(\E q \in Pid : Kill(t, q) \/ Signal(t, q)) =>
          \/ TakeUp(t) \/ SettleDeaths(t) \/ UNCHANGED procs
          \/ UNCHANGED real /\ CheckChildren(t)
    BY <2>1 DEF Return, DieStopped, AwaitAttach, BlockOnChildren, Poll, PollGivesUp, CheckChildren
  <2> QED BY <1>1, <2>2, <2>3, <2>4, <2>5
<1>4. CASE \E t \in Tid : Guest(t)
  <2>0. PICK t \in Tid : Guest(t)
    BY <1>4
  <2>1. CASE \E q \in Pid : Aim(t, q)
    BY <1>0, <1>1, <2>1 DEF Aim, RunRec
  <2>2. CASE ReadClock(t)
    BY <1>0, <2>2, SteadySteps DEF ReadClock, RunLater, RunRec
  <2>3. CASE SetTimer(t)
    BY <2>3, SteadySteps DEF SetTimer
  <2>4. CASE ExitThread(t)
    BY <2>4 DEF ExitThread
  <2>5. CASE CreateThread(t)
    BY <1>0, <1>1, <2>5 DEF CreateThread, RunRec
  <2>6. CASE UNCHANGED <<procs, run>>
    BY <1>1, <2>6
  <2>7. CASE SpawnChild(t) \/ Exhaust(t)
    BY <2>7
  <2> QED
    BY <2>0, <2>1, <2>2, <2>3, <2>4, <2>5, <2>6, <2>7
       DEF Guest, Yield, Block, Wake, ExitProcess, Waitpid
<1>5. CASE Aside
  <2>1. UNCHANGED run
    BY <1>5 DEF Aside, Leave, OutsideWake, Slain, Attach, FailToAttach
  <2>2. \/ \E p \in Pid : Attach(p)
        \/ \E p \in Pid : OutsideWake(p)
        \/ UNCHANGED procs
    BY <1>5 DEF Aside, Leave, Slain, FailToAttach
  <2> QED BY <1>1, <2>1, <2>2, SteadySteps
<1>6. CASE LauncherStep /\ ~Bury
  <2>1. Steady(procs, procs')
    BY <1>6, SteadySteps DEF LauncherStep, Start, Started, EndRun, Finish, NoticeExit
  <2>2. run'.nprocs = run.nprocs
    BY <1>0, <1>6 DEF LauncherStep, Start, Started, EndRun, Finish, NoticeExit, Respawn, StopNow, RunRec
  <2> QED BY <2>1, <2>2
<1>7. CASE UNCHANGED vars
  BY <1>1, <1>7 DEF vars
<1> QED BY <1>2, <1>3, <1>4, <1>5, <1>6, <1>7 DEF Next, Over

\* What join_run and a waitpid that finds a child change
LEMMA AttachTable ==
    ASSUME IInv, NEW p \in Pid, Attach(p)
    PROVE  \A q \in Pid :
             \/ SameLife(procs[q], procs'[q])
             \/ /\ q = p /\ procs[q].state = "starting" /\ ~procs[q].killed
                /\ real[q] = "up" /\ UNCHANGED real
                /\ procs'[q] = [procs[q] EXCEPT !.known = TRUE, !.state = "live"]
                /\ procs'[q].known /\ procs'[q].state = "live" /\ ~procs'[q].killed
                /\ procs'[q].spec = procs[q].spec /\ procs'[q].parent = procs[q].parent
                /\ procs'[q].replacedBy = procs[q].replacedBy
                /\ procs'[q].reaped = procs[q].reaped
                /\ procs'[q].unsettled = procs[q].unsettled
                /\ procs'[q].signalled = procs[q].signalled
<1>0. procs \in Procs /\ \A q \in Pid : procs[q] \in ProcRec
  BY Basics DEF Procs
<1>1. \A q \in Pid :
        \/ procs'[q] = procs[q]
        \/ procs'[q] = [procs[q] EXCEPT !.signalled = TRUE]
        \/ /\ procs'[q] = [procs[q] EXCEPT !.known = TRUE, !.state = "live"]
           /\ q = p /\ procs[q].state = "starting" /\ ~procs[q].killed
           /\ real[q] = "up" /\ UNCHANGED real
  BY <1>0 DEF Attach, Procs
<1>2. ASSUME NEW rec \in ProcRec
      PROVE  LET live == [rec EXCEPT !.known = TRUE, !.state = "live"]
             IN /\ live.known /\ live.state = "live" /\ live.killed = rec.killed
                /\ live.spec = rec.spec /\ live.parent = rec.parent
                /\ live.replacedBy = rec.replacedBy /\ live.reaped = rec.reaped
                /\ live.unsettled = rec.unsettled /\ live.signalled = rec.signalled
  BY DEF ProcRec
<1>3. ASSUME NEW rec \in ProcRec
      PROVE  SameLife(rec, [rec EXCEPT !.signalled = TRUE]) /\ SameLife(rec, rec)
  BY DEF ProcRec, SameLife, SameCore
<1> SUFFICES ASSUME NEW q \in Pid
             PROVE  \/ SameLife(procs[q], procs'[q])
                    \/ /\ q = p /\ procs[q].state = "starting" /\ ~procs[q].killed
                       /\ real[q] = "up" /\ UNCHANGED real
                       /\ procs'[q] = [procs[q] EXCEPT !.known = TRUE, !.state = "live"]
                       /\ procs'[q].known /\ procs'[q].state = "live" /\ ~procs'[q].killed
                       /\ procs'[q].spec = procs[q].spec /\ procs'[q].parent = procs[q].parent
                       /\ procs'[q].replacedBy = procs[q].replacedBy
                       /\ procs'[q].reaped = procs[q].reaped
                       /\ procs'[q].unsettled = procs[q].unsettled
                       /\ procs'[q].signalled = procs[q].signalled
  OBVIOUS
<1>4. CASE procs'[q] = procs[q] \/ procs'[q] = [procs[q] EXCEPT !.signalled = TRUE]
  BY <1>0, <1>3, <1>4
<1>5. CASE ~(procs'[q] = procs[q] \/ procs'[q] = [procs[q] EXCEPT !.signalled = TRUE])
  <2>1. /\ procs'[q] = [procs[q] EXCEPT !.known = TRUE, !.state = "live"]
        /\ q = p /\ procs[q].state = "starting" /\ ~procs[q].killed
        /\ real[q] = "up" /\ UNCHANGED real
    BY <1>1, <1>5
  <2> DEFINE live == [procs[q] EXCEPT !.known = TRUE, !.state = "live"]
  <2>2. /\ live.known /\ live.state = "live" /\ live.killed = procs[q].killed
        /\ live.spec = procs[q].spec /\ live.parent = procs[q].parent
        /\ live.replacedBy = procs[q].replacedBy /\ live.reaped = procs[q].reaped
        /\ live.unsettled = procs[q].unsettled /\ live.signalled = procs[q].signalled
    BY <1>0, <1>2, Zenon
  <2> QED BY <2>1, <2>2, Zenon
<1> QED BY <1>4, <1>5

\* A child that is found is marked as reaped, and nothing else is.
LEMMA CollectTable ==
    ASSUME IInv, NEW t \in Tid, CheckChildren(t)
    PROVE  \A q \in Pid :
             \/ procs'[q] = procs[q]
             \/ /\ q \in FirstOf(ExitedChildren(Owner(t))) /\ procs'[q].reaped
                /\ procs'[q].state = procs[q].state /\ procs'[q].killed = procs[q].killed
                /\ procs'[q].spec = procs[q].spec /\ procs'[q].parent = procs[q].parent
                /\ procs'[q].replacedBy = procs[q].replacedBy
                /\ procs'[q].known = procs[q].known
                /\ procs'[q].unsettled = procs[q].unsettled
                /\ procs'[q].signalled = procs[q].signalled
<1>0. procs \in Procs /\ \A q \in Pid : procs[q] \in ProcRec
  BY Basics DEF Procs
<1>1. \A q \in Pid :
        \/ procs'[q] = procs[q]
        \/ /\ procs'[q] = [procs[q] EXCEPT !.reaped = TRUE]
           /\ q \in FirstOf(ExitedChildren(Owner(t)))
  BY DEF CheckChildren
<1>2. ASSUME NEW rec \in ProcRec
      PROVE  LET found == [rec EXCEPT !.reaped = TRUE]
             IN /\ found.reaped
                /\ found.state = rec.state /\ found.killed = rec.killed
                /\ found.spec = rec.spec /\ found.parent = rec.parent
                /\ found.replacedBy = rec.replacedBy /\ found.known = rec.known
                /\ found.unsettled = rec.unsettled /\ found.signalled = rec.signalled
  BY DEF ProcRec
<1>3. ASSUME NEW q \in Pid, procs'[q] = [procs[q] EXCEPT !.reaped = TRUE]
      PROVE  /\ procs'[q].reaped
             /\ procs'[q].state = procs[q].state /\ procs'[q].killed = procs[q].killed
             /\ procs'[q].spec = procs[q].spec /\ procs'[q].parent = procs[q].parent
             /\ procs'[q].replacedBy = procs[q].replacedBy
             /\ procs'[q].known = procs[q].known
             /\ procs'[q].unsettled = procs[q].unsettled
             /\ procs'[q].signalled = procs[q].signalled
  BY <1>0, <1>2, <1>3, ZenonT(60)
<1> QED BY <1>1, <1>3, Zenon

\* Who comes after whom changes with a death and with a new slot only.
LEMMA LineSteps ==
    ASSUME IInv, [Next]_vars
    PROVE  \/ SameLine(procs, procs') /\ run'.nprocs = run.nprocs
           \/ UNCHANGED real /\ \E v \in Pid : CrashStep(v)
           \/ Bury
           \/ \E t \in Tid : SpawnChild(t) \/ Exhaust(t)
<1>1. CoreKept => SameLine(procs, procs')
  BY DEF CoreKept, SameCore, SameLine, Alive
<1>2. (\E t \in Tid : CheckChildren(t)) => SameLine(procs, procs')
  BY CollectTable DEF SameLine, Alive
<1>3. (\E p \in Pid : Attach(p)) => SameLine(procs, procs')
  <2> SUFFICES ASSUME NEW p \in Pid, Attach(p) PROVE SameLine(procs, procs')
    OBVIOUS
  <2> QED BY AttachTable DEF SameLine, Alive, SameLife, SameCore
<1> QED BY <1>1, <1>2, <1>3, ProcSteps, CoreSteps DEF CrashAction

\* A guest leaves the launcher where it is, and hands off in its own name.
LEMMA GuestKeeps ==
    ASSUME NEW t \in Tid, Return(t) \/ Guest(t)
    PROVE  UNCHANGED launcher /\ (pick' = pick \/ pick'.by = "guest")
<1>1. CASE Return(t)
  <2>1. (\E q \in Pid : Kill(t, q) \/ Signal(t, q)) => UNCHANGED <<launcher, pick>>
    BY Zenon DEF Kill, Signal
  <2> QED
    BY <1>1, <2>1 DEF Return, DieStopped, TakeUp, SettleDeaths, AwaitAttach, CheckChildren,
                      BlockOnChildren, BlockOn, GuestHandOff, Poll, PollGivesUp
<1>2. CASE Yield(t) \/ ExitThread(t)
  BY <1>2 DEF Yield, GuestHandOff, ExitThread
<1>3. CASE Block(t)
  BY <1>3 DEF Block, BlockOn, GuestHandOff
<1>4. CASE Guest(t) /\ ~(Yield(t) \/ ExitThread(t) \/ Block(t))
  <3>1. UNCHANGED <<launcher, pick>>
    BY <1>4 DEF Guest, Wake, CreateThread, Exhaust, ExitProcess, ReadClock, SetTimer, SpawnChild,
                Waitpid, Aim
  <3> QED BY <3>1
<1> QED BY <1>1, <1>2, <1>3, <1>4

\* The launcher knows who it is about to replace.
LEMMA HeardOfStep == ASSUME IInv, HeardOf, [Next]_vars PROVE HeardOf'
<1>0. /\ \A p \in Pid : real[p] = "reaped" => real'[p] = "reaped"
      /\ launcher.at = "respawning" \/ (pick.phase # "none" /\ pick.by = "launcher") =>
           launcher.proc \in Pid
      /\ launcher.at = "burying" => launcher.proc \in Pid /\ real[launcher.proc] = "reaped"
      /\ launcher \in [ at: {"booting", "started", "serving", "ending", "burying", "handing",
                             "respawning", "over"},
                        proc: Pid \cup {NoProc}, failed: BOOLEAN,
                        started: BOOLEAN, stopping: BOOLEAN ]
      /\ pick \in [ phase: {"none", "tick", "faults"},
                    by: {"nobody", "guest", "launcher", "start"},
                    me: Tid \cup {NoThread}, add: Nat ]
  BY RealSteps DEF IInv, Base, Safe, Launching, TypeOK
<1>1. SUFFICES ASSUME launcher'.at = "respawning" \/ (pick'.phase # "none" /\ pick'.by = "launcher")
               PROVE  /\ launcher'.proc = launcher.proc
                      /\ \/ launcher.at \in {"respawning", "burying"}
                         \/ pick.phase # "none" /\ pick.by = "launcher"
  BY <1>0 DEF HeardOf
<1>2. CASE PickStep
  <2>1. CASE Tick \/ InjectCrash \/ InjectShutdown \/ Jump
    <3>1. /\ UNCHANGED launcher /\ pick'.by = pick.by /\ pick.phase # "none"
      BY <1>0, <2>1 DEF Tick, InjectCrash, InjectShutdown, Jump, FaultsDone
    <3> QED BY <1>1, <3>1
  <2>2. CASE IdleGuest \/ IdleLauncher \/ \E t \in Tid : Choose(t)
    <3>1. /\ pick' = NoPick /\ pick.phase # "none"
          /\ launcher' \in {launcher, LauncherAfter, [launcher EXCEPT !.at = "over"]}
      BY <2>2 DEF IdleGuest, IdleLauncher, Choose, Idle, FaultsDone
    <3>2. pick'.phase = "none"
      BY <3>1 DEF NoPick
    <3>3. CASE pick.by = "launcher"
      BY <1>0, <1>1, <3>1, <3>2, <3>3 DEF LauncherAfter
    <3>4. CASE pick.by # "launcher"
      BY <1>0, <1>1, <3>1, <3>2, <3>4 DEF LauncherAfter
    <3> QED BY <3>3, <3>4
  <2> QED BY <1>2, <2>1, <2>2 DEF PickStep
<1>3. CASE UNCHANGED launcher /\ (pick' = pick \/ pick'.by = "guest")
  BY <1>1, <1>3
<1>4. CASE Aside
  <2>1. UNCHANGED <<launcher, pick>>
    BY <1>4 DEF Aside, Leave, OutsideWake, Slain, Attach, FailToAttach
  <2> QED BY <1>3, <2>1
<1>5. CASE LauncherStep
  <2>1. pick.phase = "none"
    BY <1>5 DEF LauncherStep, Start, Started, EndRun, Bury, Respawn, Finish, NoticeExit, LockFree
  <2>2. CASE Bury
    BY <1>0, <2>2 DEF Bury
  <2>3. CASE Start
    BY <1>0, <1>1, <2>3 DEF Start
  <2>4. CASE Started \/ EndRun \/ Finish \/ \E p \in Pid : NoticeExit(p)
    BY <1>0, <1>1, <2>1, <2>4 DEF Started, EndRun, Finish, NoticeExit
  <2>5. CASE Respawn
    BY <1>0, <1>1, <2>1, <2>5 DEF Respawn
  <2> QED BY <1>5, <2>2, <2>3, <2>4, <2>5 DEF LauncherStep
<1>6. CASE UNCHANGED vars
  BY <1>3, <1>6 DEF vars
<1> QED BY <1>1, <1>2, <1>3, <1>4, <1>5, <1>6, GuestKeeps DEF Next, Over

\* A successor is a slot of the table.
LEMMA SuccessorSlot ==
    ASSUME IInv
    PROVE  /\ run.nprocs \in Nat /\ run.nprocs <= MaxProcs
           /\ \A p \in Pid : procs[p].replacedBy # NoProc =>
                procs[p].replacedBy \in Pid /\ procs[p].replacedBy <= run.nprocs
<1>1. run.nprocs \in Nat /\ run.nprocs <= MaxProcs
  BY Basics, SizesAssumption DEF RunRec
<1>2. \A p \in Pid : procs[p].replacedBy \in 0..run.nprocs
  BY DEF IInv, Base, Safe, Placed
<1> QED BY <1>1, <1>2, SizesAssumption DEF NoProc, Pid

\* A death, and the life that follows it, is one more link at most.
LEMMA LineDeath ==
    ASSUME IInv, Successors, Lineage, UNCHANGED real, NEW v \in Pid,
           CrashStep(v) \/ (Bury /\ v = launcher.proc)
    PROVE  Successors' /\ Lineage'
<1>0. /\ procs \in Procs /\ run \in RunRec /\ run.nprocs \in Nat
      /\ \A p \in Pid : (real[p] # "none" => p <= run.nprocs) /\ procs[p].replacedBy \in 0..run.nprocs
  BY Basics DEF IInv, Base, Safe, Placed, RunRec
<1>1. PICK pr \in Procs :
        /\ Crashed(procs, pr, v) \/ Buried(procs, pr, v)
        /\ \/ procs' = pr /\ run' = run
           \/ \E rn, failed :
                /\ rn \in RunRec
                /\ rn.nprocs = run.nprocs /\ Succeeded(Bereaved(v), pr, rn, v, failed)
  <2>1. CASE CrashStep(v)
    BY <2>1 DEF CrashStep
  <2>2. CASE Bury /\ v = launcher.proc
    BY <1>0, <2>2, BurySteps
  <2> QED BY <2>1, <2>2
<1>2. SameLine(procs, pr) /\ ~Alive(pr, v)
  BY <1>1 DEF Crashed, Buried, SameLine, SameLife, SameCore, Alive
<1>3. SameLine(procs, procs') /\ run'.nprocs = run.nprocs => Successors' /\ Lineage'
  <2> SUFFICES ASSUME SameLine(procs, procs'), run'.nprocs = run.nprocs
               PROVE  Successors' /\ Lineage'
    OBVIOUS
  <2>1. Successors'
    BY SuccessorSlot DEF Successors, SameLine
  <2>2. Lineage'
    BY DEF Lineage, SameLine
  <2> QED BY <2>1, <2>2
<1>4. CASE ~(procs' = pr /\ run' = run)
  <2>1. PICK rn, failed :
          /\ rn \in RunRec
          /\ rn.nprocs = run.nprocs /\ Succeeded(Bereaved(v), pr, rn, v, failed)
    BY <1>1, <1>4
  <2> DEFINE new == run.nprocs + 1
  <2>2. CASE procs' = pr /\ run' = rn
    BY <1>2, <1>3, <2>1, <2>2
  <2>3. CASE ~(procs' = pr /\ run' = rn)
    <3>1. /\ pr[v].replacedBy = NoProc /\ pr[v].spec # 0 /\ new \in Pid
          /\ run'.nprocs = new
          /\ \A p \in Pid :
               IF p = new THEN Newborn(procs'[p], NoProc, pr[v].spec)
               ELSE procs'[p] = IF p = v THEN [pr[p] EXCEPT !.replacedBy = new] ELSE pr[p]
      <4>1. /\ RestartDue(pr, v, failed) /\ pr[v].replacedBy = NoProc
            /\ new \in Pid /\ run' = [rn EXCEPT !.nprocs = rn.nprocs + 1, !.nthreads = rn.nthreads + 1]
            /\ \A p \in Pid :
                 IF p = new THEN Newborn(procs'[p], NoProc, pr[v].spec)
                 ELSE procs'[p] = IF p = v THEN [pr[p] EXCEPT !.replacedBy = new] ELSE pr[p]
        BY <2>1, <2>3 DEF Succeeded
      <4>2. run'.nprocs = new
        BY <2>1, <4>1 DEF RunRec
      <4> QED BY <4>1, <4>2 DEF RestartDue
    <3>2. v <= run.nprocs /\ v # new
      <4>1. procs[v].spec # 0
        BY <1>2, <3>1 DEF SameLine
      <4>2. v \in Nat /\ ~(v > run.nprocs)
        BY <4>1 DEF Successors, Pid
      <4> QED BY <1>0, <4>2
    <3>3. /\ procs'[new].spec = pr[v].spec /\ procs'[new].replacedBy = NoProc
          /\ procs'[v].spec = pr[v].spec /\ procs'[v].replacedBy = new /\ ~Alive(procs', v)
      <4>1. pr[v] \in ProcRec /\ procs'[v] = [pr[v] EXCEPT !.replacedBy = new]
        BY <3>1, <3>2 DEF Procs
      <4> HIDE DEF new
      <4>2. /\ procs'[v].spec = pr[v].spec /\ procs'[v].replacedBy = new
            /\ procs'[v].state = pr[v].state /\ procs'[v].killed = pr[v].killed
        BY <4>1 DEF ProcRec
      <4> QED BY <1>2, <3>1, <4>2 DEF Newborn, Alive
    <3>4. \A p \in Pid : p # new /\ p # v => procs'[p] = pr[p]
      BY <3>1
    <3> HIDE DEF new
    <3>5. \A p \in Pid : p # new /\ p # v =>
            /\ procs'[p].spec = procs[p].spec /\ procs'[p].replacedBy = procs[p].replacedBy
            /\ Alive(procs', p) => Alive(procs, p)
      BY <1>2, <3>4 DEF SameLine, Alive
    <3>6. procs[v].replacedBy = NoProc /\ procs[v].spec = pr[v].spec
      BY <1>2, <3>1 DEF SameLine
    <3>7. Successors'
      <4> SUFFICES ASSUME NEW p \in Pid
                   PROVE  /\ p > new => procs'[p].spec = 0 /\ procs'[p].replacedBy = NoProc
                          /\ procs'[p].replacedBy # NoProc =>
                               /\ procs'[p].replacedBy > p /\ procs'[p].spec # 0
                               /\ procs'[procs'[p].replacedBy].spec = procs'[p].spec
                               /\ ~Alive(procs', p)
        BY <3>1 DEF Successors
      <4>1. CASE p = new \/ p = v
        BY <1>0, <3>1, <3>2, <3>3, <4>1 DEF new, Pid
      <4>2. CASE p # new /\ p # v
        <5>1. procs[p].replacedBy # NoProc =>
                /\ procs[p].replacedBy \in Pid /\ procs[p].replacedBy # new
                /\ procs'[procs[p].replacedBy].spec = procs[procs[p].replacedBy].spec
          BY <1>0, <3>3, <3>5, <3>6, SuccessorSlot DEF new
        <5>2. p > new => p > run.nprocs
          BY <1>0 DEF new, Pid
        <5> QED BY <3>5, <4>2, <5>1, <5>2 DEF Successors
      <4> QED BY <4>1, <4>2
    <3>8. Lineage'
      <4> SUFFICES ASSUME NEW p \in Pid, NEW q \in Pid, p < q,
                          procs'[p].spec = procs'[q].spec, procs'[p].spec # 0
                   PROVE  /\ procs'[p].replacedBy # NoProc /\ procs'[p].replacedBy <= q
                          /\ real[q] # "none" => real[p] = "reaped"
        BY DEF Lineage
      <4>0. \A u \in Pid : u # new /\ procs'[u].spec # 0 =>
              u < new /\ procs'[u].spec = procs[u].spec
        BY <1>0, <3>2, <3>3, <3>5, <3>6 DEF Successors, new, Pid
      <4>1. q <= new /\ p # new
        BY <1>0, <4>0 DEF new, Pid
      <4>2. CASE q # new
        <5>1. p # v
          BY <3>6, <4>0, <4>1, <4>2 DEF Lineage
        <5> QED BY <3>5, <4>0, <4>1, <4>2, <5>1, <3>3, <3>6 DEF Lineage
      <4>3. CASE q = new /\ p = v
        BY <1>0, <3>3, <4>3 DEF new, NoProc, Pid
      <4>4. CASE q = new /\ p # v
        <5>1. procs[p].spec = procs[v].spec /\ procs[p].spec # 0
          BY <3>3, <3>6, <4>0, <4>1, <4>4
        <5>2. p < v
          BY <3>6, <4>4, <5>1 DEF Lineage, Pid
        <5>3. procs[p].replacedBy # NoProc /\ procs[p].replacedBy <= v
          BY <5>1, <5>2 DEF Lineage
        <5> QED BY <1>0, <3>2, <3>5, <4>1, <4>4, <5>3 DEF new, Pid
      <4> QED BY <4>2, <4>3, <4>4
    <3> QED BY <3>7, <3>8
  <2> QED BY <2>2, <2>3
<1> QED BY <1>2, <1>3, <1>4

\* A process that is no life of an entry is in nobody's line.
LEMMA LineChild ==
    ASSUME IInv, Successors, Lineage, NEW t \in Tid, SpawnChild(t) \/ Exhaust(t)
    PROVE  Successors' /\ Lineage'
<1> DEFINE new == run.nprocs + 1
<1>0. /\ procs \in Procs /\ run \in RunRec /\ run.nprocs \in Nat
      /\ real \in [Pid -> {"none", "up", "exit0", "failed", "reaped"}]
      /\ \A p \in Pid : (real[p] # "none" => p <= run.nprocs) /\ procs[p].replacedBy \in 0..run.nprocs
  BY Basics DEF IInv, Base, Safe, Placed, RunRec, TypeOK
<1>1. \/ UNCHANGED procs /\ run'.nprocs = run.nprocs
      \/ /\ run'.nprocs = new /\ new \in Pid
         /\ \E rec : /\ procs' = [procs EXCEPT ![new] = rec]
                     /\ rec.spec = 0 /\ rec.replacedBy = NoProc
  <2>1. CASE Exhaust(t)
    <3>1. FreshProc(Owner(t), 0).spec = 0 /\ FreshProc(Owner(t), 0).replacedBy = NoProc
      BY DEF FreshProc
    <3>2. \/ UNCHANGED <<procs, run>>
          \/ /\ run' = [run EXCEPT !.nprocs = @ + 1] /\ run.nprocs < MaxProcs
             /\ procs' = [procs EXCEPT ![new] = FreshProc(Owner(t), 0)]
      BY <2>1 DEF Exhaust
    <3>3. run.nprocs < MaxProcs => new \in Pid
      BY <1>0, SizesAssumption DEF Pid
    <3>4. run' = [run EXCEPT !.nprocs = @ + 1] => run'.nprocs = new
      BY <1>0 DEF RunRec
    <3> HIDE DEF new
    <3> QED BY <3>1, <3>2, <3>3, <3>4
  <2>2. CASE SpawnChild(t)
    <3> DEFINE a == [FreshProc(Owner(t), 0) EXCEPT !.known = TRUE]
               b == [FreshProc(Owner(t), 0) EXCEPT !.state = "exited", !.reaped = TRUE]
    <3>1. a.spec = 0 /\ a.replacedBy = NoProc /\ b.spec = 0 /\ b.replacedBy = NoProc
      BY DEF FreshProc
    <3>2. /\ HasRoom /\ run' = [run EXCEPT !.nprocs = new, !.nthreads = run.nthreads + 1]
          /\ procs' = [procs EXCEPT ![new] = a] \/ procs' = [procs EXCEPT ![new] = b]
      BY <2>2 DEF SpawnChild
    <3>3. new \in Pid
      BY <1>0, <3>2, SizesAssumption DEF Pid, HasRoom
    <3>4. run'.nprocs = new
      BY <1>0, <3>2 DEF RunRec
    <3> HIDE DEF new, a, b
    <3> QED BY <3>1, <3>2, <3>3, <3>4
  <2> QED BY <2>1, <2>2
<1>2. ASSUME NEW p \in Pid, p # new
      PROVE  /\ real[p] = "reaped" => real'[p] = "reaped"
             /\ real'[p] # "none" => real[p] # "none"
  <2>1. CASE Exhaust(t)
    BY <2>1 DEF Exhaust, RealDeath
  <2>2. CASE SpawnChild(t)
    BY <1>0, <1>2, <2>2 DEF SpawnChild
  <2> QED BY <2>1, <2>2
<1>3. procs[new].spec = 0 \/ new \notin Pid
  BY <1>0 DEF Successors, Pid
<1>4. CASE UNCHANGED procs /\ run'.nprocs = run.nprocs
  <2>1. Successors'
    BY <1>4 DEF Successors, Alive
  <2>2. Lineage'
    BY <1>2, <1>3, <1>4 DEF Lineage
  <2> QED BY <2>1, <2>2
<1>5. CASE /\ run'.nprocs = new /\ new \in Pid
           /\ \E rec : /\ procs' = [procs EXCEPT ![new] = rec]
                       /\ rec.spec = 0 /\ rec.replacedBy = NoProc
  <2>1. /\ procs'[new].spec = 0 /\ procs'[new].replacedBy = NoProc
        /\ \A p \in Pid : p # new => procs'[p] = procs[p]
    BY <1>0, <1>5 DEF Procs
  <2>2. Successors'
    <3> SUFFICES ASSUME NEW p \in Pid
                 PROVE  /\ p > new => procs'[p].spec = 0 /\ procs'[p].replacedBy = NoProc
                        /\ procs'[p].replacedBy # NoProc =>
                             /\ procs'[p].replacedBy > p /\ procs'[p].spec # 0
                             /\ procs'[procs'[p].replacedBy].spec = procs'[p].spec
                             /\ ~Alive(procs', p)
      BY <1>5 DEF Successors
    <3>1. CASE p = new
      BY <2>1, <3>1
    <3>2. CASE p # new
      <4>1. procs[p].replacedBy # NoProc =>
              procs[p].replacedBy \in Pid /\ procs[p].replacedBy # new
        BY <1>0, SuccessorSlot
      <4>2. p > new => p > run.nprocs
        BY <1>0 DEF Pid
      <4> QED BY <2>1, <3>2, <4>1, <4>2 DEF Successors, Alive
    <3> QED BY <3>1, <3>2
  <2>3. Lineage'
    BY <1>2, <2>1 DEF Lineage
  <2> QED BY <2>2, <2>3
<1> QED BY <1>1, <1>4, <1>5

\* The lines grow at their ends, and a life is spawned when the one before it
\* is buried.
LEMMA OneLifeStep == ASSUME IInv, OneLifeHolds, [Next]_vars PROVE OneLifeHolds'
<1>1. HeardOf'
  BY HeardOfStep DEF OneLifeHolds
<1>2. CASE UNCHANGED real /\ \E v \in Pid : CrashStep(v)
  BY <1>1, <1>2, LineDeath DEF OneLifeHolds
<1>3. CASE Bury
  <2>1. launcher.proc \in Pid /\ UNCHANGED real
    BY <1>3, BurySteps DEF Bury
  <2> QED BY <1>1, <1>3, <2>1, LineDeath DEF OneLifeHolds
<1>4. CASE \E t \in Tid : SpawnChild(t) \/ Exhaust(t)
  BY <1>1, <1>4, LineChild DEF OneLifeHolds
<1>5. CASE /\ SameLine(procs, procs') /\ run'.nprocs = run.nprocs
           /\ ~\E t \in Tid : SpawnChild(t) \/ Exhaust(t)
  <2>0. \A p \in Pid : procs[p].replacedBy \in 0..run.nprocs /\ run.nprocs \in Nat
                       /\ run.nprocs <= MaxProcs
    BY Basics, SizesAssumption DEF IInv, Base, Safe, Placed, RunRec
  <2>1. Successors'
    <3>1. \A p \in Pid : procs[p].replacedBy # NoProc => procs[p].replacedBy \in Pid
      BY <2>0, SizesAssumption DEF NoProc, Pid
    <3> QED BY <1>5, <3>1 DEF OneLifeHolds, Successors, SameLine
  <2>2. Lineage'
    <3> SUFFICES ASSUME NEW p \in Pid, NEW q \in Pid, p < q,
                        procs[p].spec = procs[q].spec, procs[p].spec # 0
                 PROVE  /\ procs[p].replacedBy # NoProc /\ procs[p].replacedBy <= q
                        /\ real'[q] # "none" => real'[p] = "reaped"
      BY <1>5 DEF Lineage, SameLine
    <3>1. /\ procs[p].replacedBy # NoProc /\ procs[p].replacedBy <= q
          /\ real[q] # "none" => real[p] = "reaped"
      BY DEF OneLifeHolds, Lineage
    <3>2. real[p] = "reaped" => real'[p] = "reaped"
      BY RealSteps
    <3>3. CASE real[q] # "none"
      BY <3>1, <3>2, <3>3
    <3>4. CASE real[q] = "none" /\ real'[q] # "none"
      <4> DEFINE v == launcher.proc
      <4>1. Respawn /\ q = procs[v].replacedBy
        BY <1>5, <3>4, RealSteps
      <4>2. v \in Pid /\ real[v] = "reaped"
        BY <4>1 DEF Respawn, OneLifeHolds, HeardOf, IInv, Base, Safe, Launching
      <4>3. v < q /\ procs[v].spec = procs[q].spec
        BY <4>1, <4>2 DEF OneLifeHolds, Successors, NoProc, Pid
      <4> HIDE DEF v
      <4>4. CASE p < v
        BY <3>2, <4>2, <4>3, <4>4 DEF OneLifeHolds, Lineage
      <4>5. CASE v < p
        <5>1. procs[v].replacedBy <= p
          BY <4>2, <4>3, <4>5 DEF OneLifeHolds, Lineage
        <5>2. q <= p /\ p < q
          BY <4>1, <5>1
        <5> QED BY <5>2 DEF Pid
      <4>6. v = p \/ v < p \/ p < v
        BY <4>2 DEF Pid
      <4> QED BY <3>1, <3>2, <4>2, <4>4, <4>5, <4>6
    <3> QED BY <3>1, <3>3, <3>4
  <2> QED BY <1>1, <2>1, <2>2 DEF OneLifeHolds
<1> QED BY <1>2, <1>3, <1>4, <1>5, LineSteps

\* A run begins with one life of each entry.
LEMMA OneLifeInit == ASSUME Init PROVE OneLifeHolds
<1>1. \A p \in Pid : /\ procs[p].replacedBy = NoProc
                     /\ procs[p].spec = IF p \in Entry THEN p ELSE 0
  <2>1. PICK draw : procs = [p \in Pid |-> IF p \in Entry
                              THEN [FreshProc(NoProc, p) EXCEPT !.crash = draw[p][1],
                                                                !.shutdown = draw[p][2]]
                              ELSE NoProcRec]
    BY Zenon DEF Init
  <2> QED BY <2>1 DEF FreshProc, NoProcRec
<1>2. run.nprocs = NEntries
  <2>1. PICK calls \in Programs :
          run = [ current |-> NoThread, nthreads |-> NEntries, nprocs |-> NEntries,
                  stopIn |-> StopAfter, stopped |-> FALSE, unsignalled |-> FALSE, calls |-> calls,
                  target |-> NoProc ]
    BY Zenon DEF Init
  <2> QED BY <2>1
<1>3. Successors /\ Lineage
  BY <1>1, <1>2, SizesAssumption DEF Successors, Lineage, Entry, Pid, NoProc
<1>4. HeardOf
  BY DEF Init, HeardOf, NoPick
<1> QED BY <1>3, <1>4 DEF OneLifeHolds

\* An entry has at most one life at a time, in the tables and for real, and
\* each dead life its own successor, though a restart is registered from
\* crash as well as from process_died and spawned by the launcher much later
\* (register_restart, Coordinator::respawn).
THEOREM EntryHasOneLife == Spec => []OneLife
<1>1. Init => OneLifeHolds
  BY OneLifeInit
<1>2. IInv /\ OneLifeHolds /\ [Next]_vars => OneLifeHolds'
  BY OneLifeStep
<1>3. IInv /\ OneLifeHolds => OneLife
  <2> SUFFICES ASSUME IInv, OneLifeHolds, NEW p \in Pid, NEW q \in Pid, p # q,
                      procs[p].spec = procs[q].spec, procs[p].spec # 0
               PROVE  /\ ~(Alive(procs, p) /\ Alive(procs, q))
                      /\ ~(real[p] = "up" /\ real[q] = "up")
                      /\ procs[p].replacedBy # NoProc => procs[p].replacedBy # procs[q].replacedBy
    BY DEF OneLife
  <2>0. \A u \in Pid : procs[u].replacedBy \in Nat
    BY Basics DEF IInv, Base, Safe, Placed, RunRec
  <2>1. CASE p < q
    BY <2>0, <2>1 DEF OneLifeHolds, Successors, Lineage, Pid, NoProc
  <2>2. CASE q < p
    BY <2>0, <2>2 DEF OneLifeHolds, Successors, Lineage, Pid, NoProc
  <2> QED BY <2>1, <2>2 DEF Pid
<1> QED
  BY <1>1, <1>2, <1>3, Invariance, PTL DEF Spec

=============================================================================
