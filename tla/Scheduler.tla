----------------------------- MODULE Scheduler -----------------------------
(***************************************************************************)
(* The baton scheduler of a supervised run: the state every guest process  *)
(* and the launcher share (supervisor/src/shared.rs), the guests' side of  *)
(* a hand-off (supervisor/src/sched.rs), the process calls that change the *)
(* process table (supervisor/src/process.rs) and the launcher's event loop *)
(* (src/coord.rs, src/launch.rs).                                          *)
(*                                                                         *)
(* One critical section of the scheduler lock is one step, except a        *)
(* hand-off: `pick' loops under the lock until it finds somebody to run,   *)
(* and each round of that loop is a step of its own (`pick.phase' is then  *)
(* not "none", and nothing else that needs the lock is enabled).           *)
(*                                                                         *)
(* Virtual times are kept as the time LEFT until them: a crash_at of the   *)
(* code is procs[p].crash + clock_ns.  0 is due or overdue, NoTime is the  *)
(* code's 0, "never".  The clock itself then needs no variable, and a run  *)
(* may be as long as it likes.                                             *)
(***************************************************************************)
EXTENDS Integers, FiniteSets

CONSTANTS
    MaxProcs,      \* MAX_PROCS, size of the process table
    MaxThreads,    \* MAX_THREADS, size of the thread table
    NEntries,      \* processes of the run file, started in file order
    Daemons,       \* entries that say `daemon: true'
    Plan,          \* Plan[e]: the Faults of entry e
    StopAfter,     \* `stop-after' of the run, or NoTime
    SwitchNs,      \* virtual time a hand-off costs
    Keys,          \* addresses guests block on
    Waits,         \* deadlines guests ask for, as time left; NoTime is none
    Timers,        \* <<value, interval>> pairs guests give to setitimer
    Programs       \* sets of calls and of faults of the world: each run has one of them

NoProc   == 0      \* NO_PROC; process ids start at 1 here, at 0 in the code
NoThread == 0      \* NO_THREAD
NoTime   == -1     \* the code's 0: no deadline, no crash, no alarm
NoLimit  == -1     \* NO_LIMIT: crashes or restarts without end

Pid   == 1..MaxProcs
Tid   == 1..MaxThreads
Entry == 1..NEntries
Time  == Nat \cup {NoTime}
Count == Nat \cup {NoLimit}

\* Keys of waits the scheduler itself knows
SpecialKeys == {"none", "io", "wait", "restart", "join"}

\* What a run file says of one entry.  A delay drawn from lo..hi by the
\* fault stream is any member of a set; the empty set is "no such fault".
FaultPlan == [ crash: SUBSET Nat, crashes: Count, shutdown: SUBSET Nat,
               shutdowns: Count, grace: Nat, restart: {"never", "on-failure", "always"},
               delay: SUBSET Nat, restarts: Count ]

\* Faults of a process; a guest's own child has none.
NoFaults == [ crash |-> {}, crashes |-> 0, shutdown |-> {}, shutdowns |-> 0, grace |-> 0,
              restart |-> "never", delay |-> {}, restarts |-> 0 ]
Faults(e) == IF e = 0 THEN NoFaults ELSE Plan[e]

AllCalls == {"block", "wake", "create", "exit", "pthread_exit", "spawn",
             "kill", "signal", "timer", "clock", "outside", "bootfail"}

ASSUME SizesAssumption ==
    /\ MaxProcs \in Nat /\ MaxThreads \in Nat /\ NEntries \in Nat \ {0}
    /\ NEntries <= MaxProcs /\ NEntries <= MaxThreads
    /\ Daemons \subseteq Entry
    /\ SwitchNs \in Nat

ASSUME InputsAssumption ==
    /\ Plan \in [Entry -> FaultPlan]
    /\ \A e \in Entry : Plan[e].restart # "never" => Plan[e].delay # {}
    /\ StopAfter \in Time
    /\ SpecialKeys \cap Keys = {}
    /\ Waits \subseteq Time
    /\ Timers \subseteq (Time \X Nat)
    /\ Programs \subseteq SUBSET AllCalls

----------------------------------------------------------------------------
(***************************************************************************)
(* State.                                                                  *)
(*                                                                         *)
(*   threads   ThreadRec table, in shared memory                           *)
(*   procs     ProcRec table, in shared memory                             *)
(*   run       the other fields of State, in shared memory, and two things *)
(*             of the guests: the calls their programs make, and the       *)
(*             `target' of the holder's my_kill between its two critical   *)
(*             sections                                                    *)
(*   pick      the hand-off under way, if any: who called it, and how far  *)
(*             `pick' has come                                             *)
(*   pc        where each thread really is                                 *)
(*   real      what has become of each real process: not spawned, running, *)
(*             dead with status 0, dead otherwise, seen by the launcher    *)
(*   launcher  where the launcher's event loop is                          *)
(***************************************************************************)
VARIABLES threads, procs, run, pick, pc, real, launcher
vars == <<threads, procs, run, pick, pc, real, launcher>>

\* What the guests of this run do, chosen at the start and never changed
Calls == run.calls

ThreadRec == [ state: {"unused", "runnable", "running", "blocked", "exited"},
               pid: Pid \cup {NoProc}, key: SpecialKeys \cup Keys,
               deadline: Time,
               stale: BOOLEAN ]   \* wakes_seen # the process's outside_wakes

ProcRec == [ state: {"unused", "starting", "live", "exited"},
             parent: Pid \cup {NoProc},
             spec: Entry \cup {0},           \* 0: a guest's own child
             known: BOOLEAN,                 \* real_pid is set
             crash: Time, shutdown: Time, kill: Time,
             alarm: Time, interval: Nat,
             pending: BOOLEAN,               \* sig_pending # 0
             reaped: BOOLEAN, killed: BOOLEAN, signalled: BOOLEAN,
             unsettled: BOOLEAN, stopped: BOOLEAN, shutDown: BOOLEAN,
             outside: BOOLEAN,               \* has_outside_threads
             exiting: Tid \cup {NoThread},   \* the thread behind exiting_port
             replacedBy: Pid \cup {NoProc},
             crashesLeft: Count, shutdownsLeft: Count, restartsLeft: Count ]

RunRec == [ current: Tid \cup {NoThread}, nthreads: 0..MaxThreads, nprocs: 0..MaxProcs,
            stopIn: Time, stopped: BOOLEAN, unsignalled: BOOLEAN, calls: Programs,
            target: Pid \cup {NoProc} ]

Pcs == {"none", "boot", "parked", "guest", "checking", "blocking", "awaiting",
        "killing", "settling", "polling", "leaving", "gone"}

TypeOK ==
    /\ threads \in [Tid -> ThreadRec]
    /\ procs \in [Pid -> ProcRec]
    /\ run \in RunRec
    /\ pick \in [ phase: {"none", "tick", "faults"}, by: {"nobody", "guest", "launcher", "start"},
                  me: Tid \cup {NoThread}, add: Nat ]
    /\ pc \in [Tid -> Pcs]
    /\ real \in [Pid -> {"none", "up", "exit0", "failed", "reaped"}]
    /\ launcher \in [ at: {"booting", "started", "serving", "ending", "burying", "handing", "respawning", "over"},
                      proc: Pid \cup {NoProc}, failed: BOOLEAN,
                      started: BOOLEAN, stopping: BOOLEAN ]

----------------------------------------------------------------------------
(***************************************************************************)
(* Operators on the tables: the methods of State that only compute.        *)
(***************************************************************************)
Owner(t) == threads[t].pid
ThreadsOf(th, p) == {t \in Tid : th[t].pid = p /\ th[t].state # "unused"}
Runnable(th) == {t \in Tid : th[t].state = "runnable"}
Blocked(th)  == {t \in Tid : th[t].state = "blocked"}

\* any_alive: some thread has not exited
AnyAlive(th) == \E t \in Tid : th[t].state \notin {"unused", "exited"}

\* ProcRec::alive, for a process that was registered
Alive(pr, p) == pr[p].state \in {"starting", "live"} /\ ~pr[p].killed

\* Make the threads in S runnable
Ready(th, S) ==
    [t \in Tid |-> IF t \in S THEN [th[t] EXCEPT !.state = "runnable"] ELSE th[t]]

\* The blocked threads that wake_all(p, k), wake_io and post_signal make
\* runnable
WaitingOn(th, p, k) == {t \in Blocked(th) : th[t].pid = p /\ th[t].key = k}
WaitingForIO(th)    == {t \in Blocked(th) : th[t].key = "io"}
Interruptible(th, p) == {t \in Blocked(th) : th[t].pid = p /\ th[t].key # "restart"}

\* Mutant: the parent's waitpid is forgotten
WokenByDeathIO(th, pr, p) == WaitingForIO(th)

\* Who is woken when p dies: everything parked for I/O readiness, and the
\* parent's waitpid
WokenByDeath(th, pr, p) == WaitingForIO(th) \cup WaitingOn(th, pr[p].parent, "wait")

\* Mutant: only the waiting threads of p leave
RetireBlocked(th, p) ==
    [t \in Tid |-> IF th[t].pid = p /\ th[t].state = "blocked"
                   THEN [th[t] EXCEPT !.state = "exited", !.deadline = NoTime] ELSE th[t]]

\* The threads of p leave the schedule
Retire(th, p) ==
    [t \in Tid |-> IF t \in ThreadsOf(th, p)
                   THEN [th[t] EXCEPT !.state = "exited", !.deadline = NoTime]
                   ELSE th[t]]

\* No crash and no shutdown is due to p any more
Unscheduled(rec) == [rec EXCEPT !.crash = NoTime, !.shutdown = NoTime, !.kill = NoTime]

Spend(n) == IF n = NoLimit THEN NoLimit ELSE IF n > 0 THEN n - 1 ELSE 0

\* What is left of x once time d has passed
Later(x, d) == IF x = NoTime THEN NoTime ELSE IF x > d THEN x - d ELSE 0

\* The times at which draw_crash may crash and shut down a life of entry e
\* that starts after time d
AtLeast1(x) == IF x = 0 THEN 1 ELSE x
CrashTimes(rec, d) ==
    IF rec.crashesLeft = 0 \/ Faults(rec.spec).crash = {} THEN {NoTime}
    ELSE {AtLeast1(d + x) : x \in Faults(rec.spec).crash}
ShutdownTimes(rec, d) ==
    IF rec.shutdownsLeft = 0 \/ Faults(rec.spec).shutdown = {} THEN {NoTime}
    ELSE {AtLeast1(d + x) : x \in Faults(rec.spec).shutdown}

\* restart_due, has_room and will_restart
RestartDue(pr, p, failed) ==
    /\ pr[p].spec # 0
    /\ \/ Faults(pr[p].spec).restart = "always"
       \/ Faults(pr[p].spec).restart = "on-failure" /\ (failed \/ pr[p].shutDown)
    /\ ~run.stopped
    /\ pr[p].restartsLeft # 0
\* Mutant: one too many
HasRoomForOneMore == run.nprocs <= MaxProcs /\ run.nthreads <= MaxThreads
HasRoom == run.nprocs < MaxProcs /\ run.nthreads < MaxThreads
WillRestart(p, failed) ==
    procs[p].replacedBy # NoProc \/ (RestartDue(procs, p, failed) /\ HasRoom)

\* A process slot as add_proc leaves it, and an empty one
FreshProc(par, e) ==
    [ state |-> "starting", parent |-> par, spec |-> e, known |-> FALSE,
      crash |-> NoTime, shutdown |-> NoTime, kill |-> NoTime,
      alarm |-> NoTime, interval |-> 0, pending |-> FALSE,
      reaped |-> FALSE, killed |-> FALSE, signalled |-> FALSE, unsettled |-> FALSE,
      stopped |-> FALSE, shutDown |-> FALSE, outside |-> FALSE,
      exiting |-> NoThread, replacedBy |-> NoProc,
      crashesLeft |-> Faults(e).crashes, shutdownsLeft |-> Faults(e).shutdowns,
      restartsLeft |-> Faults(e).restarts ]
NoProcRec == [FreshProc(NoProc, 0) EXCEPT !.state = "unused"]

\* A thread slot as add_thread leaves it, and an empty one
FreshThread(p, moved) ==
    [state |-> "runnable", pid |-> p, key |-> "none", deadline |-> NoTime, stale |-> moved]
NoThreadRec == [FreshThread(NoProc, FALSE) EXCEPT !.state = "unused"]

----------------------------------------------------------------------------
(***************************************************************************)
(* Steps of State that several callers share.  Each takes the tables as    *)
(* the caller has left them so far and sets threads', procs' and run'.     *)
(***************************************************************************)

\* register_restart(victim, status): the next life of an entry is a new
\* process whose main thread sleeps until the restart delay is over.
RegisterRestart(th, pr, rn, v, failed) ==
    IF pr[v].replacedBy = NoProc /\ RestartDue(pr, v, failed) /\ HasRoom
    THEN LET new  == rn.nprocs + 1
             main == rn.nthreads + 1
             rec  == [ FreshProc(NoProc, pr[v].spec) EXCEPT
                         !.crashesLeft   = pr[v].crashesLeft,
                         !.shutdownsLeft = pr[v].shutdownsLeft,
                         !.restartsLeft  = Spend(pr[v].restartsLeft) ]
         IN \E down \in Faults(pr[v].spec).delay :
              LET starts == AtLeast1(down) IN
              \E c \in CrashTimes(rec, starts), s \in ShutdownTimes(rec, starts) :
                /\ procs' = [p \in Pid |->
                       IF p = new THEN [rec EXCEPT !.crash = c, !.shutdown = s]
                       ELSE IF p = v THEN [pr[p] EXCEPT !.replacedBy = new]
                       ELSE pr[p]]
                /\ threads' = [th EXCEPT ![main] =
                                 [FreshThread(new, FALSE) EXCEPT !.state = "blocked",
                                     !.key = "restart", !.deadline = starts]]
                /\ run' = [rn EXCEPT !.nprocs = new, !.nthreads = main]
    ELSE threads' = th /\ procs' = pr /\ run' = rn

\* Mutant: the victim is not marked as killed
CrashUnmarked(th, pr, rn, v) ==
    LET retired == Retire(th, v)
    IN RegisterRestart(Ready(retired, WokenByDeath(retired, pr, v)),
                       [pr EXCEPT ![v] = Unscheduled(@)], rn, v, TRUE)

\* crash(victim): all that a violent death means to the run, at once.  The
\* caller notes in rn that a signal is owed.
Crash(th, pr, rn, v) ==
    LET condemned == [pr EXCEPT ![v] = [Unscheduled(@) EXCEPT
                        !.killed = TRUE,
                        !.unsettled = (pr[v].state = "live")]]
        retired == Retire(th, v)
    IN RegisterRestart(Ready(retired, WokenByDeath(retired, pr, v)),
                       condemned, rn, v, TRUE)

\* take_kills: the condemned processes whose real pid is known get SIGKILL.
Condemned(pr, rn) ==
    IF rn.unsignalled
    THEN {p \in Pid : pr[p].killed /\ ~pr[p].signalled /\ pr[p].known}
    ELSE {}
Signalled(pr, S) ==
    [p \in Pid |-> IF p \in S THEN [pr[p] EXCEPT !.signalled = TRUE] ELSE pr[p]]

\* The real processes in S end with this status, and their threads with them.
RealDeath(S, status) ==
    real' = [p \in Pid |-> IF p \in S /\ real[p] = "up" THEN status ELSE real[p]]
ThreadsGone(pcs, S) ==
    [t \in Tid |-> IF Owner(t) \in S THEN "gone" ELSE pcs[t]]

\* The virtual clock moves by d.
ThreadsLater(th, d) == [t \in Tid |-> [th[t] EXCEPT !.deadline = Later(@, d)]]
ProcsLater(pr, d) ==
    [p \in Pid |-> [pr[p] EXCEPT !.crash = Later(@, d), !.shutdown = Later(@, d),
                                 !.kill = Later(@, d), !.alarm = Later(@, d)]]
RunLater(rn, d) == [rn EXCEPT !.stopIn = Later(@, d)]

\* Mutant: a life that has not attached yet is not marked
StoppedProcsLive(pr) ==
    [p \in Pid |-> IF pr[p].state = "live" /\ ~pr[p].killed
                   THEN [pr[p] EXCEPT !.stopped = TRUE] ELSE pr[p]]

\* stop_run: every process alive is marked as stopped and all its threads
\* are runnable, whatever they waited for.
StoppedThreads(th, pr) ==
    Ready(th, {t \in Tid : /\ th[t].state \notin {"unused", "exited"}
                           /\ Alive(pr, th[t].pid)})
StoppedProcs(pr) ==
    [p \in Pid |-> IF Alive(pr, p) THEN [pr[p] EXCEPT !.stopped = TRUE] ELSE pr[p]]

----------------------------------------------------------------------------
(***************************************************************************)
(* The hand-off (hand_off, choose, pick), under the scheduler lock.        *)
(***************************************************************************)

\* hand_off(Some(t, st, k)) by the thread itself: its new state is recorded
\* and the clock moves by the switch cost.
GuestHandOff(t, st, k, deadline) ==
    /\ threads' = [threads EXCEPT ![t] =
                     [@ EXCEPT !.state = st, !.key = k, !.deadline = deadline]]
    /\ pick' = [phase |-> "tick", by |-> "guest", me |-> t, add |-> SwitchNs]

\* The top of a round of `pick': the clock has moved (by the switch, or to
\* the next event), and the run's stop comes first.
Tick ==
    LET th == ThreadsLater(threads, pick.add)
        pr == ProcsLater(procs, pick.add)
        rn == RunLater(run, pick.add)
        stops == rn.stopIn = 0 /\ ~rn.stopped
    IN /\ pick.phase = "tick"
       /\ threads' = IF stops THEN StoppedThreads(th, pr) ELSE th
       /\ procs' = IF stops THEN StoppedProcs(pr) ELSE pr
       /\ run' = IF stops THEN [rn EXCEPT !.stopped = TRUE] ELSE rn
       /\ pick' = [pick EXCEPT !.phase = "faults", !.add = 0]
       /\ UNCHANGED <<pc, real, launcher>>

CrashesDue   == {p \in Pid : Alive(procs, p) /\ procs[p].crash = 0}
\* Mutant: the end of a grace period is overlooked
ShutdownsDueOnly == {p \in Pid : Alive(procs, p) /\ procs[p].shutdown = 0}
ShutdownsDue == {p \in Pid : Alive(procs, p) /\ (procs[p].kill = 0 \/ procs[p].shutdown = 0)}
Owing == [run EXCEPT !.unsignalled = TRUE]
FirstOf(S) == {x \in S : \A y \in S : x <= y}

\* One turn of inject_due_crashes.
InjectCrash ==
    /\ pick.phase = "faults"
    /\ \E v \in FirstOf(CrashesDue) :
         Crash(threads, [procs EXCEPT ![v].crashesLeft = Spend(@)], Owing, v)
    /\ UNCHANGED <<pick, pc, real, launcher>>

\* One turn of inject_due_shutdowns: the end of a grace period is a crash,
\* a shutdown is a signal and the start of a grace period.
InjectShutdown ==
    /\ pick.phase = "faults"
    /\ CrashesDue = {}
    /\ \E v \in FirstOf(ShutdownsDue) :
         IF procs[v].kill = 0
         THEN Crash(threads, procs, Owing, v)
         ELSE /\ procs' = [procs EXCEPT ![v] =
                   [@ EXCEPT !.shutdownsLeft = Spend(procs[v].shutdownsLeft), !.shutdown = NoTime,
                             !.kill = AtLeast1(Faults(procs[v].spec).grace),
                             !.shutDown = TRUE, !.pending = TRUE]]
              /\ threads' = Ready(threads, Interruptible(threads, v) \cup WaitingForIO(threads))
              /\ UNCHANGED run
    /\ UNCHANGED <<pick, pc, real, launcher>>

FaultsDone == pick.phase = "faults" /\ CrashesDue = {} /\ ShutdownsDue = {}

\* Mutant: a deadline has to be past, not just reached
ExpiredStrictly == threads

\* expire_deadlines, then fire_alarms: a timer that is due makes SIGALRM
\* pending and wakes the first blocked thread of its process.
Expired ==
    [t \in Tid |-> IF t \in Blocked(threads) /\ threads[t].deadline = 0
                   THEN [threads[t] EXCEPT !.state = "runnable", !.deadline = NoTime]
                   ELSE threads[t]]
HasAlarm(pr, p) == pr[p].state \in {"starting", "live"} /\ pr[p].alarm # NoTime
\* Mutant: no timer ever fires
RingingNever == {}
Ringing == {p \in Pid : HasAlarm(procs, p) /\ procs[p].alarm = 0}
Released ==
    Ready(Expired, UNION {FirstOf({t \in Blocked(Expired) : Expired[t].pid = p}) : p \in Ringing})
Rung ==
    [p \in Pid |-> IF p \in Ringing
                   THEN [procs[p] EXCEPT !.pending = TRUE,
                           !.alarm = IF procs[p].interval = 0 THEN NoTime ELSE procs[p].interval]
                   ELSE procs[p]]

\* When the sleepers wake, the faults strike and the timers ring, as time left
Deadlines  == {Released[t].deadline : t \in Blocked(Released)}
FaultDates == UNION {{Rung[p].crash, Rung[p].shutdown, Rung[p].kill} : p \in {q \in Pid : Alive(Rung, q)}}
AlarmDates == {Rung[p].alarm : p \in {q \in Pid : HasAlarm(Rung, q)}}
StopDate   == IF run.stopped THEN {} ELSE {run.stopIn}

\* Mutants: injected crashes are no events; timers are none
NextEventsSansCrashes == (Deadlines \cup AlarmDates \cup StopDate) \ {NoTime}
NextEventsSansTimers  == (Deadlines \cup FaultDates \cup StopDate) \ {NoTime}

\* The events the clock may jump to when nothing is runnable
NextEvents == (Deadlines \cup FaultDates \cup AlarmDates \cup StopDate) \ {NoTime}

\* Nothing is runnable: the clock goes to the earliest event and `pick'
\* goes round again.
Jump ==
    /\ FaultsDone
    /\ Runnable(Released) = {}
    /\ AnyAlive(Released)
    /\ \E d \in FirstOf(NextEvents) : pick' = [pick EXCEPT !.phase = "tick", !.add = d]
    /\ threads' = Released /\ procs' = Rung
    /\ UNCHANGED <<run, pc, real, launcher>>

NoPick == [phase |-> "none", by |-> "nobody", me |-> NoThread, add |-> 0]

\* SIGKILL goes to the processes crashed since the last hand-off, once the
\* baton is elsewhere to the caller itself (After::of, carry_out and
\* Coordinator::process_died).  Slain is the death it brings.
KillsSent(pr) ==
    procs' = IF pick.by = "start" THEN pr ELSE Signalled(pr, Condemned(pr, run))
StillUnsignalled == pick.by = "start" /\ run.unsignalled

\* Where the caller of a hand-off goes from it: a thread that exited goes on
\* with its teardown, any other parks.
AfterHandOff(released) ==
    IF pick.by = "guest"
    THEN [pc EXCEPT ![pick.me] = IF released[pick.me].state = "exited" /\ ~procs[Owner(pick.me)].killed
                                 THEN "leaving" ELSE "parked"]
    ELSE pc
LauncherAfter ==
    CASE pick.by = "launcher" -> [launcher EXCEPT !.at = "respawning"]
      [] pick.by = "start"    -> [launcher EXCEPT !.at = "started"]
      [] OTHER                -> launcher

\* Some runnable thread is the next holder: which one is the seed's choice.
Choose(t) ==
    /\ FaultsDone
    /\ t \in Runnable(Released)
    /\ threads' = [Released EXCEPT ![t].state = "running"]
    /\ KillsSent(Rung)
    /\ run' = [run EXCEPT !.current = t, !.unsignalled = StillUnsignalled]
    /\ pc' = AfterHandOff(Released)
    /\ launcher' = LauncherAfter
    /\ pick' = NoPick
    /\ UNCHANGED <<real>>

Idle == FaultsDone /\ Runnable(Released) = {} /\ (~AnyAlive(Released) \/ NextEvents = {})

\* `pick' found nothing, for a guest: its own crash ends it; the last thread
\* of the run just leaves; otherwise it polls while a process has threads
\* outside the schedule, or reports the deadlock and aborts.
IdleGuest ==
    /\ Idle
    /\ pick.by = "guest"
    /\ LET me == pick.me
           own == Owner(me)
           stuck == Released[me].state # "exited" \/ AnyAlive(Released)
           crashed == Rung[own].killed
       IN \E gcd \in IF "outside" \in Calls THEN BOOLEAN ELSE {FALSE} :
            LET anywhere == gcd \/ \E p \in Pid : Rung[p].state = "live" /\ Rung[p].outside
                aborts == ~crashed /\ stuck /\ ~anywhere
                dead == IF aborts THEN {own} ELSE {}
                polls == ~crashed /\ stuck /\ anywhere
            IN /\ threads' = Released
               /\ procs' = [Signalled(Rung, Condemned(Rung, run)) EXCEPT ![own].outside =
                              @ \/ (gcd /\ ~crashed /\ stuck)]
               /\ run' = [run EXCEPT !.unsignalled = FALSE]
               /\ RealDeath(dead, "failed")
               /\ pc' = ThreadsGone(IF polls THEN [pc EXCEPT ![me] = "polling"]
                                             ELSE AfterHandOff(Released), dead)
    /\ pick' = NoPick
    /\ UNCHANGED launcher

\* `pick' found nothing, for the launcher: with threads left and no stop this
\* is a deadlock and the run is ended (supervise_started, end_run).
IdleLauncher ==
    /\ Idle
    /\ pick.by # "guest"
    /\ LET deadlock == pick.by = "launcher" /\ AnyAlive(Released) /\ ~run.stopped
       IN IF deadlock
          THEN /\ real' = [p \in Pid |-> IF real[p] = "none" THEN "none" ELSE "reaped"]
               /\ pc' = ThreadsGone(pc, Pid)
               /\ launcher' = [launcher EXCEPT !.at = "over"]
          ELSE /\ launcher' = LauncherAfter
               /\ UNCHANGED <<real, pc>>
    /\ threads' = Released
    /\ KillsSent(Rung)
    /\ run' = [run EXCEPT !.unsignalled = StillUnsignalled]
    /\ pick' = NoPick

----------------------------------------------------------------------------
(***************************************************************************)
(* Threads of the guests.  A thread with pc "guest" runs the program; the  *)
(* other pcs are places inside the supervisor where the lock is not held.  *)
(***************************************************************************)
LockFree == pick.phase = "none" /\ launcher.at # "over"
Runs(t)  == LockFree /\ pc[t] = "guest"
Goes(t, place) == pc' = [pc EXCEPT ![t] = place]

\* take_up_baton, by a thread that was handed the baton or kept it: a
\* stopped process reports and dies; otherwise it waits until the exiting
\* thread of its process is gone and every crashed process is really dead,
\* and takes pending signals, whose default action may end the process.
MayTakeUp(t) == LockFree /\ pc[t] = "parked" /\ run.current = t /\ threads[t].state = "running"

\* Mutant: it reports again and again
DieStoppedNot(t) == MayTakeUp(t) /\ procs[Owner(t)].stopped /\ UNCHANGED vars

DieStopped(t) ==
    /\ MayTakeUp(t)
    /\ procs[Owner(t)].stopped
    /\ RealDeath({Owner(t)}, "failed")
    /\ pc' = ThreadsGone(pc, {Owner(t)})
    /\ UNCHANGED <<threads, procs, run, pick, launcher>>

\* Mutants: nobody waits for a teardown; nobody waits for a death
ExitIsOverAlways(p) == TRUE
DeathsAreOverAlways == TRUE

ExitIsOver(p) == \A t \in Tid : t = procs[p].exiting => pc[t] # "leaving"

\* A crashed process that no SIGKILL is on its way to does not die, and the
\* holder gives up after GIVE_UP_AFTER looks.  One that was signalled is
\* taken to die before that.
WillNotDie(p) == real[p] = "up" /\ ~procs[p].signalled
DeathsAreOver == \A p \in Pid : procs[p].unsettled => procs[p].state = "exited" \/ WillNotDie(p)

\* settle_deaths: with something to forget, everybody waiting for I/O looks
\* again.
Settled(pr) == [p \in Pid |-> [pr[p] EXCEPT !.unsettled = FALSE]]
SettledThreads ==
    IF \E p \in Pid : procs[p].unsettled THEN Ready(threads, WaitingForIO(threads)) ELSE threads

TakeUp(t) ==
    LET p == Owner(t) IN
    /\ MayTakeUp(t)
    /\ ~procs[p].stopped
    /\ ExitIsOver(p)
    /\ DeathsAreOver
    /\ threads' = SettledThreads
    /\ procs' = [Settled(procs) EXCEPT ![p].exiting = NoThread, ![p].pending = FALSE]
    /\ \/ /\ Goes(t, IF threads[t].key = "wait" THEN "checking" ELSE "guest")
          /\ UNCHANGED real
       \/ /\ procs[p].pending
          /\ RealDeath({p}, "failed")
          /\ pc' = ThreadsGone(pc, {p})
    /\ UNCHANGED <<run, pick, launcher>>

\* The rest of a thread's teardown, off the baton.  The last thread of a
\* process takes the process with it.
Leave(t) ==
    /\ launcher.at # "over"
    /\ pc[t] = "leaving"
    /\ IF \A u \in ThreadsOf(threads, Owner(t)) : u = t \/ pc[u] = "gone"
       THEN RealDeath({Owner(t)}, "exit0") ELSE UNCHANGED real
    /\ Goes(t, "gone")
    /\ UNCHANGED <<threads, procs, run, pick, launcher>>

\* A quantum expiry, sched_yield: the thread stays runnable.
Yield(t) ==
    /\ Runs(t)
    /\ GuestHandOff(t, "runnable", "none", NoTime)
    /\ Goes(t, "parked")
    /\ UNCHANGED <<procs, run, real, launcher>>

\* yield_baton_as(Blocked(k)): a thread that missed a wake from outside the
\* schedule backs out instead.
BlockOn(t, k, deadline, back) ==
    IF threads[t].stale
    THEN /\ threads' = [threads EXCEPT ![t].stale = FALSE]
         /\ Goes(t, back)
         /\ UNCHANGED pick
    ELSE GuestHandOff(t, "blocked", k, deadline) /\ Goes(t, "parked")

\* my_pthread_join blocks while the other thread has not exited.
JoinKeys(t) ==
    IF \E u \in ThreadsOf(threads, Owner(t)) \ {t} : threads[u].state # "exited"
    THEN {"join"} ELSE {}

Block(t) ==
    /\ "block" \in Calls
    /\ Runs(t)
    /\ \E k \in Keys \cup {"io"} \cup JoinKeys(t), d \in Waits : BlockOn(t, k, d, "guest")
    /\ UNCHANGED <<procs, run, real, launcher>>

\* wake_all(own process, k) and wake_io by the holder.
Wake(t) ==
    /\ "wake" \in Calls
    /\ Runs(t)
    /\ \/ \E k \in Keys : threads' = Ready(threads, WaitingOn(threads, Owner(t), k))
       \/ threads' = Ready(threads, WaitingForIO(threads))
    /\ UNCHANGED <<procs, run, pick, pc, real, launcher>>

\* The same wakes by a thread the scheduler does not run (a GCD worker), at
\* any moment: note_outside_wake makes the threads of the process look again
\* before they block.
OutsideWake(p) ==
    /\ "outside" \in Calls
    /\ LockFree
    /\ procs[p].state = "live" /\ real[p] = "up"
    /\ \E W \in {WaitingOn(threads, p, k) : k \in Keys} \cup {WaitingForIO(threads)} :
         threads' = [t \in Tid |->
            [Ready(threads, W)[t] EXCEPT !.stale = @ \/ t \in ThreadsOf(threads, p)]]
    /\ procs' = [procs EXCEPT ![p].outside = TRUE]
    /\ UNCHANGED <<run, pick, pc, real, launcher>>

\* pthread_create: the new thread is runnable and parked.
CreateThread(t) ==
    /\ "create" \in Calls
    /\ Runs(t)
    /\ run.nthreads < MaxThreads
    /\ LET new == run.nthreads + 1
       IN /\ threads' = [threads EXCEPT ![new] = FreshThread(Owner(t), procs[Owner(t)].outside)]
          /\ pc' = [pc EXCEPT ![new] = "parked"]
          /\ run' = [run EXCEPT !.nthreads = new]
    /\ UNCHANGED <<procs, pick, real, launcher>>

\* The tables are full: add_proc or add_thread asserts, and the process
\* aborts.  A process slot taken before the thread slot was missed stays.
Exhaust(t) ==
    /\ Runs(t)
    /\ \/ "create" \in Calls /\ run.nthreads = MaxThreads /\ UNCHANGED <<procs, run>>
       \/ "spawn" \in Calls /\ run.nprocs = MaxProcs /\ UNCHANGED <<procs, run>>
       \/ /\ "spawn" \in Calls /\ run.nprocs < MaxProcs /\ run.nthreads = MaxThreads
          /\ run' = [run EXCEPT !.nprocs = @ + 1]
          /\ procs' = [procs EXCEPT ![run.nprocs + 1] = FreshProc(Owner(t), 0)]
    /\ RealDeath({Owner(t)}, "failed")
    /\ pc' = ThreadsGone(pc, {Owner(t)})
    /\ UNCHANGED <<threads, pick, launcher>>

\* thread_teardown, last round: joiners are woken, the thread's port is left
\* behind for the next holder in this process, and the baton goes on.
ExitThread(t) ==
    /\ "pthread_exit" \in Calls
    /\ Runs(t)
    /\ threads' = [Ready(threads, WaitingOn(threads, Owner(t), "join")) EXCEPT ![t] =
                     [@ EXCEPT !.state = "exited", !.key = "none", !.deadline = NoTime]]
    /\ procs' = [procs EXCEPT ![Owner(t)].exiting = t]
    /\ pick' = [phase |-> "tick", by |-> "guest", me |-> t, add |-> SwitchNs]
    /\ Goes(t, "parked")
    /\ UNCHANGED <<run, real, launcher>>

\* exit, _exit, or a fatal signal of its own: the baton goes with the
\* process, and the launcher passes it on.
ExitProcess(t) ==
    /\ "exit" \in Calls
    /\ Runs(t)
    /\ \E status \in {"exit0", "failed"} : RealDeath({Owner(t)}, status)
    /\ pc' = ThreadsGone(pc, {Owner(t)})
    /\ UNCHANGED <<threads, procs, run, pick, launcher>>

\* A read of the virtual clock moves it.
ReadClock(t) ==
    /\ "clock" \in Calls
    /\ Runs(t)
    /\ threads' = ThreadsLater(threads, 1)
    /\ procs' = ProcsLater(procs, 1)
    /\ run' = RunLater(run, 1)
    /\ UNCHANGED <<pick, pc, real, launcher>>

\* setitimer(ITIMER_REAL), alarm
SetTimer(t) ==
    /\ "timer" \in Calls
    /\ Runs(t)
    /\ \E x \in Timers :
         procs' = [procs EXCEPT ![Owner(t)].alarm = x[1], ![Owner(t)].interval = x[2]]
    /\ UNCHANGED <<threads, run, pick, pc, real, launcher>>

\* my_kill looks under the lock whether the target is alive, and strikes in
\* a critical section of its own.  The launcher may bury the target between
\* the two, and a new life may attach.
Aim(t, q) ==
    /\ {"kill", "signal"} \cap Calls # {}
    /\ Runs(t)
    /\ q # Owner(t)
    /\ Alive(procs, q)
    /\ run' = [run EXCEPT !.target = q]
    /\ Goes(t, "killing")
    /\ UNCHANGED <<threads, procs, pick, real, launcher>>

Strikes(t, q) == LockFree /\ pc[t] = "killing" /\ run.target = q
Struck == [run EXCEPT !.target = NoProc]

\* kill(q, SIGKILL): the target is crashed, whatever has become of it since,
\* and the caller waits, with the baton, until it is really dead.
Kill(t, q) ==
    /\ "kill" \in Calls
    /\ Strikes(t, q)
    /\ LET pr == [procs EXCEPT ![q].killed = TRUE]
           K == Condemned(pr, Owing)
       IN Crash(threads, Signalled(procs, K), [Struck EXCEPT !.unsignalled = FALSE], q)
    /\ Goes(t, "settling")
    /\ UNCHANGED <<pick, real, launcher>>

\* Mutant: the signal goes nowhere
SlainNot(p) ==
    /\ launcher.at # "over"
    /\ procs[p].signalled
    /\ real[p] = "up"
    /\ UNCHANGED vars

\* A SIGKILL is answered at some moment of real time.
Slain(p) ==
    /\ launcher.at # "over"
    /\ procs[p].signalled
    /\ real[p] = "up"
    /\ RealDeath({p}, "failed")
    /\ pc' = ThreadsGone(pc, {p})
    /\ UNCHANGED <<threads, procs, run, pick, launcher>>

\* settle_deaths, for the thread that already runs
SettleDeaths(t) ==
    /\ LockFree
    /\ pc[t] = "settling"
    /\ DeathsAreOver
    /\ threads' = SettledThreads
    /\ procs' = Settled(procs)
    /\ Goes(t, "guest")
    /\ UNCHANGED <<run, pick, real, launcher>>

\* kill(q, sig) for any other signal: post_signal and wake_io.
Signal(t, q) ==
    /\ "signal" \in Calls
    /\ Strikes(t, q)
    /\ procs' = [procs EXCEPT ![q].pending = TRUE]
    /\ threads' = Ready(threads, Interruptible(threads, q) \cup WaitingForIO(threads))
    /\ run' = Struck
    /\ Goes(t, "guest")
    /\ UNCHANGED <<pick, real, launcher>>

----------------------------------------------------------------------------
(***************************************************************************)
(* Children of guests: posix_spawn, fork and waitpid (process.rs).         *)
(***************************************************************************)

\* register_child: the child's main thread is runnable from the start.  The
\* spawn itself may fail, and then the slots stay used (unregister_child);
\* otherwise the parent waits until the child has attached or died trying.
SpawnChild(t) ==
    /\ "spawn" \in Calls
    /\ Runs(t)
    /\ HasRoom
    /\ LET child == run.nprocs + 1
           main  == run.nthreads + 1
       IN /\ run' = [run EXCEPT !.nprocs = child, !.nthreads = main]
          /\ \/ /\ threads' = [threads EXCEPT ![main] = FreshThread(child, FALSE)]
                /\ procs' = [procs EXCEPT ![child] = [FreshProc(Owner(t), 0) EXCEPT !.known = TRUE]]
                /\ real' = [real EXCEPT ![child] = "up"]
                /\ pc' = [pc EXCEPT ![main] = "boot", ![t] = "awaiting"]
             \/ /\ threads' = [threads EXCEPT ![main] =
                                 [FreshThread(child, FALSE) EXCEPT !.state = "exited"]]
                /\ procs' = [procs EXCEPT ![child] =
                               [FreshProc(Owner(t), 0) EXCEPT !.state = "exited", !.reaped = TRUE]]
                /\ pc' = [pc EXCEPT ![main] = "gone"]
                /\ UNCHANGED real
    /\ UNCHANGED <<pick, launcher>>

ChildrenOf(p) == {c \in Pid : procs[c].parent = p /\ procs[c].state # "unused"}

AwaitAttach(t) ==
    /\ LockFree
    /\ pc[t] = "awaiting"
    /\ \A c \in ChildrenOf(Owner(t)) : procs[c].state = "starting" => real[c] # "up"
    /\ Goes(t, "guest")
    /\ UNCHANGED <<threads, procs, run, pick, real, launcher>>

\* wait_for_child: the loop looks for a dead child under the lock, and
\* blocks in a critical section of its own if there is none yet.
ExitedChildren(p) ==
    {c \in ChildrenOf(p) : (procs[c].state = "exited" \/ procs[c].killed) /\ ~procs[c].reaped}
WaitableChildren(p) == {c \in ChildrenOf(p) : ~procs[c].reaped}

Waitpid(t) ==
    /\ "spawn" \in Calls
    /\ Runs(t)
    /\ Goes(t, "checking")
    /\ UNCHANGED <<threads, procs, run, pick, real, launcher>>

CheckChildren(t) ==
    /\ LockFree
    /\ pc[t] = "checking"
    /\ LET found == FirstOf(ExitedChildren(Owner(t)))
       IN /\ procs' = [p \in Pid |-> IF p \in found THEN [procs[p] EXCEPT !.reaped = TRUE]
                                                    ELSE procs[p]]
          /\ Goes(t, IF found = {} /\ WaitableChildren(Owner(t)) # {} THEN "blocking" ELSE "guest")
    /\ UNCHANGED <<threads, run, pick, real, launcher>>

BlockOnChildren(t) ==
    /\ LockFree
    /\ pc[t] = "blocking"
    /\ BlockOn(t, "wait", NoTime, "checking")
    /\ UNCHANGED <<procs, run, real, launcher>>

----------------------------------------------------------------------------
(***************************************************************************)
(* A new process attaches (join_run), or dies before it can.               *)
(***************************************************************************)
Attach(p) ==
    /\ LockFree
    /\ real[p] = "up" /\ procs[p].state = "starting"
    /\ IF procs[p].killed
       THEN /\ procs' = [procs EXCEPT ![p].signalled = TRUE]
            /\ RealDeath({p}, "failed")
            /\ pc' = ThreadsGone(pc, {p})
       ELSE /\ procs' = [procs EXCEPT ![p].known = TRUE, ![p].state = "live"]
            /\ pc' = [t \in Tid |-> IF Owner(t) = p /\ threads[t].state # "unused"
                                    THEN "parked" ELSE pc[t]]
            /\ UNCHANGED real
    /\ UNCHANGED <<threads, run, pick, launcher>>

FailToAttach(p) ==
    /\ "bootfail" \in Calls
    /\ LockFree
    /\ real[p] = "up" /\ procs[p].state = "starting"
    /\ RealDeath({p}, "failed")
    /\ pc' = ThreadsGone(pc, {p})
    /\ UNCHANGED <<threads, procs, run, pick, launcher>>

\* An idle thread looks again in real time (the loop of yield_baton_as), and
\* gives up in the end.
Poll(t) ==
    /\ LockFree
    /\ pc[t] = "polling"
    /\ pick' = [phase |-> "tick", by |-> "guest", me |-> t, add |-> 0]
    /\ UNCHANGED <<threads, procs, run, pc, real, launcher>>

PollGivesUp(t) ==
    /\ LockFree
    /\ pc[t] = "polling"
    /\ RealDeath({Owner(t)}, "failed")
    /\ pc' = ThreadsGone(pc, {Owner(t)})
    /\ UNCHANGED <<threads, procs, run, pick, launcher>>

----------------------------------------------------------------------------
(***************************************************************************)
(* The launcher (supervise_started): it starts the run, hears of every     *)
(* exit, passes on the baton of a process that held it, spawns the next    *)
(* life, and stops the run when only daemons are left.                     *)
(***************************************************************************)
Dead(p) == real[p] \in {"exit0", "failed"}
\* Tracked::status is still none
StillTracked(p) == real[p] = "up" \/ Dead(p)

\* only_daemons_left, with p's own status known already
OnlyDaemonsLeft(p) ==
    /\ Daemons # {}
    /\ \A q \in Pid \ {p} : StillTracked(q) => procs[q].spec \notin Entry \ Daemons

\* wait_attached and Coordinator::start: the baton goes out once every entry
\* is parked, and those that died before are dealt with.  (With one of those
\* the code waits out 10 s of real time first, whoever else has attached.)
Start ==
    /\ LockFree
    /\ launcher.at = "booting"
    /\ \A p \in Entry : procs[p].state = "live" \/ real[p] = "reaped"
    /\ launcher' = [launcher EXCEPT !.at = "handing", !.started = TRUE]
    /\ pick' = [phase |-> "tick", by |-> "start", me |-> NoThread, add |-> 0]
    /\ UNCHANGED <<threads, procs, run, pc, real>>

\* stop_now: the run's stop is due as of now
StopNow == run' = [run EXCEPT !.stopIn = 0]

Started ==
    /\ LockFree
    /\ launcher.at = "started"
    /\ IF OnlyDaemonsLeft(NoProc)
       THEN StopNow /\ launcher' = [launcher EXCEPT !.at = "serving", !.stopping = TRUE]
       ELSE UNCHANGED run /\ launcher' = [launcher EXCEPT !.at = "serving"]
    /\ UNCHANGED <<threads, procs, pick, pc, real>>

\* An exit event: whether it is the last of those the run waits for is
\* settled before the death is passed on.  will_restart, stop_now and
\* process_died are critical sections of their own.
NoticeExit(p) ==
    /\ LockFree
    /\ \/ launcher.at = "serving"
       \/ launcher.at = "booting" /\ \A q \in Entry : real[q] = "up" => procs[q].state = "live"
    /\ Dead(p)
    /\ LET last == /\ launcher.started
                   /\ ~WillRestart(p, real[p] = "failed")
                   /\ OnlyDaemonsLeft(p)
                   /\ ~launcher.stopping
       IN launcher' = [launcher EXCEPT !.at = IF last THEN "ending" ELSE "burying",
                         !.proc = p, !.failed = (real[p] = "failed")]
    /\ real' = [real EXCEPT ![p] = "reaped"]
    /\ UNCHANGED <<threads, procs, run, pick, pc>>

EndRun ==
    /\ LockFree
    /\ launcher.at = "ending"
    /\ StopNow
    /\ launcher' = [launcher EXCEPT !.at = "burying", !.stopping = TRUE]
    /\ UNCHANGED <<threads, procs, pick, pc, real>>

\* Mutants: the baton is passed on whoever dies, or never
HeldByAnybody(p) == run.current # NoThread
HeldByNobody(p) == FALSE

\* Whoever was last given the baton has it, whatever its state says.
HeldBy(p) == run.current # NoThread /\ Owner(run.current) = p

\* process_died: a death the run has not heard of is made known now, and
\* the baton is passed on if the process held it.
Bury ==
    LET p == launcher.proc
        gone == [procs EXCEPT ![p].state = "exited"]
        retired == Retire(threads, p)
    IN /\ LockFree
       /\ launcher.at = "burying"
       /\ IF procs[p].killed
          THEN threads' = retired /\ procs' = gone /\ UNCHANGED run
          ELSE RegisterRestart(Ready(retired, WokenByDeath(retired, procs, p)),
                               [gone EXCEPT ![p] = Unscheduled(@)], run, p, launcher.failed)
       /\ IF HeldBy(p)
          THEN /\ pick' = [phase |-> "tick", by |-> "launcher", me |-> run.current, add |-> SwitchNs]
               /\ launcher' = [launcher EXCEPT !.at = "handing"]
          ELSE /\ launcher' = [launcher EXCEPT !.at = "respawning"]
               /\ UNCHANGED pick
       /\ UNCHANGED <<pc, real>>

\* Not holding the baton, Coordinator::process_died still sends what SIGKILLs
\* are owed; then the next life is spawned.
Respawn ==
    LET new == procs[launcher.proc].replacedBy
        K == Condemned(procs, run)
        serving == [launcher EXCEPT !.at = IF launcher.started THEN "serving" ELSE "booting",
                                    !.proc = NoProc, !.failed = FALSE]
    IN /\ LockFree
       /\ launcher.at = "respawning"
       /\ procs' = Signalled(procs, K)
       /\ run' = [run EXCEPT !.unsignalled = FALSE]
       /\ real' = [p \in Pid |-> IF p = new /\ real[p] = "none" THEN "up" ELSE real[p]]
       /\ pc' = [t \in Tid |-> IF new # NoProc /\ Owner(t) = new THEN "boot" ELSE pc[t]]
       /\ launcher' = serving
       /\ UNCHANGED <<threads, pick>>

\* Every process has been heard of: the loop ends.
Finish ==
    /\ LockFree
    /\ launcher.at = "serving"
    /\ \A p \in Pid : ~StillTracked(p)
    /\ launcher' = [launcher EXCEPT !.at = "over"]
    /\ UNCHANGED <<threads, procs, run, pick, pc, real>>

Over == launcher.at = "over" /\ UNCHANGED vars

----------------------------------------------------------------------------
\* supervise: the entries are registered in file order and spawned; process
\* and thread e are entry e's.
Draws(e) == CrashTimes(FreshProc(NoProc, e), 0) \X ShutdownTimes(FreshProc(NoProc, e), 0)
Init ==
    /\ threads = [t \in Tid |-> IF t \in Entry THEN FreshThread(t, FALSE) ELSE NoThreadRec]
    /\ \E draw \in {f \in [Entry -> UNION {Draws(e) : e \in Entry}] : \A e \in Entry : f[e] \in Draws(e)} :
         procs = [p \in Pid |-> IF p \in Entry
                                THEN [FreshProc(NoProc, p) EXCEPT !.crash = draw[p][1],
                                                                  !.shutdown = draw[p][2]]
                                ELSE NoProcRec]
    /\ \E calls \in Programs :
         run = [ current |-> NoThread, nthreads |-> NEntries, nprocs |-> NEntries,
                 stopIn |-> StopAfter, stopped |-> FALSE, unsignalled |-> FALSE, calls |-> calls,
                 target |-> NoProc ]
    /\ pick = NoPick
    /\ pc = [t \in Tid |-> IF t \in Entry THEN "boot" ELSE "none"]
    /\ real = [p \in Pid |-> IF p \in Entry THEN "up" ELSE "none"]
    /\ launcher = [at |-> "booting", proc |-> NoProc, failed |-> FALSE,
                   started |-> FALSE, stopping |-> FALSE]

\* The hand-off under way
PickStep ==
    \/ Tick \/ InjectCrash \/ InjectShutdown \/ Jump \/ IdleGuest \/ IdleLauncher
    \/ \E t \in Tid : Choose(t)

\* What the holder of the baton does next by itself, without the program
Return(t) ==
    \/ DieStopped(t) \/ TakeUp(t) \/ SettleDeaths(t) \/ AwaitAttach(t)
    \/ CheckChildren(t) \/ BlockOnChildren(t) \/ Poll(t) \/ PollGivesUp(t)
    \/ \E q \in Pid : Kill(t, q) \/ Signal(t, q)

\* What the program does
Guest(t) ==
    \/ Yield(t) \/ Block(t) \/ Wake(t) \/ CreateThread(t) \/ Exhaust(t)
    \/ ExitThread(t) \/ ExitProcess(t) \/ ReadClock(t) \/ SetTimer(t)
    \/ SpawnChild(t) \/ Waitpid(t)
    \/ \E q \in Pid : Aim(t, q)

\* What happens off the baton
Aside ==
    \/ \E t \in Tid : Leave(t)
    \/ \E p \in Pid : OutsideWake(p) \/ Slain(p) \/ Attach(p) \/ FailToAttach(p)

LauncherStep ==
    \/ Start \/ Started \/ EndRun \/ Bury \/ Respawn \/ Finish
    \/ \E p \in Pid : NoticeExit(p)

Next ==
    \/ PickStep
    \/ \E t \in Tid : Return(t) \/ Guest(t)
    \/ Aside
    \/ LauncherStep
    \/ Over

Spec == Init /\ [][Next]_vars

(***************************************************************************)
(* Fairness.  A hand-off under way goes on; a thread holding the baton     *)
(* does what the supervisor has it do; a thread of the program comes to    *)
(* the end of its quantum, which is counted in its own branches and calls; *)
(* what is left off the baton (teardown, SIGKILL) takes its time.  The     *)
(* launcher and an attaching process compete for the spin lock with a      *)
(* holder that always lets go of it, so they get it in the end.            *)
(***************************************************************************)
Fairness ==
    /\ WF_vars(PickStep)
    /\ \A t \in Tid : WF_vars(Return(t)) /\ WF_vars(Yield(t)) /\ WF_vars(Leave(t))
    /\ \A p \in Pid : WF_vars(Slain(p)) /\ SF_vars(Attach(p))
    /\ SF_vars(LauncherStep)

FairSpec == Spec /\ Fairness

----------------------------------------------------------------------------
(***************************************************************************)
(* Safety.                                                                 *)
(***************************************************************************)

\* At most one thread of the whole run executes program or hand-off code,
\* and it is the one `current' names, still running in the table, of a
\* process that attached and was not crashed.  hand_off, process_died and
\* crash each move the baton or take threads out of the schedule.
Inside(t) == pc[t] \in {"guest", "checking", "blocking", "awaiting", "killing", "settling"}
OneHolder ==
    \A t \in Tid : Inside(t) =>
        /\ run.current = t
        /\ threads[t].state = "running"
        /\ procs[Owner(t)].state = "live" /\ ~procs[Owner(t)].killed

\* Only `current' is ever marked as running.
OneRunning == \A t \in Tid : threads[t].state = "running" => run.current = t

\* Nobody who can be scheduled belongs to a process that was crashed or
\* buried: crash, process_died and unregister_child retire every thread,
\* and no wake, deadline or stop brings one back.
ScheduleIsAlive ==
    \A t \in Tid : threads[t].state \in {"runnable", "running", "blocked"} =>
        /\ procs[Owner(t)].state \in {"starting", "live"}
        /\ ~procs[Owner(t)].killed

\* Between hand-offs somebody real has the baton, as long as anybody is left:
\* a thread that runs or polls, one of a process whose death the launcher
\* has yet to hear of, or the first thread of a life the launcher will spawn
\* once it has (process_died, respawn).
BatonNotLost ==
    (LockFree /\ launcher.at = "serving" /\ AnyAlive(threads)) =>
        LET c == run.current
            p == Owner(c)
        IN /\ c # NoThread
           /\ \/ Dead(p)
              \/ real[p] = "up" /\ (threads[c].state = "running" \/ pc[c] = "polling" \/ procs[p].killed)
              \/ real[p] = "none" /\ \E q \in Pid : procs[q].replacedBy = p /\ real[q] # "reaped"

\* While program code runs, every process the schedule has crashed after it
\* attached is really dead, so what its death releases in the kernel is
\* released at that point of the schedule (wait_out_deaths).
DeathsSettled ==
    (\E t \in Tid : pc[t] = "guest") =>
        \A p \in Pid : procs[p].killed /\ procs[p].state = "live" => real[p] # "up"

\* While program code runs, no other thread of its process is still in its
\* teardown (note_exiting, wait_out_exit).
TeardownOver ==
    \A t, u \in Tid : pc[t] = "guest" /\ Owner(u) = Owner(t) => pc[u] # "leaving"

\* An entry has at most one life at a time, in the tables and for real, and
\* a dead life has its own successor (register_restart is reached both from
\* crash and from process_died, and the launcher spawns from either).
OneLife ==
    \A p, q \in Pid : p # q /\ procs[p].spec = procs[q].spec /\ procs[p].spec # 0 =>
        /\ ~(Alive(procs, p) /\ Alive(procs, q))
        /\ ~(real[p] = "up" /\ real[q] = "up")
        /\ procs[p].replacedBy # NoProc => procs[p].replacedBy # procs[q].replacedBy

\* A thread that sleeps in waitpid has no dead child to collect (crash and
\* process_died wake the parent).
WaitersSeeDeaths ==
    LockFree => \A t \in Blocked(threads) :
        threads[t].key = "wait" => ExitedChildren(Owner(t)) = {}

\* Once the run's stop has come no program code runs again, of any process,
\* whenever it was started (stop_run, die_if_stopped).
StopIsFinal == run.stopped => \A t \in Tid : ~Inside(t)

\* Every event is served in the hand-off it falls due in: when a hand-off is
\* over, no deadline, crash, shutdown, timer or stop that was due is left
\* for the next one, and the jump of an idle run's clock never goes past one
\* (pick, fire_faults, next_event).
ServedInTime ==
    [][ /\ pick.phase # "none" /\ pick'.phase = "none" =>
             /\ \A t \in Blocked(threads') : threads'[t].deadline # 0
             /\ \A p \in Pid : Alive(procs', p) =>
                  0 \notin {procs'[p].crash, procs'[p].shutdown, procs'[p].kill, procs'[p].alarm}
             /\ run'.stopIn = 0 => run'.stopped
        /\ pick.phase = "faults" /\ pick'.phase = "tick" =>
             /\ \A t \in Blocked(threads') :
                  threads'[t].deadline # NoTime => threads'[t].deadline >= pick'.add
             /\ \A p \in Pid : Alive(procs', p) =>
                  \A x \in {procs'[p].crash, procs'[p].shutdown, procs'[p].kill, procs'[p].alarm} :
                    x # NoTime => x >= pick'.add
             /\ ~run'.stopped /\ run'.stopIn # NoTime => run'.stopIn >= pick'.add ]_vars

----------------------------------------------------------------------------
(***************************************************************************)
(* Liveness.                                                               *)
(***************************************************************************)

\* Every hand-off comes to an end: somebody runs, or nobody can.
PickTerminates == pick.phase # "none" ~> pick.phase = "none"

\* Whoever is given the baton runs, dies or sees the run end.
BatonTakenUp ==
    \A t \in Tid :
        (LockFree /\ run.current = t /\ pc[t] \in {"boot", "parked"} /\ threads[t].state = "running")
            ~> (pc[t] \notin {"boot", "parked"} \/ launcher.at = "over")

\* A crash is followed by the real death, and the launcher hears of it.
CrashedIsReaped == \A p \in Pid : procs[p].killed ~> (real[p] = "reaped" \/ launcher.at = "over")

\* A stop ends the run.
StopEndsRun == run.stopped ~> launcher.at = "over"
====
