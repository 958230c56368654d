------------------------------- MODULE Waits -------------------------------
(***************************************************************************)
(* The calls that wait: mutexes, read-write locks, condition variables,    *)
(* futexes, unfair locks, dispatch and System V semaphores, pipes, polls,  *)
(* file locks, joins and sleeps (interpose.rs, io.rs, poll.rs, files.rs),  *)
(* kevent, waitpid, and the signals that end a wait (kq.rs, process.rs,    *)
(* signals.rs).                                                            *)
(* Each is tried without blocking.  A call that would block decides to     *)
(* wait, and only then, in a critical section of its own (yield_baton_as), *)
(* is recorded as blocked and hands the baton on.  Whoever makes it        *)
(* possible does so first and wakes afterwards.  Threads of the schedule   *)
(* run one at a time; outside threads (GCD workers, which the scheduler    *)
(* does not run) make the same calls at any moment of real time.           *)
(*                                                                         *)
(* The choice of the next thread is Scheduler's, here any runnable one,    *)
(* and the deadlines that pass in a hand-off are any that are set.         *)
(***************************************************************************)
EXTENDS Naturals, Sequences, FiniteSets, SequencesExt

CONSTANTS
    Thread,       \* threads of the schedule
    Outside,      \* threads the scheduler does not run
    Process,
    Object,       \* locks, semaphores, words of memory, pipes
    Nobody,       \* `current', while nobody can run
    Scenarios,    \* what the threads of a run may be doing, see Scenario
    Cap           \* what a pipe holds

Actor == Thread \cup Outside

\* A call names the object it is about (`on'); the other fields are read
\* only where they mean something: how a lock is wanted, whether there is a
\* deadline, and a second object.
Op(what, o) == [do |-> what, on |-> o, mode |-> "ex", timed |-> FALSE, with |-> o, flag |-> o]

Calls == {"lock", "unlock", "wait", "signal", "broadcast", "add", "down", "up", "system",
          "futex", "store", "gate", "ungate", "read", "write", "close", "poll", "flock",
          "setlk", "semop", "join", "sleep", "kill", "raise", "tkill", "slay", "alarm",
          "waitpid", "kevent", "trigger"}
IoCalls == {"read", "write", "close", "poll", "flock", "setlk", "semop", "kevent", "trigger"}
\* Signals that other processes, timers and threads of the process send; the
\* run itself sends "chld"
Posted  == {"usr", "alrm", "urg"}

\* A scenario: the process of each thread, its program, the threads that are
\* starting up, in system code, the unfair lock that this and other system
\* code takes, who has the writing end of which pipe, which signals a thread
\* blocks, whose child a process is, the pipe of its own to which its signal
\* handlers write a byte, and what its kqueues watch.
Scenario(s) ==
    /\ s.home \in [Actor -> Process] /\ DOMAIN s.prog = Actor
    /\ \A a \in Actor : s.prog[a] \in Seq(Range(s.prog[a]))
    /\ \A a \in Actor : \A c \in Range(s.prog[a]) :
          c.do \in Calls /\ (c.do \in {"wait", "signal", "broadcast"} => c.on \in Object)
    /\ s.starting \subseteq Thread /\ s.gate \in Object
    /\ s.writers \subseteq Object \X Actor
    /\ s.deaf \subseteq Thread \X (Posted \cup {"chld"})
    /\ s.parent \in [Process -> Process \cup {"none"}] /\ s.hears \in [Process -> Object \cup {"none"}]
    /\ \A w \in s.watches : w.filter \in {"read", "user", "signal", "proc"}

ASSUME ActorsAssumption == Thread \cap Outside = {} /\ Nobody \notin Actor
ASSUME ScenariosAssumption == (\A s \in Scenarios : Scenario(s)) /\ Cap \in Nat \ {0}

----------------------------------------------------------------------------
(***************************************************************************)
(* State.                                                                  *)
(*                                                                         *)
(*   sc       the scenario, chosen at the start                            *)
(*   th       ThreadRec of each thread of the schedule, as far as waits    *)
(*            go; `stale' is wakes_seen # the process's outside_wakes,     *)
(*            `timed' that a deadline is set, `parked' that the thread has *)
(*            stopped in Shared::park, `due' that it has the baton and has *)
(*            signals to take before it goes on, and `handled' that it     *)
(*            took one since its call began (handlers_run)                 *)
(*   queue    queue[c]: the threads with cond_key c by cond_seq            *)
(*   current  the thread with the baton                                    *)
(*   at       where each actor is: the call, the stage of it, what a wait  *)
(*            or a wake will be about, and the stage after a wait          *)
(*   hold     hold[o][a]: how a holds the lock, or the writing end, o      *)
(*   count    bytes in a pipe, count of a semaphore, value of a word       *)
(*   hist     signals of condition variables that found a waiter, and      *)
(*            waits that one ended                                         *)
(*   sig      pend, mine: sig_pending of processes and threads; deaths:    *)
(*            the processes with child_deaths > 0; alarms: alarm_at # 0;   *)
(*            counts: sig_counts; watch: what kqueues have reported; and   *)
(*            how many signals were posted and taken so far                *)
(***************************************************************************)
VARIABLES sc, th, queue, current, at, hold, count, hist, sig
vars == <<sc, th, queue, current, at, hold, count, hist, sig>>

Home(a) == sc.home[a]
Prog(a) == sc.prog[a]

AtCall(i) == [pc |-> i, stage |-> "try", about |-> "none", timed |-> FALSE, then |-> "none"]
Done(a)   == at[a].pc > Len(Prog(a))
Call(a)   == Prog(a)[at[a].pc]

\* Program code, and the supervisor's on its behalf, runs with the baton, or
\* outside the schedule
Acts(a)           == a \in Outside \/ (current = a /\ ~th[a].due)
In(a, what, s)    == Acts(a) /\ ~Done(a) /\ at[a].stage = s /\ Call(a).do = what
Tries(a, what)    == In(a, what, "try") \/ In(a, what, "again")
Goes(a)           == at' = [at EXCEPT ![a] = AtCall(@.pc + 1)]
To(a, s)          == at' = [at EXCEPT ![a] = [AtCall(@.pc) EXCEPT !.stage = s]]
ToAbout(a, s, x)  == at' = [at EXCEPT ![a] = [AtCall(@.pc) EXCEPT !.stage = s, !.about = x]]

\* The call would block: an outside thread sleeps in the kernel, one of ours
\* is to block on the key k and to go on with the stage s
Blocks(a, k, timed, s) ==
    /\ a \in Thread
    /\ at' = [at EXCEPT ![a] = [pc |-> @.pc, stage |-> "block", about |-> k,
                                timed |-> timed, then |-> s]]

----------------------------------------------------------------------------
(***************************************************************************)
(* What libpthread, libdispatch and the kernel keep.                       *)
(***************************************************************************)
Free(o, a, mode) ==
    \A b \in Actor \ {a} : hold[o][b] = "no" \/ (mode = "sh" /\ hold[o][b] = "sh")
Owner(o)        == {b \in Actor : hold[o][b] = "ex"}
Holds(o, a, m)  == hold' = [hold EXCEPT ![o][a] = m] /\ UNCHANGED count
Counts(o, n)    == count' = [count EXCEPT ![o] = n] /\ UNCHANGED hold
Readable(o)     == count[o] > 0 \/ \A a \in Actor : hold[o][a] = "no"

Dead(p) == \A t \in Thread : Home(t) = p => th[t].state = "exited"

\* Registrations of the kqueue a kevent is about that have something to
\* report (collect_watches, and the kernel)
Watched(t) ==
    LET p == Home(t) IN
    {w \in sc.watches : w.kq = Call(t).on /\
       CASE w.filter = "read"   -> Readable(w.ident)
         [] w.filter = "user"   -> count[w.ident] > 0
         [] w.filter = "signal" -> sig.counts[p, w.ident] # sig.watch[w]
         [] w.filter = "proc"   -> sig.watch[w] = 0 /\ Dead(w.ident)}

\* What a thread of the schedule waits for has come: its call would not
\* block again.  (A sleep's never comes, its deadline ends it.)
Granted(t) ==
    LET c == Call(t) IN
    CASE c.do \in {"lock", "flock", "setlk"} -> Free(c.on, t, c.mode)
      [] c.do = "wait" -> IF at[t].stage \in {"relock", "give up"} THEN Free(c.with, t, "ex")
                                                                   ELSE th[t].signaled
      [] c.do \in {"down", "futex", "semop"} -> count[c.on] > 0
      [] c.do = "read"  -> Readable(c.on)
      [] c.do = "write" -> count[c.on] < Cap
      [] c.do = "poll"  -> Readable(c.on) \/ Readable(c.with)
      [] c.do = "join"  -> th[c.on].state = "exited"
      [] c.do = "waitpid" -> Dead(c.on)
      [] c.do = "kevent"  -> Watched(t) # {}
      [] OTHER -> FALSE

----------------------------------------------------------------------------
(***************************************************************************)
(* The scheduler, as far as waits need it.                                 *)
(***************************************************************************)
\* Signals that t takes when it takes the baton up: of those posted to it or
\* to its process the ones it does not block, and SIGCHLD
Takes(t, g) ==
    {m \in Posted : (<<Home(t), m>> \in g.pend \/ <<t, m>> \in g.mine) /\ <<t, m>> \notin sc.deaf}
TakesChild(t, g) == Home(t) \in g.deaths /\ <<t, "chld">> \notin sc.deaf

\* fire_alarms: the timers of the processes P ring
Ring(g, P) ==
    [g EXCEPT !.alarms = @ \ P,
              !.posted = @ + Cardinality({p \in P : <<p, "alrm">> \notin g.pend}),
              !.pend = @ \cup {<<p, "alrm">> : p \in P},
              !.counts = [x \in DOMAIN @ |-> @[x] + (IF x \in P \X {"alrm"} THEN 1 ELSE 0)]]
\* ... and one blocked thread of each is woken
WokenByAlarm(b, P, W) ==
    \A p \in Process :
       LET B == {t \in Thread : b[t].state = "blocked" /\ Home(t) = p} IN
       Cardinality(W \cap B) = IF p \in P /\ B # {} THEN 1 ELSE 0

\* hand_off: t's state is recorded, deadlines and timers pass, any runnable
\* thread is next; the clock jumps to the earliest only if nobody is
\* runnable.
Due(b) == {t \in Thread : b[t].state = "blocked" /\ b[t].timed}
Expire(b, E) == [t \in Thread |-> IF t \in E THEN [b[t] EXCEPT !.state = "runnable", !.timedOut = TRUE]
                                              ELSE b[t]]
Choose(b, g) ==
    \E E \in SUBSET Due(b), P \in SUBSET g.alarms :
    \E W \in SUBSET {t \in Thread : b[t].state = "blocked" /\ t \notin E} :
       LET ready == E \cup W \cup {t \in Thread : b[t].state = "runnable"} IN
       /\ WokenByAlarm(Expire(b, E), P, W)
       /\ ready = {} => Due(b) = {} /\ P = g.alarms
       /\ sig' = Ring(g, P)
       /\ \/ ready = {} /\ current' = Nobody /\ th' = b
          \/ \E n \in ready :
               /\ current' = n
               /\ th' = [t \in Thread |->
                           [Expire(b, E)[t] EXCEPT
                              !.state = IF t = n THEN "running" ELSE IF t \in W THEN "runnable" ELSE @,
                              !.parked = @ /\ t # n,
                              !.due = t = n /\ (Takes(t, sig') # {} \/ TakesChild(t, sig'))]]

HandOff(t, state, k, timed) ==
    Choose([th EXCEPT ![t].state = state, ![t].key = k, ![t].timed = timed, ![t].timedOut = FALSE], sig)

\* The end of a quantum, or sched_yield, between two calls; system code,
\* which holds the start-up lock, has no hooks
Preempt(t) ==
    /\ Acts(t) /\ ~Done(t) /\ at[t].stage = "try" /\ hold[sc.gate][t] = "no"
    /\ HandOff(t, "runnable", "none", FALSE)
    /\ UNCHANGED <<sc, queue, at, hold, count, hist>>

\* yield_baton_as, to block: a wake from outside since the last time lets the
\* caller look again instead.
\* Mutant: it blocks all the same
BlockAnyway(t) ==
    /\ Acts(t) /\ at[t].stage = "block"
    /\ at' = [at EXCEPT ![t] = [AtCall(@.pc) EXCEPT !.stage = at[t].then]]
    /\ HandOff(t, "blocked", at[t].about, at[t].timed)
    /\ UNCHANGED <<sc, queue, hold, count, hist>>
Block(t) ==
    /\ Acts(t) /\ at[t].stage = "block"
    /\ at' = [at EXCEPT ![t] = [AtCall(@.pc) EXCEPT !.stage = at[t].then]]
    /\ IF th[t].stale
       THEN th' = [th EXCEPT ![t].stale = FALSE, ![t].timedOut = FALSE] /\ UNCHANGED <<current, sig>>
       ELSE HandOff(t, "blocked", at[t].about, at[t].timed)
    /\ UNCHANGED <<sc, queue, hold, count, hist>>

\* A thread that lost the baton reaches Shared::park
Park(t) ==
    /\ th[t].state \in {"runnable", "blocked"} /\ ~th[t].parked
    /\ at[t].stage \notin {"start", "booting", "named"}
    /\ th' = [th EXCEPT ![t].parked = TRUE]
    /\ UNCHANGED <<sc, queue, current, at, hold, count, hist, sig>>

\* Nobody could run: the last holder looks again in real time
Poll ==
    /\ current = Nobody
    /\ \E t \in Thread : th[t].state = "runnable"
    /\ Choose(th, sig)
    /\ UNCHANGED <<sc, queue, at, hold, count, hist>>

\* What the end of a process, by itself or killed, means to the others:
\* whoever waits for I/O or for a child looks again, and its parent is owed
\* a SIGCHLD.
WithoutProcess(b, p) ==
    [x \in Thread |->
       IF Home(x) = p THEN [b[x] EXCEPT !.state = "exited"]
       ELSE IF b[x].state = "blocked" /\ (b[x].key = "io" \/ (b[x].key = "child" /\ Home(x) = sc.parent[p]))
            THEN [b[x] EXCEPT !.state = "runnable"] ELSE b[x]]
Bereaved(p) ==
    [sig EXCEPT !.deaths = @ \cup ({sc.parent[p]} \ {"none"}), !.alarms = @ \ {p}]
Released(p) ==
    hold' = [o \in Object |-> [a \in Actor |-> IF Home(a) = p THEN "no" ELSE hold[o][a]]]

\* The last thing a thread does: wake who joins it, and leave the schedule.
\* With the last one the process ends.
Exit(t) ==
    /\ Acts(t) /\ Done(t)
    /\ LET p == Home(t)
           left == [x \in Thread |->
                      IF x = t THEN [th[x] EXCEPT !.state = "exited"]
                      ELSE IF th[x].state = "blocked" /\ th[x].key = t /\ Home(x) = p
                           THEN [th[x] EXCEPT !.state = "runnable"] ELSE th[x]]
       IN  IF \A a \in Actor \ {t} : Home(a) = p => Done(a) /\ (a \in Thread => th[a].state = "exited")
           THEN Choose(WithoutProcess(left, p), Bereaved(p)) /\ Released(p)
           ELSE Choose(left, sig) /\ UNCHANGED hold
    /\ UNCHANGED <<sc, queue, at, count, hist>>

\* wake_all and wake_io: from outside the schedule, every thread of the
\* process has one more wake to see.
Woken(a, k, everywhere) ==
    [t \in Thread |->
       [th[t] EXCEPT
          !.state = IF @ = "blocked" /\ th[t].key = k /\ (everywhere \/ Home(t) = Home(a))
                    THEN "runnable" ELSE @,
          !.stale = @ \/ (a \in Outside /\ Home(t) = Home(a))]]
WakeAll(a, k) == th' = Woken(a, k, FALSE)
WakeIo(a)     == th' = Woken(a, "io", TRUE)

\* The wake that a change owes.
Wake(a) ==
    /\ Acts(a) /\ at[a].stage = "wake"
    /\ IF Call(a).do \in IoCalls THEN WakeIo(a) ELSE WakeAll(a, at[a].about)
    /\ IF Call(a).do = "wait" THEN To(a, "look") ELSE Goes(a)
    /\ UNCHANGED <<sc, queue, current, hold, count, hist, sig>>

----------------------------------------------------------------------------
(***************************************************************************)
(* Mutexes and read-write locks, joins and sleeps.                         *)
(***************************************************************************)
\* pthread_mutex_lock, pthread_rwlock_rdlock and _wrlock
Lock(a) ==
    /\ Tries(a, "lock")
    /\ LET c == Call(a) IN
       IF Free(c.on, a, c.mode)
       THEN Holds(c.on, a, c.mode) /\ Goes(a)
       ELSE Blocks(a, c.on, FALSE, "again") /\ UNCHANGED <<hold, count>>
    /\ UNCHANGED <<sc, th, queue, current, hist, sig>>

\* pthread_mutex_unlock, pthread_rwlock_unlock
Unlock(a) ==
    /\ Tries(a, "unlock")
    /\ Holds(Call(a).on, a, "no")
    /\ ToAbout(a, "wake", Call(a).on)
    /\ UNCHANGED <<sc, th, queue, current, hist, sig>>

\* The real join waits for the end of a thread that has left the schedule
Join(t) ==
    /\ Tries(t, "join")
    /\ IF Granted(t) THEN Goes(t) ELSE Blocks(t, Call(t).on, FALSE, "again")
    /\ UNCHANGED <<sc, th, queue, current, hold, count, hist, sig>>

\* waitpid for one child
Waitpid(t) ==
    /\ Tries(t, "waitpid")
    /\ IF Granted(t) THEN Goes(t) ELSE Blocks(t, "child", FALSE, "again")
    /\ UNCHANGED <<sc, th, queue, current, hold, count, hist, sig>>

\* A call that a handler ends counts those that ran on its thread
\* (handlers_run) since it began
Begins(t) == th' = IF at[t].stage = "try" THEN [th EXCEPT ![t].handled = FALSE] ELSE th

\* nanosleep and its kin: the deadline ends it, or a handler that ran on
\* this thread; a thread woken for a signal that it did not handle goes on.
Sleep(t) ==
    /\ Tries(t, "sleep")
    /\ Begins(t)
    /\ Blocks(t, "sleep", TRUE, "woke")
    /\ UNCHANGED <<sc, queue, current, hold, count, hist, sig>>
SleepOver(t) ==
    /\ In(t, "sleep", "woke")
    /\ IF th[t].timedOut \/ th[t].handled THEN Goes(t) ELSE To(t, "again")
    /\ UNCHANGED <<sc, th, queue, current, hold, count, hist, sig>>

----------------------------------------------------------------------------
(***************************************************************************)
(* Signals.  They run at points of the schedule, on the thread that takes  *)
(* the baton up, all of them caught by the program.                        *)
(***************************************************************************)
\* The program's handler writes a byte to a pipe of its process, if there is
\* room, and write wakes who waits for it.
Hears(p) == sc.hears[p] # "none" /\ count[sc.hears[p]] < Cap
HandlerRuns(t, b) ==
    IF Hears(Home(t))
    THEN /\ count' = [count EXCEPT ![sc.hears[Home(t)]] = @ + 1]
         /\ th' = [x \in Thread |-> IF b[x].state = "blocked" /\ b[x].key = "io"
                                    THEN [b[x] EXCEPT !.state = "runnable"] ELSE b[x]]
    ELSE th' = b /\ UNCHANGED count

\* take_up_baton: SIGCHLD, once for all children that died, and then the
\* pending signals that this thread does not block.  Only the latter count
\* as handlers that interrupt its wait.
TakeUp(t) ==
    /\ current = t /\ th[t].due
    /\ LET took == Takes(t, sig) IN
       /\ sig' = [sig EXCEPT !.deaths = IF TakesChild(t, sig) THEN @ \ {Home(t)} ELSE @,
                             !.pend = @ \ ({Home(t)} \X took), !.mine = @ \ ({t} \X took),
                             !.taken = @ + Cardinality(took)]
       /\ HandlerRuns(t, [th EXCEPT ![t].due = FALSE, ![t].handled = @ \/ took # {}])
    /\ UNCHANGED <<sc, queue, current, at, hold, hist>>

\* kill of another process: post_signal wakes every blocked thread of it to
\* look, and wake_io everybody who waits for I/O.
\* Mutant: post_signal wakes one thread, as a timer does
Post(p) == [sig EXCEPT !.pend = @ \cup {<<p, "usr">>}, !.counts[<<p, "usr">>] = @ + 1,
                       !.posted = @ + (IF <<p, "usr">> \in sig.pend THEN 0 ELSE 1)]
KillWakesOne(t) ==
    /\ Tries(t, "kill")
    /\ LET p == Call(t).on
           B == {x \in Thread : th[x].state = "blocked" /\ Home(x) = p} IN
       /\ sig' = Post(p)
       /\ \E w \in B \cup {t} :
             /\ w = t => B = {}
             /\ th' = IF w = t THEN th ELSE [th EXCEPT ![w].state = "runnable"]
    /\ Goes(t)
    /\ UNCHANGED <<sc, queue, current, hold, count, hist>>
Kill(t) ==
    /\ Tries(t, "kill") /\ Home(t) # Call(t).on
    /\ LET p == Call(t).on IN
       IF Dead(p) THEN UNCHANGED <<th, sig>>
       ELSE /\ sig' = Post(p)
            /\ th' = [x \in Thread |-> IF th[x].state = "blocked" /\ (Home(x) = p \/ th[x].key = "io")
                                       THEN [th[x] EXCEPT !.state = "runnable"] ELSE th[x]]
    /\ Goes(t)
    /\ UNCHANGED <<sc, queue, current, hold, count, hist>>

\* kill of its own process by a thread that does not block the signal: the
\* handler runs here and now
Raise(t) ==
    /\ Tries(t, "raise") /\ <<t, "usr">> \notin sc.deaf
    /\ sig' = [sig EXCEPT !.counts[<<Home(t), "usr">>] = @ + 1]
    /\ HandlerRuns(t, th)
    /\ Goes(t)
    /\ UNCHANGED <<sc, queue, current, hold, hist>>

\* pthread_kill of another thread of the process, which is not woken
ThreadKill(t) ==
    /\ Tries(t, "tkill")
    /\ LET x == Call(t).on IN
       sig' = IF th[x].state = "exited" \/ <<x, "urg">> \in sig.mine THEN sig
              ELSE [sig EXCEPT !.mine = @ \cup {<<x, "urg">>}, !.posted = @ + 1]
    /\ Goes(t)
    /\ UNCHANGED <<sc, th, queue, current, hold, count, hist>>

\* kill with SIGKILL: the target leaves the schedule at once; the caller
\* goes on when it is really dead, and its locks and pipes with it, and has
\* taken the SIGCHLD if the target was its child (settle_deaths).
Slay(t) ==
    /\ Tries(t, "slay") /\ Home(t) # Call(t).on
    /\ LET p == Call(t).on IN
       IF Dead(p) THEN UNCHANGED <<th, sig, hold>>
       ELSE /\ sig' = Bereaved(p) /\ Released(p)
            /\ th' = [WithoutProcess(th, p) EXCEPT ![t].due = TakesChild(t, sig')]
    /\ Goes(t)
    /\ UNCHANGED <<sc, queue, current, count, hist>>

\* setitimer, alarm
Alarm(t) ==
    /\ Tries(t, "alarm")
    /\ sig' = [sig EXCEPT !.alarms = @ \cup {Home(t)}]
    /\ Goes(t)
    /\ UNCHANGED <<sc, th, queue, current, hold, count, hist>>

----------------------------------------------------------------------------
(***************************************************************************)
(* Condition variables.  The program waits, holding the mutex `with', for  *)
(* the word `flag' to be counted up, and counts it down.                   *)
(***************************************************************************)
CondEnqueue(t, c) ==
    /\ queue' = [queue EXCEPT ![c] = Append(@, t)]
    /\ th' = [th EXCEPT ![t].signaled = FALSE]

Wait(t) ==
    /\ Tries(t, "wait")
    /\ LET c == Call(t) IN
       \/ /\ count[c.flag] > 0
          /\ Counts(c.flag, count[c.flag] - 1) /\ Goes(t)
          /\ UNCHANGED <<th, queue>>
       \/ /\ count[c.flag] = 0
          /\ CondEnqueue(t, c.on) /\ To(t, "unlock")
          /\ UNCHANGED <<hold, count>>
    /\ UNCHANGED <<sc, current, hist, sig>>

WaitUnlocks(t) ==
    /\ In(t, "wait", "unlock")
    /\ Holds(Call(t).with, t, "no")
    /\ ToAbout(t, "wake", Call(t).with)
    /\ UNCHANGED <<sc, th, queue, current, hist, sig>>

\* cond_block: a signal that has come ends the wait
Got(t) == hist' = [hist EXCEPT !.got = @ + (IF th[t].signaled THEN 1 ELSE 0)]
LookForSignal(t) ==
    /\ In(t, "wait", "look")
    /\ IF th[t].signaled
       THEN To(t, "relock")
       ELSE Blocks(t, Call(t).on, Call(t).timed, "woke")
    /\ th' = [th EXCEPT ![t].signaled = FALSE]
    /\ Got(t)
    /\ UNCHANGED <<sc, queue, current, hold, count, sig>>

\* A deadline ends it too, but a signal that raced it still counts.
\* Mutant: it does not
WaitEndsLate(t) ==
    /\ In(t, "wait", "woke")
    /\ IF th[t].timedOut
       THEN /\ queue' = [queue EXCEPT ![Call(t).on] = RemoveFirst(@, t)]
            /\ To(t, "give up") /\ UNCHANGED <<th, hist>>
       ELSE To(t, "look") /\ UNCHANGED <<th, queue, hist>>
    /\ UNCHANGED <<sc, current, hold, count, sig>>
WaitEnds(t) ==
    /\ In(t, "wait", "woke")
    /\ IF th[t].timedOut
       THEN /\ queue' = [queue EXCEPT ![Call(t).on] = RemoveFirst(@, t)]
            /\ th' = [th EXCEPT ![t].signaled = FALSE]
            /\ Got(t)
            /\ To(t, IF th[t].signaled THEN "relock" ELSE "give up")
       ELSE To(t, "look") /\ UNCHANGED <<th, queue, hist>>
    /\ UNCHANGED <<sc, current, hold, count, sig>>

\* The mutex is taken again, and the program looks at its flag, or gives the
\* wait up when it has timed out
Relock(t) ==
    /\ In(t, "wait", "relock") \/ In(t, "wait", "give up")
    /\ LET c == Call(t) IN
       IF Free(c.with, t, "ex")
       THEN /\ Holds(c.with, t, "ex")
            /\ IF at[t].stage = "relock" THEN To(t, "try") ELSE Goes(t)
       ELSE Blocks(t, c.with, FALSE, at[t].stage) /\ UNCHANGED <<hold, count>>
    /\ UNCHANGED <<sc, th, queue, current, hist, sig>>

\* cond_wake: the longest waiter, or all.  It is no `wake from outside',
\* whoever makes it.
CondWake(a, what, all) ==
    /\ Tries(a, what)
    /\ LET c == Call(a).on
           W == {queue[c][i] : i \in IF all THEN DOMAIN queue[c] ELSE DOMAIN queue[c] \cap {1}} IN
       /\ queue' = [queue EXCEPT ![c] = IF all \/ @ = <<>> THEN <<>> ELSE Tail(@)]
       /\ th' = [t \in Thread |->
                   IF t \in W
                   THEN [th[t] EXCEPT !.signaled = TRUE,
                           !.state = IF @ = "blocked" THEN "runnable" ELSE @]
                   ELSE th[t]]
       /\ hist' = [hist EXCEPT !.sent = @ + Cardinality(W)]
    /\ Goes(a)
    /\ UNCHANGED <<sc, current, hold, count, sig>>
Signal(a)    == CondWake(a, "signal", FALSE)
Broadcast(a) == CondWake(a, "broadcast", TRUE)

\* The program counts a flag up
Add(a) ==
    /\ Tries(a, "add")
    /\ Counts(Call(a).on, count[Call(a).on] + 1)
    /\ Goes(a)
    /\ UNCHANGED <<sc, th, queue, current, hist, sig>>

----------------------------------------------------------------------------
(***************************************************************************)
(* Semaphores and futexes.                                                 *)
(***************************************************************************)
\* dispatch_semaphore_wait: after a deadline it is not tried again
Down(a) ==
    /\ Tries(a, "down")
    /\ LET c == Call(a) IN
       IF count[c.on] > 0
       THEN Counts(c.on, count[c.on] - 1) /\ Goes(a)
       ELSE Blocks(a, c.on, c.timed, "woke") /\ UNCHANGED <<hold, count>>
    /\ UNCHANGED <<sc, th, queue, current, hist, sig>>
DownWoke(t) ==
    /\ In(t, "down", "woke")
    /\ IF th[t].timedOut THEN Goes(t) ELSE To(t, "again")
    /\ UNCHANGED <<sc, th, queue, current, hold, count, hist, sig>>
Up(a) ==
    /\ Tries(a, "up")
    /\ Counts(Call(a).on, count[Call(a).on] + 1)
    /\ ToAbout(a, "wake", Call(a).on)
    /\ UNCHANGED <<sc, th, queue, current, hist, sig>>

\* A wait a system library makes (system_wait) is the real one, made with
\* the baton
SystemWait(t) ==
    /\ Tries(t, "system")
    /\ count[Call(t).on] > 0
    /\ Counts(Call(t).on, count[Call(t).on] - 1)
    /\ Goes(t)
    /\ UNCHANGED <<sc, th, queue, current, hist, sig>>

\* ulock_wait and os_sync_wait: the program waits for a word to change
Futex(a) ==
    /\ Tries(a, "futex")
    /\ IF count[Call(a).on] > 0 THEN Goes(a)
       ELSE Blocks(a, Call(a).on, Call(a).timed, "woke")
    /\ UNCHANGED <<sc, th, queue, current, hold, count, hist, sig>>

\* timed_out: the word may have changed, or somebody outside may be about to
\* change it, and then the same wait is made again for real
HasOutsideThreads(p) == \E a \in Outside : Home(a) = p /\ Prog(a) # <<>>
FutexWoke(t) ==
    /\ In(t, "futex", "woke")
    /\ IF ~th[t].timedOut THEN To(t, "try")
       ELSE IF count[Call(t).on] = 0 /\ HasOutsideThreads(Home(t)) THEN To(t, "kernel")
       ELSE Goes(t)
    /\ UNCHANGED <<sc, th, queue, current, hold, count, hist, sig>>
\* The real wait ends with the change or after the same time, for real
FutexForReal(t) ==
    /\ In(t, "futex", "kernel")
    /\ Goes(t)
    /\ UNCHANGED <<sc, th, queue, current, hold, count, hist, sig>>

\* The word changes, and then ulock_wake or os_sync_wake_by_address
Store(a) ==
    /\ Tries(a, "store")
    /\ Counts(Call(a).on, 1)
    /\ ToAbout(a, "wake", Call(a).on)
    /\ UNCHANGED <<sc, th, queue, current, hist, sig>>
----------------------------------------------------------------------------
(***************************************************************************)
(* Unfair locks.  The word names the owner.  Nobody is told of an unlock   *)
(* unless the kernel saw a waiter, so the scheduler has none for them.     *)
(***************************************************************************)
Gate(a) ==
    /\ Tries(a, "gate")
    /\ IF Free(Call(a).on, a, "ex")
       THEN Holds(Call(a).on, a, "ex") /\ Goes(a)
       ELSE /\ a \in Thread
            /\ ToAbout(a, "look", Owner(Call(a).on))
            /\ UNCHANGED <<hold, count>>
    /\ UNCHANGED <<sc, th, queue, current, hist, sig>>
Ungate(a) ==
    /\ Tries(a, "ungate")
    /\ Holds(Call(a).on, a, "no")
    /\ Goes(a)
    /\ UNCHANGED <<sc, th, queue, current, hist, sig>>

\* unfair_owner finds no id: not ours, or not registered yet
Unscheduled(b) == b \in Outside \/ at[b].stage \in {"start", "booting"}

\* unfair_wait: an owner that is parked needs the baton to let go; one that
\* runs all the same (starting up, or about to park) is waited for, a
\* millisecond at a time; one that is not ours by the real wait.
\* Mutant: the caller tries again, but keeps the baton
UnfairWaitWithBaton(t) ==
    /\ In(t, "gate", "look")
    /\ \/ /\ \E b \in at[t].about : Unscheduled(b)
          /\ ToAbout(t, "kernel", at[t].about)
       \/ /\ \E b \in at[t].about : ~Unscheduled(b) /\ th[b].parked
          /\ To(t, "again")
    /\ UNCHANGED <<sc, th, queue, current, hold, count, hist, sig>>
UnfairWait(t) ==
    /\ In(t, "gate", "look")
    /\ \/ /\ Owner(Call(t).on) # at[t].about
          /\ To(t, "again") /\ UNCHANGED <<th, current, sig>>
       \/ \E b \in at[t].about :
            /\ Unscheduled(b)
            /\ ToAbout(t, "kernel", at[t].about) /\ UNCHANGED <<th, current, sig>>
       \/ \E b \in Owner(Call(t).on) \cap at[t].about :
            /\ ~Unscheduled(b) /\ th[b].parked
            /\ To(t, "again") /\ HandOff(t, "runnable", "none", FALSE)
    /\ UNCHANGED <<sc, queue, hold, count, hist>>
UnfairForReal(t) ==
    /\ In(t, "gate", "kernel")
    /\ Owner(Call(t).on) # at[t].about
    /\ To(t, "again")
    /\ UNCHANGED <<sc, th, queue, current, hold, count, hist, sig>>

\* A new thread runs system code before it has the baton, the first of it
\* before the scheduler knows its port (set_my_id), with an unfair lock held
\* meanwhile.
StartUp(t) ==
    /\ \/ /\ at[t].stage = "start" /\ Free(sc.gate, t, "ex")
          /\ Holds(sc.gate, t, "ex") /\ To(t, "booting")
       \/ /\ at[t].stage = "booting"
          /\ To(t, "named") /\ UNCHANGED <<hold, count>>
       \/ /\ at[t].stage = "named"
          /\ Holds(sc.gate, t, "no") /\ To(t, "try")
    /\ UNCHANGED <<sc, th, queue, current, hist, sig>>

----------------------------------------------------------------------------
(***************************************************************************)
(* Pipes, polls, file locks and System V semaphores: one key for all, and  *)
(* every change wakes all who wait for any.                                *)
(***************************************************************************)
\* One byte is read: draining a full pipe lets its writer go on.  An outside
\* thread's read wakes nobody.
WhenReadable(a, o) ==
    \/ /\ count[o] > 0
       /\ Counts(o, count[o] - 1)
       /\ IF a \in Thread THEN To(a, "wake") ELSE Goes(a)
    \/ count[o] = 0 /\ Readable(o) /\ Goes(a) /\ UNCHANGED <<hold, count>>
    \/ ~Readable(o) /\ Blocks(a, "io", FALSE, "again") /\ UNCHANGED <<hold, count>>
Read(a) ==
    /\ Tries(a, "read") /\ WhenReadable(a, Call(a).on)
    /\ UNCHANGED <<sc, th, queue, current, hist, sig>>

\* One byte is written, of an outside thread by the real call and `sent'
WriteAll(a, o) ==
    IF count[o] < Cap
    THEN Counts(o, count[o] + 1) /\ To(a, "wake")
    ELSE Blocks(a, "io", FALSE, "again") /\ UNCHANGED <<hold, count>>
Write(a) ==
    /\ Tries(a, "write") /\ WriteAll(a, Call(a).on)
    /\ UNCHANGED <<sc, th, queue, current, hist, sig>>

\* close_managed: the last writer closing is a reader's end of file
CloseEnd(a) ==
    /\ Tries(a, "close")
    /\ Holds(Call(a).on, a, "no")
    /\ IF a \in Thread THEN To(a, "wake") ELSE Goes(a)
    /\ UNCHANGED <<sc, th, queue, current, hist, sig>>

\* poll and select look again whenever they are woken, and a last time after
\* the deadline; a handler that ran ends them, if nothing is ready
PollFds(t) ==
    /\ Tries(t, "poll")
    /\ Begins(t)
    /\ IF Granted(t) \/ th'[t].handled THEN Goes(t) ELSE Blocks(t, "io", Call(t).timed, "woke")
    /\ UNCHANGED <<sc, queue, current, hold, count, hist, sig>>
WaitWoke(t) ==
    /\ In(t, "poll", "woke") \/ In(t, "kevent", "woke")
    /\ IF th[t].timedOut THEN Goes(t) ELSE To(t, "again")
    /\ UNCHANGED <<sc, th, queue, current, hold, count, hist, sig>>

\* kevent: watches of ours (signals sent, deaths of guests) and then the
\* kernel's (pipes between guests, user events with EV_CLEAR).  A death is
\* reported once; a signal when its count has moved since the last report.
Kevent(t) ==
    /\ Tries(t, "kevent")
    /\ Begins(t)
    /\ LET F == Watched(t) IN
       \/ /\ F # {}
          /\ count' = [o \in Object |-> IF \E w \in F : w.filter = "user" /\ w.ident = o THEN 0 ELSE count[o]]
          /\ sig' = [sig EXCEPT !.watch =
                       [w \in sc.watches |-> IF w \notin F THEN sig.watch[w]
                                             ELSE IF w.filter = "signal" THEN sig.counts[Home(t), w.ident]
                                             ELSE 1]]
          /\ Goes(t)
       \/ F = {} /\ th'[t].handled /\ Goes(t) /\ UNCHANGED <<count, sig>>
       \/ F = {} /\ ~th'[t].handled /\ Blocks(t, "io", Call(t).timed, "woke") /\ UNCHANGED <<count, sig>>
    /\ UNCHANGED <<sc, queue, current, hold, hist>>

\* kevent that triggers a user event, of an outside thread the real call
Trigger(a) ==
    /\ Tries(a, "trigger")
    /\ Counts(Call(a).on, 1)
    /\ IF a \in Thread THEN To(a, "wake") ELSE Goes(a)
    /\ UNCHANGED <<sc, th, queue, current, hist, sig>>

\* flock: only LOCK_UN wakes, and an outside thread never does
Flock(a) ==
    /\ Tries(a, "flock")
    /\ LET c == Call(a) IN
       \/ /\ c.mode = "no"
          /\ Holds(c.on, a, "no")
          /\ IF a \in Thread THEN To(a, "wake") ELSE Goes(a)
       \/ /\ c.mode # "no" /\ Free(c.on, a, c.mode)
          /\ Holds(c.on, a, c.mode) /\ Goes(a)
       \/ /\ c.mode # "no" /\ ~Free(c.on, a, c.mode)
          /\ Blocks(a, "io", FALSE, "again") /\ UNCHANGED <<hold, count>>
    /\ UNCHANGED <<sc, th, queue, current, hist, sig>>

\* fcntl(F_SETLKW), of a process: the lock is its threads' (one of them here)
RecordLock(t) ==
    /\ Tries(t, "setlk") /\ t \in Thread
    /\ LET c == Call(t) IN
       IF c.mode = "no" \/ Free(c.on, t, c.mode)
       THEN /\ Holds(c.on, t, c.mode)
            /\ IF c.mode = "no" THEN To(t, "wake") ELSE Goes(t)
       ELSE Blocks(t, "io", FALSE, "again") /\ UNCHANGED <<hold, count>>
    /\ UNCHANGED <<sc, th, queue, current, hist, sig>>

\* semop of one operation, which gives (mode "ex") or takes (mode "sh")
Semop(t) ==
    /\ Tries(t, "semop") /\ t \in Thread
    /\ LET c == Call(t) IN
       \/ /\ c.mode = "ex"
          /\ Counts(c.on, count[c.on] + 1) /\ To(t, "wake")
       \/ /\ c.mode = "sh" /\ count[c.on] > 0
          /\ Counts(c.on, count[c.on] - 1) /\ Goes(t)
       \/ /\ c.mode = "sh" /\ count[c.on] = 0
          /\ Blocks(t, "io", FALSE, "again") /\ UNCHANGED <<hold, count>>
    /\ UNCHANGED <<sc, th, queue, current, hist, sig>>

----------------------------------------------------------------------------
(***************************************************************************)
(* The whole.                                                              *)
(***************************************************************************)
Init ==
    /\ sc \in Scenarios
    /\ \E first \in {t \in Thread : Prog(t) # <<>> /\ t \notin sc.starting} :
         /\ current = first
         /\ th = [t \in Thread |->
                    [state |-> IF t = first THEN "running"
                               ELSE IF Prog(t) = <<>> THEN "exited" ELSE "runnable",
                     key |-> "none", timed |-> FALSE, timedOut |-> FALSE, stale |-> FALSE,
                     signaled |-> FALSE, due |-> FALSE,
                     handled |-> FALSE, parked |-> t # first /\ t \notin sc.starting]]
    /\ queue = [o \in Object |-> <<>>]
    /\ at = [a \in Actor |-> [AtCall(1) EXCEPT !.stage = IF a \in sc.starting THEN "start" ELSE @]]
    /\ hold = [o \in Object |-> [a \in Actor |-> IF <<o, a>> \in sc.writers THEN "sh" ELSE "no"]]
    /\ count = [o \in Object |-> 0]
    /\ hist = [sent |-> 0, got |-> 0]
    /\ sig = [pend |-> {}, mine |-> {}, deaths |-> {}, alarms |-> {}, posted |-> 0, taken |-> 0,
              counts |-> [x \in Process \X Posted |-> 0], watch |-> [w \in sc.watches |-> 0]]

\* What a does by itself, its program going on or a wait of it ending
Step(a) ==
    \/ Lock(a) \/ Unlock(a) \/ Signal(a) \/ Broadcast(a) \/ Add(a) \/ Down(a) \/ Up(a)
    \/ Futex(a) \/ Store(a) \/ Gate(a) \/ Ungate(a) \/ Read(a) \/ Write(a) \/ CloseEnd(a)
    \/ Flock(a) \/ Trigger(a) \/ Wake(a)
ThreadStep(t) ==
    \/ Step(t) \/ Join(t) \/ Waitpid(t) \/ Sleep(t) \/ SleepOver(t)
    \/ TakeUp(t) \/ Kill(t) \/ Raise(t) \/ ThreadKill(t) \/ Slay(t) \/ Alarm(t)
    \/ Wait(t) \/ WaitUnlocks(t) \/ LookForSignal(t) \/ WaitEnds(t) \/ Relock(t)
    \/ DownWoke(t) \/ SystemWait(t) \/ FutexWoke(t) \/ FutexForReal(t)
    \/ UnfairWait(t) \/ UnfairForReal(t) \/ RecordLock(t) \/ Semop(t)
    \/ PollFds(t) \/ Kevent(t) \/ WaitWoke(t) \/ Block(t) \/ Exit(t)

AllDone == (\A a \in Outside : Done(a)) /\ \A t \in Thread : th[t].state = "exited"
Next ==
    \/ \E t \in Thread : ThreadStep(t) \/ Preempt(t) \/ Park(t) \/ StartUp(t)
    \/ \E a \in Outside : Step(a)
    \/ Poll
    \/ AllDone /\ UNCHANGED vars

Spec == Init /\ [][Next]_vars

\* A hand-off that gives t the baton
Chosen(t) ==
    /\ \E x \in Thread : Preempt(x) \/ Block(x) \/ UnfairWait(x) \/ Exit(x) \/ (Poll /\ x = t)
    /\ current' = t

\* A quantum is counted in hooks, so a thread that is chosen again and again
\* gets on; the random scheduler and the bound on starvation of the other
\* one choose whoever is runnable again and again; and real threads run.
FairSpec ==
    /\ Spec
    /\ \A t \in Thread :
         /\ SF_vars(ThreadStep(t))
         /\ SF_vars(Chosen(t))
         /\ WF_vars(Park(t) \/ StartUp(t))
    /\ \A a \in Outside : SF_vars(Step(a))
    /\ WF_vars(Poll)

----------------------------------------------------------------------------
(***************************************************************************)
(* Properties.                                                             *)
(***************************************************************************)
\* The sets every variable stays in; a thread that is blocked has a key, and
\* the baton is with the one running thread.
TypeOK ==
    /\ \A t \in Thread :
         /\ th[t].state \in {"runnable", "running", "blocked", "exited"}
         /\ th[t].state = "blocked" => th[t].key # "none"
         /\ th[t].state = "running" <=> current = t
    /\ \A o \in Object : count[o] \in Nat /\ Len(queue[o]) <= Cardinality(Thread)
    /\ \A o \in Object, a \in Actor : hold[o][a] \in {"no", "sh", "ex"}

\* A thread of the schedule is not left blocked when what it waits for has
\* come, unless somebody who made it so is about to wake it (yield_baton_as,
\* wake_all, wake_io, cond_wake).
NobodySleepsThrough ==
    \A t \in Thread :
       th[t].state = "blocked" /\ ~Done(t) /\ Granted(t) =>
          \E a \in Actor : at[a].stage = "wake"
                           /\ (Call(a).do \in IoCalls \/ (at[a].about = th[t].key /\ Home(a) = Home(t)))

\* A signal that found a waiter ends exactly one wait: a deadline that races
\* it does not take it back, and it ends no later wait (cond_block,
\* cond_wake).
SignalsAccounted ==
    hist.sent = hist.got + Cardinality({t \in Thread : th[t].signaled /\ ~Done(t) /\ Call(t).do = "wait"})

\* A signal that was posted to a process or a thread runs one handler, on a
\* thread that does not block it, and until then is pending; and as long as
\* it is pending for a process with such threads, one of them is on its way
\* to take the baton up (post_signal, fire_alarms,
\* deliver_pending_signals).
SignalsTaken ==
    /\ sig.posted = sig.taken + Cardinality(sig.pend) + Cardinality(sig.mine)
    /\ \A x \in sig.pend :
         LET able == {t \in Thread : Home(t) = x[1] /\ <<t, x[2]>> \notin sc.deaf
                                                   /\ th[t].state # "exited"} IN
         able # {} => \E t \in able : th[t].state = "runnable" \/ th[t].due

\* Every program comes to its end: no wait of it is for ever, whether the
\* schedule, an outside thread or a thread that is still starting up is to
\* end it.
EverybodyFinishes == <>AllDone
=============================================================================
