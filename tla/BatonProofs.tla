---------------------------- MODULE BatonProofs ----------------------------
(***************************************************************************)
(* What the death of a process means to the others: the crashed process is *)
(* really gone before program code runs again, and the parent that waits   *)
(* for it is told.  And how a hand-off ends: everything that was due has   *)
(* been served, and somebody who is there has the baton.  The theorems     *)
(* hold for the runs their hypotheses name; the README says what goes      *)
(* wrong in the others.                                                    *)
(***************************************************************************)
EXTENDS SchedulerProofs, WellFoundedInduction

----------------------------------------------------------------------------
(***************************************************************************)
(* Deaths are settled before program code runs.                            *)
(***************************************************************************)

\* Everybody attaches (there is no "bootfail").
AllAttach == \A P \in Programs : "bootfail" \notin P

\* The run has not begun, or the launcher gives the baton out first
Opening == launcher.at = "booting" \/ (pick.phase # "none" /\ pick.by = "start")

\* Until somebody has the baton nothing has happened and nothing is due.
OpeningHolds ==
    /\ ~launcher.started => launcher.at = "booting"
    /\ Opening =>
         /\ \A t \in Tid : /\ pc[t] \in {"none", "boot", "parked"}
                           /\ threads[t].state \in {"unused", "runnable"}
         /\ threads[1].state = "runnable"
         /\ \A p \in Pid : /\ ~procs[p].killed
                           /\ procs[p].crash # 0 /\ procs[p].shutdown # 0 /\ procs[p].kill # 0
                           /\ real[p] \in {"none", "up"}
         /\ pick.add = 0

\* A process that was crashed and runs on
Doomed(p) == procs[p].killed /\ procs[p].state = "live" /\ real[p] = "up"

\* A process that has attached is there, and its real pid is known.
LiveKnown == \A p \in Pid : procs[p].state = "live" => procs[p].known /\ real[p] # "none"

\* Such a process is waited for, SIGKILL is on its way to it or will be
\* when the hand-off is over, and nobody but who waits for it is inside.
DoomedHolds ==
    \A p \in Pid : Doomed(p) =>
        /\ procs[p].unsettled
        /\ procs[p].signalled \/ (pick.phase # "none" /\ run.unsignalled)
        /\ \A t \in Tid : Inside(t) => pc[t] = "settling"

SettleHolds == OpeningHolds /\ LiveKnown /\ DoomedHolds

\* A step that only the beginning of a run knows: nothing changes but who
\* has attached.
LEMMA OpeningQuiet ==
    ASSUME IInv, OpeningHolds, Opening,
           \A t \in Tid : /\ pc'[t] \in {"parked", pc[t]}
                          /\ threads'[t].state = threads[t].state,
           \A p \in Pid : /\ procs'[p].killed = procs[p].killed
                          /\ procs'[p].crash = procs[p].crash
                          /\ procs'[p].shutdown = procs[p].shutdown
                          /\ procs'[p].kill = procs[p].kill
                          /\ real'[p] = real[p],
           pick'.add = 0,
           ~launcher'.started => launcher'.at = "booting"
    PROVE  OpeningHolds'
<1>1. 1 \in Tid
  BY SizesAssumption DEF Tid
<1> QED BY <1>1 DEF OpeningHolds


\* The clock does not move, and nothing falls due.
LEMMA OpeningTick == ASSUME IInv, OpeningHolds, Opening, Tick PROVE OpeningHolds'
<1> DEFINE th == ThreadsLater(threads, 0)
           pr == ProcsLater(procs, 0)
           S  == {t \in Tid : th[t].state \notin {"unused", "exited"} /\ Alive(pr, th[t].pid)}
<1>0. /\ threads \in Threads /\ procs \in Procs /\ pick.add = 0 /\ pc \in [Tid -> Pcs]
      /\ \A p \in Pid : procs[p] \in ProcRec
  BY Basics DEF OpeningHolds, Procs
<1>1. /\ threads' = Ready(th, S) \/ threads' = th
      /\ procs' = StoppedProcs(pr) \/ procs' = pr
      /\ pick' = [pick EXCEPT !.phase = "faults", !.add = 0]
      /\ UNCHANGED <<pc, real, launcher>>
  BY <1>0 DEF Tick, StoppedThreads
<1>2. ASSUME NEW t \in Tid PROVE threads'[t].state = threads[t].state
  <2>0. th \in Threads
    BY <1>0, ThreadsLaterLemma DEF Woken
  <2>1. th[t].state = threads[t].state
    <3> DEFINE left == Later(threads[t].deadline, 0)
    <3>1. th[t] = [threads[t] EXCEPT !.deadline = left]
      BY Zenon DEF ThreadsLater
    <3> HIDE DEF th, left
    <3> QED BY <1>0, <3>1 DEF Threads, ThreadRec
  <2> HIDE DEF th
  <2>2. t \in S => Ready(th, S)[t].state = "runnable" /\ threads[t].state = "runnable"
    BY <2>0, <2>1, ReadyLemma DEF OpeningHolds
  <2>3. t \notin S => Ready(th, S)[t] = th[t]
    BY DEF Ready
  <2> HIDE DEF S
  <2> QED BY <1>1, <2>1, <2>2, <2>3
<1>3. ASSUME NEW rec \in ProcRec
      PROVE  LET later == [rec EXCEPT !.crash = Later(rec.crash, 0), !.shutdown = Later(rec.shutdown, 0),
                                      !.kill = Later(rec.kill, 0), !.alarm = Later(rec.alarm, 0)]
                 marked == [later EXCEPT !.stopped = TRUE]
             IN /\ later.killed = rec.killed /\ later.crash = rec.crash
                /\ later.shutdown = rec.shutdown /\ later.kill = rec.kill
                /\ marked.killed = rec.killed /\ marked.crash = rec.crash
                /\ marked.shutdown = rec.shutdown /\ marked.kill = rec.kill
  <2>1. \A x \in Time : Later(x, 0) = x
    BY DEF Later, Time, NoTime
  <2>2. Later(rec.crash, 0) = rec.crash /\ Later(rec.shutdown, 0) = rec.shutdown
        /\ Later(rec.kill, 0) = rec.kill
    BY <2>1 DEF ProcRec
  <2> QED BY <2>2 DEF ProcRec
<1>4. ASSUME NEW p \in Pid
      PROVE  /\ procs'[p].killed = procs[p].killed /\ procs'[p].crash = procs[p].crash
             /\ procs'[p].shutdown = procs[p].shutdown /\ procs'[p].kill = procs[p].kill
  <2> DEFINE later == [procs[p] EXCEPT !.crash = Later(procs[p].crash, 0),
                            !.shutdown = Later(procs[p].shutdown, 0),
                            !.kill = Later(procs[p].kill, 0), !.alarm = Later(procs[p].alarm, 0)]
  <2>1. pr[p] = later
    BY Zenon DEF ProcsLater
  <2>2. StoppedProcs(pr)[p] = pr[p] \/ StoppedProcs(pr)[p] = [pr[p] EXCEPT !.stopped = TRUE]
    BY DEF StoppedProcs
  <2> HIDE DEF pr
  <2>3. procs'[p] = later \/ procs'[p] = [later EXCEPT !.stopped = TRUE]
    BY <1>1, <2>1, <2>2
  <2>4. /\ later.killed = procs[p].killed /\ later.crash = procs[p].crash
        /\ later.shutdown = procs[p].shutdown /\ later.kill = procs[p].kill
        /\ [later EXCEPT !.stopped = TRUE].killed = procs[p].killed
        /\ [later EXCEPT !.stopped = TRUE].crash = procs[p].crash
        /\ [later EXCEPT !.stopped = TRUE].shutdown = procs[p].shutdown
        /\ [later EXCEPT !.stopped = TRUE].kill = procs[p].kill
    BY <1>0, <1>3, Zenon
  <2> HIDE DEF later
  <2> QED BY <2>3, <2>4
<1>5. pick'.add = 0
  BY <1>1 DEF IInv, Base, TypeOK
<1>6. ~launcher'.started => launcher'.at = "booting"
  BY <1>1 DEF OpeningHolds
<1> QED BY <1>1, <1>2, <1>4, <1>5, <1>6, OpeningQuiet

\* Until it gives the baton out the launcher has one thing to do.
LEMMA OpeningStep == ASSUME AllAttach, IInv, OpeningHolds, [Next]_vars PROVE OpeningHolds'
<1>0. /\ threads \in Threads /\ procs \in Procs /\ run \in RunRec /\ pc \in [Tid -> Pcs]
      /\ \A p \in Pid : procs[p] \in ProcRec
      /\ 1 \in Tid
      /\ launcher \in [ at: {"booting", "started", "serving", "ending", "burying", "handing",
                             "respawning", "over"},
                        proc: Pid \cup {NoProc}, failed: BOOLEAN,
                        started: BOOLEAN, stopping: BOOLEAN ]
      /\ pick \in [ phase: {"none", "tick", "faults"},
                    by: {"nobody", "guest", "launcher", "start"},
                    me: Tid \cup {NoThread}, add: Nat ]
  BY Basics, SizesAssumption DEF IInv, Base, TypeOK, Procs, Tid
<1>1. ASSUME Opening
      PROVE  /\ \A t \in Tid : ~Inside(t) /\ pc[t] \notin {"polling", "leaving"}
                               /\ threads[t].state # "running"
             /\ \A p \in Pid : ~procs[p].signalled /\ ~Dead(p)
             /\ pick.phase # "none" => pick.by = "start" /\ launcher.at # "booting"
  BY <1>1 DEF OpeningHolds, Opening, Inside, Dead, IInv, Base, Safe, OnlyCrashedSignalled, HandingOver, Launching
<1>2. ASSUME Opening, PickStep PROVE OpeningHolds'
  <2>1. pick.phase # "none" /\ pick.by = "start" /\ launcher.at # "booting"
    BY <1>1, <1>2 DEF PickStep, Tick, InjectCrash, InjectShutdown, Jump, Choose, IdleGuest,
                      IdleLauncher, Idle, FaultsDone
  <2>2. ~InjectCrash /\ ~InjectShutdown
    BY <1>2 DEF InjectCrash, InjectShutdown, FirstOf, CrashesDue, ShutdownsDue, OpeningHolds
  <2>3. 1 \in Runnable(Released)
    <3>1. Expired[1] = threads[1]
      BY <1>0, <1>2 DEF Expired, Blocked, OpeningHolds
    <3>2. Released[1] = Expired[1] \/ Released[1] = [Expired[1] EXCEPT !.state = "runnable"]
      BY <1>0 DEF Released, Ready
    <3> QED BY <1>0, <1>2, <3>1, <3>2 DEF Runnable, OpeningHolds, Threads, ThreadRec
  <2>4. ~Jump /\ ~IdleLauncher /\ ~IdleGuest
    BY <2>1, <2>3 DEF Jump, IdleLauncher, IdleGuest, Idle
  <2>5. CASE Tick
    BY <1>2, <2>5, OpeningTick
  <2>6. CASE \E t \in Tid : Choose(t)
    <3>1. pick'.phase = "none" /\ launcher'.at = "started" /\ launcher'.started
      BY <1>0, <2>1, <2>6 DEF Choose, NoPick, LauncherAfter, IInv, Base, Safe, HandingOver
    <3> QED BY <3>1 DEF OpeningHolds, Opening
  <2> QED BY <1>2, <2>2, <2>4, <2>5, <2>6 DEF PickStep
<1>3. ASSUME Opening, NEW t \in Tid, Return(t) \/ Guest(t) PROVE FALSE
  BY <1>1, <1>3 DEF Return, DieStopped, TakeUp, MayTakeUp, SettleDeaths, AwaitAttach, CheckChildren,
                    BlockOnChildren, Poll, PollGivesUp, Kill, Signal, Strikes, Inside,
                    Guest, Yield, Block, Wake, CreateThread, Exhaust, ExitThread, ExitProcess,
                    ReadClock, SetTimer, SpawnChild, Waitpid, Aim, Runs
<1>4. ASSUME Opening, Aside PROVE OpeningHolds'
  <2>1. ~\E p \in Pid : Slain(p) \/ FailToAttach(p)
    <3>1. "bootfail" \notin Calls
      BY <1>0 DEF Calls, AllAttach, RunRec
    <3>2. \A p \in Pid : ~Slain(p)
      BY <1>1, <1>4 DEF Slain
    <3> QED BY <3>1, <3>2 DEF FailToAttach
  <2>2. ~\E t \in Tid : Leave(t)
    BY <1>1, <1>4 DEF Leave
  <2>3. UNCHANGED <<pick, launcher>> /\ pick.add = 0 /\ (~launcher.started => launcher.at = "booting")
    BY <1>4 DEF Aside, Leave, OutsideWake, Slain, Attach, FailToAttach, OpeningHolds
  <2>4. CASE \E p \in Pid : Attach(p)
    <3>1. PICK p \in Pid : Attach(p)
      BY <2>4
    <3>2. /\ procs' = [procs EXCEPT ![p].known = TRUE, ![p].state = "live"]
          /\ UNCHANGED <<threads, real>> /\ \A t \in Tid : pc'[t] \in {"parked", pc[t]}
      BY <1>4, <3>1 DEF Attach, OpeningHolds
    <3>3. ASSUME NEW q \in Pid
          PROVE  /\ procs'[q].killed = procs[q].killed /\ procs'[q].crash = procs[q].crash
                 /\ procs'[q].shutdown = procs[q].shutdown /\ procs'[q].kill = procs[q].kill
      <4>1. \/ procs'[q] = procs[q]
            \/ procs'[q] = [procs[q] EXCEPT !.known = TRUE, !.state = "live"]
        BY <1>0, <3>2 DEF Procs
      <4> QED BY <1>0, <4>1 DEF ProcRec
    <3> QED BY <1>4, <2>3, <3>2, <3>3, OpeningQuiet
  <2>5. CASE \E p \in Pid : OutsideWake(p)
    <3>1. PICK p \in Pid : OutsideWake(p)
      BY <2>5
    <3>2. UNCHANGED <<pc, real>> /\ procs' = [procs EXCEPT ![p].outside = TRUE]
      BY <3>1 DEF OutsideWake
    <3>3. ASSUME NEW q \in Pid
          PROVE  /\ procs'[q].killed = procs[q].killed /\ procs'[q].crash = procs[q].crash
                 /\ procs'[q].shutdown = procs[q].shutdown /\ procs'[q].kill = procs[q].kill
      <4>1. \/ procs'[q] = procs[q]
            \/ procs'[q] = [procs[q] EXCEPT !.outside = TRUE]
        BY <1>0, <3>2 DEF Procs
      <4> QED BY <1>0, <4>1 DEF ProcRec
    <3>4. PICK W : /\ W \subseteq Blocked(threads)
                   /\ threads' = [t \in Tid |->
                        [Ready(threads, W)[t] EXCEPT !.stale = @ \/ t \in ThreadsOf(threads, p)]]
      BY <3>1 DEF OutsideWake, WaitingOn, WaitingForIO, Blocked
    <3>5. ASSUME NEW t \in Tid PROVE threads'[t].state = threads[t].state
      <4> DEFINE b == Ready(threads, W)[t].stale \/ t \in ThreadsOf(threads, p)
      <4>1. Ready(threads, W)[t] = threads[t]
        BY <1>4, <3>4 DEF Ready, Blocked, OpeningHolds
      <4>2. threads'[t] = [Ready(threads, W)[t] EXCEPT !.stale = b]
        BY <3>4
      <4> HIDE DEF b
      <4> QED BY <1>0, <4>1, <4>2 DEF Threads, ThreadRec
    <3> QED BY <1>4, <2>3, <3>2, <3>3, <3>5, OpeningQuiet
  <2> QED BY <1>4, <2>1, <2>2, <2>4, <2>5 DEF Aside
<1>5. ASSUME Opening, LauncherStep PROVE OpeningHolds'
  <2>1. pick.phase = "none" /\ launcher.at = "booting"
    BY <1>5 DEF LauncherStep, Start, Started, EndRun, Bury, Respawn, Finish, NoticeExit, LockFree, Opening
  <2>2. Start
    BY <1>1, <1>5, <2>1 DEF LauncherStep, Started, EndRun, Bury, Respawn, Finish, NoticeExit
  <2>3. /\ UNCHANGED <<threads, procs, pc, real>> /\ pick'.add = 0 /\ launcher'.started
    BY <1>0, <2>2 DEF Start
  <2> QED BY <1>5, <2>3, OpeningQuiet
<1>6. ASSUME ~Opening, ~UNCHANGED vars
      PROVE  (~launcher'.started => launcher'.at = "booting") /\ ~Opening'
  <2>0. launcher.at # "booting" /\ launcher.started /\ ~(pick.phase # "none" /\ pick.by = "start")
    BY <1>6 DEF Opening, OpeningHolds
  <2>1. CASE PickStep
    <3>1. launcher'.started /\ launcher'.at # "booting"
      <4>1. launcher' \in {launcher, LauncherAfter, [launcher EXCEPT !.at = "over"]}
        BY <2>1 DEF PickStep, Tick, InjectCrash, InjectShutdown, Jump, Choose, IdleGuest, IdleLauncher
      <4>2. LauncherAfter \in {launcher, [launcher EXCEPT !.at = "respawning"],
                               [launcher EXCEPT !.at = "started"]}
        BY DEF LauncherAfter
      <4> QED BY <1>0, <2>0, <4>1, <4>2
    <3>2. \/ pick'.phase = "none"
          \/ pick'.by = pick.by /\ pick.phase # "none"
      <4>1. CASE Tick \/ Jump
        <5>1. PICK x, d : pick' = [pick EXCEPT !.phase = x, !.add = d] /\ pick.phase # "none"
          BY <4>1 DEF Tick, Jump, FaultsDone
        <5>2. [pick EXCEPT !.phase = x, !.add = d].by = pick.by
          BY <1>0
        <5> QED BY <5>1, <5>2
      <4>2. CASE InjectCrash \/ InjectShutdown
        BY <4>2 DEF InjectCrash, InjectShutdown
      <4>3. CASE IdleGuest \/ IdleLauncher \/ \E t \in Tid : Choose(t)
        <5>1. CASE IdleGuest
          BY <5>1 DEF IdleGuest, NoPick
        <5>2. CASE IdleLauncher
          BY <5>2 DEF IdleLauncher, NoPick
        <5>3. CASE \E t \in Tid : Choose(t)
          BY <5>3 DEF Choose, NoPick
        <5> QED BY <4>3, <5>1, <5>2, <5>3
      <4> QED BY <2>1, <4>1, <4>2, <4>3 DEF PickStep
    <3> QED BY <2>0, <3>1, <3>2 DEF Opening
  <2>2. CASE \E t \in Tid : Return(t) \/ Guest(t)
    <3>1. PICK t \in Tid : Return(t) \/ Guest(t)
      BY <2>2
    <3>2. UNCHANGED launcher /\ (pick' = pick \/ pick'.by = "guest")
      BY <3>1, GuestKeeps
    <3> QED BY <2>0, <3>2 DEF Opening
  <2>3. CASE Aside
    <3>1. UNCHANGED <<pick, launcher>>
      BY <2>3 DEF Aside, Leave, OutsideWake, Slain, Attach, FailToAttach
    <3> QED BY <2>0, <3>1 DEF Opening
  <2>4. CASE LauncherStep
    <3>1. ~Start
      BY <2>0 DEF Start
    <3>2. launcher'.started /\ launcher'.at # "booting"
      <4>1. CASE Started
        BY <1>0, <2>0, <4>1 DEF Started
      <4>2. CASE EndRun
        BY <1>0, <2>0, <4>2 DEF EndRun
      <4>3. CASE Bury
        BY <1>0, <2>0, <4>3 DEF Bury
      <4>4. CASE Respawn
        BY <1>0, <2>0, <4>4 DEF Respawn
      <4>5. CASE Finish
        BY <1>0, <2>0, <4>5 DEF Finish
      <4>6. CASE \E p \in Pid : NoticeExit(p)
        BY <1>0, <2>0, <4>6 DEF NoticeExit
      <4> QED BY <2>4, <3>1, <4>1, <4>2, <4>3, <4>4, <4>5, <4>6 DEF LauncherStep
    <3>3. pick' = pick \/ pick'.by = "launcher"
      <4>1. CASE Bury
        BY <4>1 DEF Bury
      <4>2. CASE LauncherStep /\ ~Bury
        BY <3>1, <4>2 DEF LauncherStep, Started, EndRun, Respawn, Finish, NoticeExit
      <4> QED BY <2>4, <4>1, <4>2
    <3> QED BY <2>0, <3>2, <3>3 DEF Opening
  <2> QED BY <1>6, <2>1, <2>2, <2>3, <2>4 DEF Next, Over
<1>7. CASE UNCHANGED vars
  BY <1>7 DEF vars, OpeningHolds, Opening
<1>8. CASE ~Opening /\ ~UNCHANGED vars
  BY <1>6, <1>8 DEF OpeningHolds
<1>9. CASE Opening /\ ~UNCHANGED vars
  BY <1>2, <1>3, <1>4, <1>5, <1>9 DEF Next, Over
<1> QED BY <1>7, <1>8, <1>9

----------------------------------------------------------------------------

\* A new child, or the slot of one that could not be: nobody else's record
\* changes.
LEMMA ChildSlot ==
    ASSUME IInv, NEW t \in Tid, SpawnChild(t) \/ Exhaust(t)
    PROVE  \/ UNCHANGED procs
           \/ /\ run.nprocs + 1 \in Pid
              /\ \A p \in Pid : p # run.nprocs + 1 => procs'[p] = procs[p]
              /\ LET new == procs'[run.nprocs + 1]
                 IN /\ new.spec = 0 /\ new.parent = Owner(t)
                    /\ ~new.killed /\ ~new.unsettled /\ ~new.signalled
                    /\ \/ new.state = "starting" /\ ~new.reaped
                       \/ new.state = "exited" /\ new.reaped /\ SpawnChild(t) /\ UNCHANGED real
<1> DEFINE c == run.nprocs + 1
           n == FreshProc(Owner(t), 0)
           a == [n EXCEPT !.known = TRUE]
           b == [n EXCEPT !.state = "exited", !.reaped = TRUE]
<1>0. procs \in Procs /\ run \in RunRec /\ run.nprocs \in Nat
  BY Basics DEF RunRec
<1>1. /\ n.spec = 0 /\ n.parent = Owner(t) /\ ~n.killed /\ ~n.unsettled /\ ~n.signalled
      /\ n.state = "starting" /\ ~n.reaped
  BY DEF FreshProc
<1>2. /\ a.spec = 0 /\ a.parent = Owner(t) /\ ~a.killed /\ ~a.unsettled /\ ~a.signalled
      /\ a.state = "starting" /\ ~a.reaped
  BY DEF FreshProc
<1>3. /\ b.spec = 0 /\ b.parent = Owner(t) /\ ~b.killed /\ ~b.unsettled /\ ~b.signalled
      /\ b.state = "exited" /\ b.reaped
  BY DEF FreshProc
<1>4. \/ UNCHANGED procs
      \/ /\ run.nprocs < MaxProcs
         /\ \/ procs' = [procs EXCEPT ![c] = n] \/ procs' = [procs EXCEPT ![c] = a]
            \/ procs' = [procs EXCEPT ![c] = b] /\ SpawnChild(t) /\ UNCHANGED real
  <2>1. CASE Exhaust(t)
    BY <2>1 DEF Exhaust
  <2>2. CASE SpawnChild(t)
    BY <2>2 DEF SpawnChild, HasRoom
  <2> QED BY <2>1, <2>2
<1>5. run.nprocs < MaxProcs => c \in Pid
  BY <1>0, SizesAssumption DEF Pid
<1> HIDE DEF c, n, a, b
<1>6. CASE UNCHANGED procs
  BY <1>6
<1>7. ASSUME NEW rec, procs' = [procs EXCEPT ![c] = rec], c \in Pid
      PROVE  procs'[c] = rec /\ \A p \in Pid : p # c => procs'[p] = procs[p]
  BY <1>0, <1>7 DEF Procs
<1> QED BY <1>1, <1>2, <1>3, <1>4, <1>5, <1>6, <1>7 DEF c

\* Records that differ in nothing that a death is about, but the successor
SameSlot(rec, rec2) ==
    /\ rec2.spec = rec.spec /\ rec2.parent = rec.parent
    /\ rec2.state = rec.state /\ rec2.killed = rec.killed
    /\ rec2.reaped = rec.reaped /\ rec2.known = rec.known
    /\ rec2.unsettled = rec.unsettled /\ rec2.signalled = rec.signalled

\* After a death a slot is the successor's or what the death made of it.
LEMMA SucceededSlot ==
    ASSUME NEW th, NEW pr \in Procs, NEW rn, NEW v, NEW failed,
           Succeeded(th, pr, rn, v, failed), NEW p \in Pid
    PROVE  \/ SameSlot(pr[p], procs'[p])
           \/ p = rn.nprocs + 1 /\ Newborn(procs'[p], NoProc, pr[v].spec)
<1>1. ASSUME NEW rec \in ProcRec, NEW q, NEW rec2, rec2 = [rec EXCEPT !.replacedBy = q]
      PROVE  /\ rec2.spec = rec.spec /\ rec2.parent = rec.parent
             /\ rec2.state = rec.state /\ rec2.killed = rec.killed
             /\ rec2.reaped = rec.reaped /\ rec2.known = rec.known
             /\ rec2.unsettled = rec.unsettled /\ rec2.signalled = rec.signalled
  <2>1. rec2.spec = rec.spec /\ rec2.parent = rec.parent /\ rec2.state = rec.state
    BY <1>1 DEF ProcRec
  <2>2. rec2.killed = rec.killed
    BY <1>1 DEF ProcRec
  <2>3. rec2.reaped = rec.reaped /\ rec2.known = rec.known
    BY <1>1 DEF ProcRec
  <2>4. rec2.unsettled = rec.unsettled /\ rec2.signalled = rec.signalled
    BY <1>1 DEF ProcRec
  <2> QED BY <2>1, <2>2, <2>3, <2>4
<1>2. pr[p] \in ProcRec
  BY DEF Procs
<1>3. \/ procs'[p] = pr[p]
      \/ p = rn.nprocs + 1 /\ Newborn(procs'[p], NoProc, pr[v].spec)
      \/ procs'[p] = [pr[p] EXCEPT !.replacedBy = rn.nprocs + 1]
  BY DEF Succeeded
<1> QED BY <1>1, <1>2, <1>3 DEF SameSlot

\* A process that is live was live before, or attaches now.
LEMMA LiveOrigin ==
    ASSUME IInv, LiveKnown, [Next]_vars, NEW p \in Pid, procs'[p].state = "live"
    PROVE  /\ procs'[p].known /\ real'[p] # "none"
           /\ ~procs'[p].killed \/ procs[p].state = "live"
<1>0. /\ procs \in Procs /\ run.nprocs \in Nat
      /\ procs[p].state = "live" => real'[p] # "none" /\ procs[p].known
  BY Basics, RealSteps DEF RunRec, LiveKnown
<1>1. CASE CoreKept
  BY <1>0, <1>1 DEF CoreKept, SameCore
<1>2. CASE \E t \in Tid : CheckChildren(t)
  BY <1>0, <1>2, CollectTable
<1>3. CASE \E q \in Pid : Attach(q)
  <2> PICK q \in Pid : Attach(q)
    BY <1>3
  <2> QED BY <1>0, AttachTable, ZenonT(60) DEF SameLife, SameCore
<1>4. CASE \E v \in Pid : CrashAction(v)
  <2>1. PICK v \in Pid : CrashStep(v)
    BY <1>4 DEF CrashAction
  <2>2. PICK pr2 \in Procs, rn \in RunRec :
           Crashed(procs, pr2, v) /\ Succeeded(Bereaved(v), pr2, rn, v, TRUE)
    BY <2>1 DEF CrashStep
  <2>3. SameSlot(pr2[p], procs'[p]) \/ Newborn(procs'[p], NoProc, pr2[v].spec)
    BY <2>2, SucceededSlot
  <2> QED BY <1>0, <2>2, <2>3 DEF Crashed, SameLife, SameCore, Newborn, SameSlot
<1>5. CASE Bury
  <2>1. PICK pr2 \in Procs :
           /\ Buried(procs, pr2, launcher.proc)
           /\ procs' = pr2 \/ Succeeded(Bereaved(launcher.proc), pr2, run, launcher.proc, launcher.failed)
    BY <1>5, BurySteps
  <2>2. SameSlot(pr2[p], procs'[p]) \/ Newborn(procs'[p], NoProc, pr2[launcher.proc].spec)
    BY <2>1, SucceededSlot DEF SameSlot
  <2> QED BY <1>0, <2>1, <2>2 DEF Buried, SameLife, SameCore, Newborn, SameSlot
<1>6. CASE \E t \in Tid : SpawnChild(t) \/ Exhaust(t)
  <2>1. PICK t \in Tid : SpawnChild(t) \/ Exhaust(t)
    BY <1>6
  <2> QED BY <1>0, <2>1, ChildSlot
<1> QED BY <1>1, <1>2, <1>3, <1>4, <1>5, <1>6, ProcSteps, CoreSteps

\* A process is doomed by a crash, and from then on only who waits for the
\* deaths forgets it.
LEMMA DoomedOrigin ==
    ASSUME IInv, LiveKnown, [Next]_vars, NEW p \in Pid,
           procs'[p].killed, procs'[p].state = "live", real'[p] = "up"
    PROVE  \/ /\ Doomed(p) /\ (procs[p].signalled => procs'[p].signalled)
              /\ \/ procs'[p].unsettled = procs[p].unsettled
                 \/ \E t \in Tid : TakeUp(t) \/ SettleDeaths(t)
           \/ CrashAction(p) /\ procs'[p].unsettled /\ procs[p].state = "live"
<1>0. procs \in Procs /\ run.nprocs \in Nat
  BY Basics DEF RunRec
<1>1. procs[p].state = "live"
  BY LiveOrigin
<1>2. real[p] = "up"
  BY <1>1, RealSteps DEF LiveKnown
<1>3. CASE Steady(procs, procs')
  BY <1>1, <1>2, <1>3 DEF Steady, SameLife, SameCore, Doomed
<1>4. CASE Tick
  BY <1>1, <1>2, <1>4, CoreSteps DEF CoreKept, SameCore, Doomed
<1>5. CASE \E t \in Tid : TakeUp(t) \/ SettleDeaths(t)
  BY <1>1, <1>2, <1>5, CoreSteps DEF CoreKept, SameCore, Doomed
<1>6. CASE \E t \in Tid : ExitThread(t)
  <2>1. PICK t \in Tid : ExitThread(t)
    BY <1>6
  <2>2. \/ procs'[p] = procs[p]
        \/ procs'[p] = [procs[p] EXCEPT !.exiting = t]
    BY <1>0, <2>1 DEF ExitThread, Procs
  <2>3. procs'[p].unsettled = procs[p].unsettled
    BY <1>0, <2>2 DEF Procs, ProcRec
  <2> QED BY <1>1, <1>2, <2>1, <2>3, CoreSteps DEF CoreKept, SameCore, Doomed
<1>7. CASE \E t \in Tid : CheckChildren(t)
  BY <1>1, <1>2, <1>7, CollectTable DEF Doomed
<1>8. CASE \E q \in Pid : Attach(q)
  <2> PICK q \in Pid : Attach(q)
    BY <1>8
  <2> QED BY <1>1, <1>2, AttachTable DEF SameLife, SameCore, Doomed
<1>9. CASE \E v \in Pid : CrashAction(v)
  <2>1. PICK v \in Pid : CrashAction(v)
    BY <1>9
  <2>2. PICK pr2 \in Procs, rn \in RunRec :
           Crashed(procs, pr2, v) /\ Succeeded(Bereaved(v), pr2, rn, v, TRUE)
    BY <2>1 DEF CrashAction, CrashStep
  <2>3. SameSlot(pr2[p], procs'[p]) \/ Newborn(procs'[p], NoProc, pr2[v].spec)
    BY <2>2, SucceededSlot
  <2> QED BY <1>1, <1>2, <2>1, <2>2, <2>3 DEF Crashed, SameLife, SameCore, Newborn, SameSlot, Doomed
<1>10. CASE Bury
  <2>1. PICK pr2 \in Procs :
           /\ Buried(procs, pr2, launcher.proc)
           /\ procs' = pr2 \/ Succeeded(Bereaved(launcher.proc), pr2, run, launcher.proc, launcher.failed)
    BY <1>10, BurySteps
  <2>2. SameSlot(pr2[p], procs'[p]) \/ Newborn(procs'[p], NoProc, pr2[launcher.proc].spec)
    BY <2>1, SucceededSlot DEF SameSlot
  <2> QED BY <1>1, <1>2, <2>1, <2>2 DEF Buried, SameLife, SameCore, Newborn, SameSlot, Doomed
<1>11. CASE \E t \in Tid : SpawnChild(t) \/ Exhaust(t)
  BY <1>1, <1>2, <1>11, ChildSlot DEF Doomed
<1> QED BY <1>3, <1>4, <1>5, <1>6, <1>7, <1>8, <1>9, <1>10, <1>11, ProcSteps

\* Nobody is inside while a hand-off is made, nor when it is over.
LEMMA PickOutside == ASSUME IInv, PickStep PROVE \A t \in Tid : ~Inside(t)'
<1>0. pick.phase # "none" /\ pc \in [Tid -> Pcs] /\ \A t \in Tid : ~Inside(t)
  <2>1. pick.phase # "none"
    BY DEF PickStep, Tick, InjectCrash, InjectShutdown, Jump, Choose, IdleGuest, IdleLauncher,
           Idle, FaultsDone
  <2> QED BY <2>1, Basics DEF IInv, Base, Safe, HandingOver
<1>1. ASSUME NEW t \in Tid PROVE pc'[t] \in {pc[t], "leaving", "parked", "polling", "gone"}
  <2>0. ASSUME NEW th PROVE AfterHandOff(th)[t] \in {pc[t], "leaving", "parked"}
    BY <1>0 DEF AfterHandOff
  <2>1. CASE IdleGuest
    <3>1. PICK pcs, dead :
             /\ pc' = ThreadsGone(pcs, dead)
             /\ pcs = [pc EXCEPT ![pick.me] = "polling"] \/ pcs = AfterHandOff(Released)
      BY <2>1 DEF IdleGuest
    <3>2. pcs[t] \in {pc[t], "leaving", "parked", "polling"}
      BY <1>0, <2>0, <3>1
    <3> QED BY <1>0, <3>1, <3>2 DEF ThreadsGone
  <2>2. CASE IdleLauncher
    <3>1. UNCHANGED pc \/ pc' = ThreadsGone(pc, Pid)
      BY <2>2 DEF IdleLauncher
    <3> QED BY <1>0, <3>1 DEF ThreadsGone
  <2>3. CASE \E u \in Tid : Choose(u)
    BY <2>0, <2>3 DEF Choose
  <2>4. CASE Tick \/ InjectCrash \/ InjectShutdown \/ Jump
    BY <2>4 DEF Tick, InjectCrash, InjectShutdown, Jump
  <2> QED BY <2>1, <2>2, <2>3, <2>4 DEF PickStep
<1> QED BY <1>0, <1>1 DEF Inside

\* SIGKILL goes to every process that was crashed in the hand-off that ends
\* (After::of, Coordinator::process_died).
LEMMA KillsTaken ==
    ASSUME IInv, OpeningHolds, LiveKnown, DoomedHolds, NEW p \in Pid, Doomed(p),
           pick.phase # "none",
           IdleGuest \/ IdleLauncher \/ \E t \in Tid : Choose(t)
    PROVE  procs'[p].signalled
<1> DEFINE K == Condemned(Rung, run)
<1>0. procs \in Procs /\ Rung \in Procs /\ Alike(procs, Rung) /\ Steady(procs, Rung)
  BY Basics, RungLemma, RungSteady DEF Alike
<1>1. pick.by # "start"
  BY DEF OpeningHolds, Opening, Doomed
<1>2. Rung[p].killed /\ Rung[p].known /\ (Rung[p].signalled \/ run.unsignalled)
  BY <1>0 DEF Steady, SameLife, SameCore, Doomed, LiveKnown, DoomedHolds, Alike
<1>3. Signalled(Rung, K)[p].signalled
  <2>1. [Rung[p] EXCEPT !.signalled = TRUE].signalled
    BY <1>0 DEF Procs, ProcRec
  <2>2. p \in K \/ Rung[p].signalled
    BY <1>2 DEF Condemned
  <2> HIDE DEF K
  <2> QED BY <2>1, <2>2 DEF Signalled
<1>4. Signalled(Rung, K) \in Procs
  BY <1>0, SignalledLemma
<1> DEFINE sent == Signalled(Rung, K)
<1>5. CASE KillsSent(Rung)
  BY <1>1, <1>3, <1>5 DEF KillsSent
<1>6. CASE IdleGuest
  <2> DEFINE own == Owner(pick.me)
             stuck == Released[pick.me].state # "exited" \/ AnyAlive(Released)
  <2>0. PICK gcd \in BOOLEAN : procs' = [Signalled(Rung, K) EXCEPT ![own].outside =
                                           @ \/ (gcd /\ ~Rung[own].killed /\ stuck)]
    BY <1>6, Zenon DEF IdleGuest
  <2>1. PICK b : procs' = [sent EXCEPT ![own].outside = b]
    BY <2>0, Zenon
  <2> HIDE DEF sent
  <2>2. procs'[p] = sent[p] \/ procs'[p] = [sent[p] EXCEPT !.outside = b]
    BY <1>4, <2>1 DEF Procs, sent
  <2>3. sent[p] \in ProcRec
    BY <1>4 DEF Procs, sent
  <2>4. [sent[p] EXCEPT !.outside = b].signalled = sent[p].signalled
    BY <2>3 DEF ProcRec
  <2> QED BY <1>3, <2>2, <2>4 DEF sent
<1> QED BY <1>5, <1>6 DEF IdleLauncher, Choose

\* my_kill sends its SIGKILL at once.
LEMMA KillSignals ==
    ASSUME IInv, LiveKnown, NEW t \in Tid, NEW p \in Pid, Kill(t, p), procs[p].state = "live"
    PROVE  procs'[p].signalled
<1> DEFINE kl == [procs[p] EXCEPT !.killed = TRUE]
           pr == [procs EXCEPT ![p] = kl]
           K  == Condemned(pr, Owing)
           rn == [Struck EXCEPT !.unsignalled = FALSE]
<1>0. procs \in Procs /\ procs[p] \in ProcRec /\ threads \in Threads /\ run \in RunRec
  BY Basics DEF Procs
<1>1. kl \in ProcRec /\ kl.killed /\ kl.known = procs[p].known /\ kl.signalled = procs[p].signalled
  <2>1. kl \in ProcRec
    BY <1>0 DEF ProcRec
  <2>2. kl.killed
    BY <1>0 DEF ProcRec
  <2>3. kl.known = procs[p].known /\ kl.signalled = procs[p].signalled
    BY <1>0 DEF ProcRec
  <2> QED BY <2>1, <2>2, <2>3
<1>2. /\ rn \in RunRec /\ rn.nprocs = run.nprocs /\ rn.nthreads = run.nthreads
      /\ Owing.unsignalled
  BY <1>0 DEF RunRec, Owing, Struck
<1>3. Crash(threads, Signalled(procs, Condemned([procs EXCEPT ![p].killed = TRUE], Owing)), rn, p)
  BY Zenon DEF Kill
<1> HIDE DEF kl, rn
<1>4. pr \in Procs /\ pr[p] = kl
  BY <1>0, <1>1 DEF Procs
<1>5. Crash(threads, Signalled(procs, K), rn, p)
  BY <1>3 DEF kl
<1> HIDE DEF pr
<1>6. p \in K \/ procs[p].signalled
  BY <1>1, <1>2, <1>4 DEF Condemned, LiveKnown
<1>7. [procs[p] EXCEPT !.signalled = TRUE].signalled
  BY <1>0 DEF ProcRec
<1> HIDE DEF K
<1>8. Signalled(procs, K)[p].signalled
  BY <1>6, <1>7 DEF Signalled
<1>9. Signalled(procs, K) \in Procs
  BY <1>0, SignalledLemma
<1>10. Felled(threads, Signalled(procs, K), rn, p)
  BY <1>0, <1>2, <1>5, <1>9, CrashLemma
<1>11. p <= rn.nprocs
  BY <1>2 DEF IInv, Base, Safe, Placed, LiveKnown
<1>12. rn.nprocs \in Nat
  BY <1>2 DEF RunRec
<1> QED BY <1>8, <1>10, <1>11, <1>12 DEF Felled, Pid

\* How DoomedHolds outlives a step
LEMMA DoomedStep ==
    ASSUME IInv, IInv', SettleHolds, OpeningHolds', [Next]_vars PROVE DoomedHolds'
<1> SUFFICES ASSUME NEW p \in Pid, procs'[p].killed, procs'[p].state = "live", real'[p] = "up"
             PROVE  /\ procs'[p].unsettled
                    /\ procs'[p].signalled \/ (pick'.phase # "none" /\ run'.unsignalled)
                    /\ \A t \in Tid : Inside(t)' => pc'[t] = "settling"
  BY DEF DoomedHolds, Doomed
<1> USE DEF SettleHolds
<1>0. run \in RunRec /\ pc \in [Tid -> Pcs]
  BY Basics
<1>1. CASE CrashAction(p) /\ procs'[p].unsettled /\ procs[p].state = "live"
  <2>1. CASE InjectCrash \/ InjectShutdown
    <3>1. ~Steady(procs, procs')
      BY <1>1 DEF CrashAction, CrashStep, Unharmed, Alive, Steady, SameLife, SameCore
    <3>2. run'.unsignalled
      BY <2>1, <3>1, CrashSteps
    <3>3. pick'.phase # "none"
      BY <2>1 DEF InjectCrash, InjectShutdown
    <3>4. \A t \in Tid : ~Inside(t)'
      BY <2>1, PickOutside DEF PickStep
    <3> QED BY <1>1, <3>2, <3>3, <3>4
  <2>2. CASE \E t \in Tid : Kill(t, p)
    <3>1. PICK t \in Tid : Kill(t, p)
      BY <2>2
    <3>2. procs'[p].signalled
      BY <1>1, <3>1, KillSignals
    <3>3. pc' = [pc EXCEPT ![t] = "settling"] /\ Inside(t)
      BY <3>1 DEF Kill, Strikes, Goes, Inside
    <3>4. \A u \in Tid : Inside(u) => u = t
      BY <3>3 DEF IInv, Base, Safe, OneHolder
    <3>5. \A u \in Tid : u # t => ~Inside(u)'
      BY <1>0, <3>3, <3>4 DEF Inside
    <3> QED BY <1>0, <1>1, <3>2, <3>3, <3>5
  <2> QED BY <1>1, <2>1, <2>2 DEF CrashAction
<1>2. CASE /\ Doomed(p) /\ (procs[p].signalled => procs'[p].signalled)
           /\ \/ procs'[p].unsettled = procs[p].unsettled
              \/ \E t \in Tid : TakeUp(t) \/ SettleDeaths(t)
  <2>1. /\ procs[p].unsettled /\ \A t \in Tid : Inside(t) => pc[t] = "settling"
        /\ procs[p].signalled \/ (pick.phase # "none" /\ run.unsignalled)
    BY <1>2 DEF DoomedHolds
  <2>2. ~\E t \in Tid : TakeUp(t) \/ SettleDeaths(t)
    BY <1>2, <2>1 DEF TakeUp, SettleDeaths, MayTakeUp, LockFree, DeathsAreOver, WillNotDie, Doomed
  <2>3. procs'[p].unsettled
    BY <1>2, <2>1, <2>2
  <2>4. procs'[p].signalled \/ (pick'.phase # "none" /\ run'.unsignalled)
    <3>1. CASE procs[p].signalled
      BY <1>2, <3>1
    <3>2. CASE pick.phase # "none" /\ run.unsignalled
      <4>1. CASE Tick
        BY <1>0, <3>2, <4>1, Basics DEF Tick, RunLater, RunRec, IInv, Base, TypeOK
      <4>2. CASE InjectCrash \/ InjectShutdown
        BY <3>2, <4>2, CrashSteps DEF InjectCrash, InjectShutdown
      <4>3. CASE Jump
        BY <3>2, <4>3 DEF Jump, IInv, Base, TypeOK
      <4>4. CASE IdleGuest \/ IdleLauncher \/ \E t \in Tid : Choose(t)
        BY <1>2, <3>2, <4>4, KillsTaken
      <4>5. CASE UNCHANGED <<pick, run>>
        BY <3>2, <4>5
      <4>6. CASE ~PickStep
        <5>0. ~\E t \in Tid, q \in Pid : Kill(t, q) \/ Signal(t, q)
          BY <3>2, Zenon DEF Kill, Signal, Strikes, LockFree
        <5>1. ~LauncherStep /\ ~\E t \in Tid : Return(t) \/ Guest(t)
          BY <3>2, <5>0 DEF LauncherStep, Start, Started, EndRun, Bury, Respawn, Finish, NoticeExit,
                      Return, DieStopped, TakeUp, MayTakeUp, SettleDeaths, AwaitAttach, CheckChildren,
                      BlockOnChildren, Poll, PollGivesUp, LockFree,
                      Guest, Yield, Block, Wake, CreateThread, Exhaust, ExitThread, ExitProcess,
                      ReadClock, SetTimer, SpawnChild, Waitpid, Aim, Runs
        <5>2. UNCHANGED <<pick, run>>
          BY <4>6, <5>1 DEF Next, Over, vars, Aside, Leave, OutsideWake, Slain, Attach, FailToAttach
        <5> QED BY <4>5, <5>2
      <4> QED BY <4>1, <4>2, <4>3, <4>4, <4>6 DEF PickStep
    <3> QED BY <2>1, <3>1, <3>2
  <2>5. ASSUME NEW t \in Tid, Inside(t)' PROVE pc'[t] = "settling"
    <3>1. CASE PickStep
      BY <2>5, <3>1, PickOutside
    <3>2. CASE \E u \in Tid : Guest(u)
      BY <2>1, <3>2 DEF Guest, Yield, Block, Wake, CreateThread, Exhaust, ExitThread, ExitProcess,
                      ReadClock, SetTimer, SpawnChild, Waitpid, Aim, Runs, Inside
    <3>3. CASE \E u \in Tid : Return(u)
      <4>0. ~\E u \in Tid, q \in Pid : Kill(u, q) \/ Signal(u, q)
        BY <2>1 DEF Kill, Signal, Strikes, Inside
      <4>1. PICK u \in Tid : DieStopped(u) \/ Poll(u) \/ PollGivesUp(u)
        BY <2>1, <2>2, <3>3, <4>0 DEF Return, AwaitAttach, CheckChildren, BlockOnChildren, Inside
      <4>2. pc'[t] \in {pc[t], "gone"}
        BY <1>0, <4>1 DEF DieStopped, Poll, PollGivesUp, ThreadsGone
      <4> QED BY <2>1, <2>5, <4>2 DEF Inside
    <3>4. CASE Aside \/ LauncherStep \/ UNCHANGED vars
      <4>1. pc'[t] \in {pc[t], "gone", "parked", "boot"}
        <5>1. CASE \E q \in Pid : OutsideWake(q) \/ Slain(q) \/ Attach(q) \/ FailToAttach(q)
          BY <1>0, <5>1 DEF OutsideWake, Slain, Attach, FailToAttach, ThreadsGone
        <5>2. CASE \E u \in Tid : Leave(u)
          BY <1>0, <5>2 DEF Leave, Goes
        <5>3. CASE LauncherStep \/ UNCHANGED vars
          BY <1>0, <5>3 DEF LauncherStep, Start, Started, EndRun, Bury, Respawn, Finish, NoticeExit, vars
        <5> QED BY <3>4, <5>1, <5>2, <5>3 DEF Aside
      <4> QED BY <2>1, <2>5, <4>1 DEF Inside
    <3> QED BY <3>1, <3>2, <3>3, <3>4 DEF Next, Over
  <2> QED BY <2>3, <2>4, <2>5
<1> QED BY <1>1, <1>2, DoomedOrigin

\* A run begins with nothing due and nobody dead.
LEMMA SettleInit == ASSUME Init PROVE SettleHolds
<1>1. PICK draw : /\ \A e \in Entry : draw[e] \in Draws(e)
                  /\ procs = [p \in Pid |-> IF p \in Entry
                               THEN [FreshProc(NoProc, p) EXCEPT !.crash = draw[p][1],
                                                                 !.shutdown = draw[p][2]]
                               ELSE NoProcRec]
  BY Zenon DEF Init
<1>2. ASSUME NEW e \in Entry PROVE draw[e][1] # 0 /\ draw[e][2] # 0
  <2>1. draw[e] \in CrashTimes(FreshProc(NoProc, e), 0) \X ShutdownTimes(FreshProc(NoProc, e), 0)
    BY <1>1 DEF Draws
  <2>2. Faults(FreshProc(NoProc, e).spec) \in FaultPlan
    BY FaultsType DEF FreshProc
  <2>3. /\ \A x \in CrashTimes(FreshProc(NoProc, e), 0) : x # 0
        /\ \A x \in ShutdownTimes(FreshProc(NoProc, e), 0) : x # 0
    BY <2>2 DEF CrashTimes, ShutdownTimes, AtLeast1, NoTime, FaultPlan
  <2> QED BY <2>1, <2>3
<1>3. ASSUME NEW p \in Pid
      PROVE  /\ ~procs[p].killed /\ procs[p].state # "live"
             /\ procs[p].crash # 0 /\ procs[p].shutdown # 0 /\ procs[p].kill # 0
  <2>1. CASE p \in Entry
    <3>1. procs[p] = [FreshProc(NoProc, p) EXCEPT !.crash = draw[p][1], !.shutdown = draw[p][2]]
      BY <1>1, <2>1
    <3> QED BY <1>2, <2>1, <3>1 DEF FreshProc, NoTime
  <2>2. CASE p \notin Entry
    <3>1. procs[p] = NoProcRec
      BY <1>1, <2>2
    <3> QED BY <3>1 DEF NoProcRec, FreshProc, NoTime
  <2> QED BY <2>1, <2>2
<1>4. 1 \in Entry /\ 1 \in Tid
  BY SizesAssumption DEF Entry, Tid
<1>5. OpeningHolds
  <2>1. /\ \A t \in Tid : pc[t] \in {"none", "boot"} /\ threads[t].state \in {"unused", "runnable"}
        /\ threads[1].state = "runnable"
    BY <1>4 DEF Init, FreshThread, NoThreadRec
  <2>2. /\ \A p \in Pid : real[p] \in {"none", "up"}
        /\ pick.add = 0 /\ launcher.at = "booting"
    BY DEF Init, NoPick
  <2> QED BY <1>3, <2>1, <2>2 DEF OpeningHolds
<1> QED BY <1>3, <1>5 DEF SettleHolds, LiveKnown, DoomedHolds, Doomed

\* How SettleHolds outlives a step
LEMMA SettleStep ==
    ASSUME AllAttach, IInv, IInv', SettleHolds, [Next]_vars PROVE SettleHolds'
<1>1. OpeningHolds'
  BY OpeningStep DEF SettleHolds
<1>2. LiveKnown'
  BY LiveOrigin DEF SettleHolds, LiveKnown
<1>3. DoomedHolds'
  BY <1>1, DoomedStep
<1> QED BY <1>1, <1>2, <1>3 DEF SettleHolds

\* Where every process attaches, no program code runs while a process that
\* the schedule has crashed is still there for real: not after a crash in a
\* hand-off, and not after a kill by the program itself (crash, take_kills,
\* wait_out_deaths).
THEOREM DeathsAreSettled == ASSUME AllAttach PROVE Spec => []DeathsSettled
<1>1. Init => SettleHolds
  BY SettleInit
<1>2. IInv /\ IInv' /\ SettleHolds /\ [Next]_vars => SettleHolds'
  BY SettleStep
<1>3. IInv /\ SettleHolds => DeathsSettled
  BY DEF SettleHolds, DoomedHolds, Doomed, DeathsSettled, Inside
<1> QED
  BY <1>1, <1>2, <1>3, Invariance, PTL DEF Spec

----------------------------------------------------------------------------
(***************************************************************************)
(* What a step does to a thread, and to who has dead children.             *)
(***************************************************************************)

\* The record of a thread that goes on waiting for what it waited for, or
\* has been made runnable, or was chosen.
KeptThread(rec, rec2) ==
    /\ rec2.pid = rec.pid /\ rec2.key = rec.key
    /\ rec2.state = rec.state \/ rec2.state \in {"runnable", "running"}

\* No wake and no deadline changes what a thread waits for.
LEMMA KeptOperators ==
    ASSUME NEW th \in Threads, NEW t \in Tid
    PROVE  /\ \A S : KeptThread(th[t], Ready(th, S)[t])
           /\ \A d : KeptThread(th[t], ThreadsLater(th, d)[t])
           /\ \A p : \/ Retire(th, p)[t] = th[t]
                     \/ /\ Retire(th, p)[t].pid = p /\ th[t].pid = p
                        /\ Retire(th, p)[t].key = th[t].key
                        /\ Retire(th, p)[t].state = "exited"
           /\ threads = th => KeptThread(th[t], Expired[t]) /\ KeptThread(th[t], Released[t])
<1>0. th[t] \in ThreadRec
  BY DEF Threads
<1>1. ASSUME NEW S PROVE KeptThread(th[t], Ready(th, S)[t])
  BY <1>0 DEF Ready, KeptThread, ThreadRec
<1>2. ASSUME NEW d PROVE KeptThread(th[t], ThreadsLater(th, d)[t])
  <2> DEFINE left == Later(th[t].deadline, d)
  <2>1. ThreadsLater(th, d)[t] = [th[t] EXCEPT !.deadline = left]
    BY Zenon DEF ThreadsLater
  <2> HIDE DEF left
  <2> QED BY <1>0, <2>1 DEF KeptThread, ThreadRec
<1>3. ASSUME NEW p
      PROVE  \/ Retire(th, p)[t] = th[t]
             \/ /\ Retire(th, p)[t].pid = p /\ th[t].pid = p
                /\ Retire(th, p)[t].key = th[t].key
                /\ Retire(th, p)[t].state = "exited"
  BY <1>0 DEF Retire, ThreadsOf, ThreadRec
<1>4. ASSUME threads = th PROVE KeptThread(th[t], Expired[t]) /\ KeptThread(th[t], Released[t])
  <2>1. KeptThread(th[t], Expired[t]) /\ Expired[t] \in ThreadRec
    <3>1. \/ Expired[t] = th[t]
          \/ Expired[t] = [th[t] EXCEPT !.state = "runnable", !.deadline = NoTime]
      BY <1>4 DEF Expired
    <3> QED BY <1>0, <3>1 DEF KeptThread, ThreadRec, Time
  <2>2. \E S : Released[t] = Ready(Expired, S)[t]
    BY DEF Released
  <2>3. Released[t] = Expired[t] \/ Released[t] = [Expired[t] EXCEPT !.state = "runnable"]
    BY <2>2 DEF Ready
  <2> QED BY <2>1, <2>3 DEF KeptThread, ThreadRec
<1> QED BY <1>1, <1>2, <1>3, <1>4

\* The next thread slot belongs to nobody yet.
LEMMA FreeSlot ==
    ASSUME IInv, NEW t \in Tid, t = run.nthreads + 1 PROVE threads[t].pid \notin Pid
<1>1. run.nthreads \in Nat
  BY Basics DEF RunRec
<1>2. threads[t].pid = NoProc
  BY <1>1 DEF IInv, Base, Safe, Placed
<1> QED BY <1>2 DEF Pid, NoProc

\* A death retires the threads of the dead, wakes the parent's waitpid, and
\* may add a thread that waits for the restart.
LEMMA DeathThread ==
    ASSUME IInv, NEW v \in Pid, NEW pr, NEW rn, NEW failed, NEW t \in Tid,
           Succeeded(Bereaved(v), pr, rn, v, failed), rn.nthreads = run.nthreads
    PROVE  \/ /\ KeptThread(threads[t], threads'[t])
              /\ ~( /\ threads'[t].state = "blocked" /\ threads'[t].key = "wait"
                    /\ threads'[t].pid = procs[v].parent )
           \/ /\ threads'[t].pid = v /\ threads[t].pid = v
              /\ threads'[t].state = "exited" /\ threads'[t].key = threads[t].key
           \/ /\ threads'[t].state = "blocked" /\ threads'[t].key = "restart"
              /\ threads[t].pid \notin Pid
<1> DEFINE old == Retire(threads, v)
           W   == WokenByDeath(old, procs, v)
<1>0. threads \in Threads /\ old \in Threads
  BY Basics, RetireLemma
<1>1. \/ threads'[t] = Ready(old, W)[t]
      \/ /\ threads'[t].state = "blocked" /\ threads'[t].key = "restart"
         /\ threads[t].pid \notin Pid
  BY FreeSlot DEF Succeeded, Bereaved
<1>2. \/ old[t] = threads[t]
      \/ /\ old[t].pid = v /\ threads[t].pid = v
         /\ old[t].key = threads[t].key /\ old[t].state = "exited"
  BY <1>0, KeptOperators
<1>3. W \subseteq Blocked(old) /\ WaitingOn(old, procs[v].parent, "wait") \subseteq W
  BY DEF WokenByDeath, WaitingForIO, WaitingOn
<1>4. old[t].state = "exited" => t \notin W
  BY <1>3 DEF Blocked
<1>5. old[t].state = "blocked" /\ old[t].key = "wait" /\ old[t].pid = procs[v].parent => t \in W
  BY <1>3 DEF WaitingOn, Blocked
<1> HIDE DEF old, W
<1>6. Ready(old, W)[t] = IF t \in W THEN [old[t] EXCEPT !.state = "runnable"] ELSE old[t]
  BY DEF Ready
<1>7. KeptThread(old[t], Ready(old, W)[t])
  BY <1>0, KeptOperators
<1>8. t \in W => Ready(old, W)[t].state = "runnable"
  BY <1>0, <1>6 DEF Threads, ThreadRec
<1>9. CASE threads'[t] = Ready(old, W)[t] /\ old[t] = threads[t]
  BY <1>5, <1>6, <1>7, <1>8, <1>9
<1>10. CASE threads'[t] = Ready(old, W)[t] /\ old[t].state = "exited" /\ old[t] # threads[t]
  BY <1>2, <1>4, <1>6, <1>10
<1> QED BY <1>1, <1>2, <1>9, <1>10

\* Where a step leaves a thread
SameOwner(t) == threads[t].pid \in Pid => threads'[t].pid = threads[t].pid
Departed(t) ==
    \E v \in Pid : /\ threads'[t].pid = v /\ threads[t].pid = v /\ threads'[t].state = "exited"
                   /\ threads'[t].key = threads[t].key
                   /\ CrashAction(v) \/ (Bury /\ v = launcher.proc)
Moved(t) == SameOwner(t) /\ threads'[t].key # "wait" /\ threads'[t].state \in {"runnable", "blocked"}
StillBorn(t) ==
    /\ SameOwner(t)
    /\ threads'[t].key # "wait" /\ threads'[t].state = "exited"
    /\ procs'[threads'[t].pid].state = "exited"

\* The holder's own hand-offs
LEMMA HandOffThread ==
    ASSUME IInv, NEW u \in Tid, NEW k \in SpecialKeys \cup Keys, NEW d, NEW st, NEW t \in Tid,
           GuestHandOff(u, st, k, d)
    PROVE  \/ threads'[t] = threads[t]
           \/ /\ t = u /\ threads'[t].pid = threads[t].pid
              /\ threads'[t].key = k /\ threads'[t].state = st
<1>0. threads \in Threads /\ threads[t] \in ThreadRec
  BY Basics DEF Threads
<1>1. \/ threads'[t] = threads[t]
      \/ t = u /\ threads'[t] = [threads[t] EXCEPT !.state = st, !.key = k, !.deadline = d]
  BY <1>0 DEF GuestHandOff, Threads
<1> QED BY <1>0, <1>1 DEF ThreadRec

\* A step keeps what a thread waits for, unless the thread itself moves or
\* its process dies.
LEMMA ThreadSteps ==
    ASSUME IInv, [Next]_vars, NEW t \in Tid
    PROVE  \/ KeptThread(threads[t], threads'[t])
           \/ Departed(t) \/ Moved(t) \/ StillBorn(t) \/ BlockOnChildren(t) \/ ExitThread(t)
<1>0. threads \in Threads /\ threads[t] \in ThreadRec /\ procs \in Procs /\ run.nthreads \in Nat
  BY Basics DEF Threads, RunRec
<1>s. KeptThread(threads[t], threads[t])
  BY DEF KeptThread
<1>3. ASSUME NEW v \in Pid, CrashAction(v)
      PROVE  KeptThread(threads[t], threads'[t]) \/ Departed(t) \/ Moved(t)
  <2>1. \/ KeptThread(threads[t], threads'[t])
        \/ /\ threads'[t].pid = v /\ threads[t].pid = v
           /\ threads'[t].state = "exited" /\ threads'[t].key = threads[t].key
        \/ /\ threads'[t].state = "blocked" /\ threads'[t].key = "restart"
           /\ threads[t].pid \notin Pid
    BY <1>3, DeathThread DEF CrashAction, CrashStep
  <2> QED BY <1>3, <2>1 DEF Departed, Moved, SameOwner
<1>1. CASE PickStep
  <2>1. CASE Tick
    <3>1. \E S : threads'[t] = Ready(ThreadsLater(threads, pick.add), S)[t]
                 \/ threads'[t] = ThreadsLater(threads, pick.add)[t]
      BY <2>1 DEF Tick, StoppedThreads
    <3>2. ThreadsLater(threads, pick.add) \in Threads
      BY <1>0, ThreadsLaterLemma DEF Woken, IInv, Base, TypeOK
    <3>3. KeptThread(threads[t], ThreadsLater(threads, pick.add)[t])
      BY <1>0, KeptOperators
    <3>4. KeptThread(ThreadsLater(threads, pick.add)[t], threads'[t])
      BY <3>1, <3>2, KeptOperators DEF KeptThread
    <3> QED BY <3>3, <3>4 DEF KeptThread
  <2>2. CASE InjectCrash \/ InjectShutdown
    <3>1. CASE \E v \in Pid : Alive(procs, v) /\ CrashStep(v)
      BY <1>3, <2>2, <3>1 DEF CrashAction
    <3>2. CASE ~\E v \in Pid : Alive(procs, v) /\ CrashStep(v)
      <4>1. \E S : threads' = Ready(threads, S)
        BY <2>2, <3>2, CrashSteps
      <4> QED BY <1>0, <4>1, KeptOperators
    <3> QED BY <3>1, <3>2
  <2>4. CASE Jump \/ IdleGuest \/ IdleLauncher
    <3>1. threads' = Released
      BY <2>4 DEF Jump, IdleGuest, IdleLauncher
    <3> QED BY <1>0, <3>1, KeptOperators
  <2>5. CASE \E u \in Tid : Choose(u)
    <3>1. PICK u \in Tid : threads' = [Released EXCEPT ![u].state = "running"]
      BY <2>5 DEF Choose
    <3>2. KeptThread(threads[t], Released[t]) /\ Released \in Threads
      BY <1>0, KeptOperators, ReleasedLemma DEF Woken
    <3>3. threads'[t] = Released[t] \/ threads'[t] = [Released[t] EXCEPT !.state = "running"]
      BY <3>1, <3>2 DEF Threads
    <3>4. Released[t] \in ThreadRec
      BY <3>2 DEF Threads
    <3>5. threads'[t] # Released[t] =>
            /\ threads'[t].state = "running"
            /\ threads'[t].pid = Released[t].pid /\ threads'[t].key = Released[t].key
      BY <3>3, <3>4 DEF ThreadRec
    <3> QED BY <3>2, <3>5 DEF KeptThread
  <2> QED BY <1>1, <2>1, <2>2, <2>4, <2>5 DEF PickStep
<1>2. CASE \E u \in Tid : Guest(u)
  <2>0. PICK u \in Tid : Guest(u)
    BY <1>2
  <2>1. CASE Yield(u)
    <3>1. KeptThread(threads[t], threads'[t]) \/ Moved(t)
      <4>1. GuestHandOff(u, "runnable", "none", NoTime)
        BY <2>1 DEF Yield
      <4>2. \/ threads'[t] = threads[t]
            \/ /\ threads'[t].key = "none" /\ threads'[t].state = "runnable"
               /\ threads'[t].pid = threads[t].pid
        BY <4>1, HandOffThread DEF SpecialKeys
      <4> QED BY <4>2, <1>s DEF Moved, SameOwner
    <3> QED BY <3>1
  <2>2. CASE Block(u)
    <3>1. PICK k, d : k \in Keys \cup {"io", "join"} /\ BlockOn(u, k, d, "guest")
      BY <2>2 DEF Block, JoinKeys
    <3>2. k \in SpecialKeys \cup Keys /\ k # "wait"
      BY <3>1, InputsAssumption DEF SpecialKeys
    <3>3. CASE GuestHandOff(u, "blocked", k, d)
      <4>1. \/ threads'[t] = threads[t]
            \/ /\ threads'[t].key = k /\ threads'[t].state = "blocked"
               /\ threads'[t].pid = threads[t].pid
        BY <3>2, <3>3, HandOffThread
      <4> QED BY <3>2, <4>1, <1>s DEF Moved, SameOwner
    <3>4. CASE threads' = [threads EXCEPT ![u].stale = FALSE]
      <4>1. threads'[t] = threads[t] \/ threads'[t] = [threads[t] EXCEPT !.stale = FALSE]
        BY <1>0, <3>4 DEF Threads
      <4> QED BY <1>0, <4>1 DEF KeptThread, ThreadRec
    <3> QED BY <3>1, <3>3, <3>4 DEF BlockOn
  <2>3. CASE Wake(u)
    <3>1. \E S : threads' = Ready(threads, S)
      BY <2>3 DEF Wake
    <3> QED BY <1>0, <3>1, KeptOperators
  <2>4. CASE CreateThread(u)
    <3>1. threads' = [threads EXCEPT ![run.nthreads + 1] = FreshThread(Owner(u), procs[Owner(u)].outside)]
      BY <2>4 DEF CreateThread
    <3>2. \/ threads'[t] = threads[t]
          \/ /\ threads'[t] = FreshThread(Owner(u), procs[Owner(u)].outside)
             /\ threads[t].pid \notin Pid
      BY <1>0, <3>1, FreeSlot DEF Threads
    <3> QED BY <1>s, <3>2 DEF Moved, SameOwner, FreshThread
  <2>5. CASE ExitThread(u)
    <3>1. CASE t = u
      BY <2>5, <3>1
    <3>2. CASE t # u
      <4>1. \E S : threads'[t] = Ready(threads, S)[t]
        BY <1>0, <2>5, <3>2, ReadyLemma DEF ExitThread, Threads
      <4> QED BY <1>0, <4>1, KeptOperators
    <3> QED BY <3>1, <3>2
  <2>6. CASE SpawnChild(u)
    <3>1. \/ threads' = [threads EXCEPT ![run.nthreads + 1] = FreshThread(run.nprocs + 1, FALSE)]
          \/ /\ threads' = [threads EXCEPT ![run.nthreads + 1] =
                              [FreshThread(run.nprocs + 1, FALSE) EXCEPT !.state = "exited"]]
             /\ procs' = [procs EXCEPT ![run.nprocs + 1] =
                            [FreshProc(Owner(u), 0) EXCEPT !.state = "exited", !.reaped = TRUE]]
      BY <2>6, Zenon DEF SpawnChild
    <3>0. run.nprocs + 1 \in Pid
      <4>1. run.nprocs \in Nat /\ run.nprocs < MaxProcs
        BY <2>6, Basics DEF SpawnChild, HasRoom, RunRec
      <4> QED BY <4>1, SizesAssumption DEF Pid
    <3>2. CASE threads' = [threads EXCEPT ![run.nthreads + 1] = FreshThread(run.nprocs + 1, FALSE)]
      <4>1. \/ threads'[t] = threads[t]
            \/ /\ threads'[t] = FreshThread(run.nprocs + 1, FALSE)
               /\ threads[t].pid \notin Pid
        BY <1>0, <3>2, FreeSlot DEF Threads
      <4> QED BY <1>s, <4>1 DEF Moved, SameOwner, FreshThread
    <3>3. CASE ~(threads' = [threads EXCEPT ![run.nthreads + 1] = FreshThread(run.nprocs + 1, FALSE)])
      <4>1. procs'[run.nprocs + 1] = [FreshProc(Owner(u), 0) EXCEPT !.state = "exited", !.reaped = TRUE]
        BY <1>0, <3>0, <3>1, <3>3 DEF Procs
      <4>2. \/ threads'[t] = threads[t]
            \/ /\ threads'[t] = [FreshThread(run.nprocs + 1, FALSE) EXCEPT !.state = "exited"]
               /\ threads[t].pid \notin Pid
        BY <1>0, <3>1, <3>3, FreeSlot DEF Threads
      <4>3. \/ threads'[t] = threads[t]
            \/ threads[t].pid \notin Pid /\ threads'[t].pid = run.nprocs + 1 /\ threads'[t].key = "none" /\ threads'[t].state = "exited"
        BY <4>2 DEF FreshThread
      <4>4. procs'[run.nprocs + 1].state = "exited" /\ run.nprocs + 1 \in Pid
        BY <3>0, <4>1 DEF FreshProc
      <4> QED BY <1>s, <4>3, <4>4 DEF StillBorn, SameOwner
    <3> QED BY <3>2, <3>3
  <2>7. CASE \E q \in Pid : Aim(u, q)
    BY <1>s, <2>7 DEF Aim
  <2>8. CASE ReadClock(u)
    BY <1>0, <2>8, KeptOperators DEF ReadClock
  <2>9. CASE Exhaust(u) \/ ExitProcess(u) \/ SetTimer(u) \/ Waitpid(u)
    BY <1>s, <2>9 DEF Exhaust, ExitProcess, SetTimer, Waitpid
  <2> QED BY <2>0, <2>1, <2>2, <2>3, <2>4, <2>5, <2>6, <2>7, <2>8, <2>9 DEF Guest
<1>4. CASE \E u \in Tid : Return(u)
  <2>0. PICK u \in Tid : Return(u)
    BY <1>4
  <2>1. CASE TakeUp(u) \/ SettleDeaths(u)
    <3>1. threads' = SettledThreads
      BY <2>1 DEF TakeUp, SettleDeaths
    <3>2. threads' = threads \/ \E S : threads' = Ready(threads, S)
      BY <3>1 DEF SettledThreads
    <3> QED BY <1>0, <1>s, <3>2, KeptOperators
  <2>2. CASE BlockOnChildren(u)
    <3>1. CASE t = u
      BY <2>2, <3>1
    <3>2. CASE t # u
      <4>1. threads'[t] = threads[t]
        BY <1>0, <2>2, <3>2 DEF BlockOnChildren, BlockOn, GuestHandOff, Threads
      <4> QED BY <1>s, <4>1
    <3> QED BY <3>1, <3>2
  <2>3. CASE DieStopped(u) \/ AwaitAttach(u) \/ CheckChildren(u) \/ Poll(u) \/ PollGivesUp(u)
    BY <1>s, <2>3 DEF DieStopped, AwaitAttach, CheckChildren, Poll, PollGivesUp
  <2>4. CASE \E q \in Pid : Kill(u, q)
    BY <1>3, <2>4, CrashSteps DEF CrashAction
  <2>5. CASE \E q \in Pid : Signal(u, q)
    <3>1. \E S : threads' = Ready(threads, S)
      BY <2>5 DEF Signal
    <3> QED BY <1>0, <3>1, KeptOperators
  <2> QED BY <2>0, <2>1, <2>2, <2>3, <2>4, <2>5 DEF Return
<1>5. CASE Aside
  <2>1. CASE \E p \in Pid : OutsideWake(p)
    <3>2. PICK S, b : threads'[t] = [Ready(threads, S)[t] EXCEPT !.stale = b]
      <4>1. PICK p, S :
              threads' = [x \in Tid |->
                 [Ready(threads, S)[x] EXCEPT !.stale = @ \/ x \in ThreadsOf(threads, p)]]
        <5>1. PICK p \in Pid : OutsideWake(p)
          BY <2>1
        <5>2. PICK S : threads' = [x \in Tid |->
                 [Ready(threads, S)[x] EXCEPT !.stale = @ \/ x \in ThreadsOf(threads, p)]]
          BY <5>1, Zenon DEF OutsideWake
        <5> QED BY <5>2, Zenon
      <4>2. threads'[t] = [Ready(threads, S)[t] EXCEPT !.stale = @ \/ t \in ThreadsOf(threads, p)]
        BY <4>1, Zenon
      <4> QED BY <4>2, Zenon
    <3>3. KeptThread(threads[t], Ready(threads, S)[t]) /\ Ready(threads, S)[t] \in ThreadRec
      BY <1>0, KeptOperators, ReadyLemma DEF Threads
    <3> DEFINE rec == Ready(threads, S)[t]
    <3> HIDE DEF rec
    <3>4. threads'[t] = [rec EXCEPT !.stale = b] /\ rec \in ThreadRec /\ KeptThread(threads[t], rec)
      BY <3>2, <3>3 DEF rec
    <3> QED BY <3>4 DEF KeptThread, ThreadRec
  <2>2. CASE ~\E p \in Pid : OutsideWake(p)
    BY <1>5, <1>s, <2>2 DEF Aside, Leave, Slain, Attach, FailToAttach
  <2> QED BY <2>1, <2>2
<1>6. CASE LauncherStep
  <2>1. CASE Bury
    <3>1. launcher.proc \in Pid
      BY <2>1, BurySteps
    <3>2. \/ KeptThread(threads[t], threads'[t])
          \/ /\ threads'[t].pid = launcher.proc /\ threads[t].pid = launcher.proc
             /\ threads'[t].state = "exited" /\ threads'[t].key = threads[t].key
          \/ /\ threads'[t].state = "blocked" /\ threads'[t].key = "restart"
             /\ threads[t].pid \notin Pid
      <4>1. CASE threads' = Retire(threads, launcher.proc)
        BY <1>0, <1>s, <4>1, KeptOperators
      <4>2. CASE ~(threads' = Retire(threads, launcher.proc))
        BY <2>1, <3>1, <4>2, BurySteps, DeathThread
      <4> QED BY <4>1, <4>2
    <3> QED BY <2>1, <3>1, <3>2 DEF Departed, Moved, SameOwner
  <2>2. CASE ~Bury
    BY <1>6, <1>s, <2>2 DEF LauncherStep, Start, Started, EndRun, Respawn, Finish, NoticeExit
  <2> QED BY <2>1, <2>2
<1>7. CASE UNCHANGED vars
  BY <1>s, <1>7 DEF vars
<1> QED BY <1>1, <1>2, <1>4, <1>5, <1>6, <1>7 DEF Next, Over


----------------------------------------------------------------------------
(***************************************************************************)
(* A thread that waits for its children is told of their deaths.           *)
(***************************************************************************)

\* A thread that exits has nothing to wait for.
LEMMA ExitedThread ==
    ASSUME IInv, NEW t \in Tid, ExitThread(t)
    PROVE  /\ threads'[t].pid = threads[t].pid
           /\ threads'[t].key = "none" /\ threads'[t].state = "exited"
<1>0. threads \in Threads
  BY Basics
<1>1. \E S : threads' = [Ready(threads, S) EXCEPT ![t] =
                          [@ EXCEPT !.state = "exited", !.key = "none", !.deadline = NoTime]]
  BY DEF ExitThread
<1>2. PICK S : threads' = [Ready(threads, S) EXCEPT ![t] =
                 [Ready(threads, S)[t] EXCEPT !.state = "exited", !.key = "none", !.deadline = NoTime]]
  BY <1>1
<1> DEFINE rec == Ready(threads, S)[t]
<1>3. /\ rec \in ThreadRec /\ rec.pid = threads[t].pid
      /\ threads'[t] = [rec EXCEPT !.state = "exited", !.key = "none", !.deadline = NoTime]
  <2>1. Ready(threads, S) \in Threads /\ rec.pid = threads[t].pid
    BY <1>0, ReadyLemma
  <2> QED BY <1>2, <2>1 DEF Threads
<1> HIDE DEF rec
<1> QED BY <1>3 DEF ThreadRec

\* A thread that has a slot keeps its owner.
LEMMA OwnersStay ==
    ASSUME IInv, [Next]_vars, NEW t \in Tid, threads[t].pid \in Pid
    PROVE  threads'[t].pid = threads[t].pid
<1>0. threads \in Threads
  BY Basics
<1>1. CASE BlockOnChildren(t)
  BY <1>0, <1>1 DEF BlockOnChildren, BlockOn, GuestHandOff, Threads, ThreadRec
<1>2. CASE ExitThread(t)
  BY <1>2, ExitedThread
<1> QED BY <1>1, <1>2, ThreadSteps DEF KeptThread, Departed, Moved, StillBorn, SameOwner

\* A process to which nothing happened, or which attached or was collected
SameFate(rec, rec2) ==
    /\ rec2.spec = rec.spec /\ rec2.parent = rec.parent /\ rec2.killed = rec.killed
    /\ rec.reaped => rec2.reaped
    /\ rec2.state = rec.state \/ (rec.state = "starting" /\ rec2.state = "live")

\* What else may become of a slot
Fell(p) ==
    /\ CrashAction(p) /\ UNCHANGED real
    /\ procs'[p].spec = procs[p].spec /\ procs'[p].parent = procs[p].parent
    /\ procs'[p].state = procs[p].state /\ procs'[p].killed
Buries(p) ==
    /\ Bury /\ p = launcher.proc /\ real[p] = "reaped" /\ UNCHANGED real
    /\ procs'[p].spec = procs[p].spec /\ procs'[p].parent = procs[p].parent
    /\ procs'[p].killed = procs[p].killed /\ procs'[p].state = "exited"
TakesSlot(p) ==
    /\ p = run.nprocs + 1 /\ ~procs'[p].killed
    /\ \/ procs'[p].state = "starting"
       \/ procs'[p].state = "exited" /\ procs'[p].reaped /\ procs'[p].spec = 0 /\ UNCHANGED real

\* Everything that ever becomes of a slot of the table.
LEMMA FateSteps ==
    ASSUME IInv, IInv', [Next]_vars, NEW p \in Pid
    PROVE  SameFate(procs[p], procs'[p]) \/ Fell(p) \/ Buries(p) \/ TakesSlot(p)
<1>0. procs \in Procs /\ run.nprocs \in Nat
  BY Basics DEF RunRec
<1>1. CASE CoreKept
  BY <1>1 DEF CoreKept, SameCore, SameFate
<1>2. CASE \E t \in Tid : CheckChildren(t)
  BY <1>2, CollectTable DEF SameFate
<1>3. CASE \E q \in Pid : Attach(q)
  <2>1. PICK q \in Pid : Attach(q)
    BY <1>3
  <2>2. \/ SameLife(procs[p], procs'[p])
        \/ /\ procs[p].state = "starting" /\ ~procs[p].killed
           /\ procs'[p].state = "live" /\ ~procs'[p].killed
           /\ procs'[p].spec = procs[p].spec /\ procs'[p].parent = procs[p].parent
           /\ procs'[p].reaped = procs[p].reaped
    BY <2>1, AttachTable
  <2>3. procs[p].killed \in BOOLEAN /\ procs'[p].killed \in BOOLEAN
    BY <1>0 DEF IInv, Base, TypeOK, Procs, ProcRec
  <2> QED BY <2>2, <2>3 DEF SameLife, SameCore, SameFate
<1>4. CASE UNCHANGED real /\ \E v \in Pid : CrashAction(v)
  <2>1. PICK v \in Pid : CrashAction(v)
    BY <1>4
  <2>2. PICK pr2, rn :
           /\ pr2 \in Procs /\ rn \in RunRec /\ rn.nprocs = run.nprocs
           /\ Crashed(procs, pr2, v) /\ Succeeded(Bereaved(v), pr2, rn, v, TRUE)
    BY <2>1 DEF CrashAction, CrashStep
  <2>3. SameSlot(pr2[p], procs'[p]) \/ (p = run.nprocs + 1 /\ Newborn(procs'[p], NoProc, pr2[v].spec))
    BY <2>2, SucceededSlot
  <2>4. CASE p = run.nprocs + 1 /\ Newborn(procs'[p], NoProc, pr2[v].spec)
    BY <2>4 DEF Newborn, TakesSlot
  <2>5. CASE SameSlot(pr2[p], procs'[p])
    BY <1>4, <2>1, <2>2, <2>5 DEF Crashed, SameLife, SameCore, SameSlot, SameFate, Fell
  <2> QED BY <2>3, <2>4, <2>5
<1>5. CASE Bury
  <2>1. PICK pr2 :
           /\ pr2 \in Procs /\ Buried(procs, pr2, launcher.proc)
           /\ procs' = pr2 \/ Succeeded(Bereaved(launcher.proc), pr2, run, launcher.proc, launcher.failed)
    BY <1>5, BurySteps
  <2>2. SameSlot(pr2[p], procs'[p]) \/ (p = run.nprocs + 1 /\ Newborn(procs'[p], NoProc, pr2[launcher.proc].spec))
    BY <2>1, SucceededSlot DEF SameSlot
  <2>3. CASE p = run.nprocs + 1 /\ Newborn(procs'[p], NoProc, pr2[launcher.proc].spec)
    BY <2>3 DEF Newborn, TakesSlot
  <2>4. CASE SameSlot(pr2[p], procs'[p])
    <3>1. UNCHANGED real /\ real[launcher.proc] = "reaped"
      BY <1>5, BurySteps DEF Bury
    <3> QED BY <1>5, <2>1, <2>4, <3>1 DEF Buried, SameLife, SameCore, SameSlot, SameFate, Buries
  <2> QED BY <2>2, <2>3, <2>4
<1>6. CASE \E t \in Tid : SpawnChild(t) \/ Exhaust(t)
  <2>1. PICK t \in Tid : SpawnChild(t) \/ Exhaust(t)
    BY <1>6
  <2>2. UNCHANGED procs => SameFate(procs[p], procs'[p])
    BY DEF SameFate
  <2>3. p # run.nprocs + 1 /\ ~UNCHANGED procs => procs'[p] = procs[p]
    BY <2>1, ChildSlot
  <2>4. p = run.nprocs + 1 /\ ~UNCHANGED procs => TakesSlot(p)
    BY <2>1, ChildSlot DEF TakesSlot
  <2> QED BY <2>2, <2>3, <2>4 DEF SameFate
<1> QED BY <1>1, <1>2, <1>3, <1>4, <1>5, <1>6, ProcSteps, CoreSteps


\* What a parent waits with: a spawning program whose threads never leave by
\* pthread_exit and whose processes all attach
SpawnersJoin ==
    \A P \in Programs : "spawn" \in P => "bootfail" \notin P /\ "pthread_exit" \notin P

\* A process that is dead for real, by no crash, and that the schedule has
\* not heard of
Unheard(p) ==
    real[p] \in {"exit0", "failed", "reaped"} /\ ~procs[p].killed /\ procs[p].state # "exited"

\* A process that is over has been seen dead, or never was.
ExitedSeen ==
    \A p \in Pid : procs[p].state = "exited" =>
        real[p] = "reaped" \/ (real[p] = "none" /\ procs[p].spec = 0)

\* No slot is crashed that nobody took.
SlotsClean == \A p \in Pid : procs[p].state = "unused" => ~procs[p].killed

\* The supervisor's loop ends with the baton at rest.
OverQuiet == launcher.at = "over" => pick.phase = "none"

\* In a run of such a program no thread leaves by itself, and who dies
\* unheard had the baton.
SilentHolds ==
    "spawn" \in Calls =>
        /\ \A t \in Tid : pc[t] # "leaving"
        /\ \A t \in Tid : threads[t].state = "exited" =>
             procs[threads[t].pid].killed \/ procs[threads[t].pid].state = "exited"
        /\ \A p \in Pid : Unheard(p) =>
             \/ launcher.at = "over"
             \/ /\ pick.phase = "none" /\ run.current # NoThread
                /\ threads[run.current].pid = p

\* Only such a program's threads wait for children, and who does, or is about
\* to, has none that is dead.
WaitHolds ==
    \A t \in Tid :
        /\ (threads[t].state = "blocked" /\ threads[t].key = "wait") \/ pc[t] = "blocking" =>
             ExitedChildren(threads[t].pid) = {}
        /\ threads[t].key = "wait" \/ pc[t] \in {"blocking", "checking"} => "spawn" \in Calls

ChildHolds == ExitedSeen /\ SlotsClean /\ OverQuiet /\ SilentHolds /\ WaitHolds

\* A process that is over stays over, and was seen.
LEMMA ExitedSeenStep ==
    ASSUME IInv, IInv', OneLifeHolds, ExitedSeen, [Next]_vars PROVE ExitedSeen'
<1> SUFFICES ASSUME NEW p \in Pid, procs'[p].state = "exited"
             PROVE  real'[p] = "reaped" \/ (real'[p] = "none" /\ procs'[p].spec = 0)
  BY DEF ExitedSeen
<1>1. CASE SameFate(procs[p], procs'[p])
  <2>1. /\ real[p] = "reaped" \/ (real[p] = "none" /\ procs[p].spec = 0)
        /\ procs'[p].spec = procs[p].spec
    BY <1>1 DEF SameFate, ExitedSeen
  <2>2. real[p] = "none" /\ procs[p].spec = 0 => real'[p] = "none"
    <3>1. Respawn /\ p = procs[launcher.proc].replacedBy => procs[p].spec # 0
      <4>1. Respawn => launcher.proc \in Pid
        BY DEF IInv, Base, Safe, Launching, Respawn
      <4> QED BY <4>1 DEF OneLifeHolds, Successors, NoProc, Pid
    <3>2. ASSUME NEW t \in Tid, SpawnChild(t), p = run.nprocs + 1 PROVE UNCHANGED real
      <4>1. UNCHANGED real \/ procs' = [procs EXCEPT ![p] = [FreshProc(Owner(t), 0) EXCEPT !.known = TRUE]]
        BY <3>2 DEF SpawnChild
      <4>2. [FreshProc(Owner(t), 0) EXCEPT !.known = TRUE].state = "starting"
        BY DEF FreshProc
      <4> QED BY <4>1, <4>2, Basics DEF Procs
    <3>3. UNCHANGED real => (real[p] = "none" => real'[p] = "none")
      OBVIOUS
    <3> QED BY <3>1, <3>2, <3>3, RealSteps
  <2> QED BY <2>1, <2>2, RealSteps
<1>2. CASE Fell(p)
  BY <1>2 DEF Fell, ExitedSeen
<1>3. CASE Buries(p)
  BY <1>3 DEF Buries
<1>4. CASE TakesSlot(p)
  <2>1. real[p] = "none"
    BY <1>4, Basics DEF TakesSlot, IInv, Base, Safe, Placed, RunRec
  <2> QED BY <1>4, <2>1 DEF TakesSlot
<1> QED BY <1>1, <1>2, <1>3, <1>4, FateSteps


\* The end of the loop is final.
LEMMA OverStep ==
    ASSUME IInv, OverQuiet, [Next]_vars
    PROVE  OverQuiet' /\ (launcher.at = "over" => launcher'.at = "over")
<1>1. CASE PickStep
  <2>1. launcher.at # "over"
    BY <1>1 DEF OverQuiet, PickStep, Tick, InjectCrash, InjectShutdown, Jump, Choose, IdleGuest,
                IdleLauncher, Idle, FaultsDone
  <2>2. CASE \/ IdleGuest \/ IdleLauncher \/ \E t \in Tid : Choose(t)
    <3>1. pick' = NoPick
      BY <2>2, Zenon DEF IdleGuest, IdleLauncher, Choose
    <3>2. pick'.phase = "none"
      BY <3>1 DEF NoPick
    <3> QED BY <2>1, <3>2 DEF OverQuiet
  <2>3. CASE Tick \/ InjectCrash \/ InjectShutdown \/ Jump
    BY <2>1, <2>3 DEF OverQuiet, Tick, InjectCrash, InjectShutdown, Jump
  <2> QED BY <1>1, <2>2, <2>3 DEF PickStep
<1>2. CASE \E t \in Tid : Return(t) \/ Guest(t)
  <2>1. PICK t \in Tid : Return(t) \/ Guest(t)
    BY <1>2
  <2>2. UNCHANGED launcher
    BY <2>1, GuestKeeps
  <2>3. launcher.at # "over"
    BY <2>1 DEF Return, DieStopped, TakeUp, SettleDeaths, AwaitAttach, CheckChildren,
                BlockOnChildren, Poll, PollGivesUp, Kill, Signal, Strikes, MayTakeUp, LockFree,
                Guest, Runs, Yield, Block, Wake, CreateThread, Exhaust, ExitThread, ExitProcess,
                ReadClock, SetTimer, SpawnChild, Waitpid, Aim
  <2> QED BY <2>2, <2>3 DEF OverQuiet
<1>3. CASE Aside
  BY <1>3 DEF Aside, Leave, OutsideWake, Slain, Attach, FailToAttach, OverQuiet
<1>4. CASE LauncherStep
  <2>1. LockFree
    BY <1>4 DEF LauncherStep, Start, Started, EndRun, Bury, Respawn, Finish, NoticeExit
  <2>2. CASE Finish
    BY <2>1, <2>2 DEF Finish, OverQuiet, LockFree
  <2>3. CASE ~Finish
    <3>1. launcher'.at # "over"
      <4>1. launcher \in [ at: {"booting", "started", "serving", "ending", "burying", "handing",
                                "respawning", "over"},
                           proc: Pid \cup {NoProc}, failed: BOOLEAN,
                           started: BOOLEAN, stopping: BOOLEAN ]
        BY DEF IInv, Base, TypeOK
      <4> QED BY <1>4, <2>3, <4>1 DEF LauncherStep, Start, Started, EndRun, Bury, Respawn, NoticeExit
    <3> QED BY <2>1, <3>1 DEF OverQuiet, LockFree
  <2> QED BY <2>2, <2>3
<1>5. CASE UNCHANGED vars
  BY <1>5 DEF vars, OverQuiet
<1> QED BY <1>1, <1>2, <1>3, <1>4, <1>5 DEF Next, Over

\* How a thread comes to be where it waits for children, or leaves.
LEMMA PcSteps ==
    ASSUME IInv, [Next]_vars, NEW t \in Tid
    PROVE  /\ pc'[t] = "leaving" =>
                \/ pc[t] = "leaving"
                \/ /\ pick.phase # "none" /\ pick.by = "guest" /\ t = pick.me
                   /\ Released[t].state = "exited" /\ ~procs[Owner(t)].killed
           /\ pc'[t] = "blocking" => pc[t] = "blocking" \/ CheckChildren(t)
           /\ pc'[t] = "checking" =>
                \/ pc[t] \in {"blocking", "checking"}
                \/ Waitpid(t) \/ threads[t].key = "wait"
<1> DEFINE Goal ==
             /\ pc'[t] = "leaving" =>
                  \/ pc[t] = "leaving"
                  \/ /\ pick.phase # "none" /\ pick.by = "guest" /\ t = pick.me
                     /\ Released[t].state = "exited" /\ ~procs[Owner(t)].killed
             /\ pc'[t] = "blocking" => pc[t] = "blocking" \/ CheckChildren(t)
             /\ pc'[t] = "checking" =>
                  \/ pc[t] \in {"blocking", "checking"}
                  \/ Waitpid(t) \/ threads[t].key = "wait"
<1>0. pc \in [Tid -> Pcs]
  BY Basics
<1>1. pc'[t] = pc[t] \/ pc'[t] \in {"gone", "parked", "boot", "guest", "polling", "awaiting", "killing", "settling"} => Goal
  OBVIOUS
<1>2. CASE PickStep
  <2>0. pick.phase # "none"
    BY <1>2 DEF PickStep, Tick, InjectCrash, InjectShutdown, Jump, Choose, IdleGuest,
                IdleLauncher, Idle, FaultsDone
  <2>1. AfterHandOff(Released)[t] \in {pc[t], "parked"} \/
        (/\ pick.by = "guest" /\ t = pick.me
         /\ Released[t].state = "exited" /\ ~procs[Owner(t)].killed
         /\ AfterHandOff(Released)[t] = "leaving")
    BY <1>0 DEF AfterHandOff
  <2>2. pc'[t] = AfterHandOff(Released)[t] => Goal
    BY <2>0, <2>1
  <2>3. CASE IdleGuest
    <3>1. PICK pcs, dead :
             /\ pc' = ThreadsGone(pcs, dead)
             /\ pcs = [pc EXCEPT ![pick.me] = "polling"] \/ pcs = AfterHandOff(Released)
      BY <2>3 DEF IdleGuest
    <3>2. pc'[t] = "gone" \/ pc'[t] = pcs[t]
      BY <3>1 DEF ThreadsGone
    <3>3. [pc EXCEPT ![pick.me] = "polling"][t] \in {pc[t], "polling"}
      BY <1>0
    <3> QED BY <1>1, <2>2, <3>1, <3>2, <3>3
  <2>4. CASE IdleLauncher
    <3>1. UNCHANGED pc \/ pc' = ThreadsGone(pc, Pid)
      BY <2>4 DEF IdleLauncher
    <3> QED BY <1>0, <1>1, <3>1 DEF ThreadsGone
  <2>5. CASE \E u \in Tid : Choose(u)
    BY <2>2, <2>5 DEF Choose
  <2>6. CASE Tick \/ InjectCrash \/ InjectShutdown \/ Jump
    BY <1>1, <2>6 DEF Tick, InjectCrash, InjectShutdown, Jump
  <2> QED BY <1>2, <2>3, <2>4, <2>5, <2>6 DEF PickStep
<1>3. CASE \E u \in Tid : Return(u)
  <2>0. PICK u \in Tid : Return(u)
    BY <1>3
  <2>1. CASE DieStopped(u) \/ PollGivesUp(u) \/ Poll(u) \/ SettleDeaths(u) \/ AwaitAttach(u)
    BY <1>0, <1>1, <2>1 DEF DieStopped, PollGivesUp, Poll, SettleDeaths, AwaitAttach, Goes, ThreadsGone
  <2>2. CASE TakeUp(u)
    <3>1. pc' = ThreadsGone(pc, {Owner(u)}) => Goal
      BY <1>0, <1>1 DEF ThreadsGone
    <3>2. Goes(u, IF threads[u].key = "wait" THEN "checking" ELSE "guest") => Goal
      BY <1>0, <1>1 DEF Goes
    <3> QED BY <2>2, <3>1, <3>2 DEF TakeUp
  <2>3. CASE CheckChildren(u)
    <3>1. pc'[t] = pc[t] \/ (t = u /\ pc'[t] \in {"blocking", "guest"})
      BY <1>0, <2>3 DEF CheckChildren, Goes
    <3> QED BY <1>1, <2>3, <3>1
  <2>4. CASE BlockOnChildren(u)
    <3>1. pc'[t] = pc[t] \/ (t = u /\ pc[t] = "blocking" /\ pc'[t] \in {"parked", "checking"})
      BY <1>0, <2>4 DEF BlockOnChildren, BlockOn, Goes
    <3> QED BY <1>1, <3>1
  <2>5. CASE \E q \in Pid : Kill(u, q) \/ Signal(u, q)
    BY <1>0, <1>1, <2>5 DEF Kill, Signal, Goes
  <2> QED BY <2>0, <2>1, <2>2, <2>3, <2>4, <2>5 DEF Return
<1>4. CASE \E u \in Tid : Guest(u)
  <2>0. PICK u \in Tid : Guest(u)
    BY <1>4
  <2>1. CASE Yield(u) \/ Block(u) \/ ExitThread(u)
    BY <1>0, <1>1, <2>1 DEF Yield, Block, BlockOn, ExitThread, Goes
  <2>2. CASE Wake(u) \/ ReadClock(u) \/ SetTimer(u)
    BY <1>1, <2>2 DEF Wake, ReadClock, SetTimer
  <2>3. CASE CreateThread(u)
    BY <1>0, <1>1, <2>3 DEF CreateThread
  <2>4. CASE Exhaust(u) \/ ExitProcess(u)
    BY <1>0, <1>1, <2>4 DEF Exhaust, ExitProcess, ThreadsGone
  <2>5. CASE SpawnChild(u)
    BY <1>0, <1>1, <2>5 DEF SpawnChild
  <2>6. CASE Waitpid(u)
    <3>1. pc'[t] = pc[t] \/ (t = u /\ pc'[t] = "checking")
      BY <1>0, <2>6 DEF Waitpid, Goes
    <3> QED BY <1>1, <2>6, <3>1
  <2>7. CASE \E q \in Pid : Aim(u, q)
    BY <1>0, <1>1, <2>7 DEF Aim, Goes
  <2> QED BY <2>0, <2>1, <2>2, <2>3, <2>4, <2>5, <2>6, <2>7 DEF Guest
<1>5. CASE Aside
  <2>1. CASE \E u \in Tid : Leave(u)
    BY <1>0, <1>1, <2>1 DEF Leave, Goes
  <2>2. CASE \E p \in Pid : OutsideWake(p) \/ Slain(p) \/ Attach(p) \/ FailToAttach(p)
    BY <1>0, <1>1, <2>2 DEF OutsideWake, Slain, Attach, FailToAttach, ThreadsGone
  <2> QED BY <1>5, <2>1, <2>2 DEF Aside
<1>6. CASE LauncherStep
  BY <1>0, <1>1, <1>6 DEF LauncherStep, Start, Started, EndRun, Bury, Respawn, Finish, NoticeExit
<1>7. CASE UNCHANGED vars
  BY <1>1, <1>7 DEF vars
<1> QED BY <1>2, <1>3, <1>4, <1>5, <1>6, <1>7 DEF Next, Over


\* Who is dead for real was there before, and died by its own doing with the
\* baton in hand, of a thread that left, of a crash, on the way in, or with
\* the run.
LEMMA DeathOrigin ==
    ASSUME IInv, [Next]_vars, NEW p \in Pid, real'[p] \in {"exit0", "failed", "reaped"}
    PROVE  \/ real[p] \in {"exit0", "failed", "reaped"} /\ real'[p] \in {real[p], "reaped"}
           \/ /\ pick'.phase = "none" /\ run.current # NoThread
              /\ run'.current = run.current /\ threads[run.current].pid = p
           \/ (\E t \in Tid : Leave(t)) /\ real'[p] = "exit0"
           \/ procs[p].killed
           \/ FailToAttach(p)
           \/ launcher'.at = "over" /\ real'[p] = "reaped"
<1> DEFINE Goal == \/ real[p] \in {"exit0", "failed", "reaped"} /\ real'[p] \in {real[p], "reaped"}
                   \/ /\ pick'.phase = "none" /\ run.current # NoThread
                      /\ run'.current = run.current /\ threads[run.current].pid = p
                   \/ (\E t \in Tid : Leave(t)) /\ real'[p] = "exit0"
                   \/ procs[p].killed
                   \/ FailToAttach(p)
                   \/ launcher'.at = "over" /\ real'[p] = "reaped"
<1>0. real \in [Pid -> {"none", "up", "exit0", "failed", "reaped"}] /\ run \in RunRec
  BY Basics DEF IInv, Base, TypeOK
<1>1. UNCHANGED real => Goal
  OBVIOUS
<1>2. ASSUME NEW q, NEW status, RealDeath({q}, status) PROVE p = q \/ Goal
  BY <1>0, <1>2 DEF RealDeath
<1>3. ASSUME NEW t \in Tid, t = run.current, UNCHANGED pick, pick.phase = "none",
             run'.current = run.current, NEW status, RealDeath({Owner(t)}, status)
      PROVE  Goal
  <2>1. p = Owner(t) \/ Goal
    BY <1>2, <1>3
  <2>2. run.current # NoThread /\ pick'.phase = "none"
    BY <1>3, SizesAssumption DEF Tid, NoThread
  <2> QED BY <1>3, <2>1, <2>2 DEF Owner
<1>4. CASE PickStep
  <2>1. CASE IdleGuest
    <3>1. PICK dead : RealDeath(dead, "failed") /\ dead \in {{}, {Owner(pick.me)}}
      BY <2>1 DEF IdleGuest
    <3>2. pick' = NoPick /\ pick.by = "guest" /\ pick.phase # "none"
      BY <2>1, Zenon DEF IdleGuest, Idle, FaultsDone
    <3>3. pick'.phase = "none" /\ run.current = pick.me /\ pick.me \in Tid
      BY <3>2 DEF NoPick, IInv, Base, Safe, HandingOver
    <3>4. run' = [run EXCEPT !.unsignalled = FALSE]
      BY <2>1, Zenon DEF IdleGuest
    <3>5. run'.current = run.current
      BY <1>0, <3>4 DEF RunRec
    <3>6. CASE dead = {}
      BY <1>0, <3>1, <3>6 DEF RealDeath
    <3>7. CASE dead = {Owner(pick.me)}
      <4>1. p = Owner(pick.me) \/ Goal
        BY <1>2, <3>1, <3>7
      <4> QED BY <3>3, <3>5, <4>1 DEF Owner, Tid, NoThread
    <3> QED BY <3>1, <3>6, <3>7
  <2>2. CASE IdleLauncher
    <3>1. \/ UNCHANGED real
          \/ /\ launcher' = [launcher EXCEPT !.at = "over"]
             /\ real' = [q \in Pid |-> IF real[q] = "none" THEN "none" ELSE "reaped"]
      BY <2>2 DEF IdleLauncher
    <3>2. [launcher EXCEPT !.at = "over"].at = "over"
      BY DEF IInv, Base, TypeOK
    <3> QED BY <1>1, <3>1, <3>2
  <2>3. CASE ~IdleGuest /\ ~IdleLauncher
    BY <1>1, <1>4, <2>3 DEF PickStep, Tick, InjectCrash, InjectShutdown, Jump, Choose
  <2> QED BY <2>1, <2>2, <2>3
<1>5. CASE \E t \in Tid : Return(t)
  <2>0. PICK t \in Tid : Return(t)
    BY <1>5
  <2>1. CASE DieStopped(t) \/ TakeUp(t) \/ PollGivesUp(t)
    <3>1. UNCHANGED <<run, pick>> /\ pick.phase = "none" /\ run.current = t
      BY <2>1 DEF DieStopped, TakeUp, PollGivesUp, MayTakeUp, LockFree, IInv, Base, Safe, PollersIdle
    <3>2. UNCHANGED real \/ RealDeath({Owner(t)}, "failed")
      BY <2>1 DEF DieStopped, TakeUp, PollGivesUp
    <3> QED BY <1>1, <1>3, <3>1, <3>2
  <2>2. CASE SettleDeaths(t) \/ AwaitAttach(t) \/ CheckChildren(t) \/ BlockOnChildren(t) \/ Poll(t)
    BY <1>1, <2>2 DEF SettleDeaths, AwaitAttach, CheckChildren, BlockOnChildren, Poll
  <2>3. CASE \E q \in Pid : Kill(t, q) \/ Signal(t, q)
    BY <1>1, <2>3 DEF Kill, Signal
  <2> QED BY <2>0, <2>1, <2>2, <2>3 DEF Return
<1>6. CASE \E t \in Tid : Guest(t)
  <2>0. PICK t \in Tid : Guest(t)
    BY <1>6
  <2>1. CASE Exhaust(t) \/ ExitProcess(t)
    <3>1. UNCHANGED pick /\ pick.phase = "none" /\ run.current = t
      BY <2>1 DEF Exhaust, ExitProcess, Runs, LockFree, Inside, IInv, Base, Safe, OneHolder
    <3>2. run'.current = run.current
      BY <1>0, <2>1 DEF Exhaust, ExitProcess, RunRec
    <3>3. \E status : RealDeath({Owner(t)}, status)
      BY <2>1 DEF Exhaust, ExitProcess
    <3> QED BY <1>3, <3>1, <3>2, <3>3
  <2>2. CASE SpawnChild(t)
    <3>1. real' = real \/ real' = [real EXCEPT ![run.nprocs + 1] = "up"]
      BY <2>2 DEF SpawnChild
    <3> QED BY <1>0, <1>1, <3>1
  <2>3. CASE ~SpawnChild(t) /\ ~Exhaust(t) /\ ~ExitProcess(t)
    BY <1>1, <2>0, <2>3 DEF Guest, Yield, Block, Wake, CreateThread, ExitThread, ReadClock,
                            SetTimer, Waitpid, Aim
  <2> QED BY <2>1, <2>2, <2>3
<1>7. CASE Aside
  <2>1. CASE \E q \in Pid : Slain(q)
    <3>1. PICK q \in Pid : Slain(q)
      BY <2>1
    <3>2. p = q \/ Goal
      BY <1>2, <3>1 DEF Slain
    <3> QED BY <3>1, <3>2 DEF Slain, IInv, Base, Safe, OnlyCrashedSignalled
  <2>2. CASE \E q \in Pid : Attach(q)
    <3>1. PICK q \in Pid : Attach(q)
      BY <2>2
    <3>2. UNCHANGED real \/ (procs[q].killed /\ RealDeath({q}, "failed"))
      BY <3>1 DEF Attach
    <3> QED BY <1>1, <1>2, <3>2
  <2>3. CASE \E q \in Pid : FailToAttach(q)
    BY <1>2, <2>3 DEF FailToAttach
  <2>4. CASE \E q \in Pid : OutsideWake(q)
    BY <1>1, <2>4 DEF OutsideWake
  <2>5. CASE \E t \in Tid : Leave(t)
    <3>1. PICK t \in Tid : Leave(t)
      BY <2>5
    <3>2. UNCHANGED real \/ RealDeath({Owner(t)}, "exit0")
      BY <3>1 DEF Leave
    <3>3. real'[p] \in {real[p], "exit0"}
      BY <1>0, <3>2 DEF RealDeath
    <3> QED BY <3>1, <3>3
  <2> QED BY <1>7, <2>1, <2>2, <2>3, <2>4, <2>5 DEF Aside
<1>8. CASE LauncherStep
  <2>1. CASE Respawn
    BY <1>0, <2>1 DEF Respawn
  <2>2. CASE \E q \in Pid : NoticeExit(q)
    BY <1>0, <2>2 DEF NoticeExit, Dead
  <2>3. CASE ~Respawn /\ ~(\E q \in Pid : NoticeExit(q))
    BY <1>1, <1>8, <2>3 DEF LauncherStep, Start, Started, EndRun, Bury, Finish
  <2> QED BY <2>1, <2>2, <2>3
<1>9. CASE UNCHANGED vars
  BY <1>1, <1>9 DEF vars
<1> QED BY <1>4, <1>5, <1>6, <1>7, <1>8, <1>9 DEF Next, Over

\* The baton leaves its place in the hands of a thread that is there, with
\* the start, or when its holder is buried.
LEMMA BatonSteps ==
    ASSUME IInv, [Next]_vars, pick.phase = "none"
    PROVE  \/ pick'.phase = "none" /\ run'.current = run.current
           \/ \E t \in Tid : Active(t) /\ run.current = t
           \/ run.current = NoThread
           \/ Bury /\ HeldBy(launcher.proc)
<1>0. run \in RunRec /\ launcher.proc \in Pid \cup {NoProc}
  BY Basics DEF IInv, Base, TypeOK
<1>1. UNCHANGED <<pick, run>> => pick'.phase = "none" /\ run'.current = run.current
  OBVIOUS
<1>2. ~PickStep
  BY DEF PickStep, Tick, InjectCrash, InjectShutdown, Jump, Choose, IdleGuest,
         IdleLauncher, Idle, FaultsDone
<1>3. ASSUME NEW t \in Tid, Return(t) \/ Guest(t)
      PROVE  \/ UNCHANGED <<pick, run>>
             \/ Active(t) /\ run.current = t
  <2>1. CASE DieStopped(t) \/ TakeUp(t) \/ SettleDeaths(t) \/ AwaitAttach(t) \/ CheckChildren(t) \/ PollGivesUp(t)
    BY <2>1 DEF DieStopped, TakeUp, SettleDeaths, AwaitAttach, CheckChildren, PollGivesUp
  <2>2. CASE BlockOnChildren(t) \/ Poll(t) \/ Guest(t) \/ \E q \in Pid : Kill(t, q) \/ Signal(t, q)
    <3>1. pc[t] \in {"blocking", "polling", "guest", "killing"}
      <4>1. Guest(t) => pc[t] = "guest"
        BY DEF Guest, Yield, Block, Wake, CreateThread, Exhaust, ExitThread, ExitProcess, ReadClock,
               SetTimer, SpawnChild, Waitpid, Aim, Runs
      <4> QED BY <2>2, <4>1 DEF BlockOnChildren, Poll, Kill, Signal, Strikes
    <3> QED BY <3>1 DEF Active, IInv, Base, Safe, OneHolder, PollersIdle, Inside
  <2> QED BY <1>3, <2>1, <2>2 DEF Return
<1>4. CASE Aside
  BY <1>4 DEF Aside, Leave, OutsideWake, Slain, Attach, FailToAttach
<1>5. CASE LauncherStep
  <2>1. CASE Start
    BY <2>1 DEF Start, IInv, Base, Safe, Launching
  <2>2. CASE Bury
    <3>1. CASE HeldBy(launcher.proc)
      BY <2>2, <3>1
    <3>2. CASE ~HeldBy(launcher.proc)
      <4>1. UNCHANGED pick
        BY <2>2, <3>2, Zenon DEF Bury
      <4>2. PICK pr2 : run' = run \/ Succeeded(Bereaved(launcher.proc), pr2, run, launcher.proc, launcher.failed)
        BY <2>2, BurySteps
      <4>3. run'.current = run.current
        BY <1>0, <4>2, SucceededRun
      <4> QED BY <4>1, <4>3
    <3> QED BY <3>1, <3>2
  <2>3. CASE Started \/ EndRun \/ Respawn
    BY <1>0, <2>3 DEF Started, EndRun, Respawn, StopNow, RunRec
  <2>4. CASE Finish \/ \E p \in Pid : NoticeExit(p)
    BY <2>4 DEF Finish, NoticeExit
  <2> QED BY <1>5, <2>1, <2>2, <2>3, <2>4 DEF LauncherStep
<1>6. CASE UNCHANGED vars
  BY <1>6 DEF vars
<1> QED BY <1>1, <1>2, <1>3, <1>4, <1>5, <1>6 DEF Next, Over


\* process_died makes the death known, and the slot was taken long ago.
LEMMA BuriedSlot ==
    ASSUME IInv, Bury
    PROVE  /\ launcher.proc \in Pid /\ procs'[launcher.proc].state = "exited"
           /\ procs'[launcher.proc].reaped = procs[launcher.proc].reaped
<1> DEFINE v == launcher.proc
<1>1. v \in Pid /\ real[v] = "reaped"
  BY BurySteps
<1>2. v <= run.nprocs /\ run.nprocs \in Nat
  BY <1>1, Basics DEF IInv, Base, Safe, Placed, RunRec
<1>3. PICK pr2 :
         /\ pr2 \in Procs /\ Buried(procs, pr2, v)
         /\ procs' = pr2 \/ Succeeded(Bereaved(v), pr2, run, v, launcher.failed)
  BY BurySteps
<1>4. SameSlot(pr2[v], procs'[v])
  <2>1. v # run.nprocs + 1
    BY <1>2
  <2>2. CASE procs' = pr2
    BY <2>2 DEF SameSlot
  <2>3. CASE Succeeded(Bereaved(v), pr2, run, v, launcher.failed)
    <3>1. SameSlot(pr2[v], procs'[v]) \/ v = run.nprocs + 1
      BY <1>1, <1>3, <2>3, SucceededSlot
    <3> QED BY <2>1, <3>1
  <2> QED BY <1>3, <2>2, <2>3
<1> QED BY <1>1, <1>3, <1>4 DEF Buried, SameSlot

\* What a program does not call it never calls (run.calls is drawn once).
LEMMA SpawnerCalls ==
    ASSUME SpawnersJoin, IInv, [Next]_vars, "spawn" \in Calls'
    PROVE  "spawn" \in Calls /\ "bootfail" \notin Calls /\ "pthread_exit" \notin Calls
<1>1. run'.calls = run.calls
  BY RunStays
<1>2. run.calls \in Programs
  BY Basics DEF RunRec
<1> QED BY <1>1, <1>2 DEF SpawnersJoin, Calls

\* Nobody leaves: its process would have to be crashed or buried, and then it
\* parks or is not there.
LEMMA NobodyLeaves ==
    ASSUME IInv, ExitedSeen, SilentHolds, "spawn" \in Calls, [Next]_vars, NEW t \in Tid
    PROVE  pc'[t] # "leaving"
<1>1. SUFFICES ASSUME pc'[t] = "leaving" PROVE FALSE
  OBVIOUS
<1>2. /\ pick.phase # "none" /\ pick.by = "guest" /\ t = pick.me
      /\ Released[t].state = "exited" /\ ~procs[Owner(t)].killed
  BY <1>1, PcSteps DEF SilentHolds
<1>3. threads[t].state = "exited"
  BY <1>2, ReleasedLemma DEF Woken
<1>4. procs[threads[t].pid].state = "exited"
  BY <1>2, <1>3 DEF SilentHolds, Owner
<1>5. Active(t)
  BY <1>2 DEF IInv, Base, Safe, HandingOver, Active
<1>6. real[threads[t].pid] = "up" /\ threads[t].pid \in Pid
  BY <1>3, <1>5, Basics DEF IInv, Base, Safe, Tenants
<1> QED BY <1>4, <1>6 DEF ExitedSeen

\* A thread that is out of the schedule belongs to a process that is.
LEMMA ExitedWithOwner ==
    ASSUME SpawnersJoin, IInv, IInv', SilentHolds, "spawn" \in Calls', [Next]_vars,
           NEW t \in Tid, threads'[t].state = "exited"
    PROVE  procs'[threads'[t].pid].killed \/ procs'[threads'[t].pid].state = "exited"
<1>0. "spawn" \in Calls /\ "pthread_exit" \notin Calls
  BY SpawnerCalls
<1>1. CASE threads[t].state = "exited" /\ threads'[t].pid = threads[t].pid
  <2> DEFINE p == threads[t].pid
  <2>1. p \in Pid /\ p <= run.nprocs /\ run.nprocs \in Nat
    BY <1>1, Basics DEF RunRec
  <2>2. procs[p].killed \/ procs[p].state = "exited"
    BY <1>0, <1>1 DEF SilentHolds
  <2>3. SameFate(procs[p], procs'[p]) \/ Fell(p) \/ Buries(p) \/ TakesSlot(p)
    BY <2>1, FateSteps
  <2> QED BY <1>1, <2>1, <2>2, <2>3 DEF SameFate, Fell, Buries, TakesSlot
<1>2. CASE Departed(t)
  <2>1. PICK v \in Pid : /\ threads'[t].pid = v
                         /\ CrashAction(v) \/ (Bury /\ v = launcher.proc)
    BY <1>2 DEF Departed
  <2>2. v <= run.nprocs /\ run.nprocs \in Nat
    <3>1. threads[t].pid = v /\ v # NoProc
      BY <1>2, <2>1 DEF Departed, Pid, NoProc
    <3> QED BY <3>1, Basics DEF IInv, Base, Safe, Placed, RunRec
  <2>3. CASE CrashAction(v)
    <3>1. PICK pr2, rn :
           /\ pr2 \in Procs /\ rn \in RunRec /\ rn.nprocs = run.nprocs
           /\ Crashed(procs, pr2, v) /\ Succeeded(Bereaved(v), pr2, rn, v, TRUE)
      BY <2>3 DEF CrashAction, CrashStep
    <3>2. SameSlot(pr2[v], procs'[v])
      <4>1. v # rn.nprocs + 1
        BY <2>2, <3>1
      <4>2. SameSlot(pr2[v], procs'[v]) \/ v = rn.nprocs + 1
        BY <3>1, SucceededSlot
      <4> QED BY <4>1, <4>2
    <3> QED BY <2>1, <3>1, <3>2 DEF Crashed, SameSlot
  <2>4. CASE Bury /\ v = launcher.proc
    BY <2>1, <2>4, BuriedSlot
  <2> QED BY <2>1, <2>3, <2>4
<1>3. CASE StillBorn(t)
  BY <1>3 DEF StillBorn
<1>4. CASE BlockOnChildren(t)
  <2>1. threads[t].state = "running"
    BY <1>4 DEF BlockOnChildren, IInv, Base, Safe, OneHolder, Inside
  <2>2. threads'[t].state \in {"running", "blocked"}
    <3>1. threads \in Threads
      BY Basics
    <3> QED BY <1>4, <2>1, <3>1 DEF BlockOnChildren, BlockOn, GuestHandOff, Threads, ThreadRec
  <2> QED BY <2>2
<1> QED BY <1>0, <1>1, <1>2, <1>3, <1>4, ThreadSteps DEF KeptThread, Moved, ExitThread


\* Who dies unheard had the baton, and it stays where it is until the death
\* is heard of.
LEMMA UnheardStep ==
    ASSUME SpawnersJoin, IInv, IInv', ExitedSeen, OverQuiet, SilentHolds, "spawn" \in Calls',
           [Next]_vars, NEW p \in Pid, Unheard(p)'
    PROVE  \/ launcher'.at = "over"
           \/ /\ pick'.phase = "none" /\ run'.current # NoThread
              /\ threads'[run'.current].pid = p
<1>0. /\ "spawn" \in Calls /\ "bootfail" \notin Calls
      /\ run.current \in Tid \cup {NoThread} /\ run.nprocs \in Nat
  BY SpawnerCalls, Basics DEF RunRec
<1>1. ASSUME pick'.phase = "none", run.current # NoThread,
             run'.current = run.current, threads[run.current].pid = p
      PROVE  /\ pick'.phase = "none" /\ run'.current # NoThread
             /\ threads'[run'.current].pid = p
  BY <1>0, <1>1, OwnersStay
<1>2. CASE TakesSlot(p)
  <2>1. real[p] = "none"
    BY <1>0, <1>2 DEF TakesSlot, IInv, Base, Safe, Placed
  <2>2. \/ Respawn /\ p = procs[launcher.proc].replacedBy
        \/ \E t \in Tid : SpawnChild(t)
    BY <2>1, RealSteps DEF Unheard
  <2>3. real'[p] \in {"none", "up"}
    <3>1. real \in [Pid -> {"none", "up", "exit0", "failed", "reaped"}]
      BY DEF IInv, Base, TypeOK
    <3> QED BY <2>1, <2>2, <3>1 DEF Respawn, SpawnChild
  <2> QED BY <2>3 DEF Unheard
<1>3. CASE ~TakesSlot(p)
  <2>1. ~procs[p].killed /\ procs[p].state # "exited"
    BY <1>3, FateSteps DEF Unheard, SameFate, Fell, Buries
  <2>2. CASE real[p] \in {"exit0", "failed", "reaped"}
    <3>1. CASE launcher.at = "over"
      BY <3>1, OverStep
    <3>2. CASE launcher.at # "over"
      <4>1. pick.phase = "none" /\ run.current # NoThread /\ threads[run.current].pid = p
        BY <1>0, <2>1, <2>2, <3>2 DEF SilentHolds, Unheard
      <4>2. ~\E t \in Tid : Active(t) /\ run.current = t
        BY <2>2, <4>1 DEF IInv, Base, Safe, Tenants
      <4>3. ~(Bury /\ HeldBy(launcher.proc))
        BY <4>1, BuriedSlot DEF HeldBy, Owner, Unheard
      <4> QED BY <1>1, <4>1, <4>2, <4>3, BatonSteps
    <3> QED BY <3>1, <3>2
  <2>3. CASE real[p] \notin {"exit0", "failed", "reaped"}
    <3>1. ~\E t \in Tid : Leave(t)
      BY <1>0 DEF SilentHolds, Leave
    <3>2. real'[p] \in {"exit0", "failed", "reaped"}
      BY DEF Unheard
    <3>3. ~FailToAttach(p)
      BY <1>0 DEF FailToAttach
    <3> QED BY <1>1, <2>1, <2>3, <3>1, <3>2, <3>3, DeathOrigin
  <2> QED BY <2>2, <2>3
<1> QED BY <1>2, <1>3

\* How SilentHolds outlives a step
LEMMA SilentStep ==
    ASSUME SpawnersJoin, IInv, IInv', ExitedSeen, OverQuiet, SilentHolds, [Next]_vars
    PROVE  SilentHolds'
<1> SUFFICES ASSUME "spawn" \in Calls'
             PROVE  /\ \A t \in Tid : pc'[t] # "leaving"
                    /\ \A t \in Tid : threads'[t].state = "exited" =>
                         \/ procs'[threads'[t].pid].killed
                         \/ procs'[threads'[t].pid].state = "exited"
                    /\ \A p \in Pid : Unheard(p)' =>
                         \/ launcher'.at = "over"
                         \/ /\ pick'.phase = "none" /\ run'.current # NoThread
                            /\ threads'[run'.current].pid = p
  BY DEF SilentHolds
<1>1. \A t \in Tid : pc'[t] # "leaving"
  BY SpawnerCalls, NobodyLeaves
<1>2. ASSUME NEW t \in Tid, threads'[t].state = "exited"
      PROVE  procs'[threads'[t].pid].killed \/ procs'[threads'[t].pid].state = "exited"
  BY <1>2, ExitedWithOwner
<1>3. ASSUME NEW p \in Pid, Unheard(p)'
      PROVE  \/ launcher'.at = "over"
             \/ /\ pick'.phase = "none" /\ run'.current # NoThread
                /\ threads'[run'.current].pid = p
  BY <1>3, UnheardStep
<1> QED BY <1>1, <1>2, <1>3


\* A set of numbers that is not empty has a first member (first_of_pid).
LEMMA LeastNat == ASSUME NEW S \in SUBSET Nat, S # {} PROVE \E m \in S : \A n \in S : m <= n
<1> DEFINE R == {ss \in Nat \X Nat : ss[1] < ss[2]}
<1>1. IsWellFoundedOn(R, Nat)
  BY NatLessThanWellFounded DEF OpToRel
<1>2. PICK x \in S : \A y \in S : ~(<<y, x>> \in R)
  <2>1. \E x \in S : \A y \in S : ~(<<y, x>> \in R)
    BY <1>1, WFMin, Zenon
  <2> QED BY <2>1
<1>3. \A y \in S : x <= y
  <2> SUFFICES ASSUME NEW y \in S, ~(x <= y) PROVE FALSE
    OBVIOUS
  <2>1. <<y, x>> \in R
    OBVIOUS
  <2> QED BY <1>2, <2>1
<1> QED BY <1>3

\* A child that can be collected could be before, or dies now.
LEMMA ChildSteps ==
    ASSUME IInv, IInv', SlotsClean, [Next]_vars, NEW p \in Pid, NEW c, c \in ExitedChildren(p)'
    PROVE  /\ c \in Pid
           /\ \/ c \in ExitedChildren(p)
              \/ procs[c].parent = p /\ CrashAction(c)
              \/ /\ procs[c].parent = p /\ Bury /\ c = launcher.proc
                 /\ ~procs[c].killed /\ procs[c].state # "exited" /\ real[c] = "reaped"
<1>1. /\ c \in Pid /\ procs'[c].parent = p /\ procs'[c].state # "unused"
      /\ procs'[c].state = "exited" \/ procs'[c].killed
      /\ ~procs'[c].reaped
  BY DEF ExitedChildren, ChildrenOf
<1>2. procs \in Procs /\ procs[c] \in ProcRec
  BY <1>1, Basics DEF Procs
<1>3. CASE SameFate(procs[c], procs'[c])
  BY <1>1, <1>3 DEF SameFate, ExitedChildren, ChildrenOf
<1>4. CASE Fell(c)
  BY <1>1, <1>4 DEF Fell
<1>5. CASE Buries(c)
  <2>1. procs[c].killed \/ procs[c].state = "exited" => c \in ExitedChildren(p)
    <3>1. procs'[c].reaped = procs[c].reaped
      BY <1>5, BuriedSlot DEF Buries
    <3>2. procs[c].killed => procs[c].state # "unused"
      BY <1>1 DEF SlotsClean
    <3> QED BY <1>1, <1>5, <3>1, <3>2 DEF Buries, ExitedChildren, ChildrenOf
  <2> QED BY <1>1, <1>5, <2>1 DEF Buries
<1>6. CASE TakesSlot(c)
  BY <1>1, <1>6 DEF TakesSlot
<1> QED BY <1>1, <1>3, <1>4, <1>5, <1>6, FateSteps

\* A death wakes the parent that waits.
LEMMA ParentsWake ==
    ASSUME IInv, [Next]_vars, NEW c \in Pid, NEW t \in Tid,
           CrashAction(c) \/ (Bury /\ c = launcher.proc /\ ~procs[c].killed),
           threads'[t].state = "blocked", threads'[t].key = "wait"
    PROVE  threads'[t].pid # procs[c].parent
<1>1. PICK pr, rn, failed :
         /\ rn.nthreads = run.nthreads
         /\ Succeeded(Bereaved(c), pr, rn, c, failed)
  <2>1. CASE CrashAction(c)
    BY <2>1 DEF CrashAction, CrashStep
  <2>2. CASE Bury /\ c = launcher.proc /\ ~procs[c].killed
    BY <2>2, BurySteps
  <2> QED BY <2>1, <2>2
<1> QED BY <1>1, DeathThread

\* A slot is taken before its process is crashed.
LEMMA SlotsCleanStep == ASSUME IInv, IInv', SlotsClean, [Next]_vars PROVE SlotsClean'
<1> SUFFICES ASSUME NEW p \in Pid, procs'[p].state = "unused" PROVE ~procs'[p].killed
  BY DEF SlotsClean
<1>1. Fell(p) => procs[p].state # "unused"
  BY DEF Fell, CrashAction, CrashStep, Unharmed, Alive
<1> QED BY <1>1, FateSteps DEF SlotsClean, SameFate, Fell, Buries, TakesSlot

\* A thread that sleeps in waitpid has no child to collect after a step.
LEMMA SleeperStep ==
    ASSUME IInv, IInv', SlotsClean, WaitHolds, [Next]_vars, NEW t \in Tid,
           NEW p \in Pid, p = threads[t].pid,
           threads'[t].state = "blocked", threads'[t].key = "wait"
    PROVE  ExitedChildren(p)' = {}
<1>1. threads'[t].pid = p
  BY OwnersStay
<1>2. \/ threads[t].state = "blocked" /\ threads[t].key = "wait"
      \/ BlockOnChildren(t)
  <2>1. ~ExitThread(t)
    BY ExitedThread
  <2> QED BY <2>1, ThreadSteps DEF KeptThread, Departed, Moved, StillBorn
<1>3. ExitedChildren(p) = {}
  BY <1>2 DEF WaitHolds, BlockOnChildren
<1>4. SUFFICES ASSUME NEW c, c \in ExitedChildren(p)' PROVE FALSE
  OBVIOUS
<1>5. /\ c \in Pid /\ procs[c].parent = p
      /\ CrashAction(c) \/ (Bury /\ c = launcher.proc /\ ~procs[c].killed)
  BY <1>3, <1>4, ChildSteps
<1> QED BY <1>1, <1>5, ParentsWake

\* Nor has one that has looked for a child and is about to sleep.
LEMMA LookerStep ==
    ASSUME IInv, IInv', ExitedSeen, SlotsClean, SilentHolds, WaitHolds, [Next]_vars, NEW t \in Tid,
           NEW p \in Pid, p = threads[t].pid, pc'[t] = "blocking"
    PROVE  ExitedChildren(p)' = {}
<1>1. CASE CheckChildren(t)
  <2> DEFINE S == ExitedChildren(p)
  <2>1. /\ pc \in [Tid -> Pcs] /\ procs \in Procs
        /\ S \subseteq Pid
    BY Basics DEF ExitedChildren, ChildrenOf
  <2>2. FirstOf(S) = {} /\ procs' = [q \in Pid |-> IF q \in FirstOf(S) THEN [procs[q] EXCEPT !.reaped = TRUE]
                                                                   ELSE procs[q]]
    BY <1>1, <2>1 DEF CheckChildren, Goes, Owner
  <2>3. procs' = procs
    BY <2>1, <2>2 DEF Procs
  <2>4. S = {}
    <3> HIDE DEF S
    <3>1. S # {} => \E m \in S : \A n \in S : m <= n
      BY <2>1, LeastNat DEF Pid
    <3> QED BY <2>2, <3>1 DEF FirstOf
  <2> QED BY <2>3, <2>4 DEF ExitedChildren, ChildrenOf
<1>2. CASE pc[t] = "blocking"
  <2>1. ExitedChildren(p) = {} /\ "spawn" \in Calls
    BY <1>2 DEF WaitHolds
  <2>2. Inside(t) /\ Inside(t)' /\ run.current = t /\ real[p] = "up"
    BY <1>2 DEF Inside, Active, IInv, Base, Safe, OneHolder, Tenants
  <2>3. SUFFICES ASSUME NEW c, c \in ExitedChildren(p)' PROVE FALSE
    OBVIOUS
  <2>4. c \in Pid /\ ~CrashAction(c)
    <3>1. ~PickStep
      BY <2>2, PickOutside
    <3>2. ~\E u \in Tid : Kill(u, c)
      BY <1>2, <2>2 DEF Kill, Strikes, Inside, IInv, Base, Safe, OneHolder
    <3> QED BY <2>3, <3>1, <3>2, ChildSteps DEF CrashAction, PickStep
  <2>5. /\ Bury /\ c = launcher.proc
        /\ ~procs[c].killed /\ procs[c].state # "exited" /\ real[c] = "reaped"
    BY <2>1, <2>3, <2>4, ChildSteps
  <2>6. threads[run.current].pid = c
    BY <2>1, <2>4, <2>5 DEF SilentHolds, Unheard, Bury, LockFree
  <2> QED BY <2>2, <2>5, <2>6
<1> QED BY <1>1, <1>2, PcSteps

\* Only the threads of a program that spawns wait for children.
LEMMA WaiterCalls ==
    ASSUME IInv, WaitHolds, [Next]_vars, NEW t \in Tid,
           threads'[t].key = "wait" \/ pc'[t] \in {"blocking", "checking"}
    PROVE  "spawn" \in Calls'
<1>1. CASE threads'[t].key = "wait"
  <2>1. threads[t].key = "wait" \/ BlockOnChildren(t)
    BY <1>1, ExitedThread, ThreadSteps DEF KeptThread, Departed, Moved, StillBorn
  <2>2. "spawn" \in Calls
    BY <2>1 DEF WaitHolds, BlockOnChildren
  <2> QED BY <2>2, RunStays DEF Calls
<1>2. CASE pc'[t] \in {"blocking", "checking"}
  <2>1. \/ pc[t] \in {"blocking", "checking"} \/ threads[t].key = "wait"
        \/ CheckChildren(t) \/ Waitpid(t)
    BY <1>2, PcSteps
  <2>2. "spawn" \in Calls
    BY <2>1 DEF WaitHolds, CheckChildren, Waitpid
  <2> QED BY <2>2, RunStays DEF Calls
<1> QED BY <1>1, <1>2

\* How WaitHolds outlives a step
LEMMA WaitStep ==
    ASSUME IInv, IInv', ExitedSeen, SlotsClean, SilentHolds, WaitHolds, [Next]_vars
    PROVE  WaitHolds'
<1> SUFFICES ASSUME NEW t \in Tid
             PROVE  /\ \A p : p = threads'[t].pid /\ (\/ threads'[t].state = "blocked" /\ threads'[t].key = "wait"
                                                     \/ pc'[t] = "blocking")
                          => ExitedChildren(p)' = {}
                    /\ threads'[t].key = "wait" \/ pc'[t] \in {"blocking", "checking"} =>
                         "spawn" \in Calls'
  BY DEF WaitHolds
<1>1. ASSUME NEW p, p = threads'[t].pid,
             \/ threads'[t].state = "blocked" /\ threads'[t].key = "wait"
             \/ pc'[t] = "blocking"
      PROVE  ExitedChildren(p)' = {}
  <2>1. threads[t].state # "unused"
    <3>1. CASE pc'[t] = "blocking"
      BY <3>1, PcSteps, Basics DEF CheckChildren
    <3>2. CASE threads'[t].state = "blocked" /\ threads'[t].key = "wait"
      <4>1. \/ threads[t].state = "blocked" \/ BlockOnChildren(t)
        BY <3>2, ExitedThread, ThreadSteps DEF KeptThread, Departed, Moved, StillBorn
      <4> QED BY <4>1, Basics DEF BlockOnChildren
    <3> QED BY <1>1, <3>1, <3>2
  <2>2. p \in Pid /\ p = threads[t].pid
    BY <1>1, <2>1, Basics, OwnersStay
  <2> QED BY <1>1, <2>2, SleeperStep, LookerStep
<1> QED BY <1>1, WaiterCalls


\* A run begins with nobody dead and nobody waiting.
LEMMA ChildInit == ASSUME Init PROVE ChildHolds
<1>1. ASSUME NEW p \in Pid PROVE procs[p].state # "exited" /\ ~procs[p].killed
  <2>1. PICK draw : procs = [q \in Pid |-> IF q \in Entry
                               THEN [FreshProc(NoProc, q) EXCEPT !.crash = draw[q][1],
                                                                 !.shutdown = draw[q][2]]
                               ELSE NoProcRec]
    BY Zenon DEF Init
  <2>2. CASE p \in Entry
    <3>1. procs[p] = [FreshProc(NoProc, p) EXCEPT !.crash = draw[p][1], !.shutdown = draw[p][2]]
      BY <2>1, <2>2
    <3> QED BY <3>1 DEF FreshProc
  <2>3. CASE p \notin Entry
    <3>1. procs[p] = NoProcRec
      BY <2>1, <2>3
    <3> QED BY <3>1 DEF NoProcRec, FreshProc
  <2> QED BY <2>2, <2>3
<1>2. ASSUME NEW t \in Tid
      PROVE  /\ pc[t] \in {"none", "boot"} /\ threads[t].key = "none"
             /\ threads[t].state \in {"unused", "runnable"}
  BY DEF Init, FreshThread, NoThreadRec
<1>3. (\A p \in Pid : real[p] \in {"none", "up"}) /\ pick.phase = "none"
  BY DEF Init, NoPick
<1>4. ExitedSeen /\ SlotsClean /\ OverQuiet
  BY <1>1, <1>3 DEF ExitedSeen, SlotsClean, OverQuiet
<1>5. SilentHolds
  BY <1>2, <1>3 DEF SilentHolds, Unheard
<1>6. WaitHolds
  BY <1>2 DEF WaitHolds
<1> QED BY <1>4, <1>5, <1>6 DEF ChildHolds

\* Where the children of a spawning program attach and its threads do not
\* leave one by one, no thread sleeps in waitpid that has a dead child to
\* collect (crash and process_died wake the parent, and nobody dies between
\* the look and the sleep of wait_for_child).
THEOREM WaitersAreTold == ASSUME SpawnersJoin PROVE Spec => []WaitersSeeDeaths
<1>1. Init => OneLifeHolds /\ ChildHolds
  BY OneLifeInit, ChildInit
<1>2. IInv /\ IInv' /\ OneLifeHolds /\ ChildHolds /\ [Next]_vars => OneLifeHolds' /\ ChildHolds'
  BY OneLifeStep, ExitedSeenStep, SlotsCleanStep, OverStep, SilentStep, WaitStep DEF ChildHolds
<1>3. ChildHolds => WaitersSeeDeaths
  BY DEF ChildHolds, WaitHolds, WaitersSeeDeaths, Blocked, Owner
<1> QED
  BY <1>1, <1>2, <1>3, Invariance, PTL DEF Spec

----------------------------------------------------------------------------
(***************************************************************************)
(* Nothing that is due is left for the next hand-off.                      *)
(***************************************************************************)

\* Past the top of a round of `pick' a stop date that has come is taken.
StopTaken == pick.phase = "faults" /\ run.stopIn = 0 => run.stopped

\* Which steps move the hand-off, and that nothing but an injected crash or
\* shutdown changes the run while it stays where it is.
LEMMA PickMoves ==
    ASSUME [Next]_vars
    PROVE  \/ Tick \/ Jump \/ IdleGuest \/ IdleLauncher \/ \E t \in Tid : Choose(t)
           \/ (InjectCrash \/ InjectShutdown) /\ pick' = pick
           \/ pick' = pick /\ (pick.phase # "none" => run' = run)
           \/ pick.phase = "none" /\ pick'.phase = "tick"
<1>1. CASE PickStep
  BY <1>1 DEF PickStep, InjectCrash, InjectShutdown
<1>2. ASSUME NEW t \in Tid, Return(t)
      PROVE  pick.phase = "none" /\ (pick' = pick \/ pick'.phase = "tick")
  <2>1. CASE \E q \in Pid : Kill(t, q) \/ Signal(t, q)
    BY <2>1, Zenon DEF Kill, Signal, Strikes, LockFree
  <2> QED
    BY <1>2, <2>1 DEF Return, DieStopped, TakeUp, SettleDeaths, AwaitAttach, CheckChildren, MayTakeUp,
                      BlockOnChildren, BlockOn, GuestHandOff, Poll, PollGivesUp, LockFree
<1>3. ASSUME NEW t \in Tid, Guest(t)
      PROVE  pick.phase = "none" /\ (pick' = pick \/ pick'.phase = "tick")
  <2>1. CASE Yield(t) \/ ExitThread(t)
    BY <2>1 DEF Yield, GuestHandOff, ExitThread, Runs, LockFree
  <2>2. CASE Block(t)
    BY <2>2 DEF Block, BlockOn, GuestHandOff, Runs, LockFree
  <2>3. CASE Guest(t) /\ ~(Yield(t) \/ ExitThread(t) \/ Block(t))
    BY <2>3 DEF Guest, Wake, CreateThread, Exhaust, ExitProcess, ReadClock, SetTimer, SpawnChild,
                Waitpid, Aim, Runs, LockFree
  <2> QED BY <1>3, <2>1, <2>2, <2>3
<1>4. CASE Aside
  <2>1. pick' = pick /\ run' = run
    BY <1>4 DEF Aside, Leave, OutsideWake, Slain, Attach, FailToAttach
  <2> QED BY <2>1
<1>5. CASE LauncherStep
  <2>1. pick.phase = "none"
    BY <1>5 DEF LauncherStep, Start, Started, EndRun, Bury, Respawn, Finish, NoticeExit, LockFree
  <2>2. CASE Start
    BY <2>1, <2>2 DEF Start
  <2>3. CASE Bury
    BY <2>1, <2>3 DEF Bury
  <2>4. CASE Started \/ EndRun \/ Respawn \/ Finish \/ \E p \in Pid : NoticeExit(p)
    <3>1. pick' = pick
      BY <2>4 DEF Started, EndRun, Respawn, Finish, NoticeExit
    <3> QED BY <2>1, <3>1
  <2> QED BY <1>5, <2>2, <2>3, <2>4 DEF LauncherStep
<1>6. CASE UNCHANGED vars
  BY <1>6 DEF vars
<1> QED BY <1>1, <1>2, <1>3, <1>4, <1>5, <1>6 DEF Next, Over

\* A crash does not touch the stop date.
LEMMA CrashDate ==
    ASSUME NEW th, NEW pr, NEW rn \in RunRec, NEW v, Crash(th, pr, rn, v)
    PROVE  run'.stopIn = rn.stopIn /\ run'.stopped = rn.stopped
<1>1. run' = rn \/ \E a, b : run' = [rn EXCEPT !.nprocs = a, !.nthreads = b]
  BY DEF Crash, RegisterRestart
<1> QED BY <1>1 DEF RunRec

\* Nor does anything in `pick', past the top of a round.
LEMMA FaultDate ==
    ASSUME IInv, InjectCrash \/ InjectShutdown
    PROVE  run'.stopIn = run.stopIn /\ run'.stopped = run.stopped
<1>1. run \in RunRec /\ Owing \in RunRec /\ Owing.stopIn = run.stopIn /\ Owing.stopped = run.stopped
  BY Basics DEF Owing, RunRec
<1>2. run' = run \/ \E th, pr, v : Crash(th, pr, Owing, v)
  BY DEF InjectCrash, InjectShutdown
<1>3. ASSUME NEW th, NEW pr, NEW v, Crash(th, pr, Owing, v)
      PROVE  run'.stopIn = Owing.stopIn /\ run'.stopped = Owing.stopped
  BY <1>1, <1>3, CrashDate
<1> QED BY <1>1, <1>2, <1>3

\* The end of a hand-off
Ending == (\E t \in Tid : Choose(t)) \/ IdleGuest \/ IdleLauncher

\* Then there is none under way.
LEMMA EndPhase == ASSUME Ending PROVE pick.phase = "faults" /\ pick' = NoPick /\ pick'.phase = "none"
<1>1. pick' = NoPick
  BY Zenon DEF Ending, Choose, IdleGuest, IdleLauncher
<1>2. FaultsDone
  BY Zenon DEF Ending, Choose, IdleGuest, IdleLauncher, Idle
<1> QED BY <1>1, <1>2 DEF FaultsDone, NoPick

\* A jump begins another round.
LEMMA JumpPhase == ASSUME IInv, Jump PROVE pick.phase = "faults" /\ pick'.phase = "tick"
<1>1. pick \in [ phase: {"none", "tick", "faults"}, by: {"nobody", "guest", "launcher", "start"},
                me: Tid \cup {NoThread}, add: Nat ]
  BY DEF IInv, Base, TypeOK
<1>2. PICK d \in FirstOf(NextEvents) : pick' = [pick EXCEPT !.phase = "tick", !.add = d]
  BY DEF Jump
<1> QED BY <1>1, <1>2 DEF Jump, FaultsDone

\* Every round takes the stop date before anything else.
LEMMA StopTakenStep == ASSUME IInv, StopTaken, [Next]_vars PROVE StopTaken'
<1>0. run \in RunRec /\ pick.add \in Nat
  BY Basics DEF IInv, Base, TypeOK
<1>1. CASE Tick
  <2> DEFINE rn == RunLater(run, pick.add)
             stops == rn.stopIn = 0 /\ ~rn.stopped
  <2>1. rn \in RunRec
    BY <1>0, RunLaterLemma
  <2>2. run' = IF stops THEN [rn EXCEPT !.stopped = TRUE] ELSE rn
    BY <1>1 DEF Tick
  <2> HIDE DEF rn
  <2> QED BY <2>1, <2>2 DEF StopTaken, RunRec
<1>2. CASE Jump \/ IdleGuest \/ IdleLauncher \/ \E t \in Tid : Choose(t)
  <2>1. Jump => pick'.phase = "tick"
    BY JumpPhase
  <2>2. IdleGuest \/ IdleLauncher \/ (\E t \in Tid : Choose(t)) => pick'.phase = "none"
    BY EndPhase DEF Ending
  <2> QED BY <1>2, <2>1, <2>2 DEF StopTaken
<1>3. CASE (InjectCrash \/ InjectShutdown) /\ pick' = pick
  BY <1>3, FaultDate DEF StopTaken
<1>4. CASE pick' = pick /\ (pick.phase # "none" => run' = run)
  BY <1>4 DEF StopTaken
<1>5. CASE pick.phase = "none" /\ pick'.phase = "tick"
  BY <1>5 DEF StopTaken
<1> QED BY <1>1, <1>2, <1>3, <1>4, <1>5, PickMoves


\* A thread that still sleeps has a deadline to come.
LEMMA SleepersLeft ==
    ASSUME IInv
    PROVE  \A t \in Tid : Released[t].state = "blocked" => Released[t].deadline # 0
<1>1. threads \in Threads /\ Expired \in Threads
  <2>1. ASSUME NEW t \in Tid
        PROVE  [threads[t] EXCEPT !.state = "runnable", !.deadline = NoTime] \in ThreadRec
    <3>1. threads[t] \in ThreadRec
      BY Basics DEF Threads
    <3> QED BY <3>1 DEF ThreadRec, Time
  <2> QED BY <2>1, Basics DEF Expired, Threads
<1>2. ASSUME NEW t \in Tid, Expired[t].state = "blocked" PROVE Expired[t].deadline # 0
  <2>1. threads[t] \in ThreadRec
    BY <1>1 DEF Threads
  <2> QED BY <1>2, <2>1 DEF Expired, Blocked, ThreadRec
<1> DEFINE W == UNION {FirstOf({t \in Blocked(Expired) : Expired[t].pid = p}) : p \in Ringing}
<1>3. Released = Ready(Expired, W)
  BY DEF Released
<1> HIDE DEF W
<1>4. ASSUME NEW t \in Tid, Released[t].state = "blocked"
      PROVE  Released[t] = Expired[t]
  BY <1>1, <1>3, <1>4 DEF Ready, Threads, ThreadRec
<1> QED BY <1>2, <1>4

\* The dates of a process that the faults have been looked at for
DatesAhead(pr) ==
    \A p \in Pid : Alive(pr, p) => 0 \notin {pr[p].crash, pr[p].shutdown, pr[p].kill, pr[p].alarm}

\* Tables that tell the same of who is alive and of what is to come
SameDates(pr, pr2) ==
    \A p \in Pid : /\ pr2[p].state = pr[p].state /\ pr2[p].killed = pr[p].killed
                   /\ pr2[p].crash = pr[p].crash /\ pr2[p].shutdown = pr[p].shutdown
                   /\ pr2[p].kill = pr[p].kill /\ pr2[p].alarm = pr[p].alarm

\* Once the faults are done and the timers have rung, nothing is due.
LEMMA RungAhead == ASSUME IInv, FaultsDone PROVE DatesAhead(Rung)
<1>1. SUFFICES ASSUME NEW p \in Pid, Alive(Rung, p)
               PROVE  0 \notin {Rung[p].crash, Rung[p].shutdown, Rung[p].kill, Rung[p].alarm}
  BY DEF DatesAhead
<1>2. procs[p] \in ProcRec
  BY Basics DEF Procs
<1> DEFINE a == IF procs[p].interval = 0 THEN NoTime ELSE procs[p].interval
<1>3. a # 0
  BY DEF NoTime
<1>4. /\ Rung[p].state = procs[p].state /\ Rung[p].killed = procs[p].killed
      /\ Rung[p].crash = procs[p].crash /\ Rung[p].shutdown = procs[p].shutdown
      /\ Rung[p].kill = procs[p].kill
      /\ Rung[p].alarm = IF p \in Ringing THEN a ELSE procs[p].alarm
  <2>1. CASE p \in Ringing
    <3>1. Rung[p] = [procs[p] EXCEPT !.pending = TRUE, !.alarm = a]
      BY <2>1, Zenon DEF Rung
    <3> HIDE DEF a
    <3> QED BY <1>2, <2>1, <3>1 DEF ProcRec
  <2>2. CASE p \notin Ringing
    BY <2>2 DEF Rung
  <2> QED BY <2>1, <2>2
<1>5. Alive(procs, p)
  BY <1>1, <1>4 DEF Alive
<1>6. procs[p].crash # 0 /\ procs[p].shutdown # 0 /\ procs[p].kill # 0
  BY <1>5 DEF FaultsDone, CrashesDue, ShutdownsDue
<1>7. p \notin Ringing => procs[p].alarm # 0
  BY <1>5 DEF Ringing, HasAlarm, Alive, NoTime
<1> QED BY <1>3, <1>4, <1>6, <1>7

\* Signals that are sent move no date.
LEMMA SignalledDates == ASSUME NEW pr \in Procs, NEW S PROVE SameDates(pr, Signalled(pr, S))
<1>1. ASSUME NEW rec \in ProcRec
      PROVE  LET r == [rec EXCEPT !.signalled = TRUE]
             IN /\ r.state = rec.state /\ r.killed = rec.killed
                /\ r.crash = rec.crash /\ r.shutdown = rec.shutdown
                /\ r.kill = rec.kill /\ r.alarm = rec.alarm
  BY DEF ProcRec
<1>2. \A p \in Pid : pr[p] \in ProcRec
  BY DEF Procs
<1> QED BY <1>1, <1>2 DEF Signalled, SameDates

\* Whatever ends a hand-off ends it past the faults, and leaves the sleepers
\* it has released and the dates it has looked at.
LEMMA EndingTables ==
    ASSUME IInv, Ending
    PROVE  /\ FaultsDone
           /\ \A t \in Tid : threads'[t].state = "blocked" => threads'[t] = Released[t]
           /\ SameDates(Rung, procs')
           /\ run'.stopIn = run.stopIn /\ run'.stopped = run.stopped
<1>0. run \in RunRec /\ Rung \in Procs /\ Released \in Threads
  BY Basics, RungLemma, ReleasedLemma DEF Alike, Woken
<1>1. SameDates(Rung, Rung) /\ \A S : SameDates(Rung, Signalled(Rung, S))
  BY <1>0, SignalledDates DEF SameDates
<1>2. KillsSent(Rung) => SameDates(Rung, procs')
  BY <1>1 DEF KillsSent
<1>3. ASSUME NEW t \in Tid, Choose(t)
      PROVE  /\ FaultsDone
             /\ \A u \in Tid : threads'[u].state = "blocked" => threads'[u] = Released[u]
             /\ SameDates(Rung, procs')
             /\ run'.stopIn = run.stopIn /\ run'.stopped = run.stopped
  <2>1. threads' = [Released EXCEPT ![t].state = "running"]
    BY <1>3 DEF Choose
  <2>2. threads'[t].state = "running" /\ \A u \in Tid \ {t} : threads'[u] = Released[u]
    BY <1>0, <2>1 DEF Threads, ThreadRec
  <2>3. run' = [run EXCEPT !.current = t, !.unsignalled = StillUnsignalled]
    BY <1>3 DEF Choose
  <2>4. run'.stopIn = run.stopIn /\ run'.stopped = run.stopped
    BY <1>0, <2>3 DEF RunRec
  <2> QED BY <1>2, <1>3, <2>2, <2>4 DEF Choose
<1>4. CASE IdleGuest
  <2>1. PICK b : procs' = [Signalled(Rung, Condemned(Rung, run)) EXCEPT ![Owner(pick.me)].outside = b]
    BY <1>4 DEF IdleGuest
  <2>2. run' = [run EXCEPT !.unsignalled = FALSE] /\ threads' = Released /\ FaultsDone
    BY <1>4 DEF IdleGuest, Idle
  <2> DEFINE pr == Signalled(Rung, Condemned(Rung, run))
             own == Owner(pick.me)
  <2>3. pr \in Procs /\ SameDates(Rung, pr) /\ procs' = [pr EXCEPT ![own].outside = b]
    BY <1>0, <1>1, <2>1, SignalledLemma
  <2> HIDE DEF pr, own
  <2>4. SameDates(pr, procs')
    <3>1. ASSUME NEW rec \in ProcRec
          PROVE  LET r == [rec EXCEPT !.outside = b]
                 IN /\ r.state = rec.state /\ r.killed = rec.killed
                    /\ r.crash = rec.crash /\ r.shutdown = rec.shutdown
                    /\ r.kill = rec.kill /\ r.alarm = rec.alarm
      BY DEF ProcRec
    <3>2. \A p \in Pid : pr[p] \in ProcRec
      BY <2>3 DEF Procs
    <3>3. \A p \in Pid : procs'[p] = pr[p] \/ procs'[p] = [pr[p] EXCEPT !.outside = b]
      BY <2>3 DEF Procs
    <3> QED BY <3>1, <3>2, <3>3, ZenonT(60) DEF SameDates
  <2> QED BY <1>0, <2>2, <2>3, <2>4 DEF SameDates, RunRec
<1>5. CASE IdleLauncher
  <2>1. /\ run' = [run EXCEPT !.unsignalled = StillUnsignalled] /\ threads' = Released
        /\ FaultsDone /\ KillsSent(Rung)
    BY <1>5 DEF IdleLauncher, Idle
  <2> QED BY <1>0, <1>2, <2>1 DEF RunRec
<1> QED BY <1>3, <1>4, <1>5 DEF Ending


\* When nothing can run, the clock goes no further than the next event.
LEMMA JumpTables ==
    ASSUME IInv, Jump
    PROVE  /\ \A t \in Blocked(threads') :
                threads'[t].deadline # NoTime => threads'[t].deadline >= pick'.add
           /\ \A p \in Pid : Alive(procs', p) =>
                \A x \in {procs'[p].crash, procs'[p].shutdown, procs'[p].kill, procs'[p].alarm} :
                  x # NoTime => x >= pick'.add
           /\ ~run'.stopped /\ run'.stopIn # NoTime => run'.stopIn >= pick'.add
<1>1. PICK d \in FirstOf(NextEvents) : pick' = [pick EXCEPT !.phase = "tick", !.add = d]
  BY DEF Jump
<1>2. /\ pick \in [ phase: {"none", "tick", "faults"}, by: {"nobody", "guest", "launcher", "start"},
                    me: Tid \cup {NoThread}, add: Nat ]
      /\ threads' = Released /\ procs' = Rung /\ run' = run
  BY DEF Jump, IInv, Base, TypeOK
<1>3. pick'.add = d
  BY <1>1, <1>2
<1>4. /\ run \in RunRec /\ Released \in Threads /\ Rung \in Procs
  BY Basics, ReleasedLemma, RungLemma DEF Woken, Alike
<1>5. NextEvents \subseteq Nat
  <2>1. Deadlines \subseteq Time
    BY <1>4 DEF Deadlines, Blocked, Threads, ThreadRec
  <2>2. FaultDates \subseteq Time /\ AlarmDates \subseteq Time
    <3>1. \A p \in Pid : Rung[p] \in ProcRec
      BY <1>4 DEF Procs
    <3>2. \A p \in Pid : /\ Rung[p].crash \in Time /\ Rung[p].shutdown \in Time
                         /\ Rung[p].kill \in Time /\ Rung[p].alarm \in Time
      BY <3>1 DEF ProcRec
    <3> QED BY <3>2 DEF FaultDates, AlarmDates
  <2>3. StopDate \subseteq Time
    BY <1>4 DEF StopDate, RunRec
  <2> QED BY <2>1, <2>2, <2>3 DEF NextEvents, Time
<1>6. \A x \in NextEvents : x >= pick'.add
  BY <1>3, <1>5 DEF FirstOf
<1>7. ASSUME NEW t \in Blocked(threads'), threads'[t].deadline # NoTime
      PROVE  threads'[t].deadline \in NextEvents
  BY <1>2, <1>7 DEF NextEvents, Deadlines
<1>8. ASSUME NEW p \in Pid, Alive(procs', p),
             NEW x \in {procs'[p].crash, procs'[p].shutdown, procs'[p].kill, procs'[p].alarm}, x # NoTime
      PROVE  x \in NextEvents
  <2>1. CASE x \in {Rung[p].crash, Rung[p].shutdown, Rung[p].kill}
    <3>1. x \in FaultDates
      BY <1>2, <1>8, <2>1, Zenon DEF FaultDates
    <3> QED BY <1>8, <3>1 DEF NextEvents
  <2>2. CASE x = Rung[p].alarm
    <3>1. x \in AlarmDates
      BY <1>2, <1>8, <2>2 DEF AlarmDates, HasAlarm, Alive
    <3> QED BY <1>8, <3>1 DEF NextEvents
  <2> QED BY <1>2, <1>8, <2>1, <2>2
<1>9. ~run'.stopped /\ run'.stopIn # NoTime => run'.stopIn \in NextEvents
  BY <1>2 DEF NextEvents, StopDate
<1> QED BY <1>6, <1>7, <1>8, <1>9

\* What ServedInTime says of a step
Served ==
    /\ pick.phase # "none" /\ pick'.phase = "none" =>
         /\ \A t \in Blocked(threads') : threads'[t].deadline # 0
         /\ \A p \in Pid : Alive(procs', p) =>
              0 \notin {procs'[p].crash, procs'[p].shutdown, procs'[p].kill, procs'[p].alarm}
         /\ run'.stopIn = 0 => run'.stopped
    /\ pick.phase = "faults" /\ pick'.phase = "tick" =>
         /\ \A t \in Blocked(threads') :
              threads'[t].deadline # NoTime => threads'[t].deadline >= pick'.add
         /\ \A p \in Pid : Alive(procs', p) =>
              \A x \in {procs'[p].crash, procs'[p].shutdown, procs'[p].kill, procs'[p].alarm} :
                x # NoTime => x >= pick'.add
         /\ ~run'.stopped /\ run'.stopIn # NoTime => run'.stopIn >= pick'.add

\* One step serves what is due or leaves the hand-off going.
LEMMA ServedStep == ASSUME IInv, StopTaken, [Next]_vars PROVE Served
<1> USE DEF Served
<1>1. CASE Ending
  <2>1. pick.phase = "faults" /\ pick'.phase = "none"
    BY <1>1, EndPhase
  <2>2. \A t \in Blocked(threads') : threads'[t].deadline # 0
    BY <1>1, EndingTables, SleepersLeft DEF Blocked
  <2>3. DatesAhead(procs')
    BY <1>1, EndingTables, RungAhead DEF DatesAhead, SameDates, Alive
  <2>4. run'.stopIn = 0 => run'.stopped
    BY <1>1, <2>1, EndingTables DEF StopTaken
  <2> QED BY <2>1, <2>2, <2>3, <2>4 DEF DatesAhead
<1>2. CASE Jump
  <2>1. pick.phase = "faults" /\ pick'.phase = "tick"
    BY <1>2, JumpPhase
  <2> QED BY <1>2, <2>1, JumpTables
<1>3. CASE Tick
  <2>1. pick.phase = "tick" /\ pick'.phase = "faults"
    BY <1>3 DEF Tick, IInv, Base, TypeOK
  <2> QED BY <2>1
<1>4. CASE pick' = pick
  BY <1>4
<1>5. CASE pick.phase = "none" /\ pick'.phase = "tick"
  BY <1>5
<1> QED BY <1>1, <1>2, <1>3, <1>4, <1>5, PickMoves DEF Ending

\* Every deadline, crash, shutdown, timer and stop is served in the hand-off
\* it falls due in, and the jump of an idle run's clock goes past none (pick,
\* fire_faults, expire_deadlines, fire_alarms, next_event).
THEOREM EventsAreServed == Spec => ServedInTime
<1>1. Init => StopTaken
  <2>1. Init => pick = NoPick
    BY DEF Init
  <2> QED BY <2>1 DEF StopTaken, NoPick
<1>2. IInv /\ StopTaken /\ [Next]_vars => StopTaken'
  BY StopTakenStep
<1>3. IInv /\ StopTaken /\ [Next]_vars => [Served]_vars
  BY ServedStep
<1> QED
  BY <1>1, <1>2, <1>3, Invariance, PTL DEF Spec, ServedInTime, Served


----------------------------------------------------------------------------
(***************************************************************************)
(* What a step does to a slot of the table of threads.                     *)
(***************************************************************************)

\* A thread that stays where it is, or is woken; a sleep with a deadline
\* keeps one.
StillThere(rec, rec2) ==
    /\ rec2.pid = rec.pid
    /\ rec2.state = rec.state \/ (rec.state = "blocked" /\ rec2.state = "runnable")
    /\ rec2.state = "blocked" /\ rec2.deadline = NoTime => rec.deadline = NoTime
Stays(t) == StillThere(threads[t], threads'[t])

\* A hand-off under way stops or chooses it.
Picked(t) ==
    /\ pick.phase # "none" /\ threads'[t].pid = threads[t].pid
    /\ threads[t].state \notin {"unused", "exited"}
    /\ threads'[t].state \in {"runnable", "running"}

\* It gives the baton away itself.
HandsOff(t) ==
    Inside(t) /\ pick.phase = "none" /\ pick'.phase = "tick" /\ threads'[t].pid = threads[t].pid

\* It goes with its process.
Retired(t) ==
    \E v \in Pid : /\ threads[t].pid = v /\ threads'[t].pid = v /\ threads'[t].state = "exited"
                   /\ CrashAction(v) \/ (Bury /\ v = launcher.proc)

\* It is new, of the program's making or of a restart's.
Created(t) == \E u \in Tid : CreateThread(u) /\ threads'[t].pid = Owner(u) /\ threads'[t].state = "runnable"
Spawned(t) ==
    \E u \in Tid :
        /\ SpawnChild(u) /\ threads'[t].pid \in Pid
        /\ \/ threads'[t].state = "runnable" /\ real'[threads'[t].pid] = "up"
           \/ threads'[t].state = "exited" /\ procs'[threads'[t].pid].state = "exited"
Restarted(t) ==
    /\ ~run.stopped
    /\ threads'[t].state = "blocked" /\ threads'[t].deadline # NoTime
    /\ threads'[t].pid \in Pid /\ procs'[threads'[t].pid].spec # 0
    /\ \E v \in Pid : /\ procs[v].spec # 0 /\ Faults(procs[v].spec).restart # "never"
                      /\ \/ CrashAction(v)
                         \/ /\ Bury /\ v = launcher.proc /\ ~procs[v].killed
                            /\ \/ Faults(procs[v].spec).restart = "always"
                               \/ launcher.failed \/ procs[v].shutDown
Added(t) == threads[t].state = "unused" /\ (Created(t) \/ Spawned(t) \/ Restarted(t))

\* No wake and no clock takes a sleeper's deadline away.
LEMMA StillThereOperators ==
    ASSUME NEW th \in Threads, NEW t \in Tid
    PROVE  /\ StillThere(th[t], th[t])
           /\ \A S : S \subseteq Blocked(th) => StillThere(th[t], Ready(th, S)[t])
           /\ \A d \in Nat : StillThere(th[t], ThreadsLater(th, d)[t])
<1>0. th[t] \in ThreadRec
  BY DEF Threads
<1>1. ASSUME NEW S, S \subseteq Blocked(th) PROVE StillThere(th[t], Ready(th, S)[t])
  BY <1>0, <1>1 DEF Ready, StillThere, ThreadRec, Blocked
<1>2. ASSUME NEW d \in Nat PROVE StillThere(th[t], ThreadsLater(th, d)[t])
  <2> DEFINE left == Later(th[t].deadline, d)
  <2>1. ThreadsLater(th, d)[t] = [th[t] EXCEPT !.deadline = left]
    BY Zenon DEF ThreadsLater
  <2>2. left = NoTime => th[t].deadline = NoTime
    BY <1>0 DEF Later, NoTime, ThreadRec, Time
  <2> HIDE DEF left
  <2> QED BY <1>0, <2>1, <2>2 DEF StillThere, ThreadRec
<1> QED BY <1>0, <1>1, <1>2 DEF StillThere

\* A round of `pick' that ends lets only sleepers go on sleeping that were.
LEMMA StillThereReleased == ASSUME IInv, NEW t \in Tid PROVE StillThere(threads[t], Released[t])
<1>1. threads[t] \in ThreadRec
  BY Basics DEF Threads
<1>2. Woken(threads, Released)
  BY ReleasedLemma
<1> DEFINE W == UNION {FirstOf({u \in Blocked(Expired) : Expired[u].pid = p}) : p \in Ringing}
<1>3. Released = Ready(Expired, W)
  BY DEF Released
<1> HIDE DEF W
<1>4. Released[t] = Expired[t] \/ Released[t] = [Expired[t] EXCEPT !.state = "runnable"]
  BY <1>3 DEF Ready
<1>5. Expired[t] = threads[t] \/ Expired[t] = [threads[t] EXCEPT !.state = "runnable", !.deadline = NoTime]
  BY DEF Expired
<1>6. Released[t].state = "blocked" => Released[t] = threads[t]
  BY <1>1, <1>4, <1>5 DEF ThreadRec
<1> QED BY <1>2, <1>6 DEF StillThere, Woken

\* A death, and the life that may follow it
LEMMA DeathMoves ==
    ASSUME IInv, NEW v \in Pid, CrashAction(v) \/ (Bury /\ v = launcher.proc), NEW t \in Tid
    PROVE  Stays(t) \/ Retired(t) \/ (threads[t].state = "unused" /\ Restarted(t))
<1> DEFINE old == Retire(threads, v)
           W   == WokenByDeath(old, procs, v)
<1>0. threads \in Threads /\ old \in Threads /\ threads[t] \in ThreadRec
  BY Basics, RetireLemma DEF Threads
<1>1. W \subseteq Blocked(old)
  BY WokenByDeathBlocked
<1>2. \/ old[t] = threads[t]
      \/ old[t].pid = v /\ threads[t].pid = v /\ old[t].state = "exited"
  BY <1>0, KeptOperators
<1>3. StillThere(old[t], Ready(old, W)[t])
  BY <1>0, <1>1, StillThereOperators
<1> HIDE DEF old, W
<1>4. ASSUME threads' = old \/ threads' = Ready(old, W) \/ threads'[t] = Ready(old, W)[t]
      PROVE  Stays(t) \/ Retired(t)
  <2>1. StillThere(old[t], threads'[t])
    BY <1>0, <1>3, <1>4, StillThereOperators
  <2> QED BY <1>2, <2>1 DEF StillThere, Stays, Retired
<1>5. ASSUME NEW pr \in Procs, NEW rn \in RunRec, NEW failed,
             Crashed(procs, pr, v) \/ Buried(procs, pr, v),
             rn.nprocs = run.nprocs, rn.nthreads = run.nthreads,
             \/ CrashAction(v)
             \/ Bury /\ v = launcher.proc /\ ~procs[v].killed /\ Buried(procs, pr, v) /\ failed = launcher.failed,
             Succeeded(Bereaved(v), pr, rn, v, failed)
      PROVE  Stays(t) \/ Retired(t) \/ (threads[t].state = "unused" /\ Restarted(t))
  <2>1. Bereaved(v) = Ready(old, W)
    BY DEF Bereaved, old, W
  <2>2. threads'[t] = Bereaved(v)[t] \/
          /\ RestartDue(pr, v, failed) /\ t = rn.nthreads + 1 /\ rn.nprocs + 1 \in Pid
          /\ threads'[t].state = "blocked" /\ threads'[t].pid = rn.nprocs + 1
          /\ threads'[t].deadline \in Nat
          /\ procs'[rn.nprocs + 1].spec = pr[v].spec
    BY <1>5 DEF Succeeded, Newborn
  <2>3. pr[v].spec = procs[v].spec
    BY <1>5 DEF Crashed, Buried
  <2>4. t = rn.nthreads + 1 => threads[t].state = "unused"
    BY <1>5, Basics DEF RunRec, IInv, Base, Safe, Placed
  <2>5. RestartDue(pr, v, failed) =>
          /\ procs[v].spec # 0 /\ Faults(procs[v].spec).restart # "never" /\ ~run.stopped
          /\ Faults(procs[v].spec).restart = "always" \/ failed \/ pr[v].shutDown
    BY <2>3 DEF RestartDue
  <2>6. threads'[t].deadline \in Nat => threads'[t].deadline # NoTime
    BY DEF NoTime
  <2>7. Buried(procs, pr, v) => pr[v].shutDown = procs[v].shutDown
    BY DEF Buried
  <2> QED BY <1>4, <1>5, <2>1, <2>2, <2>3, <2>4, <2>5, <2>6, <2>7 DEF Restarted
<1>6. CASE CrashAction(v)
  BY <1>5, <1>6 DEF CrashAction, CrashStep
<1>7. CASE Bury /\ v = launcher.proc
  <2>1. run \in RunRec
    BY Basics
  <2> QED BY <1>4, <1>5, <1>7, <2>1, BurySteps DEF old
<1> QED BY <1>6, <1>7


\* Blocking and yielding touch nobody else, and end in a hand-off unless a
\* wake from outside was missed.
LEMMA HandOffMoves ==
    ASSUME IInv, NEW u \in Tid, Inside(u), pick.phase = "none", NEW t \in Tid,
           NEW k, NEW d, NEW st, NEW back,
           GuestHandOff(u, st, k, d) \/ BlockOn(u, k, d, back)
    PROVE  Stays(t) \/ HandsOff(t)
<1>0. threads \in Threads /\ threads[t] \in ThreadRec
  BY Basics DEF Threads
<1>1. \/ \E s : /\ threads' = [threads EXCEPT ![u] = [threads[u] EXCEPT !.state = s, !.key = k, !.deadline = d]]
                /\ pick'.phase = "tick"
      \/ threads' = [threads EXCEPT ![u].stale = FALSE]
  <2>1. CASE GuestHandOff(u, st, k, d)
    BY <2>1, Zenon DEF GuestHandOff
  <2>2. CASE BlockOn(u, k, d, back)
    <3>1. CASE threads[u].stale
      BY <2>2, <3>1, Zenon DEF BlockOn
    <3>2. CASE ~threads[u].stale
      <4>1. GuestHandOff(u, "blocked", k, d)
        BY <2>2, <3>2, Zenon DEF BlockOn
      <4> QED BY <4>1, Zenon DEF GuestHandOff
    <3> QED BY <3>1, <3>2
  <2> QED BY <2>1, <2>2
<1>2. CASE threads' = [threads EXCEPT ![u].stale = FALSE]
  <2>1. threads'[t] = threads[t] \/ threads'[t] = [threads[t] EXCEPT !.stale = FALSE]
    BY <1>0, <1>2 DEF Threads
  <2> QED BY <1>0, <2>1 DEF Stays, StillThere, ThreadRec
<1>3. CASE ~(threads' = [threads EXCEPT ![u].stale = FALSE])
  <2>1. PICK s : /\ threads' = [threads EXCEPT ![u] = [threads[u] EXCEPT !.state = s, !.key = k, !.deadline = d]]
                 /\ pick'.phase = "tick"
    BY <1>1, <1>3
  <2>2. CASE t = u
    <3>1. threads'[t] = [threads[t] EXCEPT !.state = s, !.key = k, !.deadline = d]
      BY <1>0, <2>1, <2>2 DEF Threads
    <3>2. threads'[t].pid = threads[t].pid
      BY <1>0, <3>1 DEF ThreadRec
    <3> QED BY <2>1, <2>2, <3>2 DEF HandsOff
  <2>3. CASE t # u
    <3>1. threads'[t] = threads[t]
      BY <1>0, <2>1, <2>3 DEF Threads
    <3> QED BY <3>1 DEF Stays, StillThere
  <2> QED BY <2>2, <2>3
<1> QED BY <1>1, <1>2, <1>3

\* Everything that ever happens to a slot of the table of threads.
LEMMA ThreadMoves ==
    ASSUME IInv, [Next]_vars, NEW t \in Tid
    PROVE  Stays(t) \/ Picked(t) \/ HandsOff(t) \/ Retired(t) \/ Added(t)
<1>0. threads \in Threads /\ threads[t] \in ThreadRec /\ run.nthreads \in Nat /\ run.nprocs \in Nat
  BY Basics DEF Threads, RunRec
<1>s. threads' = threads => Stays(t)
  BY DEF Stays, StillThere
<1>r. ASSUME NEW S, S \subseteq Blocked(threads), threads' = Ready(threads, S) PROVE Stays(t)
  BY <1>0, <1>r, StillThereOperators DEF Stays
<1>w. /\ \A p, k : WaitingOn(threads, p, k) \subseteq Blocked(threads)
      /\ WaitingForIO(threads) \subseteq Blocked(threads)
      /\ \A p : Interruptible(threads, p) \subseteq Blocked(threads)
  BY DEF WaitingOn, WaitingForIO, Interruptible
<1>d. ASSUME NEW v \in Pid, CrashAction(v) \/ (Bury /\ v = launcher.proc)
      PROVE  Stays(t) \/ Retired(t) \/ Added(t)
  BY <1>d, DeathMoves DEF Added
<1>1. CASE PickStep
  <2>1. CASE Tick
    <3> DEFINE th == ThreadsLater(threads, pick.add)
               pr == ProcsLater(procs, pick.add)
    <3>1. threads' = th \/ threads' = StoppedThreads(th, pr)
      BY <2>1 DEF Tick
    <3>2. pick.add \in Nat /\ pick.phase # "none"
      BY <2>1 DEF Tick, IInv, Base, TypeOK
    <3>3. th \in Threads /\ StillThere(threads[t], th[t]) /\ th[t].state = threads[t].state
      <4>1. th \in Threads /\ StillThere(threads[t], th[t])
        BY <1>0, <3>2, ThreadsLaterLemma, StillThereOperators DEF Woken
      <4>2. th[t] = [threads[t] EXCEPT !.deadline = Later(threads[t].deadline, pick.add)]
        BY Zenon DEF ThreadsLater
      <4>3. th[t].state = threads[t].state
        BY <1>0, <4>2 DEF ThreadRec
      <4> QED BY <4>1, <4>3
    <3> HIDE DEF th, pr
    <3>4. CASE threads' = StoppedThreads(th, pr)
      <4>1. threads'[t] = th[t] \/
              /\ th[t].state \notin {"unused", "exited"}
              /\ threads'[t] = [th[t] EXCEPT !.state = "runnable"]
        BY <3>4 DEF StoppedThreads, Ready
      <4>2. th[t] \in ThreadRec
        BY <3>3 DEF Threads
      <4>3. CASE threads'[t] = th[t]
        BY <3>3, <4>3 DEF Stays
      <4>4. CASE th[t].state \notin {"unused", "exited"} /\ threads'[t] = [th[t] EXCEPT !.state = "runnable"]
        <5>1. threads'[t].pid = th[t].pid /\ threads'[t].state = "runnable"
          BY <4>2, <4>4 DEF ThreadRec
        <5> QED BY <3>2, <3>3, <4>4, <5>1 DEF Picked, StillThere
      <4> QED BY <4>1, <4>3, <4>4
    <3> QED BY <3>1, <3>3, <3>4 DEF Stays
  <2>2. CASE InjectCrash \/ InjectShutdown
    <3>1. CASE \E v \in Pid : Alive(procs, v) /\ CrashStep(v)
      BY <1>d, <2>2, <3>1 DEF CrashAction
    <3>2. CASE ~\E v \in Pid : Alive(procs, v) /\ CrashStep(v)
      <4>1. \E v \in Pid : threads' = Ready(threads, Interruptible(threads, v) \cup WaitingForIO(threads))
        BY <2>2, <3>2, CrashSteps
      <4> QED BY <1>r, <1>w, <4>1
    <3> QED BY <3>1, <3>2
  <2>3. CASE Jump \/ IdleGuest \/ IdleLauncher
    <3>1. threads' = Released
      BY <2>3 DEF Jump, IdleGuest, IdleLauncher
    <3> QED BY <3>1, StillThereReleased DEF Stays
  <2>4. CASE \E u \in Tid : Choose(u)
    <3>1. PICK u \in Tid : Choose(u)
      BY <2>4
    <3>2. /\ threads' = [Released EXCEPT ![u].state = "running"] /\ pick.phase # "none"
          /\ Released[u].state = "runnable"
      BY <3>1 DEF Choose, FaultsDone, Runnable
    <3>3. StillThere(threads[t], Released[t]) /\ Released \in Threads
      BY StillThereReleased, ReleasedLemma DEF Woken
    <3>4. CASE t = u
      <4>1. threads'[t] = [Released[t] EXCEPT !.state = "running"] /\ Released[t] \in ThreadRec
        BY <3>2, <3>3, <3>4 DEF Threads
      <4>2. threads'[t].state = "running" /\ threads'[t].pid = Released[t].pid
        BY <4>1 DEF ThreadRec
      <4> QED BY <3>2, <3>3, <3>4, <4>2 DEF Picked, StillThere
    <3>5. CASE t # u
      <4>1. threads'[t] = Released[t]
        BY <3>2, <3>3, <3>5 DEF Threads
      <4> QED BY <3>3, <4>1 DEF Stays
    <3> QED BY <3>4, <3>5
  <2> QED BY <1>1, <2>1, <2>2, <2>3, <2>4 DEF PickStep
<1>2. CASE \E u \in Tid : Guest(u)
  <2>0. PICK u \in Tid : Guest(u)
    BY <1>2
  <2>1. pc[u] = "guest" /\ Inside(u) /\ pick.phase = "none"
    BY <2>0 DEF Guest, Yield, Block, Wake, CreateThread, Exhaust, ExitThread, ExitProcess, ReadClock,
                SetTimer, SpawnChild, Waitpid, Aim, Runs, LockFree, Inside
  <2>2. CASE Yield(u) \/ Block(u)
    <3>1. \E k, d, st : GuestHandOff(u, st, k, d) \/ BlockOn(u, k, d, "guest")
      BY <2>2 DEF Yield, Block
    <3> QED BY <2>1, <3>1, HandOffMoves
  <2>3. CASE Wake(u)
    <3>1. \E S : S \subseteq Blocked(threads) /\ threads' = Ready(threads, S)
      BY <1>w, <2>3 DEF Wake
    <3> QED BY <1>r, <3>1
  <2>4. CASE CreateThread(u)
    <3>1. \/ threads'[t] = threads[t]
          \/ t = run.nthreads + 1 /\ threads'[t] = FreshThread(Owner(u), procs[Owner(u)].outside)
      BY <1>0, <2>4 DEF CreateThread, Threads
    <3>2. t = run.nthreads + 1 => threads[t].state = "unused"
      BY <1>0 DEF IInv, Base, Safe, Placed
    <3> QED BY <2>4, <3>1, <3>2 DEF Added, Created, FreshThread, Stays, StillThere
  <2>5. CASE ExitThread(u)
    <3>1. CASE t = u
      BY <2>1, <2>5, <3>1, ExitedThread DEF HandsOff, ExitThread
    <3>2. CASE t # u
      <4>1. threads'[t] = Ready(threads, WaitingOn(threads, Owner(u), "join"))[t]
        BY <1>0, <2>5, <3>2, ReadyLemma DEF ExitThread, Threads
      <4> QED BY <1>0, <1>w, <4>1, StillThereOperators DEF Stays
    <3> QED BY <3>1, <3>2
  <2>6. CASE SpawnChild(u)
    <3> DEFINE c == run.nprocs + 1
               m == run.nthreads + 1
               a == FreshThread(c, FALSE)
               b == [a EXCEPT !.state = "exited"]
               r == [FreshProc(Owner(u), 0) EXCEPT !.state = "exited", !.reaped = TRUE]
    <3>1. c \in Pid /\ m \in Tid
      BY <1>0, <2>6, SizesAssumption DEF SpawnChild, HasRoom, Pid, Tid
    <3>2. \/ threads' = [threads EXCEPT ![m] = a] /\ real' = [real EXCEPT ![c] = "up"]
          \/ threads' = [threads EXCEPT ![m] = b] /\ procs' = [procs EXCEPT ![c] = r]
      BY <2>6, Zenon DEF SpawnChild
    <3>3. /\ a.pid = c /\ a.state = "runnable" /\ b.pid = c /\ b.state = "exited" /\ r.state = "exited"
      BY DEF FreshThread, FreshProc
    <3>4. t = m => threads[t].state = "unused"
      BY <1>0 DEF IInv, Base, Safe, Placed
    <3>5. real \in [Pid -> {"none", "up", "exit0", "failed", "reaped"}] /\ procs \in Procs
      BY Basics DEF IInv, Base, TypeOK
    <3> HIDE DEF c, m, a, b, r
    <3>6. CASE t # m
      <4>1. threads'[t] = threads[t]
        BY <1>0, <3>2, <3>6 DEF Threads
      <4> QED BY <4>1 DEF Stays, StillThere
    <3>7. CASE t = m
      <4>1. \/ threads'[t] = a /\ real'[c] = "up"
            \/ threads'[t] = b /\ procs'[c].state = "exited"
        BY <1>0, <3>1, <3>2, <3>3, <3>5, <3>7 DEF Threads, Procs
      <4> QED BY <2>6, <3>1, <3>3, <3>4, <3>7, <4>1 DEF Added, Spawned
    <3> QED BY <3>6, <3>7
  <2>7. CASE \E q \in Pid : Aim(u, q)
    BY <1>s, <2>7 DEF Aim
  <2>8. CASE ReadClock(u)
    BY <1>0, <2>8, StillThereOperators DEF ReadClock, Stays
  <2>9. CASE Exhaust(u) \/ ExitProcess(u) \/ SetTimer(u) \/ Waitpid(u)
    BY <1>s, <2>9 DEF Exhaust, ExitProcess, SetTimer, Waitpid
  <2> QED BY <2>0, <2>2, <2>3, <2>4, <2>5, <2>6, <2>7, <2>8, <2>9 DEF Guest
<1>4. CASE \E u \in Tid : Return(u)
  <2>0. PICK u \in Tid : Return(u)
    BY <1>4
  <2>1. CASE TakeUp(u) \/ SettleDeaths(u)
    <3>1. threads' = SettledThreads
      BY <2>1 DEF TakeUp, SettleDeaths
    <3>2. threads' = threads \/ threads' = Ready(threads, WaitingForIO(threads))
      BY <3>1 DEF SettledThreads
    <3> QED BY <1>r, <1>s, <1>w, <3>2
  <2>2. CASE BlockOnChildren(u)
    <3>1. Inside(u) /\ pick.phase = "none" /\ BlockOn(u, "wait", NoTime, "checking")
      BY <2>2 DEF BlockOnChildren, Inside, LockFree
    <3> QED BY <3>1, HandOffMoves
  <2>3. CASE DieStopped(u) \/ AwaitAttach(u) \/ CheckChildren(u) \/ Poll(u) \/ PollGivesUp(u)
    BY <1>s, <2>3 DEF DieStopped, AwaitAttach, CheckChildren, Poll, PollGivesUp
  <2>4. CASE \E q \in Pid : Kill(u, q)
    BY <1>d, <2>4, CrashSteps DEF CrashAction
  <2>5. CASE \E q \in Pid : Signal(u, q)
    <3>1. PICK q \in Pid : threads' = Ready(threads, Interruptible(threads, q) \cup WaitingForIO(threads))
      BY <2>5 DEF Signal
    <3>2. Interruptible(threads, q) \cup WaitingForIO(threads) \subseteq Blocked(threads)
      BY <1>w
    <3> QED BY <1>r, <3>1, <3>2
  <2> QED BY <2>0, <2>1, <2>2, <2>3, <2>4, <2>5 DEF Return
<1>5. CASE Aside
  <2>1. CASE \E p \in Pid : OutsideWake(p)
    <3>0. PICK p \in Pid : OutsideWake(p)
      BY <2>1
    <3>1. PICK W : /\ W \in {WaitingOn(threads, p, k) : k \in Keys} \cup {WaitingForIO(threads)}
                   /\ threads' = [x \in Tid |->
                        [Ready(threads, W)[x] EXCEPT !.stale = @ \/ x \in ThreadsOf(threads, p)]]
      BY <3>0, Zenon DEF OutsideWake
    <3>2. W \subseteq Blocked(threads)
      BY <1>w, <3>1
    <3> DEFINE rec == Ready(threads, W)[t]
               b   == rec.stale \/ t \in ThreadsOf(threads, p)
    <3>3. rec \in ThreadRec /\ StillThere(threads[t], rec)
      BY <1>0, <3>2, ReadyLemma, StillThereOperators DEF Threads
    <3>4. threads'[t] = [rec EXCEPT !.stale = b]
      BY <3>1, Zenon
    <3> HIDE DEF rec, b
    <3> QED BY <3>3, <3>4 DEF StillThere, Stays, ThreadRec
  <2>2. CASE ~\E p \in Pid : OutsideWake(p)
    BY <1>5, <1>s, <2>2 DEF Aside, Leave, Slain, Attach, FailToAttach
  <2> QED BY <2>1, <2>2
<1>6. CASE LauncherStep
  <2>1. CASE Bury
    BY <1>d, <2>1, BurySteps
  <2>2. CASE ~Bury
    BY <1>6, <1>s, <2>2 DEF LauncherStep, Start, Started, EndRun, Respawn, Finish, NoticeExit
  <2> QED BY <2>1, <2>2
<1>7. CASE UNCHANGED vars
  BY <1>s, <1>7 DEF vars
<1> QED BY <1>1, <1>2, <1>4, <1>5, <1>6, <1>7 DEF Next, Over

----------------------------------------------------------------------------
(***************************************************************************)
(* Where the launcher is, and what it hears of.                            *)
(***************************************************************************)

\* Only a hand-off it called, or a step of its own, moves the launcher.
LEMMA LauncherMoves ==
    ASSUME IInv, [Next]_vars
    PROVE  \/ UNCHANGED <<launcher, pick>>
           \/ /\ UNCHANGED launcher
              /\ pick.phase # "none" /\ pick'.phase # "none" /\ pick'.by = pick.by
           \/ /\ UNCHANGED launcher
              /\ pick.phase = "none" /\ pick'.phase = "tick" /\ pick'.by = "guest"
           \/ /\ Ending
              /\ \/ pick.by = "guest" /\ UNCHANGED launcher
                 \/ pick.by = "launcher" /\ launcher' = [launcher EXCEPT !.at = "respawning"]
                 \/ pick.by = "start" /\ launcher' = [launcher EXCEPT !.at = "started"]
                 \/ launcher' = [launcher EXCEPT !.at = "over"]
           \/ LauncherStep /\ pick.phase = "none"
<1>0. pick \in [ phase: {"none", "tick", "faults"}, by: {"nobody", "guest", "launcher", "start"},
                 me: Tid \cup {NoThread}, add: Nat ]
  BY DEF IInv, Base, TypeOK
<1>1. CASE Tick \/ InjectCrash \/ InjectShutdown \/ Jump
  <2>1. CASE Tick
    <3>1. pick' = [pick EXCEPT !.phase = "faults", !.add = 0]
      BY <2>1 DEF Tick
    <3> QED BY <1>0, <2>1, <3>1 DEF Tick
  <2>2. CASE InjectCrash \/ InjectShutdown
    BY <2>2 DEF InjectCrash, InjectShutdown
  <2>3. CASE Jump
    <3>1. PICK d : pick' = [pick EXCEPT !.phase = "tick", !.add = d]
      BY <2>3 DEF Jump
    <3>2. pick'.phase = "tick" /\ pick'.by = pick.by
      BY <1>0, <3>1
    <3> QED BY <2>3, <3>2 DEF Jump, FaultsDone
  <2> QED BY <1>1, <2>1, <2>2, <2>3
<1>2. CASE Ending
  <2>1. pick.by # "nobody"
    BY <1>2, EndPhase DEF IInv, Base, Safe, HandingOver
  <2>2. CASE \E t \in Tid : Choose(t)
    BY <1>0, <1>2, <2>1, <2>2 DEF Choose, LauncherAfter
  <2>3. CASE IdleGuest
    <3>1. UNCHANGED launcher /\ pick.by = "guest"
      BY <2>3, Zenon DEF IdleGuest
    <3> QED BY <1>2, <3>1
  <2>4. CASE IdleLauncher
    <3>1. launcher' = [launcher EXCEPT !.at = "over"] \/ launcher' = LauncherAfter
      BY <2>4, Zenon DEF IdleLauncher
    <3>2. pick.by # "guest"
      BY <2>4 DEF IdleLauncher
    <3> QED BY <1>0, <1>2, <2>1, <3>1, <3>2 DEF LauncherAfter
  <2> QED BY <1>2, <2>2, <2>3, <2>4 DEF Ending
<1>3. CASE \E t \in Tid : Return(t) \/ Guest(t)
  <2>1. PICK t \in Tid : Return(t) \/ Guest(t)
    BY <1>3
  <2>2. UNCHANGED launcher /\ (pick' = pick \/ pick'.by = "guest")
    BY <2>1, GuestKeeps
  <2>3. pick' = pick \/ (pick.phase = "none" /\ pick'.phase = "tick")
    <3>1. pick' = pick \/ pick'.phase = "tick"
      <4>1. CASE Return(t)
        <5>1. (\E q \in Pid : Kill(t, q) \/ Signal(t, q)) => UNCHANGED pick
          BY Zenon DEF Kill, Signal
        <5> QED
          BY <4>1, <5>1 DEF Return, DieStopped, TakeUp, SettleDeaths, AwaitAttach, CheckChildren,
                            BlockOnChildren, BlockOn, GuestHandOff, Poll, PollGivesUp
      <4>2. CASE Yield(t) \/ ExitThread(t)
        BY <4>2 DEF Yield, GuestHandOff, ExitThread
      <4>3. CASE Block(t)
        BY <4>3 DEF Block, BlockOn, GuestHandOff
      <4>4. CASE Guest(t) /\ ~(Yield(t) \/ ExitThread(t) \/ Block(t))
        <5>1. UNCHANGED pick
          BY <4>4 DEF Guest, Wake, CreateThread, Exhaust, ExitProcess, ReadClock, SetTimer,
                      SpawnChild, Waitpid, Aim
        <5> QED BY <5>1
      <4> QED BY <2>1, <4>1, <4>2, <4>3, <4>4
    <3>2. pick.phase = "none"
      BY <2>1 DEF Return, DieStopped, TakeUp, SettleDeaths, AwaitAttach, CheckChildren,
                  BlockOnChildren, Poll, PollGivesUp, Kill, Signal, Strikes, MayTakeUp, LockFree,
                  Guest, Runs, Yield, Block, Wake, CreateThread, Exhaust, ExitThread, ExitProcess,
                  ReadClock, SetTimer, SpawnChild, Waitpid, Aim
    <3> QED BY <3>1, <3>2
  <2> QED BY <2>2, <2>3
<1>4. CASE Aside
  BY <1>4 DEF Aside, Leave, OutsideWake, Slain, Attach, FailToAttach
<1>5. CASE LauncherStep
  BY <1>5 DEF LauncherStep, Start, Started, EndRun, Bury, Respawn, Finish, NoticeExit, LockFree
<1>6. CASE Over \/ UNCHANGED vars
  BY <1>6 DEF Over, vars
<1> QED BY <1>1, <1>2, <1>3, <1>4, <1>5, <1>6 DEF Next, PickStep, Ending

\* The launcher hears of a death by its exit event, or ends the run.
LEMMA ReapedBy ==
    ASSUME IInv, [Next]_vars, NEW p \in Pid, real'[p] = "reaped", real[p] # "reaped"
    PROVE  NoticeExit(p) \/ launcher'.at = "over"
<1>0. real \in [Pid -> {"none", "up", "exit0", "failed", "reaped"}] /\ run.nprocs \in Nat
  BY Basics DEF IInv, Base, TypeOK, RunRec
<1>1. ~UNCHANGED real
  OBVIOUS
<1>2. ~\E S : \E status \in {"exit0", "failed"} : RealDeath(S, status)
  BY <1>0 DEF RealDeath
<1>3. CASE PickStep
  <2>1. ~IdleGuest
    BY <1>2 DEF IdleGuest
  <2>2. CASE IdleLauncher
    <3>1. launcher' = [launcher EXCEPT !.at = "over"]
      BY <1>1, <2>2 DEF IdleLauncher
    <3> QED BY <3>1 DEF IInv, Base, TypeOK
  <2> QED BY <1>1, <1>3, <2>1, <2>2 DEF PickStep, Tick, InjectCrash, InjectShutdown, Jump, Choose
<1>4. ASSUME NEW t \in Tid, Return(t) PROVE FALSE
  <2>1. UNCHANGED real \/ RealDeath({Owner(t)}, "failed")
    BY <1>4 DEF Return, DieStopped, TakeUp, SettleDeaths, AwaitAttach, CheckChildren,
                BlockOnChildren, Poll, PollGivesUp, Kill, Signal, Strikes
  <2> QED BY <1>1, <1>2, <2>1
<1>5. ASSUME NEW t \in Tid, Guest(t) PROVE FALSE
  <2>1. CASE SpawnChild(t)
    <3>1. real' = real \/ real' = [real EXCEPT ![run.nprocs + 1] = "up"]
      BY <2>1 DEF SpawnChild
    <3> QED BY <1>0, <3>1
  <2>2. CASE Exhaust(t) \/ ExitProcess(t)
    BY <1>2, <2>2 DEF Exhaust, ExitProcess
  <2> QED BY <1>1, <1>5, <2>1, <2>2 DEF Guest, Yield, Block, Wake, CreateThread, ExitThread, ReadClock,
                                        SetTimer, Waitpid, Aim
<1>6. CASE Aside
  BY <1>1, <1>2, <1>6 DEF Aside, Leave, OutsideWake, Slain, Attach, FailToAttach
<1>7. CASE LauncherStep
  <2>1. CASE Respawn
    BY <1>0, <2>1 DEF Respawn
  <2>2. CASE \E q \in Pid : NoticeExit(q)
    BY <1>0, <2>2, ZenonT(60) DEF NoticeExit
  <2> QED BY <1>1, <1>7, <2>1, <2>2 DEF LauncherStep, Start, Started, EndRun, Bury, Finish
<1> QED BY <1>1, <1>3, <1>4, <1>5, <1>6, <1>7 DEF Next, Over, vars

----------------------------------------------------------------------------
(***************************************************************************)
(* Who has the baton.  The lock may be free while the launcher is dealing  *)
(* with a death, so the invariant says more than BatonNotLost does: it     *)
(* speaks of every place of the launcher.                                  *)
(***************************************************************************)

\* The launcher is dealing with an exit it was told of; the process is not
\* buried yet; the next life of p is still to be spawned.
Passing == \/ launcher.at \in {"ending", "burying", "respawning"}
           \/ launcher.at = "handing" /\ pick.by = "launcher"
Burying(p) == launcher.proc = p /\ launcher.at \in {"ending", "burying"}
Predecessor(p) ==
    \E q \in Pid : /\ procs[q].replacedBy = p
                   /\ real[q] # "reaped" \/ (launcher.proc = q /\ Passing)

\* Somebody has the baton.
Held ==
    LET c == run.current
        p == threads[c].pid
    IN /\ c # NoThread /\ p \in Pid
       /\ \/ Dead(p)
          \/ real[p] = "up" /\ (threads[c].state = "running" \/ pc[c] = "polling" \/ procs[p].killed)
          \/ /\ real[p] = "none" /\ procs[p].state = "starting" /\ procs[p].spec # 0
             /\ threads[c].state = "running" \/ procs[p].killed
          \/ real[p] = "reaped" /\ Burying(p)
HeldHolds == LockFree /\ launcher.started /\ AnyAlive(threads) => Held

\* The launcher waits exactly for the hand-offs it called, and serves a run
\* that was started.
LauncherHands ==
    /\ launcher.at = "handing" <=> (pick.phase # "none" /\ pick.by # "guest")
    /\ launcher.at \in {"started", "serving"} => launcher.started

\* A life not spawned yet is the next one of a life the launcher is not
\* through with, and no death is passed on after its successor was spawned.
NextLives ==
    launcher.at = "over" \/ \A p \in Pid :
        real[p] = "none" /\ procs[p].state = "starting" /\ procs[p].spec # 0 => Predecessor(p)
NotYetSpawned ==
    launcher.proc \in Pid /\ Passing =>
        LET n == procs[launcher.proc].replacedBy IN n # NoProc => real[n] = "none"

\* A death the launcher was told of becomes known once, in its burial.
DeathsKnown ==
    /\ launcher.at = "over" \/ \A p \in Pid : real[p] = "reaped" => procs[p].state = "exited" \/ Burying(p)
    /\ Burying(launcher.proc) => procs[launcher.proc].state # "exited"

\* Nobody sleeps after the run's stop, or without a deadline before the run
\* has started.
SleepersHold ==
    /\ run.stopped => Blocked(threads) = {}
    /\ ~launcher.started \/ (pick.phase # "none" /\ pick.by = "start") =>
         \A t \in Blocked(threads) : threads[t].deadline # NoTime

\* A life has a thread, which leaves only by pthread_exit before the life is
\* over, and a thread has a life.
ThreadsHold ==
    /\ \A p \in Pid : procs[p].spec # 0 => \E t \in Tid : threads[t].pid = p
    /\ "pthread_exit" \in Calls \/ \A t \in Tid : threads[t].state = "exited" =>
         procs[threads[t].pid].killed \/ procs[threads[t].pid].state = "exited"
    /\ \A t \in Tid : LET p == threads[t].pid IN
         p \in Pid => procs[p].spec # 0 \/ real[p] # "none" \/ procs[p].state = "exited"

\* The run owes p no next life, whoever asks for one.
Spent(p) == ~(RestartDue(procs, p, TRUE) /\ procs[p].replacedBy = NoProc /\ HasRoom)

\* Whom my_kill has found alive gets no next life from the kill if he was
\* buried since.
TargetsSpent ==
    "kill" \in Calls =>
        \A t \in Tid : pc[t] = "killing" /\ procs[run.target].state = "exited" => Spent(run.target)

\* What the steps of the launcher rest on, and all that is shown here
Companions == OneLifeHolds /\ LiveKnown /\ StopHolds /\ OverQuiet /\ ExitedSeen
BatonHolds ==
    /\ HeldHolds /\ LauncherHands /\ NextLives /\ NotYetSpawned
    /\ DeathsKnown /\ SleepersHold /\ ThreadsHold

\* A crash marks its victim.
LEMMA CrashMarks ==
    ASSUME IInv, NEW v \in Pid, CrashAction(v), v <= run.nprocs PROVE procs'[v].killed
<1>1. PICK pr2, rn :
       /\ pr2 \in Procs /\ rn \in RunRec /\ rn.nprocs = run.nprocs
       /\ Crashed(procs, pr2, v) /\ Succeeded(Bereaved(v), pr2, rn, v, TRUE)
  BY DEF CrashAction, CrashStep
<1>2. v # rn.nprocs + 1
  BY <1>1, Basics DEF RunRec, Pid
<1>3. SameSlot(pr2[v], procs'[v])
  BY <1>1, <1>2, SucceededSlot
<1> QED BY <1>1, <1>3 DEF Crashed, SameSlot

\* A process, once registered, keeps its entry and its end.
LEMMA Registers ==
    ASSUME IInv, IInv', [Next]_vars, NEW p \in Pid
    PROVE  /\ p <= run.nprocs => procs'[p].spec = procs[p].spec
           /\ p <= run.nprocs /\ procs[p].killed => procs'[p].killed
           /\ p <= run.nprocs /\ procs[p].state = "exited" => procs'[p].state = "exited"
           /\ p <= run.nprocs => ~TakesSlot(p)
<1>1. p \in Nat /\ run.nprocs \in Nat
  BY Basics DEF RunRec, Pid
<1>2. SameFate(procs[p], procs'[p]) \/ Fell(p) \/ Buries(p) \/ TakesSlot(p)
  BY FateSteps
<1>3. p <= run.nprocs => ~TakesSlot(p)
  BY <1>1 DEF TakesSlot
<1> QED BY <1>2, <1>3 DEF SameFate, Fell, Buries

\* A successor once named stays, and a new one is the last process of the
\* table and not spawned.
LEMMA LineStays ==
    ASSUME IInv, Successors, Successors', [Next]_vars, NEW p \in Pid
    PROVE  \/ procs'[p].replacedBy = procs[p].replacedBy
           \/ /\ procs[p].replacedBy = NoProc /\ procs'[p].replacedBy = run.nprocs + 1
              /\ UNCHANGED real
<1>0. procs \in Procs /\ run \in RunRec /\ run.nprocs \in Nat /\ p \in Nat
  BY Basics DEF RunRec, Pid
<1>1. ASSUME NEW v \in Pid, NEW pr \in Procs, NEW rn, NEW failed,
             Crashed(procs, pr, v) \/ Buried(procs, pr, v),
             rn.nprocs = run.nprocs, UNCHANGED real,
             Succeeded(Bereaved(v), pr, rn, v, failed)
      PROVE  \/ procs'[p].replacedBy = procs[p].replacedBy
             \/ /\ procs[p].replacedBy = NoProc /\ procs'[p].replacedBy = run.nprocs + 1
                /\ UNCHANGED real
  <2>1. pr[p].replacedBy = procs[p].replacedBy
    BY <1>1 DEF Crashed, Buried, SameLife, SameCore
  <2>2. CASE procs' = pr
    BY <2>1, <2>2
  <2>3. CASE procs' # pr
    <3>1. /\ pr[v].replacedBy = NoProc
          /\ \A q \in Pid :
               IF q = rn.nprocs + 1 THEN Newborn(procs'[q], NoProc, pr[v].spec)
               ELSE procs'[q] = IF q = v THEN [pr[q] EXCEPT !.replacedBy = rn.nprocs + 1] ELSE pr[q]
      BY <1>1, <2>3 DEF Succeeded
    <3>2. CASE p = rn.nprocs + 1
      <4>1. procs'[p].replacedBy = NoProc
        BY <3>1, <3>2 DEF Newborn
      <4>2. procs[p].replacedBy = NoProc
        <5>1. p > run.nprocs
          BY <1>0, <1>1, <3>2
        <5> QED BY <5>1 DEF Successors
      <4> QED BY <4>1, <4>2
    <3>3. CASE p # rn.nprocs + 1 /\ p = v
      <4>1. procs'[p] = [pr[p] EXCEPT !.replacedBy = rn.nprocs + 1] /\ pr[p] \in ProcRec
        BY <3>1, <3>3 DEF Procs
      <4> QED BY <1>1, <2>1, <3>1, <3>3, <4>1 DEF ProcRec
    <3>4. CASE p # rn.nprocs + 1 /\ p # v
      BY <2>1, <3>1, <3>4
    <3> QED BY <3>2, <3>3, <3>4
  <2> QED BY <2>2, <2>3
<1>2. CASE UNCHANGED real /\ \E v \in Pid : CrashStep(v)
  BY <1>1, <1>2 DEF CrashStep
<1>3. CASE Bury
  <2>1. PICK pr2 \in Procs :
          /\ Buried(procs, pr2, launcher.proc)
          /\ \/ procs' = pr2
             \/ Succeeded(Bereaved(launcher.proc), pr2, run, launcher.proc, launcher.failed)
    BY <1>3, BurySteps
  <2>2. launcher.proc \in Pid /\ UNCHANGED real
    BY <1>3, BurySteps DEF Bury
  <2>3. CASE procs' = pr2
    BY <2>1, <2>2, <2>3 DEF Buried, SameLife, SameCore
  <2> QED BY <1>1, <2>1, <2>2, <2>3
<1>4. CASE \E t \in Tid : SpawnChild(t) \/ Exhaust(t)
  <2>1. PICK t \in Tid : SpawnChild(t) \/ Exhaust(t)
    BY <1>4
  <2>2. CASE p # run.nprocs + 1
    BY <2>1, <2>2, NewSlots
  <2>3. CASE p = run.nprocs + 1
    <3>1. procs[p].replacedBy = NoProc
      BY <1>0, <2>3 DEF Successors
    <3>2. procs' = procs \/ procs'[p].spec = 0
      BY <2>1, <2>3, ChildSlot
    <3> QED BY <3>1, <3>2 DEF Successors
  <2> QED BY <2>2, <2>3
<1> QED BY <1>2, <1>3, <1>4, LineSteps DEF SameLine

\* A new life of an entry follows one that has just ended, and has a thread.
LEMMA BirthOf ==
    ASSUME IInv, Successors, [Next]_vars, NEW p \in Pid, p = run.nprocs + 1, procs'[p].spec # 0
    PROVE  /\ \E t \in Tid : threads'[t].pid = p
           /\ \E v \in Pid : /\ CrashAction(v) \/ (Bury /\ v = launcher.proc)
                             /\ procs'[v].replacedBy = p
<1>0. procs \in Procs /\ run \in RunRec /\ run.nprocs \in Nat /\ procs[p].spec = 0
  BY Basics DEF RunRec, Successors, Pid
<1>1. ASSUME NEW v \in Pid, NEW pr \in Procs, NEW rn, NEW failed,
             Crashed(procs, pr, v) \/ Buried(procs, pr, v),
             rn.nprocs = run.nprocs,
             procs' = pr \/ Succeeded(Bereaved(v), pr, rn, v, failed)
      PROVE  (\E t \in Tid : threads'[t].pid = p) /\ procs'[v].replacedBy = p
  <2>1. pr[p].spec = 0 /\ pr[v].spec = procs[v].spec
    BY <1>0, <1>1 DEF Crashed, Buried, SameLife, SameCore
  <2>2. procs' # pr
    BY <2>1
  <2>3. /\ RestartDue(pr, v, failed) /\ rn.nthreads + 1 \in Tid
        /\ threads'[rn.nthreads + 1].pid = rn.nprocs + 1
        /\ v # p => procs'[v] = [pr[v] EXCEPT !.replacedBy = p]
    BY <1>1, <2>2 DEF Succeeded
  <2>4. v # p
    BY <1>0, <2>1, <2>3 DEF RestartDue
  <2>5. pr[v] \in ProcRec
    BY DEF Procs
  <2> QED BY <1>1, <2>3, <2>4, <2>5 DEF ProcRec
<1>2. CASE \E v \in Pid : CrashAction(v)
  <2>1. PICK v \in Pid : CrashAction(v)
    BY <1>2
  <2>2. PICK pr2, rn :
         /\ pr2 \in Procs /\ rn \in RunRec /\ rn.nprocs = run.nprocs
         /\ Crashed(procs, pr2, v) /\ Succeeded(Bereaved(v), pr2, rn, v, TRUE)
    BY <2>1 DEF CrashAction, CrashStep
  <2> QED BY <1>1, <2>1, <2>2
<1>3. CASE Bury
  <2>1. PICK pr2 \in Procs :
          /\ Buried(procs, pr2, launcher.proc)
          /\ \/ procs' = pr2
             \/ Succeeded(Bereaved(launcher.proc), pr2, run, launcher.proc, launcher.failed)
    BY <1>3, BurySteps
  <2>2. launcher.proc \in Pid
    BY <1>3, BurySteps
  <2> QED BY <1>1, <1>3, <2>1, <2>2
<1>4. CASE \E t \in Tid : SpawnChild(t) \/ Exhaust(t)
  BY <1>0, <1>4, ChildSlot
<1>5. CASE \/ Steady(procs, procs')
           \/ Tick \/ \E t \in Tid : TakeUp(t) \/ SettleDeaths(t) \/ ExitThread(t)
  BY <1>0, <1>5, CoreSteps DEF CoreKept, SameCore
<1>6. CASE \E t \in Tid : CheckChildren(t)
  BY <1>0, <1>6, CollectTable
<1>7. CASE \E q \in Pid : Attach(q)
  BY <1>0, <1>7, AttachTable, ZenonT(60) DEF SameLife, SameCore
<1> QED BY <1>2, <1>3, <1>4, <1>5, <1>6, <1>7, ProcSteps

\* The launcher waits exactly for the hand-offs it called.
LEMMA LauncherHandsStep == ASSUME IInv, LauncherHands, [Next]_vars PROVE LauncherHands'
<1>0. launcher \in [ at: {"booting", "started", "serving", "ending", "burying", "handing",
                          "respawning", "over"},
                     proc: Pid \cup {NoProc}, failed: BOOLEAN,
                     started: BOOLEAN, stopping: BOOLEAN ]
  BY DEF IInv, Base, TypeOK
<1>1. CASE Ending
  <2>1. pick.phase = "faults" /\ pick'.phase = "none"
    BY <1>1, EndPhase
  <2>2. launcher.started /\ (pick.by = "guest" \/ launcher.at = "handing")
    BY <2>1 DEF LauncherHands, IInv, Base, Safe, HandingOver
  <2>3. launcher'.at # "handing" /\ launcher'.started
    <3>1. CASE IdleGuest
      BY <1>0, <2>1, <2>2, <3>1 DEF IdleGuest, LauncherHands
    <3>2. CASE IdleLauncher \/ \E t \in Tid : Choose(t)
      <4>1. launcher' = LauncherAfter \/ launcher' = [launcher EXCEPT !.at = "over"]
        BY <3>2, Zenon DEF IdleLauncher, Choose
      <4>2. pick.by \in {"guest", "launcher", "start"}
        BY <2>1 DEF IInv, Base, TypeOK, Safe, HandingOver
      <4> QED BY <1>0, <2>1, <2>2, <4>1, <4>2 DEF LauncherAfter, LauncherHands
    <3> QED BY <1>1, <3>1, <3>2 DEF Ending
  <2> QED BY <2>1, <2>3 DEF LauncherHands
<1>2. CASE LauncherStep /\ pick.phase = "none"
  <2>1. launcher.at # "handing"
    BY <1>2 DEF LauncherHands
  <2>2. CASE Start
    BY <1>0, <2>2 DEF Start, LauncherHands
  <2>3. CASE Bury
    <3>1. CASE HeldBy(launcher.proc)
      BY <1>0, <2>3, <3>1 DEF Bury, LauncherHands
    <3>2. CASE ~HeldBy(launcher.proc)
      BY <1>0, <1>2, <2>3, <3>2 DEF Bury, LauncherHands
    <3> QED BY <3>1, <3>2
  <2>4. CASE Started \/ EndRun \/ Finish
    <3>1. /\ launcher'.at \in {"serving", "burying", "over"} /\ UNCHANGED pick
          /\ launcher.at \in {"started", "serving", "ending"}
          /\ launcher'.started = launcher.started
      <4>1. CASE Started
        BY <1>0, <4>1 DEF Started
      <4>2. CASE EndRun
        BY <1>0, <4>2 DEF EndRun
      <4>3. CASE Finish
        BY <1>0, <4>3 DEF Finish
      <4> QED BY <2>4, <4>1, <4>2, <4>3
    <3>2. launcher'.at = "serving" => launcher.at = "started"
      BY <1>0, <2>4 DEF Started, EndRun, Finish
    <3> QED BY <1>2, <3>1, <3>2 DEF LauncherHands
  <2>5. CASE Respawn
    BY <1>0, <1>2, <2>5 DEF Respawn, LauncherHands
  <2>6. CASE \E p \in Pid : NoticeExit(p)
    <3>1. launcher'.at \in {"ending", "burying"} /\ UNCHANGED pick
      BY <1>0, <2>6 DEF NoticeExit
    <3> QED BY <1>2, <3>1 DEF LauncherHands
  <2> QED BY <1>2, <2>2, <2>3, <2>4, <2>5, <2>6 DEF LauncherStep
<1>3. CASE ~Ending /\ ~(LauncherStep /\ pick.phase = "none")
  BY <1>3, LauncherMoves DEF LauncherHands
<1> QED BY <1>1, <1>2, <1>3

\* A stop wakes every sleeper, and before the run starts only a restart
\* sleeps.
LEMMA SleepersStep ==
    ASSUME IInv, LauncherHands, StopHolds, SleepersHold, [Next]_vars
    PROVE  SleepersHold'
<1>0. threads \in Threads /\ procs \in Procs
  BY Basics
<1>1. ASSUME run'.stopped, NEW t \in Tid PROVE threads'[t].state # "blocked"
  <2>1. CASE run.stopped
    <3>1. threads[t].state # "blocked" /\ ~Inside(t)
      BY <2>1 DEF SleepersHold, StopHolds, Blocked
    <3>2. ~Added(t) \/ threads'[t].state \in {"runnable", "exited"}
      BY <2>1 DEF Added, Created, Spawned, Restarted
    <3>3. Stays(t) => threads'[t].state # "blocked"
      BY <3>1 DEF Stays, StillThere
    <3> QED BY <3>1, <3>2, <3>3, ThreadMoves DEF Picked, HandsOff, Retired
  <2>2. CASE ~run.stopped
    <3>1. Tick
      BY <1>1, <2>2, RunStays
    <3> DEFINE th == ThreadsLater(threads, pick.add)
               pr == ProcsLater(procs, pick.add)
    <3>2. threads' = StoppedThreads(th, pr)
      BY <1>1, <2>2, <3>1 DEF Tick, RunLater, IInv, Base, TypeOK, RunRec
    <3>3. Woken(threads, th) /\ Alike(procs, pr)
      <4>1. pick.add \in Nat
        BY DEF IInv, Base, TypeOK
      <4> QED BY <1>0, <4>1, ThreadsLaterLemma, ProcsLaterLemma
    <3> HIDE DEF th, pr
    <3>4. CASE th[t].state \in {"unused", "exited"}
      BY <3>2, <3>4 DEF StoppedThreads, Ready
    <3>5. CASE th[t].state \notin {"unused", "exited"}
      <4>1. th[t] \in ThreadRec /\ th[t].pid = threads[t].pid /\ threads[t] \in ThreadRec
        BY <1>0, <3>3 DEF Woken, Threads
      <4>2. threads[t].state \in {"runnable", "running", "blocked"}
        BY <1>0, <3>3, <3>5, <4>1 DEF Woken, ThreadRec
      <4>3. threads[t].pid \in Pid
        BY <4>2, Basics
      <4>4. Alive(pr, th[t].pid)
        BY <3>3, <4>1, <4>2, <4>3 DEF Alike, Alive, IInv, Base, Safe, ScheduleIsAlive, Owner
      <4>5. threads'[t] = [th[t] EXCEPT !.state = "runnable"]
        BY <3>2, <3>5, <4>4 DEF StoppedThreads, Ready
      <4> QED BY <4>1, <4>5 DEF ThreadRec
    <3> QED BY <3>4, <3>5
  <2> QED BY <2>1, <2>2
<1>2. ASSUME ~launcher'.started \/ (pick'.phase # "none" /\ pick'.by = "start"),
             NEW t \in Tid, threads'[t].state = "blocked"
      PROVE  threads'[t].deadline # NoTime
  <2>0. launcher \in [ at: {"booting", "started", "serving", "ending", "burying", "handing",
                          "respawning", "over"},
                     proc: Pid \cup {NoProc}, failed: BOOLEAN,
                     started: BOOLEAN, stopping: BOOLEAN ]
    BY DEF IInv, Base, TypeOK
  <2>1. ~launcher.started \/ (pick.phase # "none" /\ pick.by = "start")
    <3>1. CASE LauncherStep
      <4>1. CASE Start
        BY <4>1 DEF Start, IInv, Base, Safe, Launching
      <4>2. CASE Bury
        BY <1>2, <2>0, <4>2 DEF Bury, LockFree
      <4>3. CASE Started \/ EndRun \/ Finish \/ Respawn \/ \E p \in Pid : NoticeExit(p)
        BY <1>2, <2>0, <4>3 DEF Started, EndRun, Finish, Respawn, NoticeExit, LockFree
      <4> QED BY <3>1, <4>1, <4>2, <4>3 DEF LauncherStep
    <3>2. CASE Ending
      <4>1. pick'.phase = "none" /\ pick.phase # "none"
        BY <3>2, EndPhase
      <4>2. launcher.started
        BY <4>1 DEF IInv, Base, Safe, HandingOver
      <4>3. launcher'.started
        BY <2>0, <3>2, <4>2, LauncherMoves, <4>1
      <4> QED BY <1>2, <4>1, <4>3
    <3> QED BY <1>2, <3>1, <3>2, LauncherMoves
  <2>2. ~Inside(t)
    BY <2>1 DEF IInv, Base, Safe, HandingOver, Launching, OneHolder, NoThread, Tid
  <2>3. Added(t) => threads'[t].deadline # NoTime
    BY <1>2 DEF Added, Created, Spawned, Restarted
  <2>4. Stays(t) => threads'[t].deadline # NoTime
    BY <1>2, <2>1 DEF Stays, StillThere, SleepersHold, Blocked
  <2> QED BY <1>2, <2>2, <2>3, <2>4, ThreadMoves DEF Picked, HandsOff, Retired
<1> QED BY <1>1, <1>2 DEF SleepersHold, Blocked

\* From an exit event to the next life, the launcher deals with one death.
LEMMA Rounds ==
    ASSUME IInv, LauncherHands, [Next]_vars
    PROVE  /\ \A p : Burying(p) => Burying(p)' \/ (Bury /\ p = launcher.proc)
           /\ \A p : Burying(p)' => Burying(p) \/ (p \in Pid /\ NoticeExit(p))
           /\ Passing => \/ Passing' /\ launcher'.proc = launcher.proc
                         \/ Respawn \/ launcher'.at = "over"
           /\ Passing' => \/ Passing /\ launcher'.proc = launcher.proc
                          \/ \E p \in Pid : NoticeExit(p) /\ launcher'.proc = p
           /\ Bury => Passing' /\ ~Burying(launcher.proc)' /\ launcher'.proc = launcher.proc
           /\ \A p \in Pid : NoticeExit(p) => Burying(p)' /\ Passing'
<1>0. launcher \in [ at: {"booting", "started", "serving", "ending", "burying", "handing",
                          "respawning", "over"},
                     proc: Pid \cup {NoProc}, failed: BOOLEAN,
                     started: BOOLEAN, stopping: BOOLEAN ]
  BY DEF IInv, Base, TypeOK
<1>b. Bury => /\ launcher.at = "burying" /\ launcher'.proc = launcher.proc
              /\ launcher'.at \in {"handing", "respawning"}
              /\ launcher'.at = "handing" => pick'.by = "launcher"
  <2> SUFFICES ASSUME Bury
               PROVE  /\ launcher.at = "burying" /\ launcher'.proc = launcher.proc
                      /\ launcher'.at \in {"handing", "respawning"}
                      /\ launcher'.at = "handing" => pick'.by = "launcher"
    OBVIOUS
  <2>1. CASE HeldBy(launcher.proc)
    BY <1>0, <2>1 DEF Bury
  <2>2. CASE ~HeldBy(launcher.proc)
    BY <1>0, <2>2 DEF Bury
  <2> QED BY <2>1, <2>2
<1>n. ASSUME NEW p \in Pid, NoticeExit(p)
      PROVE  /\ launcher'.at \in {"ending", "burying"} /\ launcher'.proc = p
             /\ launcher.at \in {"serving", "booting"}
  BY <1>0, <1>n DEF NoticeExit
<1> DEFINE Kept == launcher'.proc = launcher.proc
<1>1. CASE Ending
  <2>1. pick.phase # "none" /\ pick'.phase = "none"
    BY <1>1, EndPhase
  <2>2. ~Bury /\ \A p : ~NoticeExit(p)
    BY <2>1 DEF Bury, NoticeExit, LockFree
  <2>3. CASE launcher'.at = "over"
    <3>1. launcher.at \in {"handing", "over"}
      <4>1. pick.by = "guest" => UNCHANGED launcher
        BY <1>0, <1>1 DEF Ending, IdleGuest, IdleLauncher, Choose, LauncherAfter
      <4> QED BY <2>1, <2>3, <4>1 DEF LauncherHands
    <3> QED BY <2>2, <2>3, <3>1 DEF Burying, Passing
  <2>4. CASE launcher'.at # "over"
    <3>0. launcher' # [launcher EXCEPT !.at = "over"] /\ ~LauncherStep
      <4>1. ~LauncherStep
        BY <2>1 DEF LauncherStep, Start, Started, EndRun, Bury, Respawn, Finish, NoticeExit, LockFree
      <4> QED BY <1>0, <2>4, <4>1
    <3>1. \/ pick.by = "guest" /\ UNCHANGED launcher
          \/ pick.by = "launcher" /\ launcher' = [launcher EXCEPT !.at = "respawning"]
          \/ pick.by = "start" /\ launcher' = [launcher EXCEPT !.at = "started"]
      <4>1. CASE IdleGuest
        BY <4>1 DEF IdleGuest
      <4>2. CASE IdleLauncher \/ \E t \in Tid : Choose(t)
        <5>1. launcher' = LauncherAfter
          BY <3>0, <4>2, Zenon DEF IdleLauncher, Choose
        <5>2. pick.by \in {"guest", "launcher", "start"}
          BY <2>1 DEF IInv, Base, TypeOK, Safe, HandingOver
        <5> QED BY <5>1, <5>2 DEF LauncherAfter
      <4> QED BY <1>1, <4>1, <4>2 DEF Ending
    <3>2. CASE pick.by = "guest" /\ UNCHANGED launcher
      <4>1. launcher.at # "handing"
        BY <3>2 DEF LauncherHands
      <4> QED BY <2>2, <3>2, <4>1 DEF Burying, Passing
    <3>3. CASE pick.by = "launcher" /\ launcher' = [launcher EXCEPT !.at = "respawning"]
      <4>1. launcher.at = "handing" /\ launcher'.at = "respawning" /\ Kept
        BY <1>0, <2>1, <3>3 DEF LauncherHands
      <4> QED BY <2>2, <3>3, <4>1 DEF Burying, Passing
    <3>4. CASE pick.by = "start" /\ launcher' = [launcher EXCEPT !.at = "started"]
      <4>1. launcher.at = "handing" /\ launcher'.at = "started" /\ Kept
        BY <1>0, <2>1, <3>4 DEF LauncherHands
      <4> QED BY <2>2, <3>4, <4>1 DEF Burying, Passing
    <3> QED BY <3>1, <3>2, <3>3, <3>4
  <2> QED BY <2>3, <2>4
<1>2. CASE LauncherStep /\ pick.phase = "none"
  <2>0. launcher.at # "handing"
    BY <1>2 DEF LauncherHands
  <2>1. CASE Bury
    <3>1. \A p : ~NoticeExit(p)
      BY <1>b, <2>1 DEF NoticeExit
    <3> QED BY <1>b, <2>0, <2>1, <3>1 DEF Burying, Passing
  <2>2. CASE \E p \in Pid : NoticeExit(p)
    <3>1. ~Bury
      BY <2>2 DEF Bury, NoticeExit
    <3> QED BY <1>n, <2>0, <2>2, <3>1 DEF Burying, Passing
  <2>3. CASE Start \/ Started \/ EndRun \/ Respawn \/ Finish
    <3>0. ~Bury /\ \A p : p \in Pid => ~NoticeExit(p)
      <4>1. CASE Bury
        BY <1>0, <2>3, <4>1, <1>b DEF Start, Started, EndRun, Respawn, Finish
      <4>2. ASSUME NEW p \in Pid, NoticeExit(p) PROVE FALSE
        <5>1. launcher.at \in {"serving", "booting"} /\ launcher'.at \in {"ending", "burying"}
          BY <1>n, <4>2
        <5>2. \/ launcher'.at \in {"handing", "serving", "booting", "over"}
              \/ launcher.at \in {"started", "ending", "respawning"}
          BY <1>0, <2>3 DEF Start, Started, EndRun, Respawn, Finish
        <5> QED BY <5>1, <5>2
      <4> QED BY <4>1, <4>2
    <3>1. CASE Start
      <4>1. launcher.at = "booting" /\ launcher'.at = "handing" /\ pick'.by = "start"
        BY <1>0, <3>1 DEF Start
      <4> QED BY <3>0, <4>1 DEF Burying, Passing
    <3>2. CASE Started \/ Finish
      <4>1. launcher.at \in {"started", "serving"} /\ launcher'.at \in {"serving", "over"}
        BY <1>0, <3>2 DEF Started, Finish
      <4> QED BY <3>0, <4>1 DEF Burying, Passing
    <3>3. CASE EndRun
      <4>1. launcher.at = "ending" /\ launcher'.at = "burying" /\ Kept
        BY <1>0, <3>3 DEF EndRun
      <4> QED BY <3>0, <4>1 DEF Burying, Passing
    <3>4. CASE Respawn
      <4>1. launcher.at = "respawning" /\ launcher'.at \in {"serving", "booting"}
        BY <1>0, <3>4 DEF Respawn
      <4> QED BY <3>0, <3>4, <4>1 DEF Burying, Passing
    <3> QED BY <2>3, <3>1, <3>2, <3>3, <3>4
  <2> QED BY <1>2, <2>1, <2>2, <2>3 DEF LauncherStep
<1>3. CASE ~Ending /\ ~(LauncherStep /\ pick.phase = "none")
  <2>1. UNCHANGED launcher
    BY <1>3, LauncherMoves
  <2>2. ~Bury /\ \A p : p \in Pid => ~NoticeExit(p)
    BY <1>3 DEF LauncherStep, Bury, NoticeExit, LockFree
  <2>3. launcher.at = "handing" => pick.by = pick'.by
    BY <1>3, LauncherMoves DEF LauncherHands
  <2> QED BY <2>1, <2>2, <2>3 DEF Burying, Passing
<1> QED BY <1>1, <1>2, <1>3

\* A death that was told of is being buried until it is known.
LEMMA DeathsKnownStep ==
    ASSUME IInv, IInv', LauncherHands, OverQuiet, ExitedSeen, DeathsKnown, [Next]_vars
    PROVE  DeathsKnown'
<1>1. ASSUME launcher'.at # "over", NEW p \in Pid, real'[p] = "reaped"
      PROVE  procs'[p].state = "exited" \/ Burying(p)'
  <2>1. CASE real[p] = "reaped"
    <3>1. launcher.at # "over"
      BY <1>1, OverStep
    <3>2. p <= run.nprocs
      BY <2>1 DEF IInv, Base, Safe, Placed
    <3>3. procs[p].state = "exited" \/ Burying(p)
      BY <2>1, <3>1 DEF DeathsKnown
    <3> QED BY <3>2, <3>3, Registers, Rounds, BuriedSlot
  <2>2. CASE real[p] # "reaped"
    BY <1>1, <2>2, ReapedBy, Rounds
  <2> QED BY <2>1, <2>2
<1>2. ASSUME NEW v, v = launcher'.proc, Burying(v)' PROVE procs'[v].state # "exited"
  <2>1. CASE Burying(v)
    <3>1. v = launcher.proc /\ procs[v].state # "exited"
      BY <2>1 DEF Burying, DeathsKnown
    <3>2. v \in Pid /\ real[v] = "reaped"
      BY <2>1 DEF Burying, IInv, Base, Safe, Launching
    <3>3. v <= run.nprocs
      BY <3>2 DEF IInv, Base, Safe, Placed
    <3>4. ~Bury
      BY <1>2, <3>1, Rounds DEF Burying
    <3>5. ~TakesSlot(v)
      BY <3>2, <3>3, Registers
    <3>6. SameFate(procs[v], procs'[v]) \/ Fell(v)
      BY <3>2, <3>4, <3>5, FateSteps DEF Buries
    <3> QED BY <3>1, <3>6 DEF SameFate, Fell
  <2>2. CASE v \in Pid /\ NoticeExit(v)
    <3>1. UNCHANGED procs /\ Dead(v)
      BY <2>2 DEF NoticeExit
    <3> QED BY <2>2, <3>1 DEF ExitedSeen, Dead
  <2> QED BY <1>2, <2>1, <2>2, Rounds
<1>3. Burying(launcher.proc)' => procs'[launcher'.proc].state # "exited"
  <2>1. PICK v : v = launcher'.proc
    OBVIOUS
  <2> QED BY <1>2, <2>1 DEF Burying
<1> QED BY <1>1, <1>3 DEF DeathsKnown

\* The launcher spawns a life once, after it has passed on the death before.
LEMMA NotYetSpawnedStep ==
    ASSUME IInv, IInv', LauncherHands, OneLifeHolds, OneLifeHolds', NotYetSpawned, [Next]_vars
    PROVE  NotYetSpawned'
<1>0. run.nprocs \in Nat /\ Successors /\ Successors'
  BY Basics DEF RunRec, OneLifeHolds
<1> SUFFICES ASSUME launcher'.proc \in Pid, Passing', procs'[launcher'.proc].replacedBy # NoProc
             PROVE  real'[procs'[launcher'.proc].replacedBy] = "none"
  BY DEF NotYetSpawned
<1> DEFINE v == launcher'.proc
           n == procs'[v].replacedBy
<1>1. CASE Passing /\ launcher'.proc = launcher.proc
  <2>0. ~Respawn
    <3>1. Respawn => launcher'.proc = NoProc
      BY DEF Respawn, IInv, Base, TypeOK
    <3> QED BY <3>1 DEF Pid, NoProc
  <2>1. CASE procs[v].replacedBy = n
    <3>1. n \in Pid /\ n <= run.nprocs
      BY <2>1, SuccessorSlot
    <3>2. real[n] = "none"
      BY <1>1, <2>1 DEF NotYetSpawned
    <3> QED BY <1>0, <2>0, <3>1, <3>2, RealSteps
  <2>2. CASE procs[v].replacedBy # n
    <3>1. n = run.nprocs + 1 /\ UNCHANGED real
      BY <1>0, <2>2, LineStays
    <3>2. n \in Pid
      <4>1. procs'[v] \in ProcRec
        BY DEF IInv, Base, TypeOK
      <4> QED BY <4>1 DEF ProcRec
    <3>3. real[n] = "none"
      BY <1>0, <3>1, <3>2 DEF IInv, Base, Safe, Placed
    <3> QED BY <3>1, <3>3
  <2> QED BY <2>1, <2>2
<1>2. CASE \E p \in Pid : NoticeExit(p) /\ launcher'.proc = p
  <2>1. UNCHANGED procs /\ Dead(v) /\ real' = [real EXCEPT ![v] = "reaped"]
    BY <1>2 DEF NoticeExit
  <2>2. n \in Pid /\ n > v /\ procs[v].spec # 0 /\ procs[n].spec = procs[v].spec
    BY <1>0, <2>1, SuccessorSlot DEF Successors
  <2>3. v \in Nat /\ n \in Nat /\ v < n
    BY <2>2 DEF Pid
  <2>4. real[n] = "none"
    BY <2>1, <2>2, <2>3 DEF OneLifeHolds, Lineage, Dead
  <2> QED BY <2>1, <2>3, <2>4 DEF IInv, Base, TypeOK
<1> QED BY <1>1, <1>2, Rounds

\* A kill registers no life that the run does not owe.
LEMMA SpentDies ==
    ASSUME IInv, NEW t \in Tid, NEW q \in Pid, Kill(t, q), Spent(q)
    PROVE  run'.nprocs = run.nprocs
<1>0. procs \in Procs /\ run \in RunRec
  BY Basics
<1> DEFINE S == Condemned([procs EXCEPT ![q].killed = TRUE], Owing)
           pr == Signalled(procs, S)
<1>1. Crash(threads, pr, [Struck EXCEPT !.unsignalled = FALSE], q)
  BY Zenon DEF Kill
<1> HIDE DEF S
<1>2. pr \in Procs /\ pr[q].spec = procs[q].spec /\ pr[q].replacedBy = procs[q].replacedBy
      /\ pr[q].restartsLeft = procs[q].restartsLeft
  <2>1. pr[q] = procs[q] \/ pr[q] = [procs[q] EXCEPT !.signalled = TRUE]
    BY DEF Signalled
  <2>2. procs[q] \in ProcRec
    BY <1>0 DEF Procs
  <2>3. pr \in Procs
    BY <1>0, SignalledLemma
  <2> HIDE DEF pr
  <2> QED BY <2>1, <2>2, <2>3 DEF ProcRec
<1> HIDE DEF pr
<1>3. PICK pr2, th : /\ pr2 = [pr EXCEPT ![q] = [Unscheduled(@) EXCEPT
                                   !.killed = TRUE, !.unsettled = (pr[q].state = "live")]]
                    /\ RegisterRestart(th, pr2, [Struck EXCEPT !.unsignalled = FALSE], q, TRUE)
  BY <1>1 DEF Crash
<1>4. pr2[q].spec = procs[q].spec /\ pr2[q].replacedBy = procs[q].replacedBy
      /\ pr2[q].restartsLeft = procs[q].restartsLeft
  BY <1>2, <1>3 DEF Unscheduled, Procs, ProcRec
<1>5. ~(pr2[q].replacedBy = NoProc /\ RestartDue(pr2, q, TRUE) /\ HasRoom)
  BY <1>4 DEF Spent, RestartDue
<1>6. run' = [Struck EXCEPT !.unsignalled = FALSE]
  BY <1>3, <1>5 DEF RegisterRestart
<1> QED BY <1>0, <1>6 DEF Struck, RunRec

\* Nobody spawns a life but the launcher, when it is through with the one
\* before.
LEMMA NextLivesStep ==
    ASSUME IInv, IInv', LauncherHands, OneLifeHolds, OneLifeHolds', OverQuiet, DeathsKnown, NextLives,
           TargetsSpent, [Next]_vars
    PROVE  NextLives'
<1>0. run.nprocs \in Nat /\ Successors /\ Successors'
  BY Basics DEF RunRec, OneLifeHolds
<1> SUFFICES ASSUME launcher'.at # "over", NEW p \in Pid,
                    real'[p] = "none", procs'[p].state = "starting", procs'[p].spec # 0
             PROVE  Predecessor(p)'
  BY DEF NextLives
<1>1. launcher.at # "over" /\ real[p] = "none"
  BY OverStep, RealSteps
<1>2. CASE TakesSlot(p)
  <2>1. p = run.nprocs + 1
    BY <1>2 DEF TakesSlot
  <2>2. PICK v \in Pid : /\ CrashAction(v) \/ (Bury /\ v = launcher.proc)
                         /\ procs'[v].replacedBy = p
    BY <1>0, <2>1, BirthOf
  <2>3. CASE Bury /\ v = launcher.proc
    BY <2>2, <2>3, Rounds DEF Predecessor
  <2>4. CASE CrashAction(v)
    <3>1. procs[v].state # "exited"
      <4>1. CASE Alive(procs, v)
        BY <4>1 DEF Alive
      <4>2. CASE \E t \in Tid : Kill(t, v)
        <5>1. PICK t \in Tid : Kill(t, v)
          BY <4>2
        <5>2. pc[t] = "killing" /\ run.target = v /\ "kill" \in Calls
          BY <5>1 DEF Kill, Strikes
        <5>3. run'.nprocs # run.nprocs
          BY <1>0, <2>1 DEF Successors, Pid
        <5> QED BY <5>1, <5>2, <5>3, SpentDies DEF TargetsSpent
      <4> QED BY <2>4, <4>1, <4>2 DEF CrashAction
    <3>2. UNCHANGED real /\ UNCHANGED launcher
      BY <2>4 DEF CrashAction, InjectCrash, InjectShutdown, Kill
    <3>3. CASE real[v] # "reaped"
      BY <2>2, <3>2, <3>3 DEF Predecessor
    <3>4. CASE real[v] = "reaped"
      <4>1. Burying(v)
        BY <1>1, <3>1, <3>4 DEF DeathsKnown
      <4> QED BY <2>2, <3>2, <4>1 DEF Burying, Passing, Predecessor
    <3> QED BY <3>3, <3>4
  <2> QED BY <2>2, <2>3, <2>4
<1>3. CASE ~TakesSlot(p)
  <2>1. procs[p].state = "starting" /\ procs[p].spec # 0
    <3>1. SameFate(procs[p], procs'[p]) \/ Fell(p) \/ Buries(p)
      BY <1>3, FateSteps
    <3> QED BY <3>1 DEF SameFate, Fell, Buries
  <2>2. PICK q \in Pid : /\ procs[q].replacedBy = p
                         /\ real[q] # "reaped" \/ (launcher.proc = q /\ Passing)
    BY <1>1, <2>1 DEF NextLives, Predecessor
  <2>3. procs'[q].replacedBy = p
    <3>1. p # NoProc
      BY DEF Pid, NoProc
    <3> QED BY <1>0, <2>2, <3>1, LineStays
  <2>4. CASE launcher.proc = q /\ Passing
    <3>1. ~Respawn
      <4>1. Respawn => real' = [x \in Pid |-> IF x = procs[launcher.proc].replacedBy /\ real[x] = "none"
                                              THEN "up" ELSE real[x]]
        BY DEF Respawn
      <4> QED BY <1>1, <2>2, <2>4, <4>1
    <3> QED BY <2>3, <2>4, <3>1, Rounds DEF Predecessor
  <2>5. CASE real[q] # "reaped" /\ real'[q] # "reaped"
    BY <2>3, <2>5 DEF Predecessor
  <2>6. CASE real[q] # "reaped" /\ real'[q] = "reaped"
    <3>1. NoticeExit(q)
      BY <2>6, ReapedBy
    <3>2. Burying(q)' /\ Passing'
      BY <3>1, Rounds
    <3> QED BY <2>3, <3>2 DEF Predecessor, Burying
  <2> QED BY <2>2, <2>4, <2>5, <2>6
<1> QED BY <1>2, <1>3

\* Threads come with a life, and leave with it or by pthread_exit.
LEMMA ThreadsHoldStep ==
    ASSUME IInv, IInv', OneLifeHolds, ThreadsHold, [Next]_vars
    PROVE  ThreadsHold'
<1>0. run.nprocs \in Nat /\ Successors
  BY Basics DEF RunRec, OneLifeHolds
<1>t. ASSUME NEW t \in Tid, threads[t].pid \in Pid
      PROVE  threads[t].pid <= run.nprocs /\ threads[t].state # "unused"
  <2>1. threads[t].pid # NoProc
    BY <1>t DEF Pid, NoProc
  <2> QED BY <1>t, <2>1, Basics DEF IInv, Base, Safe, Placed
<1>1. ASSUME NEW p \in Pid, procs'[p].spec # 0 PROVE \E t \in Tid : threads'[t].pid = p
  <2>1. CASE TakesSlot(p)
    BY <1>0, <1>1, <2>1, BirthOf DEF TakesSlot
  <2>2. CASE ~TakesSlot(p)
    <3>1. procs[p].spec # 0
      <4>1. SameFate(procs[p], procs'[p]) \/ Fell(p) \/ Buries(p)
        BY <2>2, FateSteps
      <4> QED BY <1>1, <4>1 DEF SameFate, Fell, Buries
    <3>2. PICK t \in Tid : threads[t].pid = p
      BY <3>1 DEF ThreadsHold
    <3> QED BY <3>2, OwnersStay
  <2> QED BY <2>1, <2>2
<1>2. ASSUME "pthread_exit" \notin Calls', NEW t \in Tid, threads'[t].state = "exited"
      PROVE  procs'[threads'[t].pid].killed \/ procs'[threads'[t].pid].state = "exited"
  <2>1. "pthread_exit" \notin Calls
    BY <1>2, RunStays DEF Calls
  <2>2. CASE threads[t].state = "exited" /\ threads'[t].pid = threads[t].pid
    <3>1. threads[t].pid \in Pid /\ threads[t].pid <= run.nprocs
      BY <2>2, Basics
    <3>2. procs[threads[t].pid].killed \/ procs[threads[t].pid].state = "exited"
      BY <2>1, <2>2 DEF ThreadsHold
    <3> QED BY <2>2, <3>1, <3>2, Registers
  <2>3. CASE Departed(t)
    <3>1. PICK v \in Pid : /\ threads'[t].pid = v /\ threads[t].pid = v
                           /\ CrashAction(v) \/ (Bury /\ v = launcher.proc)
      BY <2>3 DEF Departed
    <3>2. v <= run.nprocs
      BY <1>t, <3>1
    <3> QED BY <3>1, <3>2, CrashMarks, BuriedSlot
  <2>4. CASE StillBorn(t)
    BY <2>4 DEF StillBorn
  <2>5. CASE BlockOnChildren(t)
    <3>1. HandsOff(t) \/ Stays(t)
      <4>1. Inside(t) /\ pick.phase = "none" /\ BlockOn(t, "wait", NoTime, "checking")
        BY <2>5 DEF BlockOnChildren, Inside, LockFree
      <4> QED BY <4>1, HandOffMoves
    <3>2. threads[t].state = "running" /\ threads[t] \in ThreadRec /\ threads \in Threads
      BY <2>5, Basics DEF BlockOnChildren, IInv, Base, Safe, OneHolder, Inside, Threads
    <3>3. \/ threads'[t] = [threads[t] EXCEPT !.stale = FALSE]
          \/ threads'[t] = [threads[t] EXCEPT !.state = "blocked", !.key = "wait", !.deadline = NoTime]
      BY <2>5, <3>2 DEF BlockOnChildren, BlockOn, GuestHandOff, Threads
    <3>4. threads'[t].state \in {"running", "blocked"}
      BY <3>2, <3>3 DEF ThreadRec
    <3> QED BY <1>2, <3>4
  <2>6. CASE ExitThread(t)
    BY <2>1, <2>6 DEF ExitThread
  <2>7. CASE KeptThread(threads[t], threads'[t])
    BY <1>2, <2>2, <2>7 DEF KeptThread
  <2>8. CASE Moved(t)
    BY <1>2, <2>8 DEF Moved
  <2> QED BY <2>3, <2>4, <2>5, <2>6, <2>7, <2>8, ThreadSteps
<1>3. ASSUME NEW t \in Tid, NEW p \in Pid, p = threads'[t].pid
      PROVE  procs'[p].spec # 0 \/ real'[p] # "none" \/ procs'[p].state = "exited"
  <2>1. CASE threads[t].pid \in Pid
    <3>1. threads[t].pid = p /\ p <= run.nprocs
      BY <1>3, <1>t, <2>1, OwnersStay
    <3>2. procs[p].spec # 0 \/ real[p] # "none" \/ procs[p].state = "exited"
      BY <3>1 DEF ThreadsHold
    <3> QED BY <3>1, <3>2, Registers, RealSteps
  <2>2. CASE threads[t].pid \notin Pid
    <3>1. Added(t)
      BY <1>3, <2>2, ThreadMoves DEF Stays, StillThere, Picked, HandsOff, Retired
    <3>2. CASE Created(t)
      <4>1. PICK u \in Tid : CreateThread(u) /\ threads'[t].pid = Owner(u)
        BY <3>2 DEF Created
      <4>2. Active(u) /\ p = threads[u].pid
        BY <1>3, <4>1 DEF CreateThread, Runs, Active, Owner
      <4>3. real[p] = "up"
        BY <4>2 DEF IInv, Base, Safe, Tenants
      <4> QED BY <4>3, RealSteps
    <3>3. CASE Spawned(t)
      BY <1>3, <3>3 DEF Spawned
    <3>4. CASE Restarted(t)
      BY <1>3, <3>4 DEF Restarted
    <3> QED BY <3>1, <3>2, <3>3, <3>4 DEF Added
  <2> QED BY <2>1, <2>2
<1> QED BY <1>1, <1>2, <1>3 DEF ThreadsHold

----------------------------------------------------------------------------
(***************************************************************************)
(* The baton is handed on, or stays where it is.                           *)
(***************************************************************************)

\* The baton is where the last choice left it.
LEMMA CurrentStays ==
    ASSUME IInv, [Next]_vars, ~\E t \in Tid : Choose(t)
    PROVE  run'.current = run.current
<1>0. run \in RunRec /\ launcher.proc \in Pid \cup {NoProc}
  BY Basics DEF IInv, Base, TypeOK
<1>1. CASE PickStep
  <2>1. CASE Tick
    <3>1. run' = RunLater(run, pick.add) \/ run' = [RunLater(run, pick.add) EXCEPT !.stopped = TRUE]
      BY <2>1 DEF Tick
    <3> QED BY <1>0, <3>1 DEF RunLater, RunRec
  <2>2. CASE InjectCrash \/ InjectShutdown
    <3>1. CASE \E v \in Pid : Alive(procs, v) /\ CrashStep(v)
      BY <3>1, SucceededRun DEF CrashStep
    <3>2. CASE ~\E v \in Pid : Alive(procs, v) /\ CrashStep(v)
      BY <2>2, <3>2, CrashSteps
    <3> QED BY <3>1, <3>2
  <2>3. CASE Jump
    BY <2>3 DEF Jump
  <2>4. CASE IdleGuest \/ IdleLauncher
    <3>1. \E b : run' = [run EXCEPT !.unsignalled = b]
      BY <2>4, Zenon DEF IdleGuest, IdleLauncher
    <3> QED BY <1>0, <3>1 DEF RunRec
  <2> QED BY <1>1, <2>1, <2>2, <2>3, <2>4 DEF PickStep
<1>2. CASE \E t \in Tid : Return(t)
  <2>1. PICK t \in Tid : Return(t)
    BY <1>2
  <2>2. CASE \E q \in Pid : Kill(t, q)
    <3>1. PICK q \in Pid : CrashStep(q)
      BY <2>2, CrashSteps
    <3> QED BY <3>1, SucceededRun DEF CrashStep
  <2>3. CASE \E q \in Pid : Signal(t, q)
    BY <1>0, <2>3 DEF Signal, Struck, RunRec
  <2>4. CASE ~\E q \in Pid : Kill(t, q) \/ Signal(t, q)
    BY <2>1, <2>4 DEF Return, DieStopped, TakeUp, SettleDeaths, AwaitAttach, CheckChildren,
                      BlockOnChildren, Poll, PollGivesUp
  <2> QED BY <2>2, <2>3, <2>4
<1>3. CASE \E t \in Tid : Guest(t)
  <2>1. PICK t \in Tid : Guest(t)
    BY <1>3
  <2>2. CASE \E q \in Pid : Aim(t, q)
    BY <1>0, <2>2 DEF Aim, RunRec
  <2>3. CASE CreateThread(t) \/ Exhaust(t) \/ SpawnChild(t) \/ ReadClock(t)
    BY <1>0, <2>3 DEF CreateThread, Exhaust, SpawnChild, ReadClock, RunLater, RunRec
  <2>4. CASE \/ Yield(t) \/ Block(t) \/ Wake(t) \/ ExitThread(t) \/ ExitProcess(t) \/ SetTimer(t)
             \/ Waitpid(t)
    BY <2>4 DEF Yield, Block, Wake, ExitThread, ExitProcess, SetTimer, Waitpid
  <2> QED BY <2>1, <2>2, <2>3, <2>4 DEF Guest
<1>4. CASE Aside
  BY <1>4 DEF Aside, Leave, OutsideWake, Slain, Attach, FailToAttach
<1>5. CASE LauncherStep
  <2>1. CASE Bury
    <3>1. PICK pr2 : run' = run \/ Succeeded(Bereaved(launcher.proc), pr2, run, launcher.proc, launcher.failed)
      BY <2>1, BurySteps
    <3> QED BY <1>0, <3>1, SucceededRun
  <2>2. CASE Started \/ EndRun \/ Respawn
    BY <1>0, <2>2 DEF Started, EndRun, Respawn, StopNow, RunRec
  <2>3. CASE Start \/ Finish \/ \E p \in Pid : NoticeExit(p)
    BY <2>3 DEF Start, Finish, NoticeExit
  <2> QED BY <1>5, <2>1, <2>2, <2>3 DEF LauncherStep
<1>6. CASE UNCHANGED vars
  BY <1>6 DEF vars
<1> QED BY <1>1, <1>2, <1>3, <1>4, <1>5, <1>6 DEF Next, Over

\* A holder that polls goes on until it looks again or its process dies.
LEMMA PollingStays ==
    ASSUME IInv, NotYetSpawned, [Next]_vars, pick.phase = "none", pick'.phase = "none",
           NEW c \in Tid, pc[c] = "polling", real'[threads[c].pid] = "up"
    PROVE  pc'[c] = "polling"
<1>0. /\ pc \in [Tid -> Pcs] /\ threads[c].state # "unused"
      /\ threads[c].pid \in Pid /\ real[threads[c].pid] = "up"
      /\ procs[threads[c].pid].state # "starting"
      /\ c <= run.nthreads /\ run.nthreads \in Nat /\ c \in Nat
  BY Basics DEF IInv, Base, Safe, Tenants, Active, Placed, RunRec, Tid
<1>p. real \in [Pid -> {"none", "up", "exit0", "failed", "reaped"}]
  BY DEF IInv, Base, TypeOK
<1>g. ASSUME NEW S, NEW status \in {"exit0", "failed"}, NEW pcs, RealDeath(S, status),
             pc' = ThreadsGone(pcs, S), pcs[c] = "polling"
      PROVE  pc'[c] = "polling"
  <2>1. threads[c].pid \notin S
    BY <1>0, <1>p, <1>g DEF RealDeath
  <2> QED BY <1>g, <2>1 DEF ThreadsGone, Owner
<1>1. ~PickStep
  BY DEF PickStep, Tick, InjectCrash, InjectShutdown, Jump, Choose, IdleGuest,
         IdleLauncher, Idle, FaultsDone
<1>i. ASSUME NEW u \in Tid, Inside(u), NEW place, Goes(u, place) PROVE pc'[c] = "polling"
  BY <1>0, <1>i DEF Goes, Inside
<1>2. CASE \E u \in Tid : Return(u)
  <2>1. PICK u \in Tid : Return(u)
    BY <1>2
  <2>2. CASE DieStopped(u) \/ PollGivesUp(u)
    BY <1>g, <2>2 DEF DieStopped, PollGivesUp
  <2>3. CASE TakeUp(u)
    <3>1. CASE \E place : Goes(u, place)
      BY <1>0, <2>3, <3>1 DEF TakeUp, MayTakeUp, Goes
    <3>2. CASE RealDeath({Owner(u)}, "failed") /\ pc' = ThreadsGone(pc, {Owner(u)})
      BY <1>g, <3>2
    <3> QED BY <2>3, <3>1, <3>2 DEF TakeUp
  <2>4. CASE SettleDeaths(u) \/ AwaitAttach(u) \/ CheckChildren(u)
    <3>1. Inside(u) /\ \E place : Goes(u, place)
      BY <2>4 DEF SettleDeaths, AwaitAttach, CheckChildren, Inside
    <3> QED BY <1>i, <3>1
  <2>5. CASE BlockOnChildren(u)
    <3>1. Inside(u) /\ \E place : Goes(u, place)
      BY <2>5 DEF BlockOnChildren, BlockOn, Inside
    <3> QED BY <1>i, <3>1
  <2>6. CASE Poll(u)
    BY <2>6 DEF Poll
  <2>7. CASE \E q \in Pid : Kill(u, q) \/ Signal(u, q)
    <3>1. Inside(u) /\ \E place : Goes(u, place)
      BY <2>7 DEF Kill, Signal, Strikes, Inside
    <3> QED BY <1>i, <3>1
  <2> QED BY <2>1, <2>2, <2>3, <2>4, <2>5, <2>6, <2>7 DEF Return
<1>3. CASE \E u \in Tid : Guest(u)
  <2>1. PICK u \in Tid : Guest(u)
    BY <1>3
  <2>2. pc[u] = "guest" /\ Inside(u) /\ c # u
    BY <2>1 DEF Guest, Yield, Block, Wake, CreateThread, Exhaust, ExitThread, ExitProcess, ReadClock,
                SetTimer, SpawnChild, Waitpid, Aim, Runs, LockFree, Inside
  <2>3. CASE Yield(u) \/ ExitThread(u) \/ Waitpid(u) \/ \E q \in Pid : Aim(u, q)
    <3>1. \E place : Goes(u, place)
      BY <2>3 DEF Yield, ExitThread, Waitpid, Aim
    <3> QED BY <1>i, <2>2, <3>1
  <2>4. CASE Block(u)
    <3>1. \E place : Goes(u, place)
      BY <2>4 DEF Block, BlockOn
    <3> QED BY <1>i, <2>2, <3>1
  <2>5. CASE CreateThread(u)
    BY <1>0, <2>5 DEF CreateThread
  <2>6. CASE SpawnChild(u)
    <3>1. \/ pc' = [pc EXCEPT ![run.nthreads + 1] = "boot", ![u] = "awaiting"]
          \/ pc' = [pc EXCEPT ![run.nthreads + 1] = "gone"]
      BY <2>6, Zenon DEF SpawnChild
    <3> QED BY <1>0, <2>2, <3>1
  <2>7. CASE Exhaust(u) \/ ExitProcess(u)
    BY <1>g, <2>7 DEF Exhaust, ExitProcess
  <2>8. CASE Wake(u) \/ ReadClock(u) \/ SetTimer(u)
    BY <2>8 DEF Wake, ReadClock, SetTimer
  <2> QED BY <2>1, <2>3, <2>4, <2>5, <2>6, <2>7, <2>8 DEF Guest
<1>4. CASE Aside
  <2>1. CASE \E u \in Tid : Leave(u)
    BY <1>0, <2>1 DEF Leave, Goes
  <2>2. CASE \E p \in Pid : Slain(p) \/ FailToAttach(p)
    BY <1>g, <2>2 DEF Slain, FailToAttach
  <2>3. CASE \E p \in Pid : Attach(p)
    <3>1. PICK p \in Pid : Attach(p)
      BY <2>3
    <3>2. p # threads[c].pid
      BY <1>0, <3>1 DEF Attach
    <3>3. CASE procs[p].killed
      BY <1>g, <3>1, <3>3 DEF Attach
    <3>4. CASE ~procs[p].killed
      BY <3>1, <3>2, <3>4 DEF Attach, Owner
    <3> QED BY <3>3, <3>4
  <2>4. CASE \E p \in Pid : OutsideWake(p)
    BY <2>4 DEF OutsideWake
  <2> QED BY <1>4, <2>1, <2>2, <2>3, <2>4 DEF Aside
<1>5. CASE LauncherStep
  <2>1. CASE Respawn
    <3>1. launcher.proc \in Pid /\ Passing
      BY <2>1 DEF Respawn, Passing, IInv, Base, Safe, Launching
    <3> DEFINE new == procs[launcher.proc].replacedBy
    <3>2. new # NoProc => threads[c].pid # new
      BY <1>0, <3>1 DEF NotYetSpawned
    <3>3. pc' = [t \in Tid |-> IF new # NoProc /\ Owner(t) = new THEN "boot" ELSE pc[t]]
      BY <2>1, Zenon DEF Respawn
    <3> HIDE DEF new
    <3> QED BY <3>2, <3>3 DEF Owner
  <2>2. CASE ~Respawn
    BY <1>5, <2>2 DEF LauncherStep, Start, Started, EndRun, Bury, Finish, NoticeExit
  <2> QED BY <2>1, <2>2
<1>6. CASE Over \/ UNCHANGED vars
  BY <1>6 DEF Over, vars
<1> QED BY <1>1, <1>2, <1>3, <1>4, <1>5, <1>6 DEF Next

----------------------------------------------------------------------------
(***************************************************************************)
(* Who comes back.  A run whose last thread has left by pthread_exit stays *)
(* empty if only a failure brings an entry back, for a failure has a       *)
(* thread that did not leave.                                              *)
(***************************************************************************)

\* A life of an entry that is never shut down has not been.
Unshut(rec) == Faults(rec.spec).shutdown = {} => rec.shutdown = NoTime /\ ~rec.shutDown
UnshutHolds == \A p \in Pid : Unshut(procs[p])

\* The same of a shutdown
SameShut(rec, rec2) ==
    /\ rec2.spec = rec.spec /\ rec2.shutDown = rec.shutDown
    /\ rec.shutdown = NoTime => rec2.shutdown = NoTime
AllSameShut(pr, pr2) == \A p \in Pid : SameShut(pr[p], pr2[p])

\* Fields that have nothing to do with a shutdown
LEMMA ShutFields ==
    ASSUME NEW rec \in ProcRec, NEW a, NEW b, NEW c, NEW d
    PROVE  /\ SameShut(rec, rec)
           /\ SameShut(rec, [rec EXCEPT !.signalled = a]) /\ SameShut(rec, [rec EXCEPT !.reaped = a])
           /\ SameShut(rec, [rec EXCEPT !.unsettled = a]) /\ SameShut(rec, [rec EXCEPT !.outside = a])
           /\ SameShut(rec, [rec EXCEPT !.stopped = a]) /\ SameShut(rec, [rec EXCEPT !.exiting = a])
           /\ SameShut(rec, [rec EXCEPT !.pending = a]) /\ SameShut(rec, [rec EXCEPT !.state = a])
           /\ SameShut(rec, [rec EXCEPT !.known = a, !.state = b])
           /\ SameShut(rec, [rec EXCEPT !.pending = a, !.alarm = b])
           /\ SameShut(rec, [rec EXCEPT !.exiting = a, !.pending = b])
           /\ SameShut(rec, [rec EXCEPT !.alarm = a, !.interval = b])
           /\ SameShut(rec, [rec EXCEPT !.crashesLeft = a])
           /\ SameShut(rec, Unscheduled(rec))
           /\ SameShut(rec, [Unscheduled(rec) EXCEPT !.killed = a, !.unsettled = b])
           /\ SameShut(rec, [rec EXCEPT !.crash = Later(@, a), !.shutdown = Later(@, a),
                                        !.kill = Later(@, a), !.alarm = Later(@, a)])
BY DEF SameShut, ProcRec, Unscheduled, Later

LEMMA ShutKept ==
    ASSUME NEW a, NEW b, AllSameShut(a, b), \A p \in Pid : Unshut(a[p]) PROVE \A p \in Pid : Unshut(b[p])
BY DEF AllSameShut, SameShut, Unshut

LEMMA SameShutTransitive ==
    ASSUME NEW a, NEW b, NEW c, AllSameShut(a, b), AllSameShut(b, c) PROVE AllSameShut(a, c)
BY DEF AllSameShut, SameShut

\* Neither the clock nor a signal, a timer or a take-up shuts anybody down.
LEMMA ShutTables ==
    ASSUME NEW pr \in Procs
    PROVE  /\ AllSameShut(pr, pr)
           /\ \A d : AllSameShut(pr, ProcsLater(pr, d))
           /\ \A S : AllSameShut(pr, Signalled(pr, S))
           /\ AllSameShut(pr, StoppedProcs(pr)) /\ AllSameShut(pr, Settled(pr))
           /\ procs \in Procs => AllSameShut(procs, Rung)
<1>0. \A p \in Pid : pr[p] \in ProcRec
  BY DEF Procs
<1>1. \A d : AllSameShut(pr, ProcsLater(pr, d))
  BY <1>0, ShutFields DEF AllSameShut, ProcsLater
<1>2. \A S : AllSameShut(pr, Signalled(pr, S))
  BY <1>0, ShutFields DEF AllSameShut, Signalled
<1>3. AllSameShut(pr, pr) /\ AllSameShut(pr, StoppedProcs(pr)) /\ AllSameShut(pr, Settled(pr))
  BY <1>0, ShutFields DEF AllSameShut, StoppedProcs, Settled
<1>4. ASSUME procs \in Procs PROVE AllSameShut(procs, Rung)
  <2>1. \A p \in Pid : procs[p] \in ProcRec
    BY <1>4 DEF Procs
  <2>2. ASSUME NEW p \in Pid, NEW b PROVE SameShut(procs[p], [[procs[p] EXCEPT !.pending = TRUE] EXCEPT !.alarm = b])
    BY <2>1, <2>2 DEF SameShut, ProcRec
  <2>3. ASSUME NEW p \in Pid PROVE SameShut(procs[p], Rung[p])
    BY <2>1, <2>3, ShutFields DEF Rung
  <2> QED BY <2>3 DEF AllSameShut
<1> QED BY <1>1, <1>2, <1>3, <1>4

\* A next life is drawn no shutdown if its entry has none.
LEMMA RegisterShut ==
    ASSUME NEW th, NEW pr \in Procs, NEW rn \in RunRec, NEW v \in Pid, NEW failed,
           RegisterRestart(th, pr, rn, v, failed), \A p \in Pid : Unshut(pr[p])
    PROVE  \A p \in Pid : Unshut(procs'[p])
<1>0. procs[v] = procs[v] /\ pr[v] \in ProcRec /\ rn.nprocs + 1 \in Nat
  BY DEF Procs, RunRec
<1>1. CASE procs' = pr
  BY <1>1
<1>2. CASE procs' # pr
  <2> DEFINE new  == rn.nprocs + 1
             main == rn.nthreads + 1
             rec == [ FreshProc(NoProc, pr[v].spec) EXCEPT
                        !.crashesLeft   = pr[v].crashesLeft,
                        !.shutdownsLeft = pr[v].shutdownsLeft,
                        !.restartsLeft  = Spend(pr[v].restartsLeft) ]
  <2>1. PICK down \in Faults(pr[v].spec).delay :
          \E c \in CrashTimes(rec, AtLeast1(down)), s \in ShutdownTimes(rec, AtLeast1(down)) :
            /\ procs' = [p \in Pid |->
                   IF p = new THEN [rec EXCEPT !.crash = c, !.shutdown = s]
                   ELSE IF p = v THEN [pr[p] EXCEPT !.replacedBy = new]
                   ELSE pr[p]]
            /\ threads' = [th EXCEPT ![main] =
                             [FreshThread(new, FALSE) EXCEPT !.state = "blocked",
                                 !.key = "restart", !.deadline = AtLeast1(down)]]
            /\ run' = [rn EXCEPT !.nprocs = new, !.nthreads = main]
    BY <1>2, Zenon DEF RegisterRestart
  <2>2. PICK c \in CrashTimes(rec, AtLeast1(down)), s \in ShutdownTimes(rec, AtLeast1(down)) :
               procs' = [p \in Pid |->
                     IF p = new THEN [rec EXCEPT !.crash = c, !.shutdown = s]
                     ELSE IF p = v THEN [pr[p] EXCEPT !.replacedBy = new]
                     ELSE pr[p]]
    BY <2>1
  <2>3. rec.spec = pr[v].spec /\ rec.shutDown = FALSE
    BY DEF FreshProc
  <2>4. LET life == [rec EXCEPT !.crash = c, !.shutdown = s]
        IN  life.spec = rec.spec /\ life.shutDown = rec.shutDown /\ life.shutdown = s
    BY DEF FreshProc
  <2>5. Faults(rec.spec).shutdown = {} => s = NoTime
    BY DEF ShutdownTimes
  <2> HIDE DEF rec, new
  <2>6. Unshut([rec EXCEPT !.crash = c, !.shutdown = s])
    BY <2>3, <2>4, <2>5 DEF Unshut
  <2>7. Unshut([pr[v] EXCEPT !.replacedBy = new])
    <3>1. SameShut(pr[v], [pr[v] EXCEPT !.replacedBy = new])
      BY <1>0 DEF SameShut, ProcRec
    <3> QED BY <3>1 DEF SameShut, Unshut
  <2> QED BY <2>2, <2>6, <2>7
<1> QED BY <1>1, <1>2

\* Nor is anybody by a crash.
LEMMA CrashShut ==
    ASSUME NEW th, NEW pr \in Procs, NEW rn \in RunRec, NEW v \in Pid, Crash(th, pr, rn, v),
           \A p \in Pid : Unshut(pr[p])
    PROVE  \A p \in Pid : Unshut(procs'[p])
<1> DEFINE b   == pr[v].state = "live"
           one == [Unscheduled(pr[v]) EXCEPT !.killed = TRUE, !.unsettled = b]
           pr2 == [pr EXCEPT ![v] = one]
<1>1. pr[v] \in ProcRec
  BY DEF Procs
<1>2. SameShut(pr[v], one)
  BY <1>1, ShutFields
<1>3. one \in ProcRec
  <2>1. Unscheduled(pr[v]) \in ProcRec
    BY <1>1, UnscheduledLemma
  <2> QED BY <2>1, ZenonT(60) DEF ProcRec
<1>4. [pr EXCEPT ![v] = [Unscheduled(@) EXCEPT !.killed = TRUE, !.unsettled = b]] = pr2
  BY DEF Procs
<1>5. RegisterRestart(Ready(Retire(th, v), WokenByDeath(Retire(th, v), pr, v)), pr2, rn, v, TRUE)
  BY <1>4 DEF Crash
<1> HIDE DEF one
<1>6. pr2 \in Procs /\ \A p \in Pid : Unshut(pr2[p])
  BY <1>2, <1>3 DEF Procs, SameShut, Unshut
<1> QED BY <1>5, <1>6, RegisterShut

\* One step keeps it.
LEMMA UnshutStep == ASSUME IInv, UnshutHolds, [Next]_vars PROVE UnshutHolds'
<1>0. procs \in Procs /\ run \in RunRec /\ \A p \in Pid : procs[p] \in ProcRec /\ Unshut(procs[p])
  BY Basics DEF Procs, UnshutHolds
<1>s. AllSameShut(procs, procs') => UnshutHolds'
  BY <1>0, ShutKept DEF UnshutHolds
<1>u. UNCHANGED procs => UnshutHolds'
  BY <1>0 DEF UnshutHolds
<1>n. ASSUME NEW n \in Pid, NEW rec, Unshut(rec), procs' = [procs EXCEPT ![n] = rec] PROVE UnshutHolds'
  BY <1>0, <1>n DEF UnshutHolds, Procs
<1>f. \A par, e : e = 0 => Unshut(FreshProc(par, e))
                           /\ Unshut([FreshProc(par, e) EXCEPT !.known = TRUE])
                           /\ Unshut([FreshProc(par, e) EXCEPT !.state = "exited", !.reaped = TRUE])
  BY DEF Unshut, FreshProc
<1>o. Owing \in RunRec /\ [Struck EXCEPT !.unsignalled = FALSE] \in RunRec
  BY <1>0 DEF Owing, Struck, RunRec, NoProc
<1>1. CASE PickStep
  <2>1. CASE Tick
    <3>1. AllSameShut(procs, ProcsLater(procs, pick.add))
      BY <1>0, ShutTables
    <3>2. ProcsLater(procs, pick.add) \in Procs
      BY <1>0, ProcsLaterLemma DEF Alike, IInv, Base, TypeOK
    <3>3. AllSameShut(procs, StoppedProcs(ProcsLater(procs, pick.add)))
      BY <3>1, <3>2, ShutTables, SameShutTransitive
    <3> QED BY <1>s, <2>1, <3>1, <3>3 DEF Tick
  <2>2. CASE InjectCrash
    <3>1. PICK v \in FirstOf(CrashesDue) :
            Crash(threads, [procs EXCEPT ![v].crashesLeft = Spend(@)], Owing, v)
      BY <2>2 DEF InjectCrash
    <3>2. v \in Pid
      BY DEF FirstOf, CrashesDue
    <3> DEFINE rec == [procs[v] EXCEPT !.crashesLeft = Spend(procs[v].crashesLeft)]
    <3>3. rec \in ProcRec /\ SameShut(procs[v], rec)
      <4>1. Spend(procs[v].crashesLeft) \in Count
        BY <1>0, <3>2, SpendType DEF ProcRec
      <4>2. procs[v] \in ProcRec
        BY <1>0, <3>2
      <4>3. rec \in ProcRec
        BY <4>1, <4>2 DEF ProcRec
      <4>4. SameShut(procs[v], rec)
        BY <4>1, <4>2, ShutFields
      <4> QED BY <4>3, <4>4
    <3>4. [procs EXCEPT ![v].crashesLeft = Spend(@)] = [procs EXCEPT ![v] = rec]
      BY <1>0, <3>2 DEF Procs
    <3> HIDE DEF rec
    <3>5. [procs EXCEPT ![v] = rec] \in Procs /\ \A p \in Pid : Unshut([procs EXCEPT ![v] = rec][p])
      BY <1>0, <3>2, <3>3 DEF Procs, SameShut, Unshut
    <3> QED BY <1>o, <3>1, <3>2, <3>4, <3>5, CrashShut DEF UnshutHolds
  <2>3. CASE InjectShutdown
    <3>1. PICK v \in FirstOf(ShutdownsDue) :
             \/ Crash(threads, procs, Owing, v)
             \/ procs[v].kill # 0 /\ procs' = [procs EXCEPT ![v] =
                   [@ EXCEPT !.shutdownsLeft = Spend(procs[v].shutdownsLeft), !.shutdown = NoTime,
                             !.kill = AtLeast1(Faults(procs[v].spec).grace),
                             !.shutDown = TRUE, !.pending = TRUE]]
      BY <2>3 DEF InjectShutdown
    <3>2. v \in Pid /\ (procs[v].kill # 0 => procs[v].shutdown = 0)
      BY DEF FirstOf, ShutdownsDue
    <3>3. CASE Crash(threads, procs, Owing, v)
      BY <1>0, <1>o, <3>2, <3>3, CrashShut DEF UnshutHolds
    <3>4. CASE procs[v].kill # 0 /\ ~Crash(threads, procs, Owing, v)
      <4>1. Faults(procs[v].spec).shutdown # {}
        BY <1>0, <3>2, <3>4 DEF Unshut, NoTime
      <4>2. ASSUME NEW a, NEW b PROVE
              Unshut([procs[v] EXCEPT !.shutdownsLeft = a, !.shutdown = NoTime, !.kill = b,
                                      !.shutDown = TRUE, !.pending = TRUE])
        BY <1>0, <3>2, <4>1 DEF Unshut, ProcRec
      <4> QED BY <1>n, <3>1, <3>2, <3>4, <4>2
    <3> QED BY <3>1, <3>3, <3>4
  <2>4. CASE Jump
    BY <1>0, <1>s, <2>4, ShutTables DEF Jump
  <2>5. AllSameShut(procs, Rung) /\ Rung \in Procs
    BY <1>0, ShutTables, RungLemma DEF Alike
  <2>6. \A S : AllSameShut(procs, Signalled(Rung, S))
    BY <2>5, ShutTables, SameShutTransitive
  <2>7. CASE IdleLauncher \/ \E t \in Tid : Choose(t)
    BY <1>s, <2>5, <2>6, <2>7 DEF IdleLauncher, Choose, KillsSent
  <2>8. CASE IdleGuest
    <3>1. PICK g : procs' = [Signalled(Rung, Condemned(Rung, run)) EXCEPT ![Owner(pick.me)].outside = g]
      BY <2>8 DEF IdleGuest
    <3> DEFINE pr == Signalled(Rung, Condemned(Rung, run))
    <3>2. pr \in Procs
      BY <2>5, SignalledLemma DEF Alike
    <3>3. AllSameShut(pr, procs')
      <4> HIDE DEF pr
      <4>0. \A p \in Pid : pr[p] \in ProcRec
        BY <3>2 DEF Procs
      <4>1. ASSUME NEW p \in Pid PROVE SameShut(pr[p], procs'[p])
        <5>1. procs'[p] = pr[p] \/ procs'[p] = [pr[p] EXCEPT !.outside = g]
          BY <3>1, <3>2 DEF Procs, pr
        <5>2. SameShut(pr[p], pr[p]) /\ SameShut(pr[p], [pr[p] EXCEPT !.outside = g])
          BY <4>0 DEF SameShut, ProcRec
        <5> QED BY <5>1, <5>2
      <4> QED BY <4>1 DEF AllSameShut
    <3> QED BY <1>s, <2>6, <3>3, SameShutTransitive
  <2> QED BY <1>1, <2>1, <2>2, <2>3, <2>4, <2>7, <2>8 DEF PickStep
<1>2. ASSUME NEW t \in Tid, Return(t) PROVE UnshutHolds'
  <2>1. CASE TakeUp(t)
    <3>1. AllSameShut(procs, Settled(procs))
      BY <1>0, ShutTables
    <3>2. procs' = [Settled(procs) EXCEPT ![Owner(t)].exiting = NoThread, ![Owner(t)].pending = FALSE]
      BY <2>1 DEF TakeUp
    <3>3. \A p \in Pid : Settled(procs)[p] \in ProcRec
      <4>1. ASSUME NEW rec \in ProcRec PROVE [rec EXCEPT !.unsettled = FALSE] \in ProcRec
        BY DEF ProcRec
      <4> QED BY <1>0, <4>1 DEF Settled
    <3>4. ASSUME NEW p \in Pid PROVE SameShut(Settled(procs)[p], procs'[p])
      <4>0. Settled(procs) = [q \in Pid |-> Settled(procs)[q]]
        BY DEF Settled
      <4>1. procs'[p] = Settled(procs)[p]
            \/ procs'[p] = [[Settled(procs)[p] EXCEPT !.exiting = NoThread] EXCEPT !.pending = FALSE]
        BY <3>2, <4>0
      <4>2. SameShut(Settled(procs)[p],
                     [[Settled(procs)[p] EXCEPT !.exiting = NoThread] EXCEPT !.pending = FALSE])
        BY <3>3 DEF SameShut, ProcRec
      <4> QED BY <3>3, <4>1, <4>2, ShutFields
    <3>5. AllSameShut(Settled(procs), procs')
      BY <3>4 DEF AllSameShut
    <3> QED BY <1>s, <3>1, <3>5, SameShutTransitive
  <2>2. CASE SettleDeaths(t)
    BY <1>0, <1>s, <2>2, ShutTables DEF SettleDeaths
  <2>3. CASE CheckChildren(t)
    <3>1. PICK S : procs' = [p \in Pid |-> IF p \in S THEN [procs[p] EXCEPT !.reaped = TRUE] ELSE procs[p]]
      BY <2>3 DEF CheckChildren
    <3> QED BY <1>0, <1>s, <3>1, ShutFields DEF AllSameShut
  <2>4. CASE UNCHANGED procs
    BY <1>u, <2>4
  <2>5. CASE \E q \in Pid : Kill(t, q)
    <3>1. PICK q \in Pid : \E K : Crash(threads, Signalled(procs, K), [Struck EXCEPT !.unsignalled = FALSE], q)
      BY <2>5 DEF Kill
    <3>2. PICK K : Crash(threads, Signalled(procs, K), [Struck EXCEPT !.unsignalled = FALSE], q)
      BY <3>1
    <3>3. Signalled(procs, K) \in Procs /\ \A p \in Pid : Unshut(Signalled(procs, K)[p])
      BY <1>0, SignalledLemma, ShutTables, ShutKept
    <3> QED BY <1>o, <3>2, <3>3, CrashShut DEF UnshutHolds
  <2>6. CASE \E q \in Pid : Signal(t, q)
    <3>1. PICK q \in Pid : procs' = [procs EXCEPT ![q].pending = TRUE]
      BY <2>6 DEF Signal
    <3> QED BY <1>0, <1>s, <3>1, ShutFields DEF AllSameShut, Procs
  <2> QED BY <1>2, <2>1, <2>2, <2>3, <2>4, <2>5, <2>6
          DEF Return, DieStopped, AwaitAttach, BlockOnChildren, Poll, PollGivesUp
<1>3. ASSUME NEW t \in Tid, Guest(t) PROVE UnshutHolds'
  <2>0. Owner(t) \in Pid \cup {NoProc}
    BY Basics
  <2>1. CASE ReadClock(t)
    BY <1>0, <1>s, <2>1, ShutTables DEF ReadClock
  <2>2. CASE SetTimer(t)
    <3>1. PICK a, b : procs' = [procs EXCEPT ![Owner(t)].alarm = a, ![Owner(t)].interval = b]
      BY <2>2 DEF SetTimer
    <3>2. ASSUME NEW p \in Pid PROVE SameShut(procs[p], procs'[p])
      <4>1. procs'[p] = procs[p] \/ procs'[p] = [[procs[p] EXCEPT !.alarm = a] EXCEPT !.interval = b]
        BY <1>0, <3>1 DEF Procs
      <4>2. SameShut(procs[p], [[procs[p] EXCEPT !.alarm = a] EXCEPT !.interval = b])
        BY <1>0 DEF SameShut, ProcRec
      <4> QED BY <1>0, <4>1, <4>2, ShutFields
    <3> QED BY <1>s, <3>2 DEF AllSameShut
  <2>3. CASE ExitThread(t)
    <3>1. procs' = [procs EXCEPT ![Owner(t)].exiting = t]
      BY <2>3 DEF ExitThread
    <3> QED BY <1>0, <1>s, <3>1, ShutFields DEF AllSameShut, Procs
  <2>4. CASE SpawnChild(t) \/ Exhaust(t)
    <3>1. \/ UNCHANGED procs
          \/ run.nprocs < MaxProcs /\ \E rec : Unshut(rec) /\ procs' = [procs EXCEPT ![run.nprocs + 1] = rec]
      BY <1>f, <2>4 DEF SpawnChild, Exhaust, HasRoom
    <3>2. run.nprocs < MaxProcs => run.nprocs + 1 \in Pid
      BY <1>0, SizesAssumption DEF Pid, RunRec
    <3> QED BY <1>n, <1>u, <3>1, <3>2
  <2>5. CASE UNCHANGED procs
    BY <1>u, <2>5
  <2> QED BY <1>3, <2>1, <2>2, <2>3, <2>4, <2>5
          DEF Guest, Yield, Block, Wake, CreateThread, ExitProcess, Waitpid, Aim
<1>4. CASE Aside
  <2>1. CASE \E p \in Pid : OutsideWake(p)
    <3>1. PICK p \in Pid : procs' = [procs EXCEPT ![p].outside = TRUE]
      BY <2>1 DEF OutsideWake
    <3> QED BY <1>0, <1>s, <3>1, ShutFields DEF AllSameShut, Procs
  <2>2. CASE \E p \in Pid : Attach(p)
    <3>1. PICK p \in Pid : \/ procs' = [procs EXCEPT ![p].signalled = TRUE]
                           \/ procs' = [procs EXCEPT ![p].known = TRUE, ![p].state = "live"]
      BY <2>2 DEF Attach
    <3>2. ASSUME NEW q \in Pid PROVE SameShut(procs[q], procs'[q])
      <4>1. \/ procs'[q] = procs[q] \/ procs'[q] = [procs[q] EXCEPT !.signalled = TRUE]
            \/ procs'[q] = [[procs[q] EXCEPT !.known = TRUE] EXCEPT !.state = "live"]
        BY <1>0, <3>1 DEF Procs
      <4>2. /\ SameShut(procs[q], [[procs[q] EXCEPT !.known = TRUE] EXCEPT !.state = "live"])
            /\ SameShut(procs[q], [procs[q] EXCEPT !.signalled = TRUE])
            /\ SameShut(procs[q], procs[q])
        BY <1>0 DEF SameShut, ProcRec
      <4> QED BY <4>1, <4>2
    <3> QED BY <1>s, <3>2 DEF AllSameShut
  <2>3. CASE UNCHANGED procs
    BY <1>u, <2>3
  <2> QED BY <1>4, <2>1, <2>2, <2>3 DEF Aside, Leave, Slain, FailToAttach
<1>5. CASE LauncherStep
  <2>1. CASE Bury
    <3> DEFINE p   == launcher.proc
               one == [procs[p] EXCEPT !.state = "exited"]
               gone == [procs EXCEPT ![p] = one]
               pr2 == [gone EXCEPT ![p] = Unscheduled(one)]
    <3>1. p \in Pid
      BY <2>1 DEF Bury, IInv, Base, Safe, Launching
    <3>2. one \in ProcRec /\ SameShut(procs[p], one)
      BY <1>0, <3>1, ShutFields, ZenonT(60) DEF ProcRec
    <3>3. Unscheduled(one) \in ProcRec /\ SameShut(one, Unscheduled(one))
      BY <3>2, UnscheduledLemma, ShutFields
    <3>4. Unshut(one) /\ Unshut(Unscheduled(one))
      BY <1>0, <3>1, <3>2, <3>3 DEF SameShut, Unshut
    <3>5. [gone EXCEPT ![p] = Unscheduled(@)] = pr2
      BY <1>0, <3>1 DEF Procs
    <3>6. \/ procs' = gone
          \/ \E th : RegisterRestart(th, pr2, run, p, launcher.failed)
      BY <2>1, <3>5 DEF Bury
    <3> HIDE DEF one
    <3>7. /\ \A q \in Pid : Unshut(gone[q])
          /\ pr2 \in Procs /\ \A q \in Pid : Unshut(pr2[q])
      BY <1>0, <3>1, <3>2, <3>3, <3>4 DEF Procs
    <3> HIDE DEF gone, pr2
    <3> QED BY <1>0, <3>1, <3>6, <3>7, RegisterShut DEF UnshutHolds
  <2>2. CASE Respawn
    BY <1>0, <1>s, <2>2, ShutTables DEF Respawn
  <2>3. CASE UNCHANGED procs
    BY <1>u, <2>3
  <2> QED BY <1>5, <2>1, <2>2, <2>3 DEF LauncherStep, Start, Started, EndRun, Finish, NoticeExit
<1>6. CASE Over \/ UNCHANGED vars
  BY <1>6, <1>u DEF Over, vars
<1> QED BY <1>1, <1>2, <1>3, <1>4, <1>5, <1>6 DEF Next

\* The launcher hands on the baton of the process it deals with, and at the
\* start nobody's.
HandsOf ==
    pick.phase # "none" =>
        /\ pick.by = "start" => run.current = NoThread
        /\ pick.by = "launcher" => run.current # NoThread /\ threads[run.current].pid = launcher.proc

\* No thread leaves a process that has not attached.
NotBegun ==
    \A t \in Tid : LET p == threads[t].pid IN
        p \in Pid /\ procs[p].state = "starting" /\ ~procs[p].killed => threads[t].state # "exited"

\* A failure that the run has not heard of left a thread behind, or the baton.
Failure(p) == real[p] = "failed" \/ (Burying(p) /\ launcher.failed)
LeftBehind(p) ==
    \/ \E t \in Tid : threads[t].pid = p /\ threads[t].state # "exited"
    \/ run.current # NoThread /\ threads[run.current].pid = p
FailedHolds ==
    \A p \in Pid :
        procs[p].spec # 0 /\ ~procs[p].killed /\ procs[p].state # "exited" /\ Failure(p)
            => LeftBehind(p)


\* Without pthread_exit, a process ends by itself with the baton only.
Success(p) == real[p] = "exit0" \/ (Burying(p) /\ ~launcher.failed)
SuccessHolds ==
    "pthread_exit" \notin Calls =>
        /\ \A t \in Tid : pc[t] # "leaving"
        /\ \A p \in Pid : /\ procs[p].spec # 0 /\ ~procs[p].killed /\ procs[p].state # "exited"
                         /\ Success(p)
                => run.current # NoThread /\ threads[run.current].pid = p

ReturnsHold == UnshutHolds /\ HandsOf /\ NotBegun /\ FailedHolds /\ SuccessHolds /\ TargetsSpent

LEMMA HandsOfStep == ASSUME IInv, LauncherHands, HandsOf, [Next]_vars PROVE HandsOf'
<1> SUFFICES ASSUME pick'.phase # "none"
             PROVE  /\ pick'.by = "start" => run'.current = NoThread
                    /\ pick'.by = "launcher" =>
                         run'.current # NoThread /\ threads'[run'.current].pid = launcher'.proc
  BY DEF HandsOf
<1>0. launcher \in [ at: {"booting", "started", "serving", "ending", "burying", "handing",
                          "respawning", "over"},
                     proc: Pid \cup {NoProc}, failed: BOOLEAN,
                     started: BOOLEAN, stopping: BOOLEAN ]
      /\ run.current \in Tid \cup {NoThread}
  BY Basics DEF IInv, Base, TypeOK, RunRec
<1>1. ~Ending
  BY EndPhase
<1>2. run'.current = run.current
  BY <1>1, CurrentStays DEF Ending
<1>o. ASSUME run.current # NoThread, threads[run.current].pid = launcher.proc, launcher.proc \in Pid,
             launcher'.proc = launcher.proc
      PROVE  run'.current # NoThread /\ threads'[run'.current].pid = launcher'.proc
  BY <1>0, <1>2, <1>o, OwnersStay
<1>3. CASE LauncherStep
  <2>1. CASE Start
    BY <1>2, <2>1 DEF Start, IInv, Base, Safe, Launching
  <2>2. CASE Bury
    <3>1. HeldBy(launcher.proc) /\ pick'.by = "launcher" /\ launcher'.proc = launcher.proc
      BY <1>0, <2>2 DEF Bury, LockFree
    <3>2. launcher.proc \in Pid
      BY <2>2, BurySteps
    <3> QED BY <1>o, <3>1, <3>2 DEF HeldBy, Owner
  <2>3. CASE ~Start /\ ~Bury
    BY <1>3, <2>3 DEF LauncherStep, Started, EndRun, Respawn, Finish, NoticeExit, LockFree
  <2> QED BY <2>1, <2>2, <2>3
<1>4. CASE ~LauncherStep
  <2>1. UNCHANGED launcher /\ (pick'.by = "guest" \/ (pick.phase # "none" /\ pick'.by = pick.by))
    BY <1>1, <1>4, LauncherMoves
  <2>2. CASE pick'.by = "guest"
    BY <2>2
  <2>3. CASE pick.phase # "none" /\ pick'.by = pick.by
    <3>1. pick.by = "launcher" => launcher.proc \in Pid
      BY <2>3 DEF IInv, Base, Safe, Launching
    <3> QED BY <1>2, <1>o, <2>1, <2>3, <3>1 DEF HandsOf
  <2> QED BY <2>1, <2>2, <2>3
<1> QED BY <1>3, <1>4

LEMMA NotBegunStep == ASSUME IInv, IInv', NotBegun, [Next]_vars PROVE NotBegun'
<1> SUFFICES ASSUME NEW t \in Tid, threads'[t].pid \in Pid, threads'[t].state = "exited",
                    procs'[threads'[t].pid].state = "starting", ~procs'[threads'[t].pid].killed
             PROVE  FALSE
  BY DEF NotBegun
<1> DEFINE p == threads'[t].pid
<1>1. CASE threads[t].pid \in Pid
  <2>1. threads[t].pid = p /\ p <= run.nprocs /\ threads[t].state # "unused"
    <3>1. threads[t].pid # NoProc
      BY <1>1 DEF Pid, NoProc
    <3> QED BY <1>1, <3>1, OwnersStay, Basics DEF IInv, Base, Safe, Placed
  <2>2. procs[p].state = "starting" /\ ~procs[p].killed
    BY <2>1, FateSteps, Registers DEF SameFate, Fell, Buries
  <2>3. threads[t].state # "exited"
    BY <2>1, <2>2 DEF NotBegun
  <2>4. ~Inside(t)
    BY <2>1, <2>2 DEF IInv, Base, Safe, OneHolder, Owner
  <2>5. ~Retired(t)
    <3>1. \A v \in Pid : CrashAction(v) /\ v = p => procs'[p].killed
      BY <2>1, CrashMarks
    <3>2. Bury /\ p = launcher.proc => procs'[p].state = "exited"
      BY BuriedSlot
    <3> QED BY <3>1, <3>2 DEF Retired
  <2> QED BY <2>1, <2>3, <2>4, <2>5, ThreadMoves DEF Stays, StillThere, Picked, HandsOff, Added
<1>2. CASE threads[t].pid \notin Pid
  <2>1. Added(t)
    BY <1>2, ThreadMoves DEF Stays, StillThere, Picked, HandsOff, Retired
  <2> QED BY <2>1 DEF Added, Created, Spawned, Restarted
<1> QED BY <1>1, <1>2

\* A process fails for real with the baton, by its crash, or before it has
\* attached.
LEMMA FailureOrigin ==
    ASSUME IInv, IInv', [Next]_vars, NEW p \in Pid, real'[p] = "failed", real[p] # "failed"
    PROVE  /\ p <= run.nprocs
           /\ \/ /\ run.current # NoThread /\ run'.current = run.current
                 /\ threads[run.current].pid = p
              \/ procs[p].killed
              \/ FailToAttach(p)
<1>0. real \in [Pid -> {"none", "up", "exit0", "failed", "reaped"}]
  BY DEF IInv, Base, TypeOK
<1>1. real[p] # "none"
  <2> SUFFICES ASSUME real[p] = "none" PROVE FALSE
    OBVIOUS
  <2>1. \/ Respawn /\ p = procs[launcher.proc].replacedBy
        \/ p = run.nprocs + 1 /\ \E t \in Tid : SpawnChild(t)
    BY RealSteps
  <2> QED BY <1>0, <2>1 DEF Respawn, SpawnChild
<1>2. p <= run.nprocs
  BY <1>1 DEF IInv, Base, Safe, Placed
<1> QED BY <1>2, DeathOrigin

\* The baton of a dead process stays where it is until the launcher has made
\* the death known.
LEMMA DeadHolderStays ==
    ASSUME IInv, OneLifeHolds, LauncherHands, HandsOf, [Next]_vars, NEW p \in Pid,
           Failure(p) \/ Success(p), run.current # NoThread, threads[run.current].pid = p
    PROVE  run'.current = run.current /\ threads'[run'.current].pid = p
<1>0. real[p] \in {"exit0", "failed", "reaped"}
  BY DEF Failure, Success, Burying, IInv, Base, Safe, Launching
<1>1. run.current \in Tid
  BY Basics DEF RunRec
<1>2. ~\E t \in Tid : Choose(t)
  <2> SUFFICES ASSUME NEW t \in Tid, Choose(t) PROVE FALSE
    OBVIOUS
  <2>1. pick.phase # "none"
    BY DEF Choose, FaultsDone
  <2>2. CASE pick.by = "guest"
    BY <1>0, <1>1, <2>1, <2>2 DEF IInv, Base, Safe, HandingOver, Tenants, Active
  <2>3. CASE pick.by = "start"
    BY <2>1, <2>3 DEF HandsOf
  <2>4. CASE pick.by = "launcher"
    <3>1. p = launcher.proc /\ launcher.at = "handing" /\ real[p] = "reaped"
      BY <2>1, <2>4 DEF HandsOf, LauncherHands, OneLifeHolds, HeardOf
    <3> QED BY <3>1 DEF Failure, Success, Burying
  <2> QED BY <2>1, <2>2, <2>3, <2>4 DEF IInv, Base, TypeOK, Safe, HandingOver
<1>3. run'.current = run.current
  BY <1>2, CurrentStays
<1> QED BY <1>1, <1>3, OwnersStay

\* The thread or the baton that a failure left behind is left until the
\* launcher has made the death known.
LEMMA LeftBehindStays ==
    ASSUME IInv, IInv', OneLifeHolds, LauncherHands, HandsOf, [Next]_vars, NEW p \in Pid,
           Failure(p), LeftBehind(p), procs'[p].state # "exited", ~procs'[p].killed
    PROVE  LeftBehind(p)'
<1>0. real[p] \in {"failed", "reaped"} /\ p <= run.nprocs
  BY DEF Failure, Burying, IInv, Base, Safe, Launching, Placed
<1>1. ASSUME NEW t \in Tid, threads[t].pid = p, threads[t].state # "exited" PROVE LeftBehind(p)'
  <2>1. threads'[t].pid = p /\ threads[t].state # "unused"
    <3>1. p # NoProc
      BY DEF Pid, NoProc
    <3> QED BY <1>1, <3>1, OwnersStay DEF IInv, Base, Safe, Placed
  <2>2. ~Inside(t)
    BY <1>0, <1>1 DEF Inside, Active, IInv, Base, Safe, Tenants
  <2>3. ~Retired(t)
    <3>1. CrashAction(p) => procs'[p].killed
      BY <1>0, CrashMarks
    <3>2. Bury /\ p = launcher.proc => procs'[p].state = "exited"
      BY BuriedSlot
    <3> QED BY <1>1, <3>1, <3>2 DEF Retired
  <2>4. threads'[t].state # "exited"
    BY <1>1, <2>1, <2>2, <2>3, ThreadMoves DEF Stays, StillThere, Picked, HandsOff, Added
  <2> QED BY <2>1, <2>4 DEF LeftBehind
<1>2. CASE run.current # NoThread /\ threads[run.current].pid = p
  BY <1>2, DeadHolderStays DEF LeftBehind, Failure, Success
<1> QED BY <1>1, <1>2 DEF LeftBehind

\* The launcher buries whom it saw dead with the status it saw.
LEMMA BurialOrigin ==
    ASSUME IInv, LauncherHands, [Next]_vars, NEW p \in Pid, Burying(p)'
    PROVE  \/ Burying(p) /\ launcher'.failed = launcher.failed
           \/ Dead(p) /\ launcher'.failed = (real[p] = "failed")
<1>0. launcher \in [ at: {"booting", "started", "serving", "ending", "burying", "handing",
                          "respawning", "over"},
                     proc: Pid \cup {NoProc}, failed: BOOLEAN,
                     started: BOOLEAN, stopping: BOOLEAN ]
  BY DEF IInv, Base, TypeOK
<1>1. CASE NoticeExit(p)
  BY <1>0, <1>1 DEF NoticeExit
<1>2. CASE ~NoticeExit(p)
  <2>1. Burying(p)
    BY <1>2, Rounds
  <2>2. CASE LauncherStep
    <3>1. ~Bury
      BY <2>1, Rounds DEF Burying
    <3>2. EndRun
      BY <2>1, <2>2, <3>1 DEF Burying, LauncherStep, Start, Started, Respawn, Finish, NoticeExit
    <3> QED BY <1>0, <2>1, <3>2 DEF EndRun
  <2>3. CASE ~LauncherStep
    BY <1>0, <2>1, <2>3, LauncherMoves
  <2> QED BY <2>2, <2>3
<1> QED BY <1>1, <1>2

LEMMA FailedStep ==
    ASSUME IInv, IInv', OneLifeHolds, LauncherHands, ThreadsHold, HandsOf, NotBegun, FailedHolds,
           [Next]_vars
    PROVE  FailedHolds'
<1> SUFFICES ASSUME NEW p \in Pid, procs'[p].spec # 0, ~procs'[p].killed, procs'[p].state # "exited",
                    Failure(p)'
             PROVE  LeftBehind(p)'
  BY DEF FailedHolds, Failure, LeftBehind, Burying
<1>1. CASE Failure(p)
  <2>1. p <= run.nprocs
    BY <1>1 DEF Failure, Burying, IInv, Base, Safe, Launching, Placed
  <2>2. procs[p].spec # 0 /\ ~procs[p].killed /\ procs[p].state # "exited"
    BY <2>1, Registers
  <2> QED BY <1>1, <2>2, LeftBehindStays DEF FailedHolds
<1>2. CASE ~Failure(p)
  <2>1. ~(Burying(p)' /\ launcher'.failed)
    BY <1>2, BurialOrigin DEF Failure
  <2>2. real'[p] = "failed" /\ real[p] # "failed"
    BY <1>2, <2>1 DEF Failure
  <2>3. /\ p <= run.nprocs
        /\ \/ /\ run.current # NoThread /\ run'.current = run.current
              /\ threads[run.current].pid = p
           \/ FailToAttach(p)
    BY <2>2, FailureOrigin, Registers
  <2>4. CASE FailToAttach(p)
    <3>1. UNCHANGED <<threads, procs>> /\ procs[p].state = "starting"
      BY <2>4 DEF FailToAttach
    <3>2. PICK t \in Tid : threads[t].pid = p
      BY <3>1 DEF ThreadsHold
    <3>3. threads[t].state # "exited"
      BY <3>1, <3>2 DEF NotBegun
    <3> QED BY <3>1, <3>2, <3>3 DEF LeftBehind
  <2>5. CASE ~FailToAttach(p)
    <3>1. run.current \in Tid
      BY <2>3, <2>5, Basics DEF RunRec
    <3> QED BY <2>3, <2>5, <3>1, OwnersStay DEF LeftBehind
  <2> QED BY <2>4, <2>5
<1> QED BY <1>1, <1>2

\* Who ends without pthread_exit, and by no failure, has the baton.
LEMMA SuccessStep ==
    ASSUME IInv, IInv', OneLifeHolds, LauncherHands, ExitedSeen, ThreadsHold, HandsOf, SuccessHolds,
           [Next]_vars
    PROVE  SuccessHolds'
<1>0. run'.calls = run.calls
  BY RunStays
<1> SUFFICES ASSUME "pthread_exit" \notin Calls
             PROVE  /\ \A t \in Tid : pc'[t] # "leaving"
                    /\ \A p \in Pid : /\ procs'[p].spec # 0 /\ ~procs'[p].killed
                                     /\ procs'[p].state # "exited" /\ Success(p)'
                            => run'.current # NoThread /\ threads'[run'.current].pid = p
  BY <1>0 DEF SuccessHolds, Calls, Success, Burying
<1>1. ASSUME NEW t \in Tid, pc'[t] = "leaving" PROVE FALSE
  <2>1. /\ pick.phase # "none" /\ pick.by = "guest" /\ t = pick.me
        /\ Released[t].state = "exited" /\ ~procs[Owner(t)].killed
    BY <1>1, PcSteps DEF SuccessHolds
  <2>2. threads[t].state = "exited"
    BY <2>1, ReleasedLemma DEF Woken
  <2>3. procs[threads[t].pid].state = "exited"
    BY <2>1, <2>2 DEF ThreadsHold, Owner
  <2>4. Active(t)
    BY <2>1 DEF IInv, Base, Safe, HandingOver, Active
  <2>5. real[threads[t].pid] = "up" /\ threads[t].pid \in Pid
    BY <2>2, <2>4, Basics DEF IInv, Base, Safe, Tenants
  <2> QED BY <2>3, <2>5 DEF ExitedSeen
<1>2. ASSUME NEW p \in Pid, procs'[p].spec # 0, ~procs'[p].killed, procs'[p].state # "exited",
             Success(p)'
      PROVE  run'.current # NoThread /\ threads'[run'.current].pid = p
  <2>1. CASE Success(p)
    <3>1. p <= run.nprocs
      BY <2>1 DEF Success, Burying, IInv, Base, Safe, Launching, Placed
    <3>2. procs[p].spec # 0 /\ ~procs[p].killed /\ procs[p].state # "exited"
      BY <1>2, <3>1, Registers
    <3>3. run.current # NoThread /\ threads[run.current].pid = p
      BY <2>1, <3>2 DEF SuccessHolds
    <3> QED BY <2>1, <3>3, DeadHolderStays
  <2>2. CASE ~Success(p)
    <3>1. real'[p] = "exit0" /\ real[p] # "exit0"
      BY <1>2, <2>2, BurialOrigin DEF Success, Dead
    <3>2. ~\E t \in Tid : Leave(t)
      BY DEF Leave, SuccessHolds
    <3>3. p <= run.nprocs
      <4>1. CASE real[p] # "none"
        BY <4>1 DEF IInv, Base, Safe, Placed
      <4>2. CASE real[p] = "none"
        <5>1. \/ Respawn /\ p = procs[launcher.proc].replacedBy
              \/ p = run.nprocs + 1 /\ \E t \in Tid : SpawnChild(t)
          BY <3>1, <4>2, RealSteps
        <5>2. real \in [Pid -> {"none", "up", "exit0", "failed", "reaped"}]
          BY DEF IInv, Base, TypeOK
        <5> QED BY <3>1, <4>2, <5>1, <5>2 DEF Respawn, SpawnChild
      <4> QED BY <4>1, <4>2
    <3>4. ~procs[p].killed
      BY <1>2, <3>3, Registers
    <3>5. real'[p] = "failed" \/ ~FailToAttach(p)
      <4>1. FailToAttach(p) => real'[p] = "failed"
        BY DEF FailToAttach, RealDeath, IInv, Base, TypeOK
      <4> QED BY <4>1
    <3>6. run.current # NoThread /\ run'.current = run.current /\ threads[run.current].pid = p
      BY <3>1, <3>2, <3>4, <3>5, DeathOrigin
    <3>7. run.current \in Tid
      BY <3>6, Basics DEF RunRec
    <3> QED BY <3>6, <3>7, OwnersStay
  <2> QED BY <2>1, <2>2
<1> QED BY <1>1, <1>2

\* A life that is asked for is registered, unless none is owed.
LEMMA FollowedOrSpent ==
    ASSUME NEW th, NEW pr, NEW rn, NEW v \in Pid, rn.nprocs \in Nat, v <= run.nprocs,
           rn.nprocs = run.nprocs, rn.nthreads = run.nthreads, rn.stopped = run.stopped,
           RegisterRestart(th, pr, rn, v, TRUE), pr \in Procs
    PROVE  Spent(v)'
<1>1. CASE pr[v].replacedBy = NoProc /\ RestartDue(pr, v, TRUE) /\ HasRoom
  <2> DEFINE new == rn.nprocs + 1
  <2>1. procs'[v] = [pr[v] EXCEPT !.replacedBy = new]
    <3>1. v # new
      BY DEF Pid
    <3> QED BY <1>1, <3>1, Zenon DEF RegisterRestart
  <2>2. new # NoProc /\ pr[v] \in ProcRec
    BY DEF Pid, NoProc, Procs
  <2>3. procs'[v].replacedBy = new
    BY <2>1, <2>2 DEF ProcRec
  <2> QED BY <2>2, <2>3 DEF Spent
<1>2. CASE ~(pr[v].replacedBy = NoProc /\ RestartDue(pr, v, TRUE) /\ HasRoom)
  <2>1. procs' = pr /\ run' = rn
    BY <1>2 DEF RegisterRestart
  <2>2. HasRoom' <=> HasRoom
    BY <2>1 DEF HasRoom
  <2>3. RestartDue(procs, v, TRUE)' <=> RestartDue(pr, v, TRUE)
    BY <2>1 DEF RestartDue
  <2> QED BY <1>2, <2>1, <2>2, <2>3 DEF Spent
<1> QED BY <1>1, <1>2

\* What a program may do that lets its threads leave one by one rules out a
\* restart without a failure: a run whose last thread has left would otherwise
\* get a new life that process_died hands nothing to.  And it rules out a
\* my_kill of another process that is restarted: whose last thread has left may
\* be dead for real and buried between my_kill's look and its crash, which
\* then registers a life that nobody spawns.
OnlyFailuresReturn ==
    \A P \in Programs : "pthread_exit" \in P =>
        \A e \in Entry :
            /\ Plan[e].restart # "always"
            /\ Plan[e].restart = "on-failure" => Plan[e].shutdown = {} /\ "kill" \notin P

\* Under such a plan a run that its threads leave one by one restarts nobody,
\* or nobody kills in it.
LEMMA OnlyFailures ==
    ASSUME OnlyFailuresReturn, IInv, "pthread_exit" \in Calls, NEW p \in Pid, procs[p].spec # 0
    PROVE  /\ Faults(procs[p].spec).restart \in {"never", "on-failure"}
           /\ Faults(procs[p].spec).restart = "on-failure" =>
                Faults(procs[p].spec).shutdown = {} /\ "kill" \notin Calls
<1>1. procs[p].spec \in Entry /\ Faults(procs[p].spec) = Plan[procs[p].spec]
  BY DEF IInv, Base, TypeOK, ProcRec, Faults
<1>2. Calls \in Programs
  BY DEF Calls, IInv, Base, TypeOK, RunRec
<1>3. Faults(procs[p].spec).restart \in {"never", "on-failure", "always"}
  BY <1>1, FaultsType DEF FaultPlan
<1> QED BY <1>1, <1>2, <1>3 DEF OnlyFailuresReturn

\* What was owed to nobody is owed to nobody later.
LEMMA SpentStays ==
    ASSUME NEW v \in Pid, Spent(v), run \in RunRec, run' \in RunRec,
           procs'[v].spec = procs[v].spec, procs'[v].restartsLeft = procs[v].restartsLeft,
           procs'[v].replacedBy = NoProc => procs[v].replacedBy = NoProc,
           run'.nprocs >= run.nprocs, run'.nthreads >= run.nthreads, run'.stopped = run.stopped
    PROVE  Spent(v)'
<1>1. HasRoom' => HasRoom
  BY SizesAssumption DEF HasRoom, RunRec
<1>2. RestartDue(procs, v, TRUE)' => RestartDue(procs, v, TRUE)
  BY DEF RestartDue
<1> QED BY <1>1, <1>2 DEF Spent

\* A burial touches no other slot that is taken.
LEMMA BuryKeeps ==
    ASSUME IInv, Bury, NEW v \in Pid, v <= run.nprocs, v # launcher.proc
    PROVE  procs'[v] = procs[v] /\ run'.nprocs >= run.nprocs /\ run'.nthreads >= run.nthreads
<1> DEFINE p    == launcher.proc
           gone == [procs EXCEPT ![p].state = "exited"]
           last == [gone EXCEPT ![p] = Unscheduled(@)]
           th   == Ready(Retire(threads, p), WokenByDeath(Retire(threads, p), procs, p))
<1>0. run \in RunRec /\ run.nprocs \in Nat /\ run.nthreads \in Nat /\ v \in Nat
  BY Basics DEF RunRec, Pid
<1>1. \/ procs' = gone /\ run' = run
      \/ RegisterRestart(th, last, run, p, launcher.failed)
  BY Zenon DEF Bury
<1>2. gone[v] = procs[v] /\ last[v] = procs[v]
  BY DEF IInv, Base, TypeOK
<1> HIDE DEF p, gone, last, th
<1>3. CASE RegisterRestart(th, last, run, p, launcher.failed)
  <2>1. CASE procs' = last /\ run' = run
    BY <1>0, <1>2, <2>1
  <2>2. CASE ~(procs' = last /\ run' = run)
    <3> DEFINE new == run.nprocs + 1
    <3>1. v # new /\ v # p
      BY <1>0 DEF p
    <3>2. procs'[v] = last[v] /\ run' = [run EXCEPT !.nprocs = new, !.nthreads = run.nthreads + 1]
      BY <1>3, <2>2, <3>1, Zenon DEF RegisterRestart
    <3> QED BY <1>0, <1>2, <3>2 DEF RunRec
  <2> QED BY <2>1, <2>2
<1> QED BY <1>0, <1>1, <1>2, <1>3

\* Who is buried while he is aimed at failed, or was owed no next life.
LEMMA BuriedTarget ==
    ASSUME OnlyFailuresReturn, IInv, IInv', DeathsKnown, ReturnsHold, "kill" \in Calls,
           [Next]_vars, NEW t \in Tid, pc[t] = "killing", Bury,
           NEW v \in Pid, v = run.target, v = launcher.proc
    PROVE  Spent(v)'
<1>0. v <= run.nprocs /\ ~procs[v].killed /\ v # Owner(t) /\ run.current = t
  BY BurySteps, AimerAlone DEF IInv, Base, Safe, Placed, Aimed
<1>1. procs'[v].spec = procs[v].spec
  BY <1>0, Registers
<1>2. CASE procs[v].spec = 0
  BY <1>1, <1>2 DEF Spent, RestartDue
<1>3. CASE "pthread_exit" \in Calls /\ procs[v].spec # 0
  <2>1. Faults(procs[v].spec).restart = "never"
    BY <1>0, <1>3, OnlyFailures
  <2> QED BY <1>1, <2>1 DEF Spent, RestartDue
<1>4. CASE "pthread_exit" \notin Calls /\ procs[v].spec # 0
  <2>1. Burying(v) /\ procs[v].state # "exited"
    BY DEF Bury, Burying, DeathsKnown
  <2>2. launcher.failed
    BY <1>0, <1>4, <2>1 DEF ReturnsHold, SuccessHolds, Success, Owner
  <2> DEFINE gone == [procs EXCEPT ![v].state = "exited"]
             last == [gone EXCEPT ![v] = Unscheduled(@)]
             th   == Ready(Retire(threads, v), WokenByDeath(Retire(threads, v), procs, v))
  <2>3. RegisterRestart(th, last, run, v, launcher.failed)
    BY <1>0, Zenon DEF Bury
  <2>4. launcher.failed = TRUE
    BY <2>2 DEF IInv, Base, TypeOK
  <2>5. last \in Procs
    <3>1. procs \in [Pid -> ProcRec]
      BY DEF IInv, Base, TypeOK
    <3>2. gone \in [Pid -> ProcRec]
      BY <1>0, <3>1 DEF ProcRec
    <3> HIDE DEF gone
    <3>3. Unscheduled(gone[v]) \in ProcRec
      BY <1>0, <3>2, UnscheduledLemma
    <3> QED BY <3>2, <3>3 DEF Procs
  <2>6. run.nprocs \in Nat
    BY Basics DEF RunRec
  <2> HIDE DEF th, last
  <2>7. RegisterRestart(th, last, run, v, TRUE)
    BY <2>3, <2>4
  <2> QED BY <1>0, <2>5, <2>6, <2>7, FollowedOrSpent
<1> QED BY <1>2, <1>3, <1>4

\* What happens off the baton owes nobody more.
LEMMA TargetsStep ==
    ASSUME OnlyFailuresReturn, IInv, IInv', OneLifeHolds, OneLifeHolds', LauncherHands, DeathsKnown,
           ReturnsHold, [Next]_vars
    PROVE  TargetsSpent'
<1>0. run'.calls = run.calls /\ Successors /\ Successors'
  BY RunStays DEF OneLifeHolds
<1> SUFFICES ASSUME "kill" \in Calls, NEW t \in Tid, pc'[t] = "killing",
                    procs'[run'.target].state = "exited"
             PROVE  Spent(run.target)'
  BY <1>0 DEF TargetsSpent, Calls
<1>1. CASE pc[t] # "killing"
  <2>1. PICK q \in Pid : Aim(t, q)
    BY <1>1, NewAim
  <2>2. UNCHANGED procs /\ run'.target = q /\ Alive(procs, q)
    BY <2>1, Basics DEF Aim, RunRec
  <2> QED BY <2>2 DEF Alive
<1>2. CASE pc[t] = "killing"
  <2> PICK v \in Pid : v = run.target
    BY <1>2 DEF IInv, Aimed
  <2>a. run'.target = v /\ ~procs'[v].killed /\ procs'[v].state = "exited"
    BY <1>2, AimKept
  <2> SUFFICES ASSUME procs'[v].spec # 0 PROVE Spent(v)'
    BY <2>a DEF Spent, RestartDue
  <2>b. SameFate(procs[v], procs'[v]) \/ Fell(v) \/ Buries(v) \/ TakesSlot(v)
    BY FateSteps
  <2>c. v <= run.nprocs
    <3>1. CASE SameFate(procs[v], procs'[v])
      BY <1>0, <3>1, Basics DEF SameFate, Successors, RunRec, Pid
    <3>2. CASE Buries(v)
      BY <3>2 DEF Buries, IInv, Base, Safe, Placed
    <3> QED BY <2>a, <2>b, <3>1, <3>2 DEF Fell, TakesSlot
  <2>0. v <= run.nprocs /\ run'.target = v /\ ~procs'[v].killed /\ procs'[v].state = "exited"
    BY <2>a, <2>c
  <2>1. CASE Bury /\ v = launcher.proc
    BY <1>2, <2>0, <2>1, BuriedTarget
  <2>2. CASE ~(Bury /\ v = launcher.proc)
    <3>1. procs[v].state = "exited"
      <4>1. ~TakesSlot(v)
        BY <2>0, Registers
      <4> QED BY <2>0, <2>2, <2>b, <4>1 DEF SameFate, Fell, Buries
    <3>2. Spent(v)
      BY <1>2, <3>1 DEF ReturnsHold, TargetsSpent
    <3>3. /\ procs'[v].spec = procs[v].spec
          /\ procs'[v].replacedBy = NoProc => procs[v].replacedBy = NoProc
      BY <1>0, <2>0, Registers, LineStays DEF NoProc
    <3>4. run'.stopped = run.stopped
      <4>1. ~Tick
        BY <1>2, AimerAlone DEF Tick
      <4> QED BY <4>1, RunStays
    <3>5. procs'[v].restartsLeft = procs[v].restartsLeft /\ run'.nprocs >= run.nprocs
          /\ run'.nthreads >= run.nthreads
      <4>0. procs \in Procs /\ run \in RunRec /\ run.nprocs \in Nat /\ run.nthreads \in Nat
        BY Basics DEF RunRec
      <4>1. CASE Bury
        BY <2>0, <2>2, <4>1, BuryKeeps
      <4>2. CASE Aside
        <5>1. run' = run
          BY <4>2 DEF Aside, Leave, OutsideWake, Slain, Attach, FailToAttach
        <5>2. \/ procs' = procs
              \/ \E p \in Pid : \/ procs' = [procs EXCEPT ![p].outside = TRUE]
                               \/ procs' = [procs EXCEPT ![p].signalled = TRUE]
                               \/ procs' = [procs EXCEPT ![p].known = TRUE, ![p].state = "live"]
          BY <4>2 DEF Aside, Leave, OutsideWake, Slain, Attach, FailToAttach
        <5>3. procs[v] \in ProcRec /\ procs \in [Pid -> ProcRec]
          BY <4>0 DEF Procs
        <5>4. \/ procs'[v] = procs[v]
              \/ procs'[v] = [procs[v] EXCEPT !.outside = TRUE]
              \/ procs'[v] = [procs[v] EXCEPT !.signalled = TRUE]
              \/ procs'[v] = [procs[v] EXCEPT !.known = TRUE, !.state = "live"]
          BY <5>2, <5>3
        <5>5. ASSUME NEW rec \in ProcRec
              PROVE  /\ [rec EXCEPT !.outside = TRUE].restartsLeft = rec.restartsLeft
                     /\ [rec EXCEPT !.signalled = TRUE].restartsLeft = rec.restartsLeft
                     /\ [rec EXCEPT !.known = TRUE, !.state = "live"].restartsLeft = rec.restartsLeft
          BY DEF ProcRec
        <5>6. procs'[v].restartsLeft = procs[v].restartsLeft
          BY <5>3, <5>4, <5>5
        <5> QED BY <4>0, <5>1, <5>6
      <4>3. CASE LauncherStep /\ ~Bury
        <5>1. run'.nprocs = run.nprocs /\ run'.nthreads = run.nthreads
          BY <4>0, <4>3 DEF LauncherStep, Start, Started, StopNow, EndRun, Respawn, Finish, NoticeExit, RunRec
        <5>2. procs' = procs \/ \E S : procs' = Signalled(procs, S)
          BY <4>3 DEF LauncherStep, Start, Started, EndRun, Respawn, Finish, NoticeExit
        <5> QED BY <2>0, <4>0, <5>1, <5>2 DEF Signalled, Procs, ProcRec
      <4> QED BY <1>2, <2>0, <4>0, <4>1, <4>2, <4>3, WhileAiming DEF vars
    <3>6. run \in RunRec /\ run' \in RunRec
      BY DEF IInv, Base, TypeOK
    <3> QED BY <2>0, <3>2, <3>3, <3>4, <3>5, <3>6, SpentStays
  <2> QED BY <2>1, <2>2
<1> QED BY <1>1, <1>2

LEMMA ReturnsInit == ASSUME Init PROVE ReturnsHold
<1>1. /\ threads = [t \in Tid |-> IF t \in Entry THEN FreshThread(t, FALSE) ELSE NoThreadRec]
      /\ launcher = [at |-> "booting", proc |-> NoProc, failed |-> FALSE,
                     started |-> FALSE, stopping |-> FALSE]
      /\ pick = NoPick
      /\ real = [p \in Pid |-> IF p \in Entry THEN "up" ELSE "none"]
  BY DEF Init
<1>2. HandsOf /\ NotBegun /\ FailedHolds
  <2>1. \A t \in Tid : threads[t].state # "exited"
    BY <1>1 DEF FreshThread, NoThreadRec
  <2>2. pick.phase = "none" /\ launcher.at = "booting" /\ \A p \in Pid : real[p] # "failed"
    BY <1>1 DEF NoPick
  <2>3. HandsOf
    BY <2>2 DEF HandsOf
  <2>4. NotBegun
    BY <2>1 DEF NotBegun
  <2>5. FailedHolds
    BY <2>2 DEF FailedHolds, Failure, Burying
  <2> QED BY <2>3, <2>4, <2>5
<1>4. SuccessHolds /\ TargetsSpent
  <2>1. \A t \in Tid : pc[t] \in {"boot", "none"}
    BY DEF Init
  <2>2. \A p \in Pid : ~Success(p)
    BY <1>1 DEF Success, Burying
  <2> QED BY <2>1, <2>2 DEF SuccessHolds, TargetsSpent
<1>3. ASSUME NEW p \in Pid PROVE Unshut(procs[p])
  <2>1. PICK draw \in [Entry -> UNION {Draws(e) : e \in Entry}] :
          /\ \A e \in Entry : draw[e] \in Draws(e)
          /\ procs = [q \in Pid |-> IF q \in Entry
                                    THEN [FreshProc(NoProc, q) EXCEPT !.crash = draw[q][1],
                                                                      !.shutdown = draw[q][2]]
                                    ELSE NoProcRec]
    BY DEF Init
  <2>2. CASE p \in Entry
    <3> DEFINE c == draw[p][1]
               s == draw[p][2]
    <3>1. s \in ShutdownTimes(FreshProc(NoProc, p), 0)
      BY <2>1, <2>2 DEF Draws
    <3>2. FreshProc(NoProc, p).spec = p
      BY DEF FreshProc
    <3>3. Faults(p).shutdown = {} => s = NoTime
      BY <3>1, <3>2 DEF ShutdownTimes
    <3>4. procs[p] = [FreshProc(NoProc, p) EXCEPT !.crash = c, !.shutdown = s]
      BY <2>1, <2>2
    <3> HIDE DEF c, s
    <3>5. procs[p].spec = p /\ procs[p].shutDown = FALSE /\ procs[p].shutdown = s
      BY <3>4 DEF FreshProc
    <3> QED BY <3>3, <3>5 DEF Unshut
  <2>3. CASE p \notin Entry
    BY <2>1, <2>3 DEF NoProcRec, FreshProc, Unshut
  <2> QED BY <2>2, <2>3
<1> QED BY <1>2, <1>3, <1>4 DEF ReturnsHold, UnshutHolds

\* Between hand-offs, a run whose last thread has left stays empty.
LEMMA NobodyComesBack ==
    ASSUME OnlyFailuresReturn, IInv, DeathsKnown, ThreadsHold, ReturnsHold, [Next]_vars,
           pick.phase = "none", pick'.phase = "none", AnyAlive(threads')
    PROVE  AnyAlive(threads)
<1>1. PICK t \in Tid : threads'[t].state \notin {"unused", "exited"}
  BY DEF AnyAlive
<1>2. CASE Stays(t)
  BY <1>1, <1>2 DEF Stays, StillThere, AnyAlive
<1>3. CASE threads[t].state = "unused" /\ (Created(t) \/ Spawned(t))
  <2>1. PICK u \in Tid : CreateThread(u) \/ SpawnChild(u)
    BY <1>3 DEF Created, Spawned
  <2>2. Inside(u)
    BY <2>1 DEF CreateThread, SpawnChild, Runs, Inside
  <2> QED BY <2>2 DEF AnyAlive, IInv, Base, Safe, OneHolder
<1>4. CASE Restarted(t)
  <2>1. PICK v \in Pid :
          /\ procs[v].spec # 0 /\ Faults(procs[v].spec).restart # "never"
          /\ \/ CrashAction(v)
             \/ /\ Bury /\ v = launcher.proc /\ ~procs[v].killed
                /\ \/ Faults(procs[v].spec).restart = "always"
                   \/ launcher.failed \/ procs[v].shutDown
    BY <1>4 DEF Restarted
  <2>2. PICK u \in Tid : threads[u].pid = v
    BY <2>1 DEF ThreadsHold
  <2>3. \A w \in Tid : threads[w].pid = v => threads[w].state # "unused"
    <3>1. v # NoProc
      BY DEF Pid, NoProc
    <3> QED BY <3>1 DEF IInv, Base, Safe, Placed
  <2>4. CASE CrashAction(v)
    <3>1. PICK w \in Tid : Kill(w, v)
      BY <2>4 DEF CrashAction, InjectCrash, InjectShutdown
    <3>2. Inside(w)
      BY <3>1 DEF Kill, Strikes, Inside
    <3> QED BY <3>2 DEF AnyAlive, IInv, Base, Safe, OneHolder
  <2>5. CASE ~CrashAction(v) /\ Bury /\ v = launcher.proc /\ ~procs[v].killed
    <3>1. Burying(v) /\ procs[v].state # "exited" /\ ~HeldBy(v)
      <4>1. Burying(launcher.proc)
        BY <2>5 DEF Bury, Burying
      <4>2. HeldBy(launcher.proc) => pick'.phase = "tick"
        BY <2>5 DEF Bury
      <4> QED BY <2>5, <4>1, <4>2 DEF DeathsKnown
    <3>2. CASE "pthread_exit" \notin Calls
      <4>1. threads[u].state # "exited"
        BY <2>2, <2>5, <3>1, <3>2 DEF ThreadsHold
      <4> QED BY <2>2, <2>3, <4>1 DEF AnyAlive
    <3>3. CASE "pthread_exit" \in Calls
      <4> DEFINE e == procs[v].spec
      <4>1. /\ Faults(e).restart \in {"never", "on-failure"}
            /\ Faults(e).restart = "on-failure" => Faults(e).shutdown = {}
        BY <2>1, <3>3, OnlyFailures
      <4>2. Faults(e).shutdown = {}
        BY <2>1, <4>1
      <4>5. ~procs[v].shutDown
        BY <4>2 DEF ReturnsHold, UnshutHolds, Unshut
      <4>6. launcher.failed
        BY <2>1, <2>5, <4>1, <4>5
      <4>7. LeftBehind(v)
        BY <2>1, <2>5, <3>1, <4>6 DEF ReturnsHold, FailedHolds, Failure
      <4>8. PICK w \in Tid : threads[w].pid = v /\ threads[w].state # "exited"
        BY <3>1, <4>7 DEF LeftBehind, HeldBy, Owner
      <4> QED BY <2>3, <4>8 DEF AnyAlive
    <3> QED BY <3>2, <3>3
  <2> QED BY <2>1, <2>4, <2>5
<1> QED BY <1>1, <1>2, <1>3, <1>4, ThreadMoves DEF Picked, HandsOff, Retired, Added

\* A hand-off gives the baton to somebody, as long as anybody is left.
LEMMA HandedOn ==
    ASSUME IInv, IInv', Companions, BatonHolds, Ending, launcher'.at # "over", AnyAlive(threads')
    PROVE  Held'
<1>0. /\ pick.phase = "faults" /\ pick'.phase = "none" /\ launcher.at # "over"
      /\ threads \in Threads /\ procs \in Procs /\ run \in RunRec
  BY EndPhase, Basics DEF Companions, OverQuiet
<1>1. Steady(procs, procs')
  <2>1. CASE \E t \in Tid : Choose(t)
    BY <2>1, SteadySteps
  <2> QED BY <2>1, SteadySteps DEF Ending
<1>w. Woken(threads, Released)
  BY ReleasedLemma
<1>2. ASSUME NEW t \in Tid, Choose(t) PROVE Held'
  <2> DEFINE p == threads[t].pid
  <2>1. /\ run'.current = t /\ threads' = [Released EXCEPT ![t].state = "running"]
        /\ Released[t].state = "runnable" /\ UNCHANGED real
    BY <1>0, <1>2 DEF Choose, Runnable, RunRec
  <2>2. threads'[t].state = "running" /\ threads'[t].pid = p
    <3>1. Released[t] \in ThreadRec /\ Released[t].pid = p
      BY <1>w DEF Woken, Threads
    <3>2. threads'[t] = [Released[t] EXCEPT !.state = "running"]
      BY <1>w, <2>1 DEF Woken, Threads
    <3> QED BY <3>1, <3>2 DEF ThreadRec
  <2>3. threads[t].state \in {"runnable", "blocked"}
    BY <1>w, <2>1 DEF Woken
  <2>4. p \in Pid /\ procs[p].state \in {"starting", "live"} /\ ~procs[p].killed
    BY <2>3, Basics DEF IInv, Base, Safe, ScheduleIsAlive, Owner
  <2>5. procs'[p].state = procs[p].state /\ procs'[p].spec = procs[p].spec
    BY <1>1, <2>4 DEF Steady, SameLife, SameCore
  <2>6. t # NoThread
    BY DEF Tid, NoThread
  <2>7. CASE real[p] = "none"
    <3>1. procs[p].state = "starting"
      BY <2>4, <2>7 DEF Companions, LiveKnown
    <3>2. procs[p].spec # 0
      BY <2>4, <2>7 DEF BatonHolds, ThreadsHold
    <3> QED BY <2>1, <2>2, <2>4, <2>5, <2>6, <2>7, <3>1, <3>2 DEF Held
  <2>8. CASE real[p] = "reaped"
    <3>1. Burying(p)
      BY <1>0, <2>4, <2>8 DEF BatonHolds, DeathsKnown
    <3>2. pick.by = "guest"
      BY <1>0, <3>1 DEF BatonHolds, LauncherHands, Burying
    <3>3. UNCHANGED launcher
      BY <1>2, <3>2 DEF Choose, LauncherAfter
    <3> QED BY <2>1, <2>2, <2>4, <2>6, <2>8, <3>1, <3>3 DEF Held, Burying
  <2>9. CASE real[p] = "up" \/ Dead(p)
    BY <2>1, <2>2, <2>4, <2>6, <2>9 DEF Held, Dead
  <2>10. real[p] \in {"none", "up", "exit0", "failed", "reaped"}
    BY <2>4 DEF IInv, Base, TypeOK
  <2> QED BY <2>7, <2>8, <2>9, <2>10 DEF Dead
<1>3. CASE IdleGuest
  <2> DEFINE me == pick.me
             own == threads[me].pid
  <2>1. me \in Tid /\ me = run.current /\ Active(me)
    BY <1>0, <1>3 DEF IdleGuest, IInv, Base, Safe, HandingOver, Active
  <2>2. own \in Pid /\ real[own] = "up"
    BY <2>1, Basics DEF IInv, Base, Safe, Tenants, Active
  <2>3. threads' = Released /\ run' = [run EXCEPT !.unsignalled = FALSE]
    BY <1>3, Zenon DEF IdleGuest
  <2>4. run'.current = me /\ me # NoThread
    BY <1>0, <2>1, <2>3 DEF RunRec, Tid, NoThread
  <2>5. threads'[me].pid = own
    BY <1>w, <2>1, <2>3 DEF Woken
  <2>6. procs'[own].killed = procs[own].killed /\ Rung[own].killed = procs[own].killed
    BY <1>0, <1>1, <2>2, RungSteady DEF Steady, SameLife, SameCore
  <2>7. PICK gcd, anywhere, dead, polls :
          LET stuck == Released[me].state # "exited" \/ AnyAlive(Released)
              crashed == Rung[own].killed
          IN /\ dead = IF ~crashed /\ stuck /\ ~anywhere THEN {own} ELSE {}
             /\ polls = (~crashed /\ stuck /\ anywhere)
             /\ anywhere \in BOOLEAN
             /\ RealDeath(dead, "failed")
             /\ pc' = ThreadsGone(IF polls THEN [pc EXCEPT ![me] = "polling"]
                                           ELSE AfterHandOff(Released), dead)
    BY <1>3, Zenon DEF IdleGuest, Owner
  <2>8. AnyAlive(Released)
    BY <2>3
  <2>9. real \in [Pid -> {"none", "up", "exit0", "failed", "reaped"}] /\ pc \in [Tid -> Pcs]
    BY DEF IInv, Base, TypeOK
  <2>10. CASE procs[own].killed
    <3>1. dead = {}
      BY <2>6, <2>7, <2>10
    <3>2. real'[own] = "up"
      BY <2>2, <2>7, <2>9, <3>1 DEF RealDeath
    <3> QED BY <2>2, <2>4, <2>5, <2>6, <2>10, <3>2 DEF Held
  <2>11. CASE ~procs[own].killed /\ anywhere
    <3>1. dead = {} /\ polls
      BY <2>6, <2>7, <2>8, <2>11
    <3>2. real'[own] = "up"
      BY <2>2, <2>7, <2>9, <3>1 DEF RealDeath
    <3>3. pc'[me] = "polling"
      BY <2>1, <2>7, <2>9, <3>1 DEF ThreadsGone
    <3> QED BY <2>2, <2>4, <2>5, <3>2, <3>3 DEF Held
  <2>12. CASE ~procs[own].killed /\ ~anywhere
    <3>1. dead = {own}
      BY <2>6, <2>7, <2>8, <2>12
    <3>2. real'[own] = "failed"
      BY <2>2, <2>7, <2>9, <3>1 DEF RealDeath
    <3> QED BY <2>2, <2>4, <2>5, <3>2 DEF Held, Dead
  <2> QED BY <2>10, <2>11, <2>12
<1>4. CASE IdleLauncher
  <2>1. threads' = Released /\ pick.by # "guest" /\ Idle
    BY <1>4, Zenon DEF IdleLauncher
  <2>2. Runnable(Released) = {} /\ NextEvents = {}
    BY <2>1 DEF Idle
  <2>3. ~(pick.by = "launcher" /\ ~run.stopped)
    <3>1. pick.by = "launcher" /\ ~run.stopped => launcher' = [launcher EXCEPT !.at = "over"]
      BY <1>4, <2>1 DEF IdleLauncher
    <3> QED BY <3>1 DEF IInv, Base, TypeOK
  <2>4. PICK t \in Tid : Released[t].state \notin {"unused", "exited"}
    BY <2>1 DEF AnyAlive
  <2>5. Released[t] \in ThreadRec /\ threads[t] \in ThreadRec
    BY <1>0, <1>w DEF Woken, Threads
  <2>6. threads[t].state = "blocked" /\ Released[t].state = "blocked"
    <3>1. threads[t].state # "running"
      BY <1>0 DEF IInv, Base, Safe, HandingOver
    <3>2. Released[t].state # "runnable"
      BY <2>2 DEF Runnable
    <3> QED BY <1>w, <2>4, <2>5, <3>1, <3>2 DEF Woken, ThreadRec
  <2>7. pick.by \in {"launcher", "start"}
    BY <1>0, <2>1 DEF IInv, Base, TypeOK, Safe, HandingOver
  <2>8. pick.by = "start"
    BY <2>3, <2>6, <2>7 DEF BatonHolds, SleepersHold, Blocked
  <2>9. threads[t].deadline # NoTime
    BY <1>0, <2>6, <2>8 DEF BatonHolds, SleepersHold, Blocked
  <2>10. Released[t].deadline # NoTime
    BY <2>6, <2>9, StillThereReleased DEF StillThere
  <2>11. Released[t].deadline \in NextEvents
    BY <2>6, <2>10 DEF NextEvents, Deadlines, Blocked
  <2> QED BY <2>2, <2>11
<1> QED BY <1>2, <1>3, <1>4 DEF Ending

\* Between hand-offs the one that has the baton keeps it, or goes with a
\* process whose death the launcher will be told of.
LEMMA HolderStays ==
    ASSUME IInv, IInv', Companions, Companions', BatonHolds, LauncherHands', [Next]_vars,
           pick.phase = "none", pick'.phase = "none", launcher'.at # "over", Held
    PROVE  Held'
<1> DEFINE c == run.current
           p == threads[c].pid
<1>0. /\ c # NoThread /\ c \in Tid /\ p \in Pid
      /\ run'.current = c /\ threads'[c].pid = p
  <2>1. c # NoThread /\ c \in Tid /\ p \in Pid
    BY Basics DEF Held, RunRec
  <2>2. ~\E t \in Tid : Choose(t)
    BY DEF Choose, FaultsDone
  <2> QED BY <2>1, <2>2, CurrentStays, OwnersStay
<1>1. /\ p <= run.nprocs /\ run.nprocs \in Nat /\ threads[c].state # "unused"
  <2>1. p # NoProc
    BY <1>0 DEF Pid, NoProc
  <2>2. threads[c].state # "unused"
    BY <1>0, <2>1 DEF IInv, Base, Safe, Placed
  <2> QED BY <1>0, <2>2, Basics DEF RunRec
<1>r. /\ real[p] \in {"none", "up", "exit0", "failed", "reaped"}
      /\ real'[p] \in {"none", "up", "exit0", "failed", "reaped"}
  BY <1>0 DEF IInv, Base, TypeOK
<1>n. real'[p] = "reaped" => real[p] = "reaped" \/ (Dead(p) /\ Burying(p)')
  <2> SUFFICES ASSUME real'[p] = "reaped", real[p] # "reaped" PROVE Dead(p) /\ Burying(p)'
    OBVIOUS
  <2>1. NoticeExit(p)
    BY <1>0, ReapedBy
  <2> QED BY <1>0, <2>1, Rounds DEF NoticeExit, BatonHolds
<1>h. HeldHolds /\ LauncherHands /\ NotYetSpawned
  BY DEF BatonHolds
<1>k. procs[p].killed => procs'[p].killed
  BY <1>0, <1>1, Registers
<1>s. threads[c].state = "running" =>
        threads'[c].state = "running" \/ procs'[p].killed \/ real[p] = "reaped"
  <2> SUFFICES ASSUME threads[c].state = "running"
               PROVE  threads'[c].state = "running" \/ procs'[p].killed \/ real[p] = "reaped"
    OBVIOUS
  <2>1. CASE Retired(c)
    <3>1. CrashAction(p) \/ (Bury /\ p = launcher.proc)
      BY <2>1 DEF Retired
    <3> QED BY <1>0, <1>1, <3>1, CrashMarks, BurySteps
  <2>2. ~Picked(c) /\ ~HandsOff(c) /\ ~Added(c)
    BY DEF Picked, HandsOff, Added
  <2> QED BY <1>0, <2>1, <2>2, ThreadMoves DEF Stays, StillThere
<1>2. CASE Dead(p)
  <2>1. real'[p] \in {"exit0", "failed"} \/ (real'[p] = "reaped" /\ Burying(p)')
    BY <1>0, <1>2, <1>n, <1>r, RealSteps DEF Dead
  <2> QED BY <1>0, <2>1 DEF Held, Dead
<1>3. CASE real[p] = "up"
  <2>1. threads[c].state = "running" \/ pc[c] = "polling" \/ procs[p].killed
    BY <1>3 DEF Held, Dead
  <2>2. CASE real'[p] = "up"
    <3>1. threads'[c].state = "running" \/ pc'[c] = "polling" \/ procs'[p].killed
      BY <1>0, <1>3, <1>h, <1>k, <1>s, <2>1, <2>2, PollingStays
    <3> QED BY <1>0, <2>2, <3>1 DEF Held
  <2>3. CASE real'[p] # "up"
    <3>1. real'[p] \in {"exit0", "failed"}
      BY <1>0, <1>3, <1>n, <1>r, <2>3, RealSteps DEF Dead
    <3> QED BY <1>0, <3>1 DEF Held, Dead
  <2> QED BY <2>2, <2>3
<1>4. CASE real[p] = "none"
  <2>1. /\ procs[p].state = "starting" /\ procs[p].spec # 0
        /\ threads[c].state = "running" \/ procs[p].killed
    BY <1>4 DEF Held, Dead
  <2>2. threads'[c].state = "running" \/ procs'[p].killed
    BY <1>4, <1>k, <1>s, <2>1
  <2>3. CASE real'[p] = "none"
    <3>1. SameFate(procs[p], procs'[p]) \/ Fell(p) \/ Buries(p)
      BY <1>0, <1>1, FateSteps, Registers
    <3>2. procs'[p].state \in {"starting", "live"} /\ procs'[p].spec # 0
      BY <1>4, <2>1, <3>1 DEF SameFate, Fell, Buries
    <3>3. procs'[p].state # "live"
      BY <1>0, <2>3 DEF Companions, LiveKnown
    <3> QED BY <1>0, <2>2, <2>3, <3>2, <3>3 DEF Held
  <2>4. CASE real'[p] # "none"
    <3>1. Respawn /\ p = procs[launcher.proc].replacedBy
      BY <1>0, <1>1, <1>4, <2>4, RealSteps
    <3>2. real'[p] = "up"
      <4>1. real' = [x \in Pid |-> IF x = procs[launcher.proc].replacedBy /\ real[x] = "none"
                                   THEN "up" ELSE real[x]]
        BY <3>1 DEF Respawn
      <4> QED BY <1>0, <1>4, <3>1, <4>1
    <3> QED BY <1>0, <2>2, <3>2 DEF Held
  <2> QED BY <2>3, <2>4
<1>5. CASE real[p] = "reaped"
  <2>1. Burying(p)
    BY <1>5 DEF Held, Dead
  <2>2. real'[p] = "reaped"
    BY <1>0, <1>5, RealSteps
  <2>3. ~Bury
    <3>1. HeldBy(launcher.proc)
      BY <1>0, <2>1 DEF HeldBy, Burying, Owner
    <3>2. Bury => pick'.phase = "tick"
      BY <3>1 DEF Bury
    <3> QED BY <3>2
  <2>4. Burying(p)'
    BY <1>0, <1>h, <2>1, <2>3, Rounds DEF Burying
  <2> QED BY <1>0, <2>2, <2>4 DEF Held
<1> QED BY <1>2, <1>3, <1>4, <1>5, <1>r DEF Dead

\* The baton is handed on, or kept.
LEMMA HeldStep ==
    ASSUME OnlyFailuresReturn, IInv, IInv', Companions, Companions', BatonHolds, ReturnsHold,
           LauncherHands', [Next]_vars
    PROVE  HeldHolds'
<1> SUFFICES ASSUME pick'.phase = "none", launcher'.at # "over", launcher'.started, AnyAlive(threads')
             PROVE  Held'
  BY DEF HeldHolds, LockFree
<1>1. CASE Ending
  BY <1>1, HandedOn
<1>2. CASE ~Ending
  <2>1. pick.phase = "none"
    BY <1>2, PickMoves, JumpPhase DEF Ending, Tick, InjectCrash, InjectShutdown, IInv, Base, TypeOK
  <2>2. launcher.at # "over" /\ AnyAlive(threads)
    BY <2>1, OverStep, NobodyComesBack DEF Companions, BatonHolds
  <2>3. launcher.started
    <3>1. CASE LauncherStep
      <4>1. ~Start
        BY DEF Start
      <4>2. launcher'.started = launcher.started
        <5>1. launcher \in [ at: {"booting", "started", "serving", "ending", "burying", "handing",
                                  "respawning", "over"},
                             proc: Pid \cup {NoProc}, failed: BOOLEAN,
                             started: BOOLEAN, stopping: BOOLEAN ]
          BY DEF IInv, Base, TypeOK
        <5>2. CASE Bury
          BY <5>1, <5>2 DEF Bury
        <5>3. CASE Started \/ EndRun \/ Respawn \/ Finish \/ \E p \in Pid : NoticeExit(p)
          BY <5>1, <5>3 DEF Started, EndRun, Respawn, Finish, NoticeExit
        <5> QED BY <3>1, <4>1, <5>2, <5>3 DEF LauncherStep
      <4> QED BY <4>2
    <3>2. CASE ~LauncherStep
      BY <1>2, <2>1, <3>2, LauncherMoves
    <3> QED BY <3>1, <3>2
  <2>4. Held
    BY <2>1, <2>2, <2>3 DEF BatonHolds, HeldHolds, LockFree
  <2> QED BY <2>1, <2>4, HolderStays
<1> QED BY <1>1, <1>2

\* A run that has just begun was not stopped.
LEMMA RunAtInit == ASSUME Init PROVE ~run.stopped
<1>1. PICK calls : run = [ current |-> NoThread, nthreads |-> NEntries, nprocs |-> NEntries,
                 stopIn |-> StopAfter, stopped |-> FALSE, unsignalled |-> FALSE, calls |-> calls,
                 target |-> NoProc ]
  BY DEF Init
<1> QED BY <1>1

\* Nothing has happened yet: the entries are spawned, and nobody sleeps.
LEMMA BatonInit == ASSUME Init PROVE BatonHolds
<1>1. /\ threads = [t \in Tid |-> IF t \in Entry THEN FreshThread(t, FALSE) ELSE NoThreadRec]
      /\ launcher = [at |-> "booting", proc |-> NoProc, failed |-> FALSE,
                     started |-> FALSE, stopping |-> FALSE]
      /\ pick = NoPick
      /\ real = [p \in Pid |-> IF p \in Entry THEN "up" ELSE "none"]
  BY DEF Init
<1>2. \A t \in Tid : /\ threads[t].state \in {"runnable", "unused"}
                     /\ threads[t].pid = IF t \in Entry THEN t ELSE NoProc
  BY <1>1 DEF FreshThread, NoThreadRec
<1>3. Entry \subseteq Pid /\ Entry \subseteq Tid
  BY SizesAssumption DEF Entry, Pid, Tid
<1>s. ~run.stopped
  BY RunAtInit
<1>4. \A p \in Pid : p \notin Entry => procs[p].spec = 0
  <2>1. NoProcRec.spec = 0
    BY DEF NoProcRec, FreshProc
  <2>2. \A p \in Pid : p \notin Entry => procs[p] = NoProcRec
    BY DEF Init
  <2> QED BY <2>1, <2>2
<1>5. pick.phase = "none" /\ launcher.at = "booting"
  BY <1>1 DEF NoPick
<1>6. HeldHolds /\ LauncherHands /\ NotYetSpawned /\ SleepersHold
  BY <1>1, <1>2, <1>5, <1>s DEF HeldHolds, LauncherHands, NotYetSpawned, Passing, SleepersHold, Blocked
<1>7. NextLives /\ DeathsKnown
  BY <1>1, <1>4, <1>5 DEF NextLives, DeathsKnown, Burying
<1>8. ThreadsHold
  <2>1. \A p \in Pid : procs[p].spec # 0 => p \in Tid /\ threads[p].pid = p
    BY <1>2, <1>3, <1>4
  <2>2. \A t \in Tid : threads[t].pid \in Pid => real[threads[t].pid] = "up"
    <3>1. NoProc \notin Pid
      BY DEF Pid, NoProc
    <3> QED BY <1>1, <1>2, <3>1
  <2>3. \A t \in Tid : threads[t].state # "exited"
    BY <1>2
  <2> QED BY <2>1, <2>2, <2>3 DEF ThreadsHold
<1> QED BY <1>6, <1>7, <1>8 DEF BatonHolds

\* One step keeps all of it.
LEMMA BatonStep ==
    ASSUME OnlyFailuresReturn, IInv, IInv', Companions, Companions', BatonHolds, ReturnsHold,
           [Next]_vars
    PROVE  BatonHolds' /\ ReturnsHold'
<1>1. LauncherHands'
  BY LauncherHandsStep DEF BatonHolds
<1>2. SleepersHold'
  BY SleepersStep DEF BatonHolds, Companions
<1>3. DeathsKnown'
  BY DeathsKnownStep DEF BatonHolds, Companions
<1>4. NotYetSpawned'
  BY NotYetSpawnedStep DEF BatonHolds, Companions
<1>5. NextLives'
  BY NextLivesStep DEF BatonHolds, ReturnsHold, Companions
<1>6. ThreadsHold'
  BY ThreadsHoldStep DEF BatonHolds, Companions
<1>7. HeldHolds'
  BY <1>1, HeldStep
<1>8. ReturnsHold'
  <2>1. UnshutHolds' /\ HandsOf' /\ NotBegun' /\ FailedHolds'
    BY UnshutStep, HandsOfStep, NotBegunStep, FailedStep DEF ReturnsHold, BatonHolds, Companions
  <2>2. SuccessHolds'
    BY SuccessStep DEF ReturnsHold, BatonHolds, Companions
  <2>3. TargetsSpent'
    BY TargetsStep DEF BatonHolds, Companions
  <2> QED BY <2>1, <2>2, <2>3 DEF ReturnsHold
<1> QED BY <1>1, <1>2, <1>3, <1>4, <1>5, <1>6, <1>7, <1>8 DEF BatonHolds

\* Between hand-offs somebody real has the baton, as long as anybody is left:
\* the launcher is told of every death, passes on the baton of a process that
\* held it, and spawns the life it was passed to (process_died, respawn,
\* supervise_started).
THEOREM BatonIsNotLost == ASSUME OnlyFailuresReturn PROVE Spec => []BatonNotLost
<1>1. Init => BatonHolds /\ ReturnsHold /\ Companions
  <2> SUFFICES ASSUME Init PROVE BatonHolds /\ ReturnsHold /\ Companions
    OBVIOUS
  <2>1. StopHolds
    BY RunAtInit DEF StopHolds
  <2> QED BY <2>1, BatonInit, ReturnsInit, OneLifeInit, ChildInit, SettleInit DEF Companions, ChildHolds, SettleHolds
<1>2. IInv /\ IInv' /\ Companions /\ [Next]_vars => Companions'
  <2> SUFFICES ASSUME IInv, IInv', Companions, [Next]_vars PROVE Companions'
    OBVIOUS
  <2>1. LiveKnown'
    BY LiveOrigin DEF Companions, LiveKnown
  <2> QED BY <2>1, OneLifeStep, StopStep, OverStep, ExitedSeenStep DEF Companions
<1>3. IInv /\ IInv' /\ Companions /\ Companions' /\ BatonHolds /\ ReturnsHold /\ [Next]_vars
        => BatonHolds' /\ ReturnsHold'
  BY BatonStep
<1>4. IInv /\ BatonHolds => BatonNotLost
  <2> SUFFICES ASSUME IInv, BatonHolds, LockFree, launcher.at = "serving", AnyAlive(threads)
               PROVE  LET c == run.current
                          p == Owner(c)
                      IN /\ c # NoThread
                         /\ \/ Dead(p)
                            \/ real[p] = "up" /\ (threads[c].state = "running" \/ pc[c] = "polling" \/ procs[p].killed)
                            \/ real[p] = "none" /\ \E q \in Pid : procs[q].replacedBy = p /\ real[q] # "reaped"
    BY DEF BatonNotLost
  <2>1. Held
    BY DEF BatonHolds, HeldHolds, LauncherHands
  <2>2. ~Passing /\ \A p : ~Burying(p)
    BY DEF Passing, Burying
  <2>3. ASSUME NEW p \in Pid, real[p] = "none", procs[p].state = "starting", procs[p].spec # 0
        PROVE  \E q \in Pid : procs[q].replacedBy = p /\ real[q] # "reaped"
    BY <2>2, <2>3 DEF BatonHolds, NextLives, Predecessor
  <2> QED BY <2>1, <2>2, <2>3 DEF Held, Owner
<1> QED
  BY <1>1, <1>2, <1>3, <1>4, Invariance, PTL DEF Spec
=============================================================================
