---------------------------- MODULE MCScheduler ----------------------------
(***************************************************************************)
(* Small runs of Scheduler for TLC.  A .cfg picks one of the plans and the *)
(* sets below; times are counted in switch costs.                          *)
(***************************************************************************)
EXTENDS Scheduler

\* Nothing goes wrong with anybody
QuietPlan == [e \in Entry |-> NoFaults]

\* Entry 1 may be crashed at two different moments and has one more life;
\* entry 2 is shut down, with time to leave by itself, and always comes back
CrashPlan ==
    [QuietPlan EXCEPT
       ![1] = [NoFaults EXCEPT !.crash = {0, 2}, !.crashes = 1,
                 !.restart = "on-failure", !.delay = {1}, !.restarts = 1],
       ![2] = [NoFaults EXCEPT !.shutdown = {3}, !.shutdowns = 1, !.grace = 2,
                 !.restart = "always", !.delay = {0, 2}, !.restarts = NoLimit]]

\* Entry 1 may be crashed once and does not come back
LossPlan == [QuietPlan EXCEPT ![1] = [NoFaults EXCEPT !.crash = {0, 2}, !.crashes = 1]]

\* Entry 1 may be crashed once and does not come back; entry 2 comes back
\* whenever it fails
MixedPlan ==
    [LossPlan EXCEPT ![2] = [NoFaults EXCEPT !.restart = "on-failure", !.delay = {0, 2},
                               !.restarts = NoLimit]]

\* Three kinds of programs: threads that come and go while outside threads
\* wake them; parents that wait for the children they spawn; processes that
\* die before they attach, with signals, timers and clock reads
ThreadCalls == {"block", "wake", "create", "pthread_exit", "outside"}
ChildCalls  == {"block", "exit", "create", "spawn", "kill"}
BootCalls   == {"bootfail", "kill", "block", "exit", "signal", "timer", "clock"}
AllPrograms == {ThreadCalls, ChildCalls, BootCalls}

NoTimers == {}
Repeating == {<<2, 2>>, <<NoTime, 0>>}
OneShot == {<<2, 0>>, <<NoTime, 0>>}

\* No stop-after, and an early one
Never == NoTime
Early == 3

\* A wait without a deadline, and one with
Timed == {NoTime, 3}
Untimed == {NoTime}
=============================================================================
