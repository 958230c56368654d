------------------------------ MODULE MCWaits ------------------------------
(***************************************************************************)
(* Small programs for Waits.  A run starts one of the scenarios of its     *)
(* set; "t1" to "t3" are threads of the schedule, "g" is a GCD worker.     *)
(***************************************************************************)
EXTENDS Waits

Sh(what, o)        == [Op(what, o) EXCEPT !.mode = "sh"]
Off(what, o)       == [Op(what, o) EXCEPT !.mode = "no"]
Late(what, o)      == [Op(what, o) EXCEPT !.timed = TRUE]
WaitFor(c, m, f)   == [Op("wait", c) EXCEPT !.with = m, !.flag = f]
WaitAWhile(c, m, f) == [WaitFor(c, m, f) EXCEPT !.timed = TRUE]
Either(o1, o2, timed) == [Op("poll", o1) EXCEPT !.with = o2, !.timed = timed]

\* All in one process, nobody starting up
Play(p1, p2, p3, out) ==
    [home |-> [a \in Actor |-> "p"],
     prog |-> [a \in Actor |-> CASE a = "t1" -> p1 [] a = "t2" -> p2 [] a = "t3" -> p3 [] OTHER -> out],
     starting |-> {}, gate |-> "s", writers |-> {}, deaf |-> {}, watches |-> {},
     parent |-> [p \in Process |-> "none"], hears |-> [p \in Process |-> "none"]]
\* t3 is in a process of its own
Apart(s) == [s EXCEPT !.home["t3"] = "q"]

Locked(m, ops) == <<Op("lock", m)>> \o ops \o <<Op("unlock", m)>>

\* A monitor: two wait for the flag, one of them not for ever, one signals
Monitor ==
    Play(Locked("m", <<WaitFor("c", "m", "f")>>),
         Locked("m", <<WaitAWhile("c", "m", "f")>>),
         Locked("m", <<Op("add", "f"), Op("signal", "c")>>) \o
         Locked("m", <<Op("add", "f"), Op("signal", "c")>>), <<>>)
\* All are woken at once, by a thread that has let the mutex go
Herd ==
    Play(Locked("m", <<WaitFor("c", "m", "f")>>),
         Locked("m", <<WaitAWhile("c", "m", "f")>>),
         Locked("m", <<Op("add", "f"), Op("add", "f")>>) \o <<Op("broadcast", "c")>>, <<>>)
\* A mutex and a read-write lock, which an outside thread takes too
Locks ==
    Play(Locked("m", <<Sh("lock", "f"), Op("unlock", "f")>>), Locked("f", <<>>), Locked("m", <<>>),
         <<Sh("lock", "f"), Op("unlock", "f")>>)
\* Semaphores and words that outside threads count up and change
Semaphores ==
    Play(<<Op("down", "m")>>, <<Late("down", "m"), Op("system", "f")>>, <<Op("up", "m")>>,
         <<Op("up", "m"), Op("up", "f")>>)
Words ==
    Play(<<Op("store", "c"), Op("futex", "m")>>, <<Late("futex", "c")>>, <<Late("futex", "m")>>,
         <<Op("futex", "c"), Op("store", "m")>>)
\* An unfair lock: one thread is starting up, one loses the baton with it
Unfair ==
    [Play(<<Op("gate", "s"), Op("ungate", "s"), Op("gate", "c"), Op("lock", "f"),
            Op("unlock", "f"), Op("ungate", "c")>>,
          <<Op("gate", "c"), Op("ungate", "c")>>,
          Locked("f", <<>>) \o <<Op("gate", "s"), Op("ungate", "s")>>,
          <<Op("gate", "c"), Op("ungate", "c"), Op("gate", "s"), Op("ungate", "s")>>) EXCEPT !.starting = {"t2"}]
\* A pipe between processes: two writers, one of them outside the schedule
\* in the reader's process, and a second pipe that is closed
Pipes ==
    Apart([Play(<<Op("write", "m"), Op("write", "m"), Op("close", "m"), Op("read", "c")>>,
                <<Late("sleep", "f"), Op("close", "c")>>,
                <<Op("read", "m"), Op("read", "m"), Either("m", "c", TRUE), Op("read", "m")>>,
                <<>>)
           EXCEPT !.writers = {<<"m", "t1">>, <<"c", "t2">>}])
\* An outside thread writes to the thread of its own process that polls
SelfPipe ==
    [Play(<<Either("m", "c", FALSE), Op("read", "m"), Op("join", "t2")>>,
          <<Op("read", "c"), Op("read", "c")>>, <<Op("write", "c"), Op("close", "c")>>,
          <<Op("write", "m")>>)
     EXCEPT !.writers = {<<"m", "g">>, <<"c", "t3">>}]
\* File locks and a System V semaphore between processes, a signal to one
Files ==
    Apart(Play(<<Op("flock", "m"), Op("semop", "c"), Off("flock", "m")>>,
               <<Sh("flock", "m"), Off("flock", "m"), Op("join", "t1")>>,
               <<Sh("semop", "c"), Op("flock", "m"), Off("flock", "m")>>, <<>>))
Records ==
    Apart(Play(<<Op("setlk", "m"), Op("kill", "q"), Off("setlk", "m")>>,
               <<Op("sleep", "f"), Op("join", "t1")>>,
               <<Op("setlk", "m"), Off("setlk", "m"), Op("sleep", "f")>>, <<>>))

\* t3 signals the process of the others, twice: t1 blocks the signal, the
\* handler writes to the pipe that t2 polls, t1 signals t2 as well
Signals ==
    [Apart(Play(<<Late("sleep", "f"), Op("tkill", "t2")>>,
                <<Either("m", "c", FALSE), Op("read", "m"), Op("raise", "p"), Late("sleep", "f")>>,
                <<Op("kill", "p"), Late("sleep", "f"), Op("kill", "p")>>, <<>>))
     EXCEPT !.deaf = {<<"t1", "usr">>}, !.hears["p"] = "m"]
\* Two threads, either of which may be woken for the timer
Timer ==
    [Play(<<Op("alarm", "p"), Either("m", "c", FALSE), Op("read", "m")>>,
          <<Op("lock", "f"), Op("sleep", "f"), Op("unlock", "f"), Op("join", "t1")>>, Locked("f", <<>>), <<>>)
     EXCEPT !.hears["p"] = "m"]
\* A parent hears of the end of its child in all the ways there are
Family ==
    [Apart(Play(<<Op("flock", "f"), Op("write", "c"), Off("flock", "f")>>, <<Op("read", "c")>>,
                <<Op("kevent", "k"), Op("flock", "f"), Op("waitpid", "p"), Off("flock", "f"), Op("read", "m")>>, <<>>))
     EXCEPT !.parent["p"] = "q", !.hears["q"] = "m",
            !.watches = {[kq |-> "k", filter |-> "proc", ident |-> "p"]},
            !.writers = {<<"m", "t3">>, <<"c", "t1">>}]
\* ... and of one that it kills with a lock held, while t2 blocks SIGCHLD
Orphans ==
    [Play(<<Op("flock", "f"), Op("sleep", "s")>>,
          <<Op("waitpid", "p"), Op("read", "m")>>,
          <<Late("sleep", "s"), Op("slay", "p"), Op("flock", "f"), Off("flock", "f")>>, <<>>)
     EXCEPT !.home["t2"] = "q", !.home["t3"] = "q", !.parent["p"] = "q", !.hears["q"] = "m",
            !.deaf = {<<"t2", "chld">>}, !.writers = {<<"m", "t3">>}]
\* A kqueue with a pipe, a user event and a signal; another process writes
\* to the pipe and sends the signal, another thread triggers the event
Kqueue ==
    [Apart(Play(<<Op("kevent", "k"), Op("kevent", "j"), Op("read", "c")>>, <<Op("trigger", "m"), Late("kevent", "i")>>,
                <<Op("write", "c"), Op("kill", "p"), Op("close", "c")>>, <<>>))
     EXCEPT !.writers = {<<"c", "t3">>},
            !.watches = {[kq |-> "k", filter |-> "user", ident |-> "m"],
                         [kq |-> "j", filter |-> "signal", ident |-> "usr"],
                         [kq |-> "i", filter |-> "read", ident |-> "c"],
                         [kq |-> "i", filter |-> "signal", ident |-> "usr"]}]

Everything == {Monitor, Herd, Locks, Semaphores, Words, Unfair, Pipes, SelfPipe, Files, Records,
               Signals, Timer, Family, Orphans, Kqueue}
=============================================================================
