# Verification of derp

derp runs the processes of a run file under a supervisor so that a run is a
function of its seed: of all threads of all processes exactly one, the holder
of the *baton*, runs program code, and the supervisor decides who is next.
This directory holds TLA+ modules of the parts that make that true, the TLC
configurations that check them, and TLAPS proofs about them. Source paths are
relative to the repository, `src/` being its root as seen from here
(`src/supervisor/src/shared.rs` is the supervisor's `shared.rs`).

## 1. Inventory

### 1.1 Components

| Component | Where | State it keeps | Operations |
| --- | --- | --- | --- |
| Shared scheduler state | `supervisor/src/shared.rs` | thread table, process table, current holder, virtual clock, stop date, random streams, network | add a process or thread, `hand_off` (`choose`, `pick`), `wake_all`, `wake_io`, `crash`, `register_restart`, `process_died`, `stop_run`, timers, `take_kills`, `settle_deaths` |
| Scheduler lock | `shared.rs` (`Shared`, `Guard`) | the lock word, slots for deferred wakes | lock, unlock, take over from a dead holder, reclaim after `execve`, defer a wake |
| Park words | `shared.rs`, `sched.rs` | one `u32` per thread | bump, wake, sleep, look for the launcher |
| Guests' scheduler | `supervisor/src/sched.rs` | per thread identity, per process teardown port, wakes seen | attach (`join_run`), quantum expiry, block, take up the baton, teardown, poll when idle, note outside wakes |
| Process calls | `supervisor/src/process.rs` | none of its own | `posix_spawn`, `fork`, `execve`, `waitpid`, `kill` |
| Launcher | `src/src/coord.rs`, `src/src/launch.rs` | tracked processes, whether the run started and is stopping | spawn, start the run, exit events, respawn, end of the run, spawn and report frames |
| Synchronisation interposers | `supervisor/src/interpose.rs`, `sched.rs` | the guests' own words, keys and tickets of waiters, outside wakes seen | mutex, condition variable, rwlock, unfair lock and ulock, dispatch semaphore, join, create |
| Virtual time | `supervisor/src/determinism.rs` | clock, interval timers | clock reads, sleeps, `setitimer` |
| Signals | `supervisor/src/signals.rs`, `shared.rs` | pending signals, the guest's `SIGCHLD` handler | post, raise at take-up |
| Virtual network | `supervisor/src/netstate.rs`, `net.rs` | sockets, receive rings, flights | `bind` to `close`, delivery with latency, death of a process |
| Kernel I/O readiness | `supervisor/src/io.rs`, `poll.rs`, `kq.rs`, `files.rs` | kqueue registrations | try, park, look again |
| Allocator, placement | `supervisor/src/alloc.rs`, `vmmap.rs` | slabs, pools and overflow lists by size class, the supervisor's own heap, the reserved region and its free stretches | `malloc` family, `mmap`, `mach_vm_*`, `shmat`, `munmap` |
| Names, host directories | `names.rs`, `hostfs.rs`, `src/src/hostdir.rs` | none that changes | path and name rewriting |
| Rewriter | `src/src/rewrite.rs`, `stub.rs`, `decode.rs` and the binary-format files | the new text, areas for stubs, patches, sites | decode, choose sites, lay stubs out, patch |
| Bisection, suspects | `src/src/bisect.rs`, `suspects.rs`, `replay.rs` | the interval, probes made; the sites left | run again, halve, `ddmin` |
| Run file, CLI | `src/src/manifest.rs`, `main.rs` | none that changes | parse, print |

### 1.2 How they interact

Guests and launcher share one mapped file. Every change of it is made in a
critical section of the scheduler lock, so what can interleave are critical
sections, not assignments. The holder of the baton calls `hand_off`, which
records its new state, moves the virtual clock and runs `pick` until some
thread is chosen; after the lock is dropped it wakes the new holder through
its park word and parks on its own. The launcher does the same at the start of
the run (`Coordinator::start`) and when a holder is dead (`process_died`). A
process that spawns another registers it, asks the launcher over a socket to
start it and waits until it has attached. Kills that the schedule decided
(injected crashes, `kill(SIGKILL)`) are made known in the tables at once and
sent as real signals by whoever handed off.

A call that would block is tried without blocking, and if it fails its thread
is recorded as blocked on a key and hands the baton on; whoever makes it
possible wakes all that block on the key, and they try again. Threads that the
scheduler does not run (GCD workers, threads that are starting up) make the
same calls at any moment of real time. The hooks that count a thread's quantum
are put in by the rewriter, and the memory a program gets is placed by the
supervisor, so that neither depends on anything but the seed. Bisection and
suspects run the whole system again and only look at how a run ends.

### 1.3 What is hard

* The death of a process is known in two places: in the tables at the virtual
  time of a crash, and to the launcher when the kernel reports it. Both restart
  the entry, wake the parent and retire threads, and each has to happen once.
* A process may die with the baton, without it, before it attaches or before it
  was spawned; somebody has to pass the baton on exactly then.
* `pick` decides on five kinds of events (stop, crashes, shutdowns and the ends
  of their grace periods, deadlines, timers) and jumps the clock to the next.
* Things happen off the baton: teardown of a thread, a SIGKILL that takes its
  time, threads the scheduler does not run, the launcher itself.
* The lock and the park words live in memory shared with processes that may be
  killed between any two instructions, or replaced by `execve`.
* A decision to block and the hand-off are two critical sections; threads
  outside the schedule act between them, and real time passes.
* The heap's lists, marks and counts say the same thing three times, and are
  changed by calls in any order; mappings leave and reuse stretches in which the
  kernel must place nothing.
* A rewritten instruction runs in a stub that may be out of reach of a branch,
  uses registers the program uses, and must be counted once whatever the
  hardware does.

`PROJECT.json` lists these as hazards, each at its line with the properties
that would catch it.

### 1.4 What makes each component correct

* Scheduler: one holder; nobody dead is scheduled; nobody's baton is lost; one
  life per entry; events neither late nor skipped; deaths and teardowns are
  over before program code runs; a stop is final; every hand-off ends.
* Lock: mutual exclusion through takeovers, no ghost owner, no starvation.
* Park words: only the thread chosen last runs; no hand-off is missed although
  the word wraps; guests do not outlive their launcher.
* Network: bytes arrive once and in order and a stream ends once; datagrams do
  not overtake; what is in flight is accounted for; a record is freed when the
  last reference to it is gone and not before; whoever waits looks again after every change, and edge-triggered events are not lost.
* Waits: nobody sleeps through what he waits for, also when an outside thread
  brings it; a condition's signal ends one wait, a posted one runs one handler;
  every program comes to its end.
* Memory: nothing is handed out twice, nothing is lost, room that is there is
  found.
* Rewriter: the rewritten program does what the original does, and its hooks
  count what the program does.
* Searches: what is reported is what was measured, and the search ends.

## 2. Modules

| Module | Models | Proofs |
| --- | --- | --- |
| `Scheduler` | shared state, guests' side of a hand-off, process calls, launcher loop | `SchedulerProofs`, `BatonProofs` |
| `MCScheduler` | fault plans, timers and waits for TLC | |
| `Park` | park words, wakes, death of threads and launcher | `ParkProofs` |
| `Baton` | what `Park` promises: at most one runs, the one given to last | |
| `SchedLock` | the scheduler lock with every atomic access a step | `SchedLockProofs` |
| `Mutex` | what `SchedLock` promises | |
| `MCSchedLock` | two processes, three threads | |
| `Net` | sockets, connections, streams, datagrams, references, waits, arrival with latency | `NetProofs`, its invariant in `NetInvariant` |
| `MCNet` | groups of processes, each with its part to play | |
| `Waits` | the calls that wait: locks, condition variables, words, semaphores, pipes, polls, kqueues, file locks, joins, sleeps, signals and deaths | `WaitsProofs` |
| `MCWaits` | fifteen small programs | |
| `Memory` | the guest's heap, the supervisor's, the region for mappings | `MemoryProofs` |
| `MCMemory` | small heaps and regions | |
| `Rewriter` | choice of sites, layout of stubs, and the rewritten program next to the original | |
| `MCRewriter` | texts of a few words | |
| `Search` | `derp bisect` and `derp suspects` | `SearchProofs` |
| `MCSearch` | the reference run's times | |

`Scheduler` takes the lock for granted (a critical section is one step), which
`SchedLock` justifies, and takes "the thread that was chosen takes up the
baton" as one step, which `Park` justifies.

### 2.1 Scheduler

Variables: `threads` and `procs` are the two tables with the fields the
properties tell apart, `run` the other fields of `State`. `pick` is the
hand-off under way: who called it (a guest, the start of the run, the launcher)
and whether the clock still has to move. `pc` says where each thread really is
(booting, parked, in program code, or at a place in the supervisor where the
lock is free), `real` what has become of each real process, `launcher` where the
event loop is.

Steps: one per critical section. `Tick`, `InjectCrash`, `InjectShutdown`,
`Jump`, `Choose`, `IdleGuest`, `IdleLauncher` are the rounds of `pick`, and
while it is under way nothing that needs the lock can move. `Yield`, `Block`,
`ExitThread`, `BlockOnChildren` and `Poll` start a hand-off by a guest. `TakeUp`
and `DieStopped` are the other end of it. `Aim`, `Kill`, `Signal`, `SpawnChild`,
`Waitpid`, `CreateThread`, `ReadClock`, `SetTimer`, `Wake` are what the program
calls. `my_kill` has two critical sections: `Aim` looks whether the target is
alive (`process.rs:649`), `Kill` or `Signal` strikes (`process.rs:685`, `:695`),
and the target may die, be buried or come back in between. `Leave`,
`OutsideWake`, `Slain`, `Attach`, `FailToAttach` happen off the baton. `Start`,
`Started`, `NoticeExit`, `EndRun`, `Bury`, `Respawn`, `Finish` are the launcher's.

Abstractions:

* Virtual times are kept as the time left until them, so the clock is not a
  variable and runs are not bounded in length. 0 is due, `NoTime` is the code's
  0, never.
* Which runnable thread is next is any: pauses, PCT priorities, quantum lengths
  and the random streams only select among what the model allows.
* `Plan` is the fault settings of the run file: possible times of crashes and
  shutdowns, how many, the grace period, the restart policy and delays. TLC
  chooses among the times where the code draws them.
* Signals are per process, not per thread, without masks; taking one up may
  kill the process (default action) or not (a handler); masks, handlers and
  `SIGCHLD` are in `Waits`. `fork`, `execve`, `WNOHANG` and `waitpid` for one pid are not here.
* `TakeUp` is one step: the waits in it (for the teardown of a thread of the
  process, for real deaths) are its guard. The bounded waits for a death are
  taken to outlast a SIGKILL that was sent, and to be given up for one that was
  not.
* Giving up after real time (30 s) is `PollGivesUp`, at any moment. The 10 s of
  the first park are left out: the code gives a slow process up for dead.
* Threads the scheduler does not run (GCD workers) may wake anybody in their
  process at any moment (`OutsideWake`); the call `"outside"` enables them.
* Network traffic that becomes due is not an event of `pick` here yet; `Net` has
  its own clock.
* Errors of real spawns by the launcher, the wall limit, signals to the
  launcher and its report and spawn frames are left out.

### 2.2 Park

`HandOff` is the critical section in which the giver reads its own word and
bumps the new holder's; `Unpark` is the wake after it; `Look`, `FallAsleep`,
`TimeOut`, `WakeUp` are the loop of `park`, in which the kernel compares the
word again before the thread sleeps. Threads and launcher may die anywhere.
The word wraps at `Width`. The abstraction maps `current` to the baton's
holder and whoever is past the loop to `running`.

### 2.3 SchedLock

Every atomic access of the word and of a wake slot is a step. A waiter that
has spun long reads the word, looks up whether the process it names is alive
and exchanges the word only if it still names that thread. `Kill` takes a whole
process, `Exec` all threads but the caller, whose new image resets the word if
it names its own process. A signal handler on the thread the word names leaves
its wake in a slot, which `Guard::drop` scans before it stores 0.

### 2.4 Net

`net` is the struct `Net` and the operators on it are its methods, each taking
the struct and returning the new one. The actions are the calls a guest makes
(`net.rs`), one critical section each, since only the baton's holder runs and a
call that is not ready parks and is made again. `wait` is the call a process has
under way, and `WakeIo` follows every success as in `blocking`. `ClockMoves` is
`State::clock_moved`; `Jump` is what `pick` does when nobody can run.

Abstractions:

* Bytes carry their number modulo `Modulus`, so that loss, repetition and
  reordering show; datagrams carry their source name. All datagrams have one
  length. The names of the two ends of a connection are only reported to guests
  and left out.
* Due times are kept as the time left. Both event counters of a socket are kept
  as "has moved since an edge-triggered registration last reported it", for one
  registration.
* Each process has one thread. `blocking` keeps the index of its socket while it
  is parked; what another thread of the process could do to it meanwhile is
  not covered.
* Descriptors are counts per process and socket. `Exec` takes one socket's
  away (close-on-exec); the new image counts the others again.
* A send of many bytes is several `Send`s, as it is several rounds of `blocking`.
* `peek`, socket options, `getsockname` and the limit on reference records are
  left out.

What the model shows about the code beyond its properties: three changes wake
nobody, although `shared.rs:1119` says that `wake_io` follows each act.

* `execve` (`net.rs:954`) and a connection to the outside (`net.rs:270`) release
  sockets and so hand their peers a FIN. A peer parked in `recv` sleeps until
  some other call wakes the I/O waiters.
* What is sent within a host and does not fit is counted as an event before the
  ring is found full (`netstate.rs:556`); the call then waits, and `blocking`
  (`net.rs:88-105`) wakes only after a success. A receiver that waits with
  EV_CLEAR (`kq.rs:336`) and has not read what fills its ring would be reported
  again, and sleeps. So for UNIX-domain datagrams and for streams
  (`WaitsForRoom`).

`WaitersLookAgain` excepts the three by `hist.silent`, from such a change until
somebody next calls `wake_io`; for all else it covers every call that waits. In
one case it asks less than it could: a wait in `sendto` does not keep its
destination in the model, so it counts as one that could go on when no bound
datagram socket is full, not as soon as its own receiver is not. With one
receiver, as in run `net`, that is the same. And "traffic
within a host is immediate" (`netstate.rs:178`) holds for streams; a local
datagram waits behind a remote one that is in flight to the same socket, which
`NothingOvertakes` demands.

### 2.5 Waits

`th` is what a wait needs of the thread table, `queue` the tickets of the waiters
of each condition variable, `current` the baton, `at` where each thread is in
its call: trying it, about to block (`Block` is the critical section of
`yield_baton_as`), at the places a wait comes back to, or about to wake (`Wake`
is `wake_all` and `wake_io`). `hold` and `count` are what libpthread,
libdispatch and the kernel keep: who has a lock or the writing end of a pipe;
bytes, units or the value of a word. One action per interposer, and per stage
of it that another thread can come in between: `LookForSignal` and `WaitEnds`
for a condition variable, `FutexWoke` and `FutexForReal` for a `ulock`,
`UnfairWait`, `WaitWoke`, and so on.

`sig` is what is pending for processes and threads, the timers, and what
kqueues have reported. A hand-off may let timers ring (`Ring`, `WokenByAlarm`)
and marks the next holder as `due` if it has signals to take; `TakeUp` is then
its first step: SIGCHLD, once for all children that died, then what is pending
and not blocked. `Kill`, `Raise`, `ThreadKill`, `Slay` and `Alarm` are `kill` of
another process, of its own, `pthread_kill`, SIGKILL and `setitimer`;
`WithoutProcess` and `Bereaved` are what a death means to the others.

* A program is a sequence of calls; the choice of the next thread is any
  runnable one, and a deadline may pass in any hand-off.
* A word has the values "changed" and "not yet": a `futex` waits until somebody
  has stored.
* `Scenario` says what a program is: each actor's is a sequence of known calls,
  and those on a condition variable name an object.
* Threads outside the schedule count semaphores up, change words, hold locks,
  write to pipes of their own process, and make natively what they wait for.
* Every signal has a handler, which at most writes a byte to a pipe of its
  process and then wakes (`HandlerRuns`); signals without one, which end a
  process, are in `Scheduler`. A thread blocks the same signals all the time.
  One `usr`, `alrm` and `urg` stand for those other processes, timers and
  threads send, so that one pending for a process and for a thread of it, which
  the code delivers once, does not occur.
* Registrations of a kqueue do not change and its buffer holds all events.
* Left to the hazards, since `NobodySleepsThrough` fails with them: an outside
  thread that signals a condition variable, that reads or closes a pipe, or
  that writes to a pipe another process reads; `semop` that waits for zero;
  conversions of a file lock; a timer whose thread blocks the signal; a watch
  for a signal that the process sends itself, or for SIGCHLD.

### 2.6 Memory

Heap addresses are counted in units of 16 bytes, those of mappings in pages.
`heap` is `Heap` of the guest with the bitmap of slabs, pools, overflow lists,
counts and the marks in free blocks; `own` is the supervisor's; `region` and
`page` are `Region` and what the kernel has at its pages. Every draw from the
seed is any outcome. `Malloc`, `Memalign`, `Free`, `Realloc`, `OutsideFree` are
the guest's calls, `OwnAlloc` and `OwnFree` the supervisor's, `Mmap`,
`MachVmMap`, `Shmat`, `Unmap` and `GiveBack` (between which the stretch is a hole
in the reservation) those about mappings, `StackFreed` and `KernelPlaces` what
libpthread and the kernel do on their own. The kernel may place outside the
region, or in a hole only when nobody is in `give_back` (see hazards).

### 2.7 Rewriter

`RewriteWord` goes through the text in order as `rewrite` does: it classifies a
word, decides whether it is a site, and emits a stub into the first area that
has room and is in reach (`PatchSite`), an island where the branch back is not,
or leaves the word alone. Then `Execute` runs the rewritten program, one word
at a time, with its registers, stack and hook counter, and for every word of
the original it completes runs that one too. Instructions are what `decode`
says of them; sequences that are always run as one (forming an address) are one
word. Reach is 24 words instead of 32 M, so that sites, callees and the segment
fall on both sides of it. Whether a condition holds, and how often a
store-exclusive fails, is any.

### 2.8 Search

`tool` is how far the tool is. `MeasureBase`, `ProbeLast`, `Halve`, `Remeasure`
are `bisect`; a probe comes out decided or open, any way. `Trace`, `Check`,
`Ddmin` are `suspects`: first about loads and stores, then about branches and
calls. What a run with some sites allowed was is remembered in `runs`, because
the same run is the same whenever it is made.

## 3. Runs

| Run | Instance | Distinct states | Shows |
| --- | --- | --- | --- |
| `lives` | 2 entries (one a daemon), 4 slots for processes and threads, crashes at 2 moments, a shutdown with grace, restarts with delays, waits with and without deadline, wakes, kills, exits, threads that leave | 1,561,418 | `TypeOK` `OneHolder` `ScheduleIsAlive` `OneLife` `DeathsSettled` `ServedInTime` |
| `programs` | 2 entries, tables of 3, one of three kinds of programs: threads created, joined and left with outside wakes; children spawned, killed and waited for; deaths before attaching with restarts, kills, signals, timers and clock reads | 928,333 | `BatonNotLost` `TeardownOver` `WaitersSeeDeaths` `ServedInTime` |
| `ending` | the fault plan of `lives` with an early stop and a daemon, fair | 12,912 | `StopIsFinal` `PickTerminates` `BatonTakenUp` `CrashedIsReaped` `StopEndsRun` |
| `park` | 3 threads, words of 2 values, fair | 140,896 | `OneRuns` `AtMostOneAhead` `ImplementsBaton` `GuestsFollowLauncher` |
| `lock` | 2 processes, 3 threads, 2 slots, 3 wakes, 2 `execve`s, fair | 64,910 | `Exclusion` `NoGhostOwner` `ImplementsMutex` `SpinnerGetsIn` |
| `net` | 9 groups of 1 to 3 processes on 2 hosts, 3 sockets, rings of 5, latency 2 | 151,730 | `HeldExactly` `StreamIntact` `FlightAccounted` `WaitersLookAgain` `EdgesNotLost` `NothingOvertakes` |
| `waits` | 15 programs of up to 3 threads in 1 or 2 processes and an outside thread, fair | 87,426 | `NobodySleepsThrough` `SignalsAccounted` `SignalsTaken` `EverybodyFinishes` |
| `memory` | heap of 8 slabs with 3 blocks held; own heap of 12 units; region of 5 pages | 238,404 | `NothingOverlaps` `HeapAccounted` `RoomIsFound` |
| `rewriter` | all texts of 3 words over 10 instructions with a callee, segment at 3 distances or a room, and some longer ones | 571,582 | `SameRun` `HooksCounted` |
| `search` | 20 reference times, resolutions 1 and 2, up to 3 futures; up to 5 candidate sites | 14,000 | `AnswerHolds` `SearchEnds` |
| `picklivelock`, `lostchild` | see findings | | each violates one stated property |

Bounds. Two entries are enough for a holder, a victim and the launcher to
interleave, and a restart needs one more slot each; with four slots the tables
also fill up, so a refused restart and the abort of a spawn that does not fit
occur. Times are counted in hand-off costs (`SwitchNs` is 1): crash times 0 and
2, a grace of 2, delays 0 and 2 and a deadline of 3 put events before, at and
after one another. The park word wraps at 2, the least width for which the
proof holds; 2 slots and 3 wakes overflow the slots once.

`net` starts one of nine groups of processes: a client that sends to a server
and leaves in every way, a server that sends to a client that waits for edges or
shuts down, two senders of datagrams of which one is local to the receiver,
UNIX-domain datagrams with timeouts and a death, a server that forks and replaces
its image, ports chosen by the system, and a local sender, or its receiver, that
waits for edges.
A connection takes two records besides the listener's, so a table of three fills
up (`Connect` fails for want of a slot) and slots are reused. A ring of 5 with
headers of 1 holds two records in flight and a FIN, so that both the window and
the flight ring close; a latency of 2 with a clock that moves by 1 lets two
records be due at different times. Bytes are numbered modulo 3.

`waits` has one program per family of calls: a monitor with a timed and an
untimed waiter, a broadcast without the mutex, a mutex crossed with a
read-write lock, semaphores and words that an outside thread changes, an unfair
lock between a parked, a starting and an outside thread, pipes between two
processes with a timed poll, a pipe an outside thread writes to, file locks
with a System V semaphore, record locks with a signal, a process that is
signalled while one of its threads blocks the signal and another polls the pipe
its handler writes to, a timer that may wake either of two threads, a parent
that waits for the end of a child in a kqueue, in `waitpid` and for the byte of
its SIGCHLD handler, one that kills a child holding a file lock, and a kqueue
with a pipe, a user event and a signal. A pipe holds one byte, so a writer
blocks at its second and a handler drops its second.

`memory`: slabs of 4 units hold four, two or one blocks of the three pooled
classes, larger blocks take two slabs; with pools of 2 what is freed fills a pool
and goes on to the overflow list (the smallest class is never asked for, so no
refill does), and with 8 slabs the window (2) fills and the rest does. Five pages
let a stretch be split twice and given back in every order. At most one block
is leaked by an outside thread.

`rewriter`: three words before a callee are the least in which a site branches
back, forwards and into another site. Segments at 12, 14, 15 and 16 put the
first stubs in reach and the last ones, or their branches back, out of it;
rooms of 14 and 20 words fill up.

`search`: a time of 20 gives five halvings; three futures give thresholds that
need all, or two, of a probe; five sites let `ddmin` cut into unequal parts.

`Programs` says which sets of calls the runs of `Scheduler` choose from. Three
combinations are kept apart because what they show would hide everything else:
`bootfail` with crashes in the runs with `CrashedIsReaped` (section 4), `spawn`
with `bootfail` or `pthread_exit` where `WaitersSeeDeaths` is checked (finding 2),
and `kill` with `pthread_exit` where `BatonNotLost` is (section 4). Run `lives`
has the last, for what must hold all the same.

Deadlock checking is on in every run but `lives`, in which the run of the program
may really stop, with the baton lost (section 4). A run that is over stutters in
an explicit step (`Over`, `AllDone`).

### 3.1 Fairness

`FairSpec` of `Scheduler`: a hand-off under way goes on (it is a loop under the
lock); the holder does what the supervisor has it do; a program thread comes to
the end of its quantum (it is counted in its own hooks) but nothing says it
makes any other call; teardowns finish and signalled processes die. The
launcher and an attaching process need strong fairness because they compete for
the spin lock with holders that take and release it for ever; `lock` checks
that a spinning thread gets in under the same kind of assumption. Nothing is
assumed about outside threads or about processes dying by themselves.
`FairSpec` of `Park` gives every thread its own steps; `SchedLock` assumes
critical sections end and a spinning thread's exchange is retried.

`FairSpec` of `Waits`: a thread that is chosen again and again gets on, since a
quantum is counted in hooks; a thread that is runnable again and again is chosen
again and again, which the random scheduler does with probability 1 and the
PCT scheduler by its bound on starvation (`pct_starve_ns`,
`shared.rs:1372-1408`); both are strong, because a thread is not always running
nor always runnable. Real threads (starting up, stopping in `park`, outside the
schedule) run, and an idle process polls. `FairSpec` of `Search` is weak fairness
of the one sequential program.

## 4. Findings

1. **`picklivelock`** (`shared.rs:1211`). `fire_alarms` and `next_alarm` skip only
   buried processes. A crashed one with a repeating timer keeps `pick` jumping
   from alarm to alarm under the lock if nobody else has a deadline; the
   launcher, which would bury it, spins on the lock.
2. **`lostchild`** (`process.rs:450`). `waitpid` looks and blocks in two critical
   sections. A child that dies without the baton is missed if the launcher
   makes its death known between the two.

Observations made while modelling that are not kept as runs; those in the table
of hazards say which property fails, or which scenario is left out for it.

* `sched.rs:874`: the last process that is not a daemon is crashed during a
  daemon's hand-off; the daemon, blocked, reports a deadlock instead of the
  launcher ending the run (`src/README.md:267-269`).
* `coord.rs:238`: `Coordinator::start` does not send the SIGKILLs its own
  hand-off owes (`shared.rs:854-855`). If every entry of the run file fails to
  attach and is restarted after a delay, the first `pick` jumps the clock to
  the restart, may pass the date of a crash on the way, and program code runs
  beside the victim. `DeathsSettled` fails then; the theorem about it assumes
  that processes attach.
* `shared.rs:1489`: `process_died` hands off only if the dead process held the
  baton. A run whose threads have all left by `pthread_exit` has been handed on
  to nobody; if the process then dies and its entry is restarted (policy
  "always", or a life that was shut down), the new life is registered, made
  ready and spawned, and nobody gives it the baton. `BatonNotLost` fails then,
  after 19 steps; the theorem about it assumes otherwise.
* `process.rs:649`, `process.rs:695`: `my_kill` looks and strikes in two critical
  sections. A target whose last thread has left by `pthread_exit` may be buried
  between the two, without a failure. `crash` does not look for that
  (`shared.rs:856`) and registers a life for an entry with the policy
  "on-failure", after the launcher is through with the process: nobody spawns
  the life, and the baton given to it is lost, contrary to the comment that the
  launcher only hears of the death later (`process.rs:691`). `BatonNotLost` fails
  then, after 23 steps of run `lives`; the theorem about it assumes otherwise.
* `netstate.rs:556`, `net.rs:88-105`: a payload that does not fit is an event and
  wakes nobody (section 2.4).
* `interpose.rs:465`: a condition variable signalled by a thread outside the
  schedule may find a waiter that has looked for its signal and not blocked
  yet; `cond_wake` notes no outside wake, and the waiter sleeps.
* `io.rs:219`, `io.rs:442`: reads and closes by outside threads do not note an
  outside wake; `io.rs:171`: a `semop` that takes a semaphore to zero wakes
  nobody; `files.rs:18`, `files.rs:41`: a lock converted from exclusive to shared
  wakes nobody, although `files.rs:15-17` says that each release does.
* `shared.rs:1225`: a timer wakes one blocked thread, whether or not it blocks
  SIGALRM; one that does goes back to its wait, and the signal waits for the
  next turn of another.
* `shared.rs:881`, `shared.rs:1499`: a child's death wakes those who wait for I/O
  or in `waitpid`; the SIGCHLD handler of a parent whose threads all wait for
  something else runs when one of them next takes the baton up, and does not
  count as one that ends a sleep or a poll (`sched.rs:1036` is not reached).
* `process.rs:632`: `pthread_kill` does not wake its target, so it ends no wait,
  as it would natively; `process.rs:666`: nor does a process that signals itself
  wake a thread that watches for the signal in a kqueue, and a death moves no
  count for a watch on SIGCHLD, which `kq.rs:68` keeps from the kernel.
* `signals.rs:93`: a SIGCHLD of the kernel's that picks the delivering thread at
  the wrong moment is taken for ours.
* `vmmap.rs:136`: `give_back` ignores that the kernel may have filled the hole.
* `rewrite.rs:674`: a retry by `tbz` after a store-exclusive is hooked.
* When the holder dies and nothing is runnable, `Coordinator::process_died`
  reports a deadlock at once (`coord.rs:263`), without the 30 s for outside
  threads that `src/README.md:454` describes.
* A wake that a handler leaves in a slot `Guard::drop` has already scanned
  (`shared.rs:717`) is made by the next holder, not by this one as the comment
  above it says.

## 5. Proofs

`tlapm` checks eight modules. All theorems hold for any number of threads,
processes and entries, any fault plan and any set of calls, and for heaps and
regions of any size, for any set of waiting programs, and for searches over any
outcomes, from the assumptions of each module (`SizesAssumption`,
`InputsAssumption`, `ParkAssumption`, `LockAssumption`, `HeapAssumption`,
`ClassesAssumption`, `SearchAssumption`, `ActorsAssumption`,
`ScenariosAssumption`), which TLC evaluates in the runs. Five theorems have a
hypothesis of their own, named with them below. All safety properties of
`Scheduler`, `Park`, `SchedLock`, `Memory` and `Search` that a run checks are
theorems, two of the three of `Waits`, and four of the six of `Net`.

* **`SchedulerProofs`**: `TypeCorrect` (`TypeOK`), `OneBaton` (`OneHolder`),
  `RunningIsCurrent` (`OneRunning`), `DeadStayDead` (`ScheduleIsAlive`). They rest
  on `Invariance`: `TypeOK /\ Safe /\ Aimed` (`IInv`) is inductive. `OneHolder` alone is
  not: that a parked thread may take the baton up if it is current and running
  says nothing unless no thread of another process is inside (`HandingOver`:
  while a hand-off is under way nobody is), unless a polling thread is the
  holder (`PollersIdle`), the launcher gives the baton out only when nobody has
  it (`Launching`), slots that are not used yet have no thread (`Placed`,
  `Tenants`) and only crashed processes are signalled
  (`OnlyCrashedSignalled`); and whoever is between the two sections of `my_kill`
  aims at a life other than its own that nobody crashed (`Aimed`), since only
  the baton's holder crashes anybody then (`WhileAiming`). One lemma per action shows that it preserves `Safe`;
  `RegisterRestartLemma`, `Felled` and the lemmas about `Ready`, `Retire` and the
  clock say what the shared helpers change. The other invariants of this module
  and the next are inductive relative to `IInv`. Three of them say what a life is:
  - `StopIsFinalHolds` (`StopIsFinal`), from `StopHolds`: once the stop has come
    everybody alive was marked, which is what `take_up_baton` looks at, and
    nobody is inside. The mark has to outlive every later change of the table,
    and no new life may come without it (`NoSuccession`).
  - `TeardownIsOver` (`TeardownOver`), from `TeardownHolds`: the port of a process
    names the thread in its teardown from the moment that thread has exited,
    also while its last hand-off is still under way or it polls
    (`Departing`); without that part a second thread could be chosen first.
  - `EntryHasOneLife` (`OneLife`), from `OneLifeHolds`. The property speaks of two
    lives of an entry; the invariant orders all of them: a life with a
    successor is over (`Successors`), each has its successor no later than the
    next and is buried before that one is spawned (`Lineage`), and the launcher
    spawns the next life only of one it saw dead (`HeardOf`). This is where the
    two reports of a death, by the tables and by the kernel, meet.
* **`BatonProofs`**: what a death means to the others, and how a hand-off ends.
  - `DeathsAreSettled` (`DeathsSettled`), if every program attaches (`AllAttach`).
    A process that was crashed and runs on is waited for, SIGKILL is on its way
    or will be when the hand-off is over, and who is inside waits for it
    (`DoomedHolds`). The hand-off of `Coordinator::start` sends no SIGKILL, so the
    proof must show that it finds nothing due (`OpeningHolds`); that is what the
    hypothesis is for (observation on `coord.rs:238`). Run `lives`, which
    checks the property, meets it.
  - `WaitersAreTold` (`WaitersSeeDeaths`), if programs that spawn attach and their
    threads do not leave by `pthread_exit` (`SpawnersJoin`). Then whoever dies
    unheard by the schedule had the baton (`SilentHolds`), so that a thread
    that found no dead child finds none when it blocks (`WaitHolds`). Finding
    `lostchild` is what happens without it; the programs of run `programs` meet
    it.
  - `EventsAreServed` (`ServedInTime`): what was due has been served when `pick`
    chooses, gives up or jumps, because each round takes the stop first
    (`StopTaken`) and can end only when no fault is due, and because the clock
    jumps to the first of the events to come and not past it.
  - `BatonIsNotLost` (`BatonNotLost`), from `BatonHolds` and `ReturnsHold`. The
    property speaks of the launcher's idle moments; the invariant says who has
    the baton wherever the launcher is (`HeldHolds`), that it waits exactly for
    its own hand-offs (`LauncherHands`), that a life not yet spawned is the next
    one of a life it is not through with (`NextLives`, `NotYetSpawned`), that a
    death becomes known once (`DeathsKnown`), that a hand-off that finds nobody
    leaves somebody to poll (`SleepersHold`), and that a life keeps a thread until
    it is over (`ThreadsHold`). Where threads leave by `pthread_exit` a life may
    be empty before it is over; then nobody may come back except after a failure
    (`OnlyFailuresReturn`), and a failure left a thread or the baton behind
    (`ReturnsHold`). A kill may strike its target after that
    one was buried; it then must not register a life (`TargetsSpent`). Whoever was
    buried for a failure or by a stop has had its restart, and whoever ended well
    had the baton, as long as no thread leaves by `pthread_exit`
    (`SuccessHolds`), so the killer had not. The hypothesis excludes the lost
    batons of `shared.rs:1489` and of `process.rs:695` and nothing else that we
    know of; the plans and programs of run `programs` meet it, and it says nothing of
    programs without `pthread_exit`.
* **`ParkProofs`**: `MutualExclusion` (`OneRuns`), `NoHandOffMissed`
  (`AtMostOneAhead`), `Refinement` (the safety part of `Baton`). The invariant
  says that each word is what its thread saw, or its successor, and then only
  for `current`.
* **`SchedLockProofs`**: `MutualExclusion` (`Exclusion`), `NobodyWaitsForAGhost`
  (`NoGhostOwner`), `Refinement` (`ImplementsMutex`). The invariant is that the
  word names whoever holds it or a dead thread, and that a thread about to take
  over saw a dead one.

* **`MemoryProofs`**: first the arithmetic of slabs (`SlotLemma`, `SlotsApart`,
  `SlotsCount`: slots of a slab lie in it, do not overlap and are as many as
  `PerSlab` says) and of the header (`ClassForLemma`, `PayloadLemma`).
  - `RoomIsAlwaysFound` (`RoomIsFound`), from what `FirstFit` and `FitAround`
    find: the search before the drawn place has to reach up to it.
  - `HeapIsAccounted` (`HeapAccounted`), from `HeapHolds`, an invariant of a heap
    and the blocks held of it. The property speaks of slabs in which something
    is free; the invariant says for every slab in use that it is of one class
    and all its slots are known, or of one big block (`SlabsApart`), that a slot
    is held or free once and its mark says where (`SlotsOnce`), and that the
    counts are right, without which a slab could go back with a block in it
    (`CountsRight`). Each helper (refill, draw, release, free) is one lemma, so
    that `realloc`, which allocates and frees in one call, needs no more.
  - `HeapsAreApart`: blocks do not overlap, in the guest's heap because slots and
    slabs do not, in the supervisor's because every block ever cut off its end
    is in use, on the list of its class or among the big ones, once
    (`OwnHolds`). Nothing the kernel does matters to it.
  - `NothingIsHandedOutTwice` (`NothingOverlaps`) adds the region (`RegionHolds`):
    a page of a stretch that waits to be handed out again waits once and is
    reserved, and while an unmapping is under way its stretch is a hole. Its
    hypothesis is that the kernel puts nothing into that hole (`NoRace`; no
    program with `"race"`), as in run `memory`; with it the property fails, which
    is the observation on `vmmap.rs:136`.

* **`WaitsProofs`**: what becomes of signals.
  - `SignalsEndOneWait` (`SignalsAccounted`): the signals a condition variable
    was given are those that ended a wait and those whose thread is on its way
    out. The invariant says that who is queued on a condition variable waits on
    that one, once, without a signal yet (`QueuesInv`), and that who has a signal
    is still in its wait (`AccountInv`); so a signal never goes to a thread that
    has left, and none is given twice. A broadcast gives one to each.
  - `SignalsAreServed` (`SignalsTaken`): a posted signal is taken once or still
    pending, and one that is pending and that a living thread of the process
    does not block finds such a thread runnable or due. The thread that runs has nothing pending that
    it takes, once it is past taking up the baton (`Cleared`); for the others
    it is `Served` that each signal has its thread, shown for those of a process
    and those of a thread in turn.
    Hypothesis: no thread blocks SIGALRM (`TimersAreHeard`), as in all programs
    of run `waits`, because `fire_alarms` (`shared.rs:1225`) wakes one blocked
    thread without a look at its mask.

* **`SearchProofs`**: `ReportIsMeasured` (`AnswerHolds`). For `bisect` the invariant
  is that every first measurement lies on its side of the interval
  (`BisectInv`); that it gets narrower and never empty is `MiddleLemma`, that a
  probe can come out open at the base rate `ThresholdLemma`. For `suspects` it is
  that the run with what is left allowed was made and failed, and the one with
  nothing allowed did not (`DdminInv`); `PartsLemma`, `WithoutLemma` and
  `FinestLemma` say what the cuts are, and that the finest leave out one site
  each. Two sites left are the case in which no complement is run: each part
  is the other's.

* **`NetProofs`**: what the records of the network promise each other, for any
  number of sockets, processes, hosts and ports, any latency and any ring that
  holds a datagram and two headers. All of it rests on `Invariance`: `Inv` is inductive, with
  three parts.
  - How records hang together (`Hangs`): each counts its descriptors
    (`Counted`), each open one has somebody who will release it (`Kept`), the two
    ends of a connection name each other and one of them is open (`Paired`), and
    a connection waits in one queue of one listener, once, held and shut by
    nobody, and never together with its other end (`Queues`). `HeldExactlyHolds`
    (`HeldExactly`) says the outside of this. It is not inductive by itself: a
    listener that goes resets what is queued, one connection after the other,
    and each reset must find its record as it was and leave the others so,
    which is the last part (`ResetReleases`, `Released`). While a record is being
    released nobody keeps it yet; that is what the second parameter of `Hangs` is
    for.
  - What ports are given to whom (`PortsOK`).
  - What is under way (`Traffic`): `inFlight`, `flStream` and `nextDue` are right,
    both rings hold what is in them (`Blameless`, `Clocked`), and an end that may
    still send has told no end yet and finds room to tell it (`Owed`).
    `FlightAccountedHolds` (`FlightAccounted`) follows.
  - `NothingOvertakesHolds` (`NothingOvertakes`) is about each step, and looks
    at what each call does to the flight of each socket, by the same invariant.
  - `WaitersLookAgainHolds` (`WaitersLookAgain`) needs `Minds` besides: who sleeps
    holds the socket it waits for (`Sleeping`), so that no call of another process
    can release it and give its record to a new socket; and a process not forked
    yet holds nothing (`Unborn`). A step then either wakes everybody (`Woken`), or
    nobody but the caller goes to sleep and what a waiter sees of every socket in
    use is as it was (`Frozen`), and the caller sleeps only after it looked in vain
    (`Dozes`). Of the second kind are calls that fail or park, a filter that
    reports and clears its events, an `execve` that releases nothing, and time that
    passes with nothing due. A send that finds no room is one, too, unless it
    counts an event (`CrowdsMinded`).
  The parts of these invariants, and the relations between a network before and
  after a call that the lemmas are stated in, are in `NetInvariant`.

  Sums over sockets and over records, the landing of all that is due, the resets
  of a queue and the descriptors a process drops are folds. What a fold returns
  is shown through its prefixes (`PlusFold`, `LandFold`, `ResetFold`, `DropFold`):
  `Induct` takes the induction hypothesis as a set of numbers, so that no theorem
  about an operator is needed. Each method of `Net` has one lemma that says what
  it returns and one that it keeps the invariant, and a call composes them.

`RunningIsCurrent` shows `OneRunning`, which no run checks by itself: it is part
of the inductive invariant.

Only model-checked:

* `StreamIntact` and `EdgesNotLost` of `Net`. `StreamIntact` is
  about the bytes of two rings laid end to end; the lemmas of `NetProofs` about
  folds are where its proof would start, and what `Traffic` says of ends of
  streams is part of it. `EdgesNotLost` compares
  the events of each socket with what arrived or opened in each step;
* `SameRun` and `HooksCounted` of `Rewriter`, which speak of the whole run of a
  text, original and rewritten, and are checked by the model over all small texts;
* `NobodySleepsThrough` of `Waits`: it is true of the programs of the run and
  not of all programs, because not every change by a thread outside the
  schedule is told (observation on `interpose.rs:465`);
* all liveness: the prover has no rules for `ENABLED`.

`SelectSeq` of the standard modules is recursive, and so opaque to the prover;
what `ddmin` leaves is therefore put together from what precedes a part and what
follows it, as its loop over the other parts does, and a thread that leaves a
queue is taken out of it in the same way.

## 6. Plan

1. Proofs: `EdgesNotLost` and `StreamIntact` of `Net`.
2. `Net`: an abstract specification of a connection as two byte queues that it
   implements, several threads of a process in socket calls, and its due
   traffic as one more event of `pick`.
3. `fork` and `execve` as an extension of the process calls; masks that change
   and the kernel's own SIGCHLD.
4. The kqueue table: registrations changed, shared, inherited and closed.

Not modelled: what reads or writes Mach-O bytes and the bit patterns of
instructions (`macho.rs`, the encoders), argument, path and run-file parsing,
names and host directories, reports and logging, which keep no state between
steps; and the random generators, which only choose among what the models leave
open.
