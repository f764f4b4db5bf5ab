# A TLA+ verification of the dining philosophers engine and the programs around it

This directory models the repository's programs in TLA+, checks the models with
TLC and proves theorems about them with TLAPS. The repository holds two
programs:

* `src/hackthone` - a dining philosophers simulation: an engine of POSIX threads
  (`src/simulation.c`, run by `src/dining_philosophers.c`), a Flask server that
  runs the engine as a child process (`backend/server.py`) and a page that shows
  it (`frontend/app.js`);
* `src/Project/LinuxFileSystemExplorer` - a menu over file system calls.

The engine is the core: it is where threads, locks, a semaphore, a condition
variable, a barrier and timeouts meet. Around it are modelled the process that
runs it, the server that runs that process, and the explorer with the file
system calls it is made of and the reading of its input.

## Inventory

| Component | State it keeps | Operations | What makes it correct |
|---|---|---|---|
| Engine, `simulation.c` | `SimulationContext`: fork mutexes and the record of their owners, the permit semaphore and its count, each philosopher's state and meals, the pause flags and condition, the thread handles | `philosopher_thread`, `monitor_thread`, `sim_init/start/pause/resume/step/set_speed/stop/cleanup` | neighbours never eat together; no circular wait under strategy 0; permits, forks and records agree on every path, stops included; everybody eats; `sim_stop` returns and leaves nothing behind; strategy 1 reports its deadlock and ends |
| Engine process, `dining_philosophers.c` | `g_sim`, `g_running`, the listener's thread | options, the stdin listener, the signal handler, start-wait-stop | a command always reaches the run; one stop, one summary |
| Server, `server.py` | the process, `current_state`, `event_history`, subscribers, all under one lock | start, stop, reset, pause, resume, step, speed, status, events, stream; one reader thread per process | the state shown is the running process's; a subscriber misses no event while it is on the list; a stop does not wait for ever |
| Page, `app.js` | `state` (running, paused, table, log) and the buttons | stream and poll handlers, start, pause, resume, step, reset | the buttons match the server's status once things settle |
| Explorer, `LinuxFileSystemExplorer/src` | working directory, descriptors of one operation | create, read, write, seek, copy, rename, list, mkdir, rmdir, info, cd | no operation takes the last name of a file it was not asked for; descriptors are closed on every path |
| Input, `utils.c` | stdin and one buffer | `read_line`, `trim`, `prompt_line`, `parse_int` | one line is one answer, however long |

How they interact: the page calls the server over HTTP and listens to an event
stream; the server writes commands to the engine's stdin and reads its events
from stdout; in the engine the listener thread, the signal handler and `main`
call `sim_*`, which act on the philosopher and monitor threads through the
context's flags, mutexes and condition variable. The explorer is a single
thread over the kernel.

What is hard: interleavings of the engine's threads at every lock; a stop, a
pause or a step at any moment; a thread that cannot be created; the timed lock
racing the watchdog; in the server the sections between two takings of the lock
and the reader of a process that has been replaced; in the page answers and
events that overtake each other. `PROJECT.json` lists these one by one under
`hazards`, each at its line, with the properties that cover it.

## Modules

The engine and its process:

| Module | What it is |
|---|---|
| `Dining.tla` | The abstract promise: a ring of philosophers that get hungry, eat only while no neighbour eats, and leave. |
| `SimulationContext.tla` | The `SimulationContext` of `simulation.h`, `sim_init` as `Init`, the locked sections the code is made of (`LockFork`, `UnlockFork`, `Record`, `Show`, `Post`, `Count`) and the constants with their assumptions. |
| `Simulation.tla` | The engine: one action per locked section or blocking call of `philosopher_thread`, `monitor_thread`, `sim_start`, the commands and `sim_stop`; `Next`, `Spec`, `FairSpec`. |
| `SimulationProperties.tla` | The type invariant, the safety and liveness properties, the inductive invariant and the refinement of `Dining`. |
| `EngineMain.tla` | `dining_philosophers.c` composed with `Simulation`: `main`, the stdin listener, the signal handler and `sim_cleanup`, each a caller of `sim_stop`. |
| `SimulationProofs.tla` | Type correctness. |
| `SafetyProofs.tla` | The inductive invariant: mutexes, records, states, permits and joins at each program point; exclusion, no circular wait, freedom from deadlock. |
| `DiningProofs.tla` | The counts; pausing, stepping, resuming and stopping; the rounds of strategy 0, the end of a run, the refinement of `Dining`; the deadlock of strategy 1, reported before anybody yields and only when it is one. |
| `EngineProofs.tla` | The whole process: who joins whom, what is left when the primitives go, and the table seen from outside. |

The server:

| Module | What it is |
|---|---|
| `ServerManager.tla` | `SimulationProcessManager` and the routes of `server.py`: request threads, reader threads, event streams and the engines as they look from outside. |
| `ServerProofs.tla` | What the manager says of the run, who was told to stop, and streams without a gap. |

The explorer:

| Module | What it is |
|---|---|
| `FileSystem.tla` | The kernel below the explorer (external): names, inodes, descriptors, and what each call does to them. |
| `ExplorerContext.tla` | What the operations share: the locals of the running one (`frame`), the message it leaves (`told`), prompts, and calls that fail. |
| `FileOperations.tla` | `file_operations.c`, one action per system call: create, read, write, seek, copy, rename. |
| `DirectoryOperations.tla` | `directory_operations.c`, `navigation.c` and the `lstat` of `metadata.c`: list, mkdir, rmdir, cwd, chdir, info. |
| `Explorer.tla` | The menu loop of `main.c` over these, and the other processes that use the disk. |
| `Transfer.tla` | The abstract promise of a write or a copy: bytes arrive in order, once, and the transfer is done only when all have. |
| `ExplorerProperties.tla` | Two history variables and the properties; the refinement of `Transfer`. |
| `MCExplorer.tla` | The paths, texts and contents the runs use. |
| `ExplorerProofs.tla` | No operation leaves a descriptor open; type correctness; a write appends; no copy fails because of signals. |
| `NamesProofs.tla` | What a path leads to; a listing is complete and without repetition; no file loses its last name that was not asked for. |
| `LineInput.tla` | `read_line`, `trim`, `prompt_line`, `parse_int` of `utils.c` over any standard input. |
| `InputProofs.tla` | Each answer is what fits of its own line; a text is a number when it is a numeral for an int. |

### How the engine follows the code

A philosopher's `pc` names the next section of `philosopher_thread`. A step of
the model is one critical section of `state_mutex` or `pause_mutex`, one lock or
unlock of a fork, one operation on the semaphore, or the arrival at the barrier.
The unlock of a fork is a step apart from the clearing of its record, and the
post of the semaphore a step apart from the count, because the code lets other
threads in between. Unlocked reads of `stop_requested` belong to the step
before which they stand, except after a call that may have blocked, where the
flag may have changed (`got_permit`, `abandon`, the checkpoints).

* `check_pause_and_stop` is `PassPause`, `TakeStep` and `WaitPause` at any of the
  points of `PausePoints`. A philosopher in `waiting` is in
  `pthread_cond_wait`; a broadcast empties `waiting`, and the philosopher tests
  the condition again, as the `while` does. The code never signals without the
  lock, so no other wake-ups are modelled; a spurious one would only repeat the
  test.
* `responsive_sleep_ms` is `SleepChunk` and `SleepOver`: what is left to sleep is
  kept, each chunk of 50 ms ends with the pause checkpoint, a stop ends the
  sleep. Time itself is abstract: a chunk takes any time.
* `pthread_barrier_wait` is `Barrier`: the last to arrive lets all go.
* `pthread_mutex_timedlock` is `TimedLock` and `TimedLockExpires`: the second is
  possible whenever the fork is taken, as 4 s may have passed.
* `sim_stop` has a program counter for each caller in `Callers`; handles are
  joined in the order of the loop.
* `MayStop` says when the rest of the process calls `sim_stop`: when the user
  stops the run, when `sim_start` failed, when the monitor ended the run
  (`main` in `dining_philosophers.c`).

Left out of the engine: what `sim_emit_event` prints and the counters it prints
from (`total_steps`, the wait times, `successful_acquisitions`,
`waiting_events`), the return codes of `sim_init` (they are the assumptions
`NAssumption` and `MealsAssumption`), and the upper limit of ten philosophers
(nothing depends on it). `sim_cleanup` is in `EngineMain`. A `pthread_create` that fails is
taken to leave the handle 0, as `sim_init` set it: POSIX leaves it undefined, and where it
is not 0, `sim_stop` joins a thread that was never made (555), which no model can follow.
`speed_ms` is read without a lock;
the model reads it once where the code reads it twice (lines 220 and 221), which
can only change the number of chunks of one sleep.

### The engine's process

`EngineMain` starts after `sim_init` and gives each caller of `sim_stop` its own
program counter: `main` after its poll loop, the listener on STOP, the signal
handler, and `sim_cleanup`. `main` makes its steps only while no handler runs,
since a handler runs on top of `main`; the other threads go on meanwhile.

Two calls of `sim_stop` may join the same thread. `joiner` records who called
`pthread_join` first; a later call is undefined in POSIX, and in glibc comes
back at once with an error `sim_stop` does not look at (`JoinRefused`). `held`
says that the signal came while `main` was inside the section of `pause_mutex`
of its own `sim_stop`; then the handler waits for a mutex its own thread has,
and the process hangs. Nothing stops that from happening in the code, so
`ProcessExits` is about the other cases and `engine_process` does not check for
deadlock. A cancelled listener ends at `fgets` or at a join, which are the
cancellation points it meets; a join that is cancelled may be done by another.
The cancellation points inside `sim_emit_event` (it prints) are left out.

### The server

A step of `ServerManager` is one section of the manager's lock.
`stop_simulation` alone waits with the lock held (`wait(timeout=1.5)`), so `lock`
says which request is in there; the wait ends when the engine has ended or when
the time is up, so `WaitEnds` may come at any time. The reader thread reads a
line without the lock (`ReadLine`) and applies it under it (`ProcessEvent`). An
engine prints as long as its pipe has room and may end or hang whenever it
likes. `applied` and `next` number the events: they are there for
`StreamsAreComplete` only.

### The explorer

The explorer is one thread; what surprises it is the disk. `pc` names the
system call it makes next. A call that can succeed may still fail (`Fault`, up
to `MaxFaults` times), `read` and `write` may return any part of what was
asked, signals may interrupt the calls of the loops that retry (`EINTR`, as often as they
like: they are no faults), and other processes append,
create, link, unlink and remove directories between any two calls. A
failure that follows from the state of the disk (no such file, no space, not a
directory) is decided by `FileSystem` and is not bounded. `close` frees the
descriptor whatever it returns. `fgets` at the end of the input cancels the
running operation and ends the menu loop.

Names are opaque; a path is a sequence of names with `.` and `..`, from the root
or from the current directory. Symbolic links all point to one path. A byte
is "x", "y" (there at the start), "t" and "newline" (typed) or "o" (from another
process), so that `Transfer` can tell whose it is.

`LineInput` is `utils.c` by itself: the buffer with what `fgets` put in it, one
`getchar` at a time for what did not fit, and the text functions as operators.

### The slips

Each module that models code has a section of slips: mistakes a programmer could
make, each in the form of one action or operator below it (`SemTryWait`,
`StopWakeSilently`, `NeverDrops`, `OpenToReplace`, `CleanUpSourceOnly`,
`KeepTheRest`, ...). No specification uses them. Every property is known to fail
when one of them takes the place of its action: `PROJECT.json` pairs them under
`mutants`.

## Runs

Run one with `tlc -workers 2 -config <name>.cfg <module>`.

| Run | Module | Instance | Shows | States |
|---|---|---|---|---|
| `sim_prevention` | `SimulationProperties` | 3 philosophers, 2 meals, no commands | types, mutual exclusion of neighbours, no circular wait, somebody can always go on, the eaters' count, exact meals, a clear table when the monitor ends the run, everybody eats; no deadlock | 420 000 |
| `sim_control` | `SimulationProperties` | 2 philosophers, 1 meal, every command, two speeds, failing creation | records and mutexes, permits and their count on every stop path, a quiet engine after `sim_stop`, no lost wake-up, one STEP one checkpoint, the refinement of `Dining` | 332 000 |
| `sim_live` | `SimulationProperties` | 2 philosophers, PAUSE, RESUME, STEP, STOP, failing creation | `sim_stop` returns; a resumed run ends; STEPs alone end a run | 66 000 |
| `sim_unsafe` | `SimulationProperties` | 3 philosophers, strategy 1, STOP, failing creation | the deadlock is recorded before anybody lets go; none is recorded but while the circle of forks is closed, which may be before all have called `pthread_barrier_wait` | 67 000 |
| `engine_process` | `EngineMain` | 2 philosophers, PAUSE and STOP on stdin, one signal in a run without listener, failing creation | no thread is left when the primitives are destroyed, no philosopher among the forks with the listener either; the process ends | 229 000 |
| `server` | `ServerManager` | 2 requests at a time, 2 engines, 1 event stream | `is_running` is true of the current engine, no engine is forgotten without a STOP, a stream has no gap while it is subscribed, every request is answered | 305 000 |
| `explorer_files` | `MCExplorer` | 2 names, files of up to 4 bytes, one failing call, one act of another process | types, descriptors, writes and copies as `Transfer`s that end, appending, no copy that fails because of signals | 502 000 |
| `explorer_directories` | `MCExplorer` | 2 names, files, directories and links, one failing call, one act of another process | a listing is complete and without repetition, no file loses its last name but what was asked for, operations return, the end of the input ends the program | 227 000 |
| `input` | `LineInput` | any input of up to 5 characters, a buffer of 4 | one line, one answer; strict numbers, from the trimmed text and from the buffer; every line is answered | 230 000 |

Three runs show where the code does not do what the repository's
documents say; each checks one property and ends with a counterexample:

| Run | Module | The document | The code |
|---|---|---|---|
| `unsafe_stop_hangs` | `SimulationProperties` | STOP wakes and joins all threads (`viva_questions.md:67`; `README.md:195`) | nothing wakes the barrier of strategy 1; `sim_stop` waits for ever (313, 556) |
| `unsafe_never_finishes` | `SimulationProperties` | the demonstration resolves without hanging the process (`test_cases.md:61`) | DEADLOCKED is overwritten by ACQUIRING_FORKS (317) and never set again; the monitor never ends the run, even where no timed lock runs out before the verdict |
| `copy_onto_itself` | `MCExplorer` | source == destination is guarded against (`TEAM_GUIDE_A_TO_Z.md:600`, `PROJECT_DOCUMENTATION.md:183`) | names are compared, not files (548): a second name of the source is opened with `O_TRUNC`, and the empty file is reported as copied |

Further disagreements met while modelling, for which there is no run:

* paused threads hold no fork mutex (`viva_questions.md:51`, `system_design.md:126`):
  the checkpoint inside `responsive_sleep_ms` blocks with forks locked
  (`simulation.c:142`, 221, 262);
* `current_permits` is a semaphore's value (`simulation.h:83`, `viva_questions.md:30`):
  it passes through -1, as the post comes before the count (291-293);
* all threads are joined before the primitives are destroyed
  (`system_design.md:133`, `viva_questions.md:67`): with a STOP on stdin racing the
  end of the run, one of two callers of `sim_stop` passes threads the other is
  joining, and with the listener cancelled in its join they may still be printing
  their last event; `NobodyDines` is what remains true;
* a status set by `server.py` may be overwritten by events of an engine already
  stopped (159), by the second section of pause or resume after a stop (210), by
  that of reset after a start (320);
* an event stream whose queue is full is taken off the list of subscribers and not told
  (`server.py:190-194`): its generator goes on sending heartbeats (360-366), and the page
  sees a connection that is alive and silent;
* the copied size is that of the `fstat` before the loop (`file_operations.c:439`,
  515), not the number of bytes moved (`tests/test_cases.md:197`);
* `read_file_action` does not retry on EINTR (137), though `README.md:297` and
  `PROJECT_DOCUMENTATION.md:128` say loops do;
* write appends (206), though `test_cases.md:187` expects the file to hold only
  what was written;
* after a failing `lstat`, `errno` is not reset before the next `readdir`, so a
  complete listing may end with an error (`directory_operations.c:98`, 106);
* a rename between two names of one file does nothing and reports success (607),
  and an existing destination is replaced without a warning (565);
* a NUL in the input ends the text seen of a line (`utils.c:71`), and a name of
  blanks is not trimmed in its buffer (`utils.c:135`, `utils.h:34`).

### Bounds

Nothing in the model counts without a bound of the code's own: meals are bounded
by `MaxMeals`, permits by `N`, sleeps by the speeds. Three philosophers are the
least number whose neighbours are distinct and where a philosopher may have a
neighbour eating on one side only; with two, both forks are shared, the hardest
case for the records, and the state space leaves room for every command at every
moment. Two meals let a philosopher go round the loop with a neighbour in every
place. The speed 201 is over the limit of 200 above which a philosopher sleeps
between its forks, in more than one chunk; 20 is under the least speed of 50.
`sim_unsafe` does not check for deadlock, because `sim_stop` may really hang there
(`unsafe_stop_hangs`).

* `EngineMain`: one signal at most, since `handler` is one caller; `Signals` says
  to which kinds of run it may come. `engine_process` sends it to runs without
  the listener. `Signals = {"batch", "interactive"}` with `Commands = {"STOP"}` and
  no failing creation is 784 000 states and holds too; it takes twice the time.
* `ServerManager`: two requests are what it takes for one to come between the
  sections of another, two engines for an old reader to meet a new run; a third
  would only repeat that. `MaxEvents`, `Pipe` and `QueueSize` are 1, so that a full
  pipe and a full queue are one event away. `Demos` = {1}: the first engine's last
  event reports a deadlock, the second's does not.
* Explorer: two names and three inodes allow a replaced file, a second link, and
  a directory in a directory. `MaxSize` is 4, a content of two bytes and a typed
  line of two and its newline: an append that does not fit is one case of it.
  `IO_BUF_SIZE` is 2, the length of a file before another process appends, so that
  a copy of three bytes needs two rounds. One fault and one act of others come at
  any of the calls; faults decided by the disk are unbounded, and so are signals.
  `explorer_files` leaves rename to `explorer_directories`.
* `LineInput`: with a buffer of 4, lines of 2 and a newline fit, of 3 just do
  without their newline, of 4 and 5 do not. `Chars` has both signs. `INT_MAX` is 98, so that 99 is over it
  and 9 is not; `LONG_MAX` 998 does the same for `strtol`. Only the digit 9 occurs:
  numbers are told apart by their length.

### Fairness

`FairSpec` assumes that a thread which can run does run: weak fairness of each
philosopher, of the monitor, of `sim_start` and of each call of `sim_stop`, and
that `main`, which polls `is_running`, calls `sim_stop` once the run is over.
Weak fairness of a philosopher suffices although it waits for forks and
permits: with these bounds a fork or a permit that is wanted becomes free for
good in the end, as the number of meals is finite. No fairness is assumed of
commands or of failures: the properties that need a user say so themselves
(`ResumedRunEnds`, `SteppedRunEnds`).

`EngineFairSpec` has weak fairness of what all threads but the monitor do together
(`Works`), and of the monitor: less than fairness to every thread, and enough. The
user need not type and no signal need come. `FairSpec` of `ServerManager` is fair to
the threads that serve requests only: an engine may hang, and a request must be
answered all the same. The explorer (`HFairSpec`) and `LineInput` have weak fairness of the one
process; the user need not end the input and other processes need not act, but
a prompt is answered, by a line or by the end of the input, and no call is
interrupted for ever (a signal after a signal changes nothing, so that a behaviour that
consists of them stutters).

## Proofs

TLAPS proves the following of the engine's `Spec` for every value of the constants that the
assumptions of `SimulationContext.tla` allow: any `N >= 2`, any number of meals,
any integer as the strategy, any set of commands, any set of callers of
`sim_stop`, threads that can or cannot be created. The assumptions are what
`sim_init` enforces; none is about scheduling.

| Theorem | Shows |
|---|---|
| `TypeCorrect` | `TypeOK`: above all that the semaphore's value is a natural number |
| `Inductive` | `IndInv` |
| `Exclusion`, `RecordsRight`, `PermitsRight` | `NeighboursNeverEatTogether`, `ForkRecordsAgree`, `PermitAccounting` |
| `NoCircle`, `NeverStuck` | `NoCircularWait`, `SomeoneCanGoOn` |
| `PermitCountRight`, `EatersCounted` | `PermitCountTrails`, `EatingCountRight` |
| `WakeupsKept`, `OneStepEach` | `NoLostWakeup`, `StepsPayForCheckpoints` |
| `StopIsClean` | `StoppedMeansQuiet` |
| `Rounds`, `FullMeals`, `EndIsClean` | `RoundsAtPoints`, `FullUnlessStopped`, `FinishedMeansReturned` |
| `Refinement` | strategy 0 implements `Dining` (`DiningSpec`) |
| `DeadlockReported`, `DeadlockIsReal` | `UnsafeReportsDeadlock`, `DeadlockOnlyIfReal` |

Of the process, `EngineSpec` of `EngineMain`, with the same assumptions and
`EngineAssumption` (who the callers of `sim_stop` are):

| Theorem | Shows |
|---|---|
| `BatchEndsQuiet` | `QuietInBatch`, under either strategy |
| `NobodyLeftDining` | strategy 0: `NobodyDines` |
| `ProcessKeepsTableSafe` | `NeighboursNeverEatTogether`, `ForkRecordsAgree`, `PermitAccounting`, `NoCircularWait`, `SomeoneCanGoOn`, in the process |
| `ProcessImplementsTable` | strategy 0: the process implements `Dining` (`DiningSpec`) |

And of the explorer's `Spec`, for any names, paths, sizes, number of faults and acts
of others (`ExplorerAssumption`, which only says what kind of thing each constant
is, and `KernelAssumption`: no entry is called `.` or `..`, and there is a name for
the symbolic links to point at):

| Theorem | Shows |
|---|---|
| `DescriptorsAreHeld` | `OnlyHeldAreOpen`: the open descriptors are those the running operation holds; none at the menu |
| `ExplorerTypes` | `TypeOK`: no negative offset, no open descriptor without a file, no file longer than fits |
| `AppendingIsSafe` | `AppendsOnly` |
| `SignalsAreRetried` | `InterruptsAreRetried`, for any number of signals |
| `ListingIsComplete` | `ListsEachOnce`, whatever comes and goes while the directory is read |
| `NothingIsLost` | `LosesNoFile`, as a property of every step: no file or directory loses its last name but what a rename replaces and an empty directory rmdir is asked for |

Of the `Spec` of `LineInput`, for an input of any length, a buffer of any size from 2 on
and any `INT_MAX <= LONG_MAX` (`LineInputAssumption`):

| Theorem | Shows |
|---|---|
| `LinesAreAnswers` | `OneLineOneAnswer`, if no NUL is typed |
| `NumbersAreRead` | `ParsesStrictly` |

With a NUL `OneLineOneAnswer` is false: `strlen` stops at it, the newline behind it is not
seen, and the draining eats the next line.

And of the server's `Spec`, for any requests, engines, streams and sizes of pipes
and queues (`ServerAssumption`):

| Theorem | Shows |
|---|---|
| `RunningKnown` | `RunningIsTrue` |
| `EnginesToldToStop` | `NoEngineForgotten` |
| `StreamsHaveNoGap` | `StreamsAreComplete` |

### The invariant

`IndInv` ties what the philosophers share to where each of them is. Mutual
exclusion alone is not inductive: the step that sets EATING says nothing of
forks. Its parts:

* `MutexesAtPoints`: a fork's mutex is locked by the philosopher that stands
  between the lock and the unlock of it, and by no other. With
  `StatesAtPoints` (EATING is shown between two such points) it gives
  `Exclusion`.
* `RecordsAtPoints`: the same for the records, over shorter stretches of the
  code, which lie within those of the mutexes: `RecordsRight`.
* `PermitAccounting`: semaphore and holders make `N - 1`; as the semaphore is
  never negative, not everybody is a holder. Whoever has a left fork under
  strategy 0 is one, by `PointsOfStrategy` (no philosopher is at a point of the
  other strategy): `NoCircle`. `PointsOfStrategy` is also why the watchdog's
  DEADLOCKED overwrites nobody who eats.
* `JoinsAPhilosopher` keeps the index of the join loop in its range;
  `JoinedHaveEnded` says that a thread without a handle has ended and that
  `sim_stop` reaches each of its points with everything before it joined:
  `StopIsClean`.

All of these but `JoinedHaveEnded` make up `PointsInv`: what the points of the
philosophers say, whoever stops the run. `JoinedHaveEnded` is true of the simulation
and false in the process, where `pthread_join` refuses a second caller and the handle
is cleared all the same; `EngineProofs` therefore rests on `PointsInv` alone.

`RoundsAtPoints` adds, for strategy 0, what a philosopher is shown as and how
many meals it may have had at each point. The refinement maps each state to what
a spectator sees (`Seen`); of the philosopher's steps, `Think`, `GetHungry`,
`Eat`, `Release` and `Complete` are the table's or stutter, the others stutter.

### The argument

Most steps disturb one part of the invariant only. `StepKinds` sorts the
philosopher's steps by what they work on, and one lemma for each kind
(`CommonMoves`, `RoomMoves`, `RecordMoves`, `LockMoves`, `ShowMoves`,
`BarrierMoves`) says which sets of points they do not cross (`Keeps`) and which
variables they leave alone; `OtherMoves` does this for the monitor, `sim_start`,
the commands and `sim_stop`. Each part of the invariant is then kept by the
kinds that keep its points, and the few steps that remain are proved one by
one. Permits and eaters are counted with the cardinality theorems of the library:
one philosopher enters or leaves a set at a time.

`NeverStuck` is the argument for the `N - 1` permits in full. If everybody whose
thread runs were blocked, every holder of a permit would be waiting for its right
fork (a left fork is taken by a neighbour with two forks, who does not wait), so
its right neighbour would have that fork and be waiting too. A set of philosophers
closed under "right neighbour" is empty or the whole table (`WholeRing`, by least
elements): empty means that all permits are in the semaphore and nobody waits for
one, the whole table means `N` holders of `N - 1` permits. `EatersCounted` bounds
the maximum by the bijection of the eaters with their right neighbours, who do not
eat.

`DescriptorsAreHeld` rests on `HeldInv`: `OnlyHeldAreOpen`, which says at each
point of the code how many descriptors are held and in which local, and `Shapes`,
that the records keep the fields it speaks of. Most actions leave descriptors,
locals and the class of the point alone (`DescriptorsUntouched`); opening
(`OpenHeld`), closing (`CloseHeld`) and the prompts (`PromptHeld`) are proved once, for any
operation, and the copy, the only holder of two, on its own. The kernel's part in
it is that open returns a descriptor that was closed.

`DeadlockReported` needs to know what the barrier is for. `HeldUntilVerdict`: from
the moment somebody has passed it until a deadlock is recorded, everybody stands
between it and giving the left fork back. It is kept because the right fork of
each is the left one of a neighbour, who still has it, so a timed lock can only
run out, and whoever it runs out for records the deadlock or finds it recorded.
`VerdictAfterMeeting` is the other direction, and `LeavesForAReason` says why a
philosopher of strategy 1, who never eats, leaves the loop at all. `DeadlockIsReal` looks at
the two steps that record one: the monitor's scan finds everybody with one recorded fork, and a timed lock
runs out only behind the barrier, where `HeldUntilVerdict` holds (`RecordedWhenStuck`). Either
leaves each philosopher between the record of its left fork and the lock of its right one,
which is the closed circle (`StuckIsClosed`). It need not have called
`pthread_barrier_wait`: the record comes before (307, 313).

The process (`EngineProofs`). A step of it is a step of the simulation, a stop requested
at any time, or a refused join (`EngineSteps`); the last two leave the philosophers alone,
so `PointsInv`, `RoundsAtPoints` and the refinement carry over. What replaces
`JoinedHaveEnded` is about pairs of threads: who came first to join a thread waits for it
still, or it has ended (`FirstJoinerWaits`), and a thread without a handle was never
created or somebody came to join it (`EachIsJoined`), which stays true until `main`
cancels the listener inside its own `pthread_join`. `sim_cleanup` comes last and leaves no
handle behind (`CleanupClears`); once its `sim_stop` has returned, each thread has a first
joiner, nobody is inside a join any more (`ListenerPlace`, `MainPlace`: the listener has
gone, `main` and the handler are `main`'s own stack), so each has ended: `BatchEndsQuiet`.
With the listener that last step fails at the cancelled join, so `NobodyLeftDining` argues
from what `main` waited for instead: in a run no signal ends it leaves its loop when every
philosopher is done or when the listener's `sim_stop` has returned (`LeavesLoop`), and a
listener whose call returned was cancelled in no join.

`RunningKnown` and `EnginesToldToStop` are proved together with `WaitsForAsked`: a
request that waits inside the lock has told the current engine to stop, so that
clearing `process` after the wait forgets nobody. `StreamsHaveNoGap` needs that
the queue of a stream that is gone is empty and not subscribed (`AwayIsEmpty`).

`SignalsAreRetried` rests on `SignalInv`: while the last failure was a signal, the operation
is at a point from which it goes on, or reads or seeks (which promise nothing), or has
failed at the newline of a write, the one call of the writing that is not made again. Every
other way to give up sets another error, so nothing an interruption left behind decides
how an operation ends.

`AppendingIsSafe` rests on three facts: where a line is written the descriptor
appends (`Writing`), the bytes go behind those there (`WrittenType`), and an inode
taken for a new file was nobody's (`NewInodeIsFree`, by the least element of the
free ones). The types come first: each call of the kernel keeps them
(`OpenWritingKeeps`, `WriteKeeps`, ...), then each operation does.

`ListingIsComplete` and `NothingIsLost` (`NamesProofs`) need to know what a path leads
to. `Lookup` is a recursive function on the first `k` names; `Along` says what it
means to be that function, `AlongExists` and `AlongSame` that there is exactly one, and
`LookupLast` unrolls its last step: the path of a row, `Within(path, n)`, leads from
the directory to the entry `n` (`PlaceOf`).
`RowsInv` says that the rows done are of names the stream has returned, no two of one
name, and that a name returned has its row, a path that is too long, or is the one
`lstat` is asked about now; `StaysInv` that an entry that was there all along is
still due or has been returned, and that none is due when `readdir` reports the end. Others may
create and remove entries at any moment, so the streams' own
record (`due`) must lose exactly what the directory loses (`OthersKeepListing`).
`NothingIsLost` is about two states: each call that changes the directories is shown to
take the last link of one inode at most, the one found at its path (`UnlinkLosesOne`,
`RenameLosesOne`), and the others none (`OpenKeepsFiles`, `MkdirKeepsFiles`).

`LinesAreAnswers` (`InputProofs`) rests on `LinesInv`. Between two questions the input
stands at the start of a line, and as many lines have ended before it as answers were
given (`LineStart`); from `fgets` to the answer there is one line, from `s` to `e`, that
the reading is in (`InTheLine`): the buffer is what fits of it, what has been
taken is no more than the line, and what the draining passes is no newline, so that
it stops at `e` and not before. The number of a line is the number of line ends up to
it, so the steps from one line to the next count (`NextStart`), and different ends have
different numbers (`CountsGrow`), which makes `Line(k)` the line from `s` to `e` (`LineIs`).
The places that `trim` and the search for a character choose exist and are unique (`UptoIs`,
`UptoOne`, `LastShownExists`, `LastShownOne`), by least elements; that the carriage
return is taken off before the blanks makes no difference (`TrimEnd`).

`NumbersAreRead` is about the functions: `Cut` says where `parse_int` finds blanks, a sign
and digits, `NumeralParsed` that the places of a numeral are those and no other, and
`ParsedNumeral` the converse. What `strtol` computes and the number the digits stand for
are both `Iterated` from 0, one with saturation; they agree up to the largest long, one
more with a minus (`ValueIs`), so that what saturates is refused and the rest is compared
with the range of int.

### What is only model-checked

* Liveness, as the prover has no rules for fairness and `ENABLED`: `EveryoneEats`,
  `StopReturns`, `ResumedRunEnds`, `SteppedRunEnds`, `ProcessExits`, `RequestsReturn`,
  `TransfersEnd`, `OperationsReturn`, `EndOfInputEnds`, `EveryLineAnswers`.
* `TransfersFaithfully`: it selects the process's own bytes from a file with `SelectSeq`, a
  fold the provers cannot unroll; and it leaves out, as the run does, the copy onto a
  second name of the source (`copy_onto_itself`).

## Not modelled

* Engine process: `ProcessExits` is checked for strategy 0: under strategy 1 the `sim_stop` of
  the process hangs in the barrier as that of `unsafe_stop_hangs` does. Left
  out are the options and their checks, the STATUS command (it prints), a `pthread_create` of the listener that fails, a signal before `sim_init` or after
  `sim_cleanup`. A STOP the listener takes between its creation and `sim_start` is
  modelled: `sim_start` clears `stop_requested` (487), which delays the end of the
  run and does not prevent it. Strategies other than 0 and 1 are refused by no
  check of the code; the proofs cover any integer, the runs only 0 and 1.
* Server: `event_history` and `/api/events`, `/api/status`, the snapshot, `step` and
  `set_speed` (they change nothing kept here), the build of the engine and the
  argument checks of `/api/start`. A write to the engine's stdin that blocks, with the lock
  held, because the engine has stopped reading and the pipe is full, is not modelled: the
  commands are a few bytes each.
* Page (`app.js`, `index.html`, `style.css`): handlers of one browser thread over flags
  of the controls and a picture of the table. What may reach it out of order is in
  `ServerManager`.
* Explorer: permissions, modes, owners and times, the text of messages, the table
  layout of a listing, loops of symbolic links longer than one.
* `test_suite.c` calls the engine; its assertions are read as claims. `md_to_html.py`
  renders documents.

## Plan

What is left, in this order: `TransfersFaithfully` as a theorem of the write and of the
copy between different files, with what arrived as a recursive function of the bytes; a
module for the page, with its controls, stream and polling, composed with `ServerManager`.
