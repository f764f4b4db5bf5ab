----------------------------- MODULE Simulation -----------------------------
(***************************************************************************)
(* The POSIX engine of hackthone/src/simulation.c: one thread per           *)
(* philosopher, a monitor thread, and the threads that call sim_start,      *)
(* sim_pause, sim_resume, sim_step, sim_set_speed and sim_stop.             *)
(*                                                                          *)
(* A step is one critical section of state_mutex or pause_mutex, or one     *)
(* call that can block (a fork mutex, the semaphore, the barrier, a join).  *)
(* Reads of stop_requested made without a lock go with the step they        *)
(* precede, except where the next call can block.  sim_emit_event only      *)
(* prints and counts what it prints, so it is not a step.                   *)
(***************************************************************************)
EXTENDS SimulationContext

-----------------------------------------------------------------------------
(***************************************************************************)
(* Slips a programmer could make in this code, each in the place of one     *)
(* action below.  No specification uses them: they show that the properties *)
(* can tell the engine from a broken one.                                   *)
(***************************************************************************)
\* sem_trywait, with its failure ignored.
SemTryWait(i) ==
    /\ At(i, "sem_wait")
    /\ permit_semaphore' = permit_semaphore - 1
    /\ Goto(i, "got_permit")
    /\ UNCHANGED <<sleep_ms, fork_mutex, records, current_permits, progress,
                   counts, control>>

\* pthread_mutex_trylock on the left fork, with its failure ignored.
TryLockLeft(i) ==
    /\ At(i, "lock_left")
    /\ fork_mutex' = [fork_mutex EXCEPT ![Left(i)] = i]
    /\ Goto(i, "own_left")
    /\ UNCHANGED <<sleep_ms, records, room, progress, counts, control>>

\* A stop ends the meal and the eater leaves with the forks.
SleepOverLeaves(i) ==
    /\ pc[i] \in SleepPoints
    /\ sleep_ms[i] = 0 \/ stop_requested
    /\ sleep_ms' = [sleep_ms EXCEPT ![i] = 0]
    /\ Goto(i, CASE stop_requested       -> "complete"
                 [] At(i, "sleep_think") -> "pause_hungry"
                 [] At(i, "sleep_eat")   -> "release"
                 [] OTHER                -> "lock_right")
    /\ UNCHANGED <<data, control>>

\* The right fork is unlocked while the record still shows it.
UnlockBeforeRecord(i) ==
    UnlockFork(i, Right(i), "disown_right", "unlock_right")

\* The meals test lets one meal too many through.
LoopTestOneMore(i) == Jump(i, "loop",
                           IF ~stop_requested /\ meals_eaten[i] <= MaxMeals
                           THEN "pause_loop" ELSE "complete")

\* The eater is not taken off the count.
ReleaseUncounted(i) == Show(i, "release", "RELEASING_FORKS", "disown_right")

\* The count of permits goes up although it never went down.
ReturnCountedPermit(i) ==
    /\ stop_requested
    /\ At(i, "got_permit")
    /\ permit_semaphore' = permit_semaphore + 1
    /\ current_permits' = current_permits + 1
    /\ Goto(i, "complete")
    /\ UNCHANGED <<sleep_ms, fork_mutex, records, progress, counts, control>>

\* The stop path lets go of the fork and keeps the permit.
AbandonKeepsPermit(i) ==
    UnlockFork(i, Left(i), "abandon_unlock", "complete")

\* The semaphore is posted a second time in the place of the count.
PostTwice(i) == Post(i, "permit_inc", "loop")

\* The timeout shows on the philosopher, but not on the run.
TimedOutUnreported(i) == Show(i, "timed_out", "DEADLOCKED", "u_disown_left")

\* A STEP stays in force.
TakeStepForGood(i) ==
    /\ pc[i] \in PausePoints /\ i \notin waiting
    /\ is_paused /\ ~stop_requested /\ step_mode
    /\ Jump(i, pc[i], AfterPause[pc[i]])

\* The watchdog does not look whether the left fork is held at all.
HoldsNoRightFork(i) == forks_held[i][1] = NoOne

\* Philosophers that are putting their forks down count as done.
AllDoneEarly ==
    \A i \in Phil : state[i] \in {"COMPLETED", "DEADLOCKED", "RELEASING_FORKS"}

\* sim_resume, sim_step and sim_stop without their broadcast.
SimResumeSilently ==
    /\ "RESUME" \in Commands
    /\ is_paused' = FALSE /\ step_mode' = FALSE
    /\ UNCHANGED <<dining, flags, monitor, handles, stopping, waiting,
                   speed_ms>>

SimStepSilently ==
    /\ "STEP" \in Commands
    /\ step_mode' = TRUE
    /\ UNCHANGED <<dining, flags, monitor, handles, stopping, is_paused,
                   waiting, speed_ms>>

StopWakeSilently(t) ==
    /\ stop_pc[t] = "wake"
    /\ stop_pc' = [stop_pc EXCEPT ![t] = "join"]
    /\ is_paused' = FALSE
    /\ join_i' = [join_i EXCEPT ![t] = 0]
    /\ UNCHANGED <<dining, step_mode, waiting, flags, monitor, handles,
                   speed_ms>>

\* The thread is given up, not waited for.
DetachInsteadOfJoin(t) ==
    /\ stop_pc[t] = "joining"
    /\ stop_pc' = [stop_pc EXCEPT ![t] = "join"]
    /\ phil_threads' = phil_threads \ {join_i[t]}
    /\ join_i' = [join_i EXCEPT ![t] = @ + 1]
    /\ UNCHANGED <<dining, gate, flags, monitor, started, monitor_thread,
                   speed_ms>>

-----------------------------------------------------------------------------
(***************************************************************************)
(* philosopher_thread.                                                      *)
(***************************************************************************)
\* responsive_sleep_ms(ctx, ms): each chunk ends with a pause checkpoint.
SleepChunk(i) ==
    /\ pc[i] \in SleepPoints
    /\ sleep_ms[i] > 0 /\ ~stop_requested
    /\ sleep_ms' = [sleep_ms EXCEPT ![i] = IF @ > CHUNK THEN @ - CHUNK ELSE 0]
    /\ Goto(i, WakeUp[pc[i]])
    /\ UNCHANGED <<data, control>>

\* The sleep is over, or the run is stopping.  Each caller tests
\* stop_requested again, except after a meal.
SleepOver(i) ==
    /\ pc[i] \in SleepPoints
    /\ sleep_ms[i] = 0 \/ stop_requested
    /\ sleep_ms' = [sleep_ms EXCEPT ![i] = 0]
    /\ Goto(i, CASE At(i, "sleep_eat") -> "release"
                 [] At(i, "sleep_think") ->
                        IF stop_requested THEN "complete" ELSE "pause_hungry"
                 [] At(i, "sleep_left") ->
                        IF stop_requested THEN "abandon" ELSE "lock_right")
    /\ UNCHANGED <<data, control>>

\* check_pause_and_stop: go through, use up a STEP, or wait on pause_cond.
PassPause(i) ==
    /\ pc[i] \in PausePoints /\ i \notin waiting
    /\ ~is_paused \/ stop_requested
    /\ Jump(i, pc[i], AfterPause[pc[i]])

TakeStep(i) ==
    /\ pc[i] \in PausePoints /\ i \notin waiting
    /\ is_paused /\ ~stop_requested /\ step_mode
    /\ step_mode' = FALSE
    /\ Goto(i, AfterPause[pc[i]])
    /\ UNCHANGED <<sleep_ms, data, is_paused, waiting, flags, monitor, handles,
                   stopping, speed_ms>>

WaitPause(i) ==
    /\ pc[i] \in PausePoints /\ i \notin waiting
    /\ is_paused /\ ~stop_requested /\ ~step_mode
    /\ waiting' = waiting \cup {i}
    /\ UNCHANGED <<dining, is_paused, step_mode, flags, monitor, handles,
                   stopping, speed_ms>>

\* The while loop's condition.
LoopTest(i) == Jump(i, "loop",
                    IF ~stop_requested /\ meals_eaten[i] < MaxMeals
                    THEN "pause_loop" ELSE "complete")

\* A checkpoint is followed by `if (stop_requested) break;`.
BreakOnStop(i) == /\ stop_requested
                  /\ \E l \in {"think", "hungry", "check_permit"} :
                        Jump(i, l, "complete")

Think(i) ==
    /\ At(i, "think") /\ ~stop_requested
    /\ state' = [state EXCEPT ![i] = "THINKING"]
    /\ sleep_ms' = [sleep_ms EXCEPT ![i] = speed_ms]
    /\ Goto(i, "sleep_think")
    /\ UNCHANGED <<fork_mutex, records, room, meals_eaten, counts, control>>

GetHungry(i) ==
    /\ ~stop_requested
    /\ Show(i, "hungry", "HUNGRY",
            IF Strategy = STRATEGY_DEADLOCK_PREVENTION
            THEN "pause_permit" ELSE "u_lock_left")

-----------------------------------------------------------------------------
\* Strategy 0: at most N - 1 philosophers compete for forks.
CheckPermit(i) == ~stop_requested /\ Jump(i, "check_permit", "sem_wait")

SemWait(i) ==
    /\ At(i, "sem_wait")
    /\ permit_semaphore > 0
    /\ permit_semaphore' = permit_semaphore - 1
    /\ Goto(i, "got_permit")
    /\ UNCHANGED <<sleep_ms, fork_mutex, records, current_permits, progress,
                   counts, control>>

\* In a stop the permit goes straight back, uncounted.
ReturnPermitOnStop(i) == stop_requested /\ Post(i, "got_permit", "complete")
CountPermit(i) == ~stop_requested /\ Count(i, -1, "got_permit", "lock_left")

LockLeft(i) == LockFork(i, Left(i), "lock_left", "own_left")

\* Slower runs linger between the two forks, through the same sleep with its
\* pause checkpoints.
OwnLeft(i) ==
    /\ At(i, "own_left")
    /\ SetOwner(i, Left(i), 0, i)
    /\ sleep_ms' = [sleep_ms EXCEPT ![i] =
                        IF speed_ms > SLOW THEN speed_ms \div 3 ELSE 0]
    /\ Goto(i, "sleep_left")
    /\ UNCHANGED <<fork_mutex, room, progress, counts, control>>

\* The stop was seen with one fork in hand: the record of the fork and the
\* count of permits first, then the fork's mutex, then the semaphore.
Abandon(i) ==
    /\ At(i, "abandon")
    /\ SetOwner(i, Left(i), 0, NoOne)
    /\ current_permits' = current_permits + 1
    /\ Goto(i, "abandon_unlock")
    /\ UNCHANGED <<sleep_ms, fork_mutex, permit_semaphore, progress, counts,
                   control>>
AbandonUnlock(i) == UnlockFork(i, Left(i), "abandon_unlock", "abandon_post")
AbandonPost(i) == Post(i, "abandon_post", "complete")

LockRight(i) == LockFork(i, Right(i), "lock_right", "own_right")
OwnRight(i) == Record(i, Right(i), 1, i, "own_right", "eat")

Eat(i) ==
    /\ At(i, "eat")
    /\ state' = [state EXCEPT ![i] = "EATING"]
    /\ current_eating_count' = current_eating_count + 1
    /\ max_concurrent_eating' = IF current_eating_count' > max_concurrent_eating
                                THEN current_eating_count'
                                ELSE max_concurrent_eating
    /\ meals_eaten' = [meals_eaten EXCEPT ![i] = @ + 1]
    /\ sleep_ms' = [sleep_ms EXCEPT ![i] = speed_ms]
    /\ Goto(i, "sleep_eat")
    /\ UNCHANGED <<fork_mutex, records, room, control>>

Release(i) ==
    /\ At(i, "release")
    /\ current_eating_count' = current_eating_count - 1
    /\ state' = [state EXCEPT ![i] = "RELEASING_FORKS"]
    /\ Goto(i, "disown_right")
    /\ UNCHANGED <<sleep_ms, fork_mutex, records, room, meals_eaten,
                   max_concurrent_eating, control>>

DisownRight(i) == Record(i, Right(i), 1, NoOne, "disown_right", "unlock_right")
UnlockRight(i) == UnlockFork(i, Right(i), "unlock_right", "disown_left")
DisownLeft(i) == Record(i, Left(i), 0, NoOne, "disown_left", "unlock_left")
UnlockLeft(i) == UnlockFork(i, Left(i), "unlock_left", "sem_post")

\* The semaphore is posted before the count of permits goes up.
SemPost(i) == Post(i, "sem_post", "permit_inc")
UncountPermit(i) == Count(i, 1, "permit_inc", "loop")

-----------------------------------------------------------------------------
\* Strategy 1: everybody takes the left fork and meets at the barrier.
UnsafeLockLeft(i) == LockFork(i, Left(i), "u_lock_left", "u_own_left")
UnsafeOwnLeft(i) == Record(i, Left(i), 0, i, "u_own_left", "barrier")

\* pthread_barrier_wait for num_philosophers threads: the last one to arrive
\* lets all of them go.
Barrier(i) ==
    /\ At(i, "barrier")
    /\ IF \A j \in Phil \ {i} : At(j, "at_barrier")
       THEN pc' = [j \in Phil |-> "acquiring"]
       ELSE Goto(i, "at_barrier")
    /\ UNCHANGED <<sleep_ms, data, control>>

Acquiring(i) == Show(i, "acquiring", "ACQUIRING_FORKS", "timed_lock")

\* pthread_mutex_timedlock on the right fork: it is locked, or the 4 s are
\* over while a neighbour still has it.
TimedLock(i) == LockFork(i, Right(i), "timed_lock", "drop_right")
TimedLockExpires(i) == /\ fork_mutex[Right(i)] # NoOne
                       /\ Jump(i, "timed_lock", "timed_out")

TimedOut(i) ==
    /\ At(i, "timed_out")
    /\ state' = [state EXCEPT ![i] = "DEADLOCKED"]
    /\ deadlock_occurred' = TRUE
    /\ Goto(i, "u_disown_left")
    /\ UNCHANGED <<sleep_ms, fork_mutex, records, room, meals_eaten, counts,
                   gate, is_running, stop_requested, monitor, handles,
                   stopping, speed_ms>>

DropRight(i) == UnlockFork(i, Right(i), "drop_right", "u_disown_left")
UnsafeDisownLeft(i) ==
    Record(i, Left(i), 0, NoOne, "u_disown_left", "u_unlock_left")
UnsafeUnlockLeft(i) == UnlockFork(i, Left(i), "u_unlock_left", "complete")

\* After the loop: COMPLETED, unless a deadlock was recorded; the thread ends.
Complete(i) == IF deadlock_occurred
               THEN Jump(i, "complete", "done")
               ELSE Show(i, "complete", "COMPLETED", "done")

CommonStep(i) ==
    \/ SleepChunk(i) \/ SleepOver(i)
    \/ PassPause(i) \/ TakeStep(i) \/ WaitPause(i)
    \/ LoopTest(i) \/ BreakOnStop(i) \/ Think(i) \/ GetHungry(i)
    \/ Complete(i)

PreventionStep(i) ==
    \/ CheckPermit(i) \/ SemWait(i) \/ ReturnPermitOnStop(i) \/ CountPermit(i)
    \/ LockLeft(i) \/ OwnLeft(i)
    \/ Abandon(i) \/ AbandonUnlock(i) \/ AbandonPost(i)
    \/ LockRight(i) \/ OwnRight(i) \/ Eat(i) \/ Release(i)
    \/ DisownRight(i) \/ UnlockRight(i) \/ DisownLeft(i) \/ UnlockLeft(i)
    \/ SemPost(i) \/ UncountPermit(i)

UnsafeStep(i) ==
    \/ UnsafeLockLeft(i) \/ UnsafeOwnLeft(i) \/ Barrier(i) \/ Acquiring(i)
    \/ TimedLock(i) \/ TimedLockExpires(i) \/ TimedOut(i) \/ DropRight(i)
    \/ UnsafeDisownLeft(i) \/ UnsafeUnlockLeft(i)

\* philosopher_thread
PhilosopherStep(i) == CommonStep(i) \/ PreventionStep(i) \/ UnsafeStep(i)

-----------------------------------------------------------------------------
\* monitor_thread
MonitorLoop ==
    /\ monitor = "loop"
    /\ monitor' = IF stop_requested THEN "done" ELSE "scan"
    /\ UNCHANGED <<dining, gate, flags, handles, stopping, speed_ms>>

AllDone == \A i \in Phil : state[i] \in {"COMPLETED", "DEADLOCKED"}
HoldsOneFork(i) == forks_held[i][0] # NoOne /\ forks_held[i][1] = NoOne
CircularWaitSeen == /\ Strategy = STRATEGY_UNSAFE_DEADLOCK
                    /\ ~deadlock_occurred
                    /\ \A i \in Phil : HoldsOneFork(i)

\* One pass under state_mutex: a circular wait is recorded first; otherwise
\* the run is finished if everybody is.
MonitorDeadlock ==
    /\ monitor = "scan" /\ CircularWaitSeen
    /\ deadlock_occurred' = TRUE
    /\ state' = [i \in Phil |-> "DEADLOCKED"]
    /\ monitor' = "loop"
    /\ UNCHANGED <<pc, sleep_ms, fork_mutex, records, room, meals_eaten,
                   counts, gate, is_running, stop_requested, handles,
                   stopping, speed_ms>>

MonitorFinish ==
    /\ monitor = "scan" /\ ~CircularWaitSeen
    /\ AllDone /\ is_running
    /\ is_running' = FALSE
    /\ monitor' = "done"
    /\ UNCHANGED <<dining, gate, stop_requested, deadlock_occurred, handles,
                   stopping, speed_ms>>

MonitorNothing ==
    /\ monitor = "scan" /\ ~CircularWaitSeen
    /\ ~(AllDone /\ is_running)
    /\ monitor' = "loop"
    /\ UNCHANGED <<dining, gate, flags, handles, stopping, speed_ms>>

MonitorStep ==
    MonitorLoop \/ MonitorDeadlock \/ MonitorFinish \/ MonitorNothing

-----------------------------------------------------------------------------
\* sim_start: the flags, then the threads one after the other.
SimStart ==
    /\ started = "no"
    /\ started' = "creating"
    /\ is_running' = TRUE
    /\ stop_requested' = FALSE
    /\ UNCHANGED <<dining, gate, deadlock_occurred, monitor, phil_threads,
                   monitor_thread, stopping, speed_ms>>

CreatePhilosopher ==
    /\ started = "creating"
    /\ \E i \in Phil : /\ At(i, "none")
                       /\ \A j \in 0 .. i - 1 : ~At(j, "none")
                       /\ Goto(i, "loop")
                       /\ phil_threads' = phil_threads \cup {i}
    /\ UNCHANGED <<sleep_ms, data, gate, flags, monitor, started,
                   monitor_thread, stopping, speed_ms>>

CreateMonitor ==
    /\ started = "creating"
    /\ \A i \in Phil : ~At(i, "none")
    /\ monitor' = "loop" /\ monitor_thread' = TRUE
    /\ started' = "yes"
    /\ UNCHANGED <<dining, gate, flags, phil_threads, stopping, speed_ms>>

\* pthread_create fails: sim_start returns -1 and leaves the threads it made.
\* The handle it would have set is taken to stay 0, as sim_init left it; POSIX
\* leaves it undefined, and if it were not 0 sim_stop would join it (555).
CreateFails ==
    /\ CreateMayFail
    /\ started = "creating"
    /\ started' = "failed"
    /\ UNCHANGED <<dining, gate, flags, monitor, phil_threads, monitor_thread,
                   stopping, speed_ms>>

StartStep == SimStart \/ CreatePhilosopher \/ CreateMonitor \/ CreateFails

-----------------------------------------------------------------------------
\* The commands.  A broadcast on pause_cond empties the set of waiters.
others == <<dining, flags, monitor, handles, stopping>>

SimPause ==
    /\ "PAUSE" \in Commands
    /\ is_paused' = TRUE
    /\ UNCHANGED <<others, step_mode, waiting, speed_ms>>

SimResume ==
    /\ "RESUME" \in Commands
    /\ is_paused' = FALSE /\ step_mode' = FALSE /\ waiting' = {}
    /\ UNCHANGED <<others, speed_ms>>

SimStep ==
    /\ "STEP" \in Commands
    /\ step_mode' = TRUE /\ waiting' = {}
    /\ UNCHANGED <<others, is_paused, speed_ms>>

SimSetSpeed ==
    /\ "SPEED" \in Commands
    /\ \E s \in Speeds : speed_ms' = IF s >= 50 THEN s ELSE 50
    /\ UNCHANGED <<others, gate>>

Command == SimPause \/ SimResume \/ SimStep \/ SimSetSpeed

-----------------------------------------------------------------------------
\* sim_stop, one caller at each of its points.
StopAt(t, from, to) == /\ stop_pc[t] = from
                       /\ stop_pc' = [stop_pc EXCEPT ![t] = to]

StopRequest(t) ==
    /\ StopAt(t, "idle", "wake")
    /\ stop_requested' = TRUE
    /\ UNCHANGED <<dining, gate, is_running, deadlock_occurred, monitor,
                   handles, join_i, speed_ms>>

StopWake(t) ==
    /\ StopAt(t, "wake", "join")
    /\ is_paused' = FALSE /\ waiting' = {}
    /\ join_i' = [join_i EXCEPT ![t] = 0]
    /\ UNCHANGED <<dining, step_mode, flags, monitor, handles, speed_ms>>

\* A handle that is 0 is skipped; the others are joined, which takes until
\* the thread has ended, and set to 0.
JoinSkip(t) ==
    /\ stop_pc[t] = "join" /\ join_i[t] < N
    /\ join_i[t] \notin phil_threads
    /\ join_i' = [join_i EXCEPT ![t] = @ + 1]
    /\ UNCHANGED <<dining, gate, flags, monitor, handles, stop_pc, speed_ms>>

JoinCall(t) ==
    /\ join_i[t] < N /\ join_i[t] \in phil_threads
    /\ StopAt(t, "join", "joining")
    /\ UNCHANGED <<dining, gate, flags, monitor, handles, join_i, speed_ms>>

JoinReturn(t) ==
    /\ StopAt(t, "joining", "join")
    /\ At(join_i[t], "done")
    /\ phil_threads' = phil_threads \ {join_i[t]}
    /\ join_i' = [join_i EXCEPT ![t] = @ + 1]
    /\ UNCHANGED <<dining, gate, flags, monitor, started, monitor_thread,
                   speed_ms>>

JoinMonitor(t) ==
    /\ join_i[t] = N
    /\ StopAt(t, "join", IF monitor_thread THEN "joining_monitor" ELSE "clear")
    /\ UNCHANGED <<dining, gate, flags, monitor, handles, join_i, speed_ms>>

JoinMonitorReturn(t) ==
    /\ monitor = "done"
    /\ StopAt(t, "joining_monitor", "clear")
    /\ monitor_thread' = FALSE
    /\ UNCHANGED <<dining, gate, flags, monitor, started, phil_threads, join_i,
                   speed_ms>>

StopReturn(t) ==
    /\ StopAt(t, "clear", "returned")
    /\ is_running' = FALSE
    /\ UNCHANGED <<dining, gate, stop_requested, deadlock_occurred, monitor,
                   handles, join_i, speed_ms>>

StopStep(t) == \/ StopWake(t) \/ JoinSkip(t) \/ JoinCall(t) \/ JoinReturn(t)
               \/ JoinMonitor(t) \/ JoinMonitorReturn(t) \/ StopReturn(t)

\* A caller stops the engine when the user says so, when sim_start failed,
\* or when the monitor has ended the run.
MayStop == \/ started = "failed"
           \/ started = "yes" /\ ("STOP" \in Commands \/ ~is_running)

Returned == /\ \A t \in Callers : stop_pc[t] = "returned"
            /\ UNCHANGED vars

Next == \/ \E i \in Phil : PhilosopherStep(i)
        \/ MonitorStep
        \/ StartStep
        \/ Command
        \/ \E t \in Callers : MayStop /\ StopRequest(t)
        \/ \E t \in Callers : StopStep(t)
        \/ Returned

Spec == Init /\ [][Next]_vars

\* The scheduler runs every thread that can run, and the thread that called
\* sim_start comes back to sim_stop when the run is over.  Nothing obliges a
\* user to give a command.
Fairness ==
    /\ \A i \in Phil : WF_vars(PhilosopherStep(i))
    /\ WF_vars(MonitorStep)
    /\ WF_vars(SimStart \/ CreatePhilosopher \/ CreateMonitor)
    /\ \A t \in Callers : WF_vars(StopStep(t))
    /\ \A t \in Callers : WF_vars(/\ started = "failed" \/ ~is_running
                                  /\ MayStop /\ StopRequest(t))

FairSpec == Spec /\ Fairness
=============================================================================
