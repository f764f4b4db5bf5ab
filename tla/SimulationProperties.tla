------------------------ MODULE SimulationProperties ------------------------
(***************************************************************************)
(* What the engine of Simulation.tla must do: its type invariant, its       *)
(* safety and liveness properties, and the abstract table it implements.    *)
(***************************************************************************)
EXTENDS Simulation

\* The program points of a philosopher thread, by what it has in hand there.
LoopPoints == {"loop", "pause_loop", "think", "sleep_think", "wake_think",
               "pause_hungry", "hungry"}
PermitPoints == {"pause_permit", "check_permit", "sem_wait"}
LeftPoints == {"own_left", "sleep_left", "wake_left", "lock_right",
               "disown_left", "unlock_left", "abandon", "abandon_unlock"}
BothPoints == {"own_right", "eat", "sleep_eat", "wake_eat", "release",
               "disown_right", "unlock_right"}
PreventionPoints == PermitPoints \cup LeftPoints \cup BothPoints
                    \cup {"got_permit", "lock_left", "sem_post",
                          "permit_inc", "abandon_post"}
UnsafeLeftPoints == {"u_own_left", "barrier", "at_barrier", "acquiring",
                     "timed_lock", "timed_out", "u_disown_left",
                     "u_unlock_left"}
UnsafePoints == UnsafeLeftPoints \cup {"u_lock_left", "drop_right"}
Points == {"none", "complete", "done"}
          \cup LoopPoints \cup PreventionPoints \cup UnsafePoints

LeftLocked  == LeftPoints \cup BothPoints \cup UnsafeLeftPoints
               \cup {"drop_right"}
RightLocked == BothPoints \cup {"drop_right"}
LeftOwned   == LeftLocked \ {"own_left", "unlock_left", "abandon_unlock",
                             "u_own_left", "u_unlock_left"}
RightOwned  == BothPoints \ {"own_right", "unlock_right"}
EatingPoints == {"sleep_eat", "wake_eat", "release"}

\* Between a sem_wait and the matching sem_post, and between the two updates
\* of current_permits.
PermitHeld == LeftPoints \cup BothPoints
              \cup {"got_permit", "lock_left", "sem_post", "abandon_post"}
PermitCounted == (LeftPoints \cup BothPoints
                  \cup {"lock_left", "sem_post", "permit_inc"})
                 \ {"abandon_unlock"}

PermitHolders == {i \in Phil : pc[i] \in PermitHeld}
Counted == {i \in Phil : pc[i] \in PermitCounted}

Ended(i) == pc[i] \in {"none", "done"}
AllEnded == \A i \in Phil : Ended(i)

-----------------------------------------------------------------------------
\* The types of what the philosophers' threads work on, and of what controls
\* them.
DiningType ==
    /\ pc \in [Phil -> Points]
    /\ sleep_ms \in [Phil -> Nat]
    /\ state \in [Phil -> {"THINKING", "HUNGRY", "ACQUIRING_FORKS", "EATING",
                          "RELEASING_FORKS", "COMPLETED", "DEADLOCKED"}]
    /\ meals_eaten \in [Phil -> Nat]
    /\ forks_held \in [Phil -> [{0, 1} -> Fork \cup {NoOne}]]
    /\ fork_mutex \in [Fork -> Phil \cup {NoOne}]
    /\ fork_owners \in [Fork -> Phil \cup {NoOne}]
    /\ permit_semaphore \in Nat
    /\ current_permits \in Int
    /\ current_eating_count \in Int
    /\ max_concurrent_eating \in Nat

ControlType ==
    /\ is_paused \in BOOLEAN /\ step_mode \in BOOLEAN
    /\ waiting \subseteq Phil
    /\ speed_ms \in Nat \ {0}
    /\ is_running \in BOOLEAN /\ stop_requested \in BOOLEAN
    /\ deadlock_occurred \in BOOLEAN
    /\ monitor \in {"none", "loop", "scan", "done"}
    /\ started \in {"no", "creating", "yes", "failed"}
    /\ phil_threads \subseteq Phil
    /\ monitor_thread \in BOOLEAN
    /\ stop_pc \in [Callers -> {"idle", "wake", "join", "joining",
                                "joining_monitor", "clear", "returned"}]
    /\ join_i \in [Callers -> 0 .. N]

\* Every variable keeps the type it has in SimulationContext; the semaphore
\* never goes below zero.
TypeOK == DiningType /\ ControlType

\* Two philosophers that share a fork are never EATING at the same time,
\* whatever is paused, stepped or stopped meanwhile (lines 211-285).
NeighboursNeverEatTogether ==
    \A i, j \in Phil :
        i # j /\ state[i] = "EATING" /\ state[j] = "EATING"
            => Right(i) # j /\ Right(j) # i

\* The records that events and the monitor read under state_mutex never claim
\* a fork whose mutex the philosopher has not locked, and the two records,
\* by fork and by philosopher, always agree (lines 211-286, 303-349).
ForkRecordsAgree ==
    /\ \A f \in Fork : fork_owners[f] \in {NoOne, fork_mutex[f]}
    /\ \A i \in Phil :
          /\ (forks_held[i][0] = Left(i)) <=> (fork_owners[Left(i)] = i)
          /\ (forks_held[i][1] = Right(i)) <=> (fork_owners[Right(i)] = i)
          /\ forks_held[i][0] \in {NoOne, Left(i)}
          /\ forks_held[i][1] \in {NoOne, Right(i)}

\* Permits are neither lost nor made up on any path through the room, the
\* three stop paths included, so fewer than N philosophers compete for forks.
PermitAccounting == permit_semaphore + Cardinality(PermitHolders) = N - 1

\* current_permits is N - 1 less the permits counted as taken.  A permit is
\* posted before it is counted back (lines 291-293), so the count can trail
\* the semaphore, but never by more than one below zero.
PermitCountTrails == /\ current_permits = N - 1 - Cardinality(Counted)
                     /\ current_permits >= -1

\* What the N - 1 permits are for: the philosophers never all hold their left
\* fork, so no cycle of waits can close under strategy 0.
NoCircularWait == Strategy = STRATEGY_DEADLOCK_PREVENTION =>
                      \E i \in Phil : fork_mutex[Left(i)] # i

BlockedOnFork(i) == \/ (At(i, "lock_left") /\ fork_mutex[Left(i)] # NoOne)
                    \/ (At(i, "lock_right") /\ fork_mutex[Right(i)] # NoOne)
Blocked(i) == BlockedOnFork(i) \/ (At(i, "sem_wait") /\ permit_semaphore = 0)

\* Some philosopher whose thread runs is always waiting for no other one:
\* the progress argument of the prevention strategy.  One that is paused
\* counts, as a command lets it go on.
SomeoneCanGoOn == Strategy = STRATEGY_DEADLOCK_PREVENTION /\ ~AllEnded =>
                      \E i \in Phil : ~Ended(i) /\ ~Blocked(i)

\* The count of eaters is the number of philosophers shown EATING, and no
\* more than half the table was ever seen eating at once.
EatingCountRight ==
    /\ current_eating_count = Cardinality({i \in Phil : state[i] = "EATING"})
    /\ current_eating_count <= max_concurrent_eating
    /\ 2 * max_concurrent_eating <= N

\* Under strategy 0 a philosopher that is COMPLETED in a run nobody stopped
\* has had every meal, and nobody ever has more than max_meals.
FullUnlessStopped ==
    /\ \A i \in Phil : meals_eaten[i] <= MaxMeals
    /\ Strategy = STRATEGY_DEADLOCK_PREVENTION /\ ~stop_requested =>
          \A i \in Phil : state[i] = "COMPLETED" => meals_eaten[i] = MaxMeals

\* Everything is back on the table: what Test 4 of the test suite asserts, and
\* the mutexes and the semaphore behind those records.
TableClear == /\ \A f \in Fork : fork_owners[f] = NoOne /\ fork_mutex[f] = NoOne
              /\ \A i \in Phil : \A s \in {0, 1} : forks_held[i][s] = NoOne
              /\ permit_semaphore = N - 1
              /\ current_permits = N - 1
              /\ current_eating_count = 0

\* When the monitor of strategy 0 declares the run finished, every permit and
\* fork has been returned already, before any thread is joined.
FinishedMeansReturned ==
    Strategy = STRATEGY_DEADLOCK_PREVENTION /\ started = "yes" /\ ~is_running
        => TableClear

\* When sim_stop has returned, sim_cleanup may destroy the mutexes and the
\* semaphore: no thread is left that uses them, and none was left locked.
StoppedMeansQuiet ==
    \A t \in Callers : stop_pc[t] = "returned" =>
        /\ AllEnded /\ monitor \in {"none", "done"}
        /\ phil_threads = {} /\ ~monitor_thread
        /\ TableClear

\* No wake-up is lost: a philosopher waits on pause_cond only while the run is
\* paused with no STEP to use up, and if the run is being stopped the stopper
\* is still to broadcast (lines 124-132, 509-551).
NoLostWakeup ==
    waiting # {} => /\ is_paused /\ ~step_mode
                    /\ stop_requested => \E t \in Callers : stop_pc[t] = "wake"

\* While the run is paused, a checkpoint lets a philosopher through only at
\* the price of one STEP, and one STEP pays for one philosopher.
StepsPayForCheckpoints ==
    [][\A i \in Phil :
         is_paused /\ ~stop_requested /\ pc[i] \in PausePoints /\ pc'[i] # pc[i]
           => /\ step_mode /\ ~step_mode'
              /\ \A j \in Phil \ {i} : pc'[j] = pc[j]]_vars

\* Under strategy 1 no philosopher that met the others at the barrier lets go
\* of its left fork before the deadlock has been recorded, so a run that ends
\* by itself always reports it (Test 7 of the test suite).
UnsafeReportsDeadlock ==
    Strategy # STRATEGY_DEADLOCK_PREVENTION =>
        /\ \A i \in Phil : pc[i] \in {"drop_right", "u_disown_left",
                                      "u_unlock_left"} => deadlock_occurred
        /\ ~stop_requested =>
              \A i \in Phil : At(i, "done") => deadlock_occurred

\* The circle is closed: every philosopher has locked and recorded its left
\* fork, has no right one, and is on its way to the lock of the right fork, in
\* it, or just timed out of it.
Stuck == {"barrier", "at_barrier", "acquiring", "timed_lock", "timed_out"}
CircleClosed == \A i \in Phil : /\ pc[i] \in Stuck
                                /\ fork_mutex[Left(i)] = i
                                /\ fork_owners[Left(i)] = i
                                /\ HoldsOneFork(i)

\* A deadlock is recorded, by the monitor from the records or by whoever timed
\* out, only under strategy 1 and only at a moment when the circle is closed,
\* which may be before all have called pthread_barrier_wait (lines 307-335,
\* 378-400); and a philosopher is shown DEADLOCKED only once it is recorded.
DeadlockOnlyIfReal ==
    [][/\ ~deadlock_occurred /\ deadlock_occurred' =>
              Strategy # STRATEGY_DEADLOCK_PREVENTION /\ CircleClosed
       /\ (\E i \in Phil : state'[i] = "DEADLOCKED") => deadlock_occurred']_vars

-----------------------------------------------------------------------------
\* The inductive invariant behind the safety properties: what each program
\* point says of the strategy, the forks, the records and the state shown.
PointsOfStrategy ==
    \A i \in Phil : IF Strategy = STRATEGY_DEADLOCK_PREVENTION
                    THEN pc[i] \notin UnsafePoints
                    ELSE pc[i] \notin PreventionPoints

MutexesAtPoints ==
    \A f \in Fork, i \in Phil :
        fork_mutex[f] = i <=> \/ f = Left(i) /\ pc[i] \in LeftLocked
                              \/ f = Right(i) /\ pc[i] \in RightLocked

RecordsAtPoints ==
    /\ \A i \in Phil :
          /\ forks_held[i][0] = IF pc[i] \in LeftOwned THEN Left(i) ELSE NoOne
          /\ forks_held[i][1] = IF pc[i] \in RightOwned THEN Right(i) ELSE NoOne
    /\ \A f \in Fork, i \in Phil :
          fork_owners[f] = i <=> \/ f = Left(i) /\ pc[i] \in LeftOwned
                                 \/ f = Right(i) /\ pc[i] \in RightOwned

\* A caller that waits for a thread waits for a philosopher's.
JoinsAPhilosopher == \A t \in Callers : stop_pc[t] = "joining" => join_i[t] < N

StatesAtPoints == \A i \in Phil : state[i] = "EATING" <=> pc[i] \in EatingPoints

\* A thread without a handle has ended or never was; a call of sim_stop comes
\* after sim_start is over, and has joined the philosophers before its place in
\* the loop, then all of them, then the monitor.
JoinedHaveEnded ==
    /\ \A i \in Phil \ phil_threads : Ended(i)
    /\ ~monitor_thread => monitor \in {"none", "done"}
    /\ \A t \in Callers :
          /\ stop_pc[t] # "idle" => started \in {"failed", "yes"}
          /\ stop_pc[t] \in {"join", "joining"} =>
                 \A j \in phil_threads : j >= join_i[t]
          /\ stop_pc[t] \in {"joining_monitor", "clear", "returned"} =>
                 phil_threads = {}
          /\ stop_pc[t] \in {"clear", "returned"} => ~monitor_thread

\* Points between the test of the meals and the meal itself, those where a
\* philosopher gives up or ends, and what it is shown as at each point.
BeforeMeal == (LoopPoints \ {"loop"}) \cup PermitPoints
              \cup {"got_permit", "lock_left", "own_left", "sleep_left",
                    "wake_left", "lock_right", "own_right", "eat"}
LeavingPoints == {"abandon", "abandon_unlock", "abandon_post", "complete",
                  "done"}
ThinkingPoints == {"none", "complete"} \cup LoopPoints
HungryPoints == (LeftPoints \ {"disown_left", "unlock_left"}) \cup PermitPoints
                \cup {"got_permit", "lock_left", "own_right", "eat",
                      "abandon_post", "complete"}
ReleasingPoints == {"disown_right", "unlock_right", "disown_left",
                    "unlock_left", "sem_post", "permit_inc", "loop",
                    "pause_loop", "think", "complete"}

\* What each point says of the philosopher's meals and of what it shows, in the
\* rounds of strategy 0: the invariant behind FullUnlessStopped and DiningSpec.
RoundsAtPoints ==
    /\ \A i \in Phil : meals_eaten[i] <= MaxMeals
    /\ Strategy = STRATEGY_DEADLOCK_PREVENTION =>
           /\ ~deadlock_occurred
           /\ started = "no" => \A i \in Phil : pc[i] = "none"
           /\ \A i \in Phil :
                 /\ state[i] \notin {"ACQUIRING_FORKS", "DEADLOCKED"}
                 /\ state[i] = "THINKING" => pc[i] \in ThinkingPoints
                 /\ state[i] = "HUNGRY" => pc[i] \in HungryPoints
                 /\ state[i] = "RELEASING_FORKS" => pc[i] \in ReleasingPoints
                 /\ state[i] = "COMPLETED" <=> pc[i] = "done"
                 /\ pc[i] \in BeforeMeal => meals_eaten[i] < MaxMeals
                 /\ pc[i] \in LeavingPoints =>
                        stop_requested \/ meals_eaten[i] = MaxMeals

\* What the program points say, whoever stops the run and however.
PointsInv == /\ TypeOK
             /\ PointsOfStrategy
             /\ MutexesAtPoints
             /\ RecordsAtPoints
             /\ StatesAtPoints
             /\ PermitAccounting
             /\ JoinsAPhilosopher

\* Every program point's claims, and what a call of sim_stop has waited for:
\* the invariant the proofs rest on.
IndInv == PointsInv /\ JoinedHaveEnded

-----------------------------------------------------------------------------
\* Left alone, a run of strategy 0 feeds everybody and ends by itself.
EveryoneEats == <>(/\ \A i \in Phil : /\ state[i] = "COMPLETED"
                                      /\ meals_eaten[i] = MaxMeals
                   /\ ~is_running)

\* The run ends and sim_stop gives control back without any command.
RunReturns == <>(\A t \in Callers : stop_pc[t] = "returned")

\* A call of sim_stop always returns, whatever was paused, stepped or half
\* started when it came.
StopReturns == \A t \in Callers :
                  stop_pc[t] = "wake" ~> stop_pc[t] = "returned"

\* A run that is paused and resumed any number of times ends once it is left
\* running, although philosophers may be paused with forks in their hands.
ResumedRunEnds == (started = "yes" /\ <>[]~is_paused) ~> AllEnded

\* A user who keeps pressing STEP brings a paused run to its end.
SteppedRunEnds ==
    (started = "yes" /\ []<>step_mode /\ <>[]is_paused) ~> AllEnded

-----------------------------------------------------------------------------
\* What a spectator sees of the table.
Seen == [i \in Phil |->
            CASE state[i] \in {"THINKING", "RELEASING_FORKS"} -> "thinking"
              [] state[i] \in {"HUNGRY", "ACQUIRING_FORKS", "DEADLOCKED"} ->
                     "hungry"
              [] state[i] = "EATING" -> "eating"
              [] state[i] = "COMPLETED" -> "gone"]

Table == INSTANCE Dining WITH phase <- Seen, meals <- meals_eaten

\* The engine implements the abstract table of Dining.tla.
DiningSpec == Table!Spec

-----------------------------------------------------------------------------
\* What the documents say and the engine does not do (violated by runs).

\* tests/test_cases.md, Test 7: the demonstration of strategy 1, left alone, is
\* "identified by the watchdog, and resolves safely without hanging the
\* process"; claimed here only of runs in which the watchdog was faster than
\* the 4 s timeouts.
WatchedDemoReturns ==
    [](\A i \in Phil : At(i, "timed_out") => deadlock_occurred) => RunReturns
=============================================================================
