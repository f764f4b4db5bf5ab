-------------------------- MODULE SimulationContext --------------------------
(***************************************************************************)
(* The SimulationContext of hackthone/src/simulation.h, the state sim_init  *)
(* leaves it in, and the locked sections the engine's code is made of.      *)
(***************************************************************************)
EXTENDS Integers, FiniteSets

CONSTANTS N,             \* num_philosophers
          MaxMeals,      \* max_meals
          Strategy,      \* strategy, as given to sim_init
          InitSpeed,     \* speed_ms at sim_init
          Speeds,        \* the values SPEED commands ask for
          Commands,      \* the commands the user may give
          Callers,       \* the threads that may call sim_stop
          CreateMayFail  \* whether pthread_create may fail

STRATEGY_DEADLOCK_PREVENTION == 0
STRATEGY_UNSAFE_DEADLOCK == 1

\* sim_init refuses fewer than two philosophers and less than one meal, and
\* replaces a speed that is not positive.
ASSUME NAssumption == N \in Nat /\ N >= 2
ASSUME MealsAssumption == MaxMeals \in Nat /\ MaxMeals >= 1
ASSUME StrategyAssumption == Strategy \in Int
ASSUME SpeedAssumption == /\ InitSpeed \in Nat \ {0}
                          /\ Speeds \subseteq Nat \ {0}
ASSUME ControlAssumption ==
    /\ Commands \subseteq {"PAUSE", "RESUME", "STEP", "SPEED", "STOP"}
    /\ CreateMayFail \in BOOLEAN

NoOne == -1
CHUNK == 50          \* responsive_sleep_ms sleeps in pieces of 50 ms
SLOW == 200          \* above this speed a philosopher lingers between forks

Phil == 0 .. N - 1
Fork == 0 .. N - 1
Left(i) == i
Right(i) == (i + 1) % N

VARIABLES
    pc, sleep_ms,       \* each philosopher thread: where it is; its sleep left
    state, meals_eaten, forks_held,            \* stats[i]
    fork_mutex,         \* who has locked each fork_mutexes[f]
    fork_owners,        \* fork_owners[f], the engine's own record of it
    permit_semaphore,   \* the value of the semaphore
    current_permits,    \* the engine's own count of it
    current_eating_count, max_concurrent_eating,
    is_paused, step_mode,
    waiting,            \* philosophers blocked on pause_cond
    speed_ms, is_running, stop_requested, deadlock_occurred,
    monitor,            \* where the monitor thread is
    started,            \* how far sim_start is
    phil_threads,       \* philosophers whose thread handle is not 0
    monitor_thread,     \* whether the monitor's handle is not 0
    stop_pc, join_i     \* each caller's place in sim_stop, and in its loop

records  == <<fork_owners, forks_held>>
room     == <<permit_semaphore, current_permits>>
progress == <<state, meals_eaten>>
counts   == <<current_eating_count, max_concurrent_eating>>
gate     == <<is_paused, step_mode, waiting>>
flags    == <<is_running, stop_requested, deadlock_occurred>>
handles  == <<started, phil_threads, monitor_thread>>
stopping == <<stop_pc, join_i>>
data     == <<fork_mutex, records, room, progress, counts>>
dining   == <<pc, sleep_ms, data>>
control  == <<gate, flags, monitor, handles, stopping, speed_ms>>
vars     == <<dining, control>>

-----------------------------------------------------------------------------
\* Calls of check_pause_and_stop, with the point each returns to; the ones in
\* responsive_sleep_ms return to its loop.
AfterPause == [pause_loop |-> "think", pause_hungry |-> "hungry",
               pause_permit |-> "check_permit", wake_think |-> "sleep_think",
               wake_left |-> "sleep_left", wake_eat |-> "sleep_eat"]
PausePoints == DOMAIN AfterPause

\* Calls of responsive_sleep_ms, with the checkpoint each makes after a chunk.
WakeUp == [sleep_think |-> "wake_think", sleep_left |-> "wake_left",
           sleep_eat |-> "wake_eat"]
SleepPoints == DOMAIN WakeUp

\* sim_init gives the semaphore this value.  The slip: one permit for each.
PermitForEach == N
Permits == N - 1

Init ==  \* the context as sim_init leaves it
    /\ pc = [i \in Phil |-> "none"]
    /\ sleep_ms = [i \in Phil |-> 0]
    /\ state = [i \in Phil |-> "THINKING"]
    /\ meals_eaten = [i \in Phil |-> 0]
    /\ forks_held = [i \in Phil |-> [s \in {0, 1} |-> NoOne]]
    /\ fork_mutex = [f \in Fork |-> NoOne]
    /\ fork_owners = [f \in Fork |-> NoOne]
    /\ permit_semaphore = Permits /\ current_permits = N - 1
    /\ current_eating_count = 0 /\ max_concurrent_eating = 0
    /\ is_paused = FALSE /\ step_mode = FALSE /\ waiting = {}
    /\ speed_ms = InitSpeed
    /\ is_running = FALSE /\ stop_requested = FALSE
    /\ deadlock_occurred = FALSE
    /\ monitor = "none" /\ started = "no"
    /\ phil_threads = {} /\ monitor_thread = FALSE
    /\ stop_pc = [t \in Callers |-> "idle"]
    /\ join_i = [t \in Callers |-> 0]

At(i, l) == pc[i] = l
Goto(i, l) == pc' = [pc EXCEPT ![i] = l]
\* A step that changes nothing but where the thread is.
Jump(i, from, to) == At(i, from) /\ Goto(i, to)
                     /\ UNCHANGED <<sleep_ms, data, control>>

-----------------------------------------------------------------------------
\* One section of state_mutex that only changes the philosopher's state.
Show(i, from, s, to) ==
    /\ At(i, from)
    /\ state' = [state EXCEPT ![i] = s]
    /\ Goto(i, to)
    /\ UNCHANGED <<sleep_ms, fork_mutex, records, room, meals_eaten, counts,
                   control>>

\* Locking a fork, the record of it made under state_mutex, and their undoing.
LockFork(i, f, from, to) ==
    /\ At(i, from)
    /\ fork_mutex[f] = NoOne
    /\ fork_mutex' = [fork_mutex EXCEPT ![f] = i]
    /\ Goto(i, to)
    /\ UNCHANGED <<sleep_ms, records, room, progress, counts, control>>

UnlockFork(i, f, from, to) ==
    /\ At(i, from)
    /\ fork_mutex' = [fork_mutex EXCEPT ![f] = NoOne]
    /\ Goto(i, to)
    /\ UNCHANGED <<sleep_ms, records, room, progress, counts, control>>

SetOwner(i, f, slot, who) ==
    /\ fork_owners' = [fork_owners EXCEPT ![f] = who]
    /\ forks_held' = [forks_held EXCEPT ![i][slot] =
                          IF who = NoOne THEN NoOne ELSE f]

Record(i, f, slot, who, from, to) ==
    /\ At(i, from)
    /\ SetOwner(i, f, slot, who)
    /\ Goto(i, to)
    /\ UNCHANGED <<sleep_ms, fork_mutex, room, progress, counts, control>>

\* sem_post, and the two updates of the count kept beside the semaphore.
Post(i, from, to) ==
    /\ At(i, from)
    /\ permit_semaphore' = permit_semaphore + 1
    /\ Goto(i, to)
    /\ UNCHANGED <<sleep_ms, fork_mutex, records, current_permits, progress,
                   counts, control>>

Count(i, d, from, to) ==
    /\ At(i, from)
    /\ current_permits' = current_permits + d
    /\ Goto(i, to)
    /\ UNCHANGED <<sleep_ms, fork_mutex, records, permit_semaphore, progress,
                   counts, control>>
=============================================================================
