----------------------------- MODULE EngineMain -----------------------------
(***************************************************************************)
(* The engine as a process, hackthone/src/dining_philosophers.c: main, the  *)
(* listener of standard input and the signal handler, each of which calls   *)
(* sim_stop on the one simulation, and sim_cleanup, which calls it again    *)
(* and destroys the primitives.  It starts after sim_init.                  *)
(*                                                                         *)
(* Two calls of sim_stop may join one thread.  The first to call            *)
(* pthread_join waits for it; a later one is undefined in POSIX, and in     *)
(* glibc returns EINVAL or ESRCH at once, which sim_stop does not look at.  *)
(***************************************************************************)
EXTENDS Simulation

CONSTANT Signals     \* bound: the kinds of run SIGINT or SIGTERM may come to, once

ASSUME EngineAssumption == /\ Callers = {"main", "listener", "handler", "cleanup"}
                           /\ Signals \subseteq {"batch", "interactive"}

VARIABLES
    interactive,   \* the option of that name
    main_pc,       \* where main is
    listener,      \* where the listener is
    g_running,
    cancelled,     \* main has called pthread_cancel for the listener
    held,          \* main was interrupted with pause_mutex locked
    joiner         \* who is, or was, first to join each thread, N the monitor

process == <<interactive, main_pc, listener, g_running, cancelled, held>>
engine == <<vars, process, joiner>>

Nobody == "nobody"
Threads == 0 .. N

EngineInit ==
    /\ Init
    /\ interactive \in BOOLEAN
    /\ main_pc = "create_listener" /\ listener = "none"
    /\ g_running = TRUE /\ cancelled = FALSE /\ held = FALSE
    /\ joiner = [j \in Threads |-> Nobody]

\* The signals come to the main thread, which goes on when the handler is done.
HandlerRuns == stop_pc["handler"] \notin {"idle", "returned"}

(*************************** Slips *****************************************)
(* Plausible mistakes in the code below, each of which a run must notice.   *)
(***************************************************************************)
\* pthread_detach in the place of pthread_join.
DetachThread(t) ==
    /\ StopAt(t, "joining", "join")
    /\ phil_threads' = phil_threads \ {join_i[t]}
    /\ join_i' = [join_i EXCEPT ![t] = @ + 1]
    /\ UNCHANGED <<dining, gate, flags, monitor, started, monitor_thread,
                   speed_ms, process, joiner>>
\* main waits for a stop only.
StopAsked == ~g_running

(*************************** sim_stop **************************************)

\* The first to call pthread_join is the one that waits.
Claims(t, j) == joiner' = IF joiner[j] = Nobody THEN [joiner EXCEPT ![j] = t]
                          ELSE joiner

StopJoins(t) ==
    \/ JoinCall(t) /\ Claims(t, join_i[t])
    \/ JoinMonitor(t) /\ IF monitor_thread THEN Claims(t, N)
                         ELSE UNCHANGED joiner

JoinEnds(t) ==
    /\ joiner[join_i[t]] = t
    /\ JoinReturn(t)
    /\ UNCHANGED <<process, joiner>>

JoinMonitorEnds(t) ==
    /\ joiner[N] = t
    /\ JoinMonitorReturn(t)
    /\ UNCHANGED <<process, joiner>>

\* Another caller is joining the thread, or has: the handle is cleared anyway.
JoinRefused(t) ==
    /\ joiner[join_i[t]] # t
    /\ StopAt(t, "joining", "join")
    /\ phil_threads' = phil_threads \ {join_i[t]}
    /\ join_i' = [join_i EXCEPT ![t] = @ + 1]
    /\ UNCHANGED <<dining, gate, flags, monitor, started, monitor_thread,
                   speed_ms, process, joiner>>

JoinMonitorRefused(t) ==
    /\ joiner[N] # t
    /\ StopAt(t, "joining_monitor", "clear")
    /\ monitor_thread' = FALSE
    /\ UNCHANGED <<dining, gate, flags, monitor, started, phil_threads, join_i,
                   speed_ms, process, joiner>>

Stops(t) ==
    \/ /\ (~held /\ StopWake(t)) \/ JoinSkip(t) \/ StopReturn(t)
       /\ UNCHANGED <<process, joiner>>
    \/ StopJoins(t) /\ UNCHANGED process
    \/ JoinEnds(t) \/ JoinRefused(t)
    \/ JoinMonitorEnds(t) \/ JoinMonitorRefused(t)

(*************************** Threads of the simulation *********************)

EnginePhilosopher(i) ==
    /\ pc[i] \in PausePoints => ~held
    /\ PhilosopherStep(i)
    /\ UNCHANGED <<process, joiner>>

EngineMonitor == MonitorStep /\ UNCHANGED <<process, joiner>>

(*************************** main ******************************************)

MainGoes(from, to) ==
    /\ ~HandlerRuns
    /\ main_pc = from
    /\ main_pc' = to
    /\ UNCHANGED <<interactive, cancelled, held, joiner>>

CreateListener ==
    /\ MainGoes("create_listener", "start")
    /\ listener' = IF interactive THEN "reading" ELSE "none"
    /\ UNCHANGED <<vars, g_running>>

Start ==
    /\ StartStep
    /\ MainGoes("start", CASE started' = "yes" -> "poll"
                           [] started' = "failed" -> "cleanup"
                           [] OTHER -> "start")
    /\ UNCHANGED <<listener, g_running>>

RunIsOver == ~(g_running /\ is_running)
Poll ==
    /\ RunIsOver
    /\ MainGoes("poll", "stop")
    /\ UNCHANGED <<vars, listener, g_running>>

MainStops(t, here, next) ==
    /\ ~HandlerRuns /\ main_pc = here
    /\ \/ StopRequest(t) /\ UNCHANGED <<process, joiner>>
       \/ Stops(t)
       \/ /\ stop_pc[t] = "returned"
          /\ MainGoes(here, next)
          /\ UNCHANGED <<vars, listener, g_running>>

CancelListener ==
    /\ ~HandlerRuns /\ main_pc = "cancel"
    /\ cancelled' = (listener # "none")
    /\ main_pc' = IF listener # "none" THEN "join_listener" ELSE "cleanup"
    /\ UNCHANGED <<vars, interactive, listener, g_running, held, joiner>>

JoinListener ==
    /\ listener = "ended"
    /\ MainGoes("join_listener", "cleanup")
    /\ UNCHANGED <<vars, listener, g_running>>

Destroy ==
    /\ MainGoes("destroy", "exited")
    /\ UNCHANGED <<vars, listener, g_running>>

Main == \/ CreateListener \/ Start \/ Poll
        \/ MainStops("main", "stop", "cancel")
        \/ CancelListener \/ JoinListener
        \/ MainStops("cleanup", "cleanup", "destroy")
        \/ Destroy

(*************************** stdin_command_listener ************************)

ListenerGoes(from, to) ==
    /\ listener = from
    /\ listener' = to
    /\ UNCHANGED <<interactive, main_pc, cancelled, held>>

\* fgets, a command other than STOP, and the test of g_running; or end of file.
ListenerReads ==
    \/ /\ Command /\ (held => waiting' = waiting /\ gate' = gate)
       /\ ListenerGoes("reading", IF g_running THEN "reading" ELSE "ended")
       /\ UNCHANGED <<g_running, joiner>>
    \/ /\ "STOP" \in Commands /\ StopRequest("listener")
       /\ ListenerGoes("reading", "stopping") /\ UNCHANGED <<g_running, joiner>>
    \/ /\ ListenerGoes("reading", "ended")
       /\ UNCHANGED <<vars, g_running, joiner>>

\* g_running is cleared only after sim_stop has returned.
ListenerStops ==
    /\ listener = "stopping"
    /\ \/ Stops("listener")
       \/ /\ stop_pc["listener"] = "returned"
          /\ ListenerGoes("stopping", "ended")
          /\ g_running' = FALSE
          /\ UNCHANGED <<vars, joiner>>

\* fgets and pthread_join are cancellation points; a join that is cancelled
\* leaves the thread to be joined by another.
ListenerCancelled ==
    /\ cancelled
    /\ \/ ListenerGoes("reading", "ended") /\ UNCHANGED joiner
       \/ /\ stop_pc["listener"] \in {"joining", "joining_monitor"}
          /\ ListenerGoes("stopping", "ended")
          /\ joiner' = [joiner EXCEPT ![join_i["listener"]] =
                            IF @ = "listener" THEN Nobody ELSE @]
    /\ UNCHANGED <<vars, g_running>>

(*************************** handle_signal *********************************)

\* g_running = 0 and the first statement of sim_stop.  main may be inside the
\* section of pause_mutex of its own call of sim_stop.
InWakeSection == \/ main_pc = "stop" /\ stop_pc["main"] = "wake"
                 \/ main_pc = "cleanup" /\ stop_pc["cleanup"] = "wake"
Signal ==
    /\ (IF interactive THEN "interactive" ELSE "batch") \in Signals
    /\ StopRequest("handler")
    /\ g_running' = FALSE
    /\ held' \in {FALSE, InWakeSection}
    /\ UNCHANGED <<interactive, main_pc, listener, cancelled, joiner>>

(***************************************************************************)

Exited == main_pc = "exited" /\ UNCHANGED engine

\* What the threads do of themselves, the monitor's rounds apart.
Works == \/ \E i \in Phil : EnginePhilosopher(i)
         \/ Main
         \/ ListenerStops \/ ListenerCancelled
         \/ Stops("handler")

EngineNext ==
    \/ main_pc # "exited" /\ (Works \/ EngineMonitor \/ ListenerReads \/ Signal)
    \/ Exited

EngineSpec == EngineInit /\ [][EngineNext]_engine

\* The scheduler runs the monitor, and somebody else who can go on; the user
\* need not type and no signal need come.  Fairness to every thread implies
\* it: what the monitor does not change stays enabled until it is done.
EngineFairSpec == EngineSpec /\ WF_engine(Works) /\ WF_engine(EngineMonitor)

(*************************** Properties ************************************)

\* The threads are gone, or never were.
Quiet == /\ \A i \in Phil : pc[i] \in {"none", "done"}
         /\ monitor \in {"none", "done"} /\ listener \in {"none", "ended"}

\* Without the listener, whatever a signal interrupted: no thread is left that
\* uses the primitives when they are destroyed, although the handler's
\* sim_stop, main's and sim_cleanup's may each join half of the threads.
QuietInBatch == main_pc = "destroy" /\ ~interactive => Quiet

\* With the listener too, as long as no signal comes and sim_start succeeded:
\* no philosopher is left among the forks, though its farewell may be.
NobodyDines ==
    main_pc = "destroy" /\ started = "yes" /\ stop_pc["handler"] = "idle"
        => \A i \in Phil : pc[i] = "done" /\ \A f \in Fork : fork_mutex[f] # i

\* The process ends once nobody keeps the run paused, whatever STOP, signal,
\* end of the run and failed sim_start meet, unless the signal hit the locked
\* section of sim_stop itself.  A STOP that sim_start forgets
\* (simulation.c:487) delays the end and does not prevent it.
ProcessExits ==
    []~held /\ <>[]~is_paused => <>(main_pc = "exited")
=============================================================================
