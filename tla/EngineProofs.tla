---------------------------- MODULE EngineProofs ----------------------------
(***************************************************************************)
(* Theorems about the whole process of EngineMain.tla: no thread is left    *)
(* when the primitives are destroyed, although calls of sim_stop on the     *)
(* same simulation refuse each other's joins.                               *)
(***************************************************************************)
EXTENDS EngineMain, DiningProofs

USE DEF vars, dining, data, control, records, room, progress, counts, gate,
        flags, handles, stopping, others

ProcessType ==
    /\ interactive \in BOOLEAN /\ g_running \in BOOLEAN
    /\ main_pc \in {"create_listener", "start", "poll", "stop", "cancel",
                    "join_listener", "cleanup", "destroy", "exited"}
    /\ listener \in {"none", "reading", "stopping", "ended"}
    /\ joiner \in [Threads -> Callers \cup {Nobody}]

\* Caller t is inside the pthread_join of thread j.
Joining(t, j) == IF j = N THEN stop_pc[t] = "joining_monitor"
                          ELSE stop_pc[t] = "joining" /\ join_i[t] = j
Over(j) == IF j = N THEN monitor = "done" ELSE pc[j] = "done"

\* main cancelled the listener inside its pthread_join.
CancelledInJoin == listener = "ended" /\ stop_pc["listener"] \in {"joining", "joining_monitor"}

\* Who was first to join a thread waits for it still, or it has ended.
FirstJoinerWaits ==
    \A j \in Threads, t \in Callers :
        joiner[j] = t => Over(j) \/ Joining(t, j)

\* A thread without a handle was never created, or somebody has joined it;
\* and a caller inside pthread_join is not the first that came.
EachIsJoined ==
    ~CancelledInJoin =>
        /\ \A j \in Phil \ phil_threads : pc[j] = "none" \/ joiner[j] # Nobody
        /\ monitor = "none" \/ monitor_thread \/ joiner[N] # Nobody
        /\ \A t \in Callers, j \in Threads : Joining(t, j) => joiner[j] # Nobody

\* The listener stops the run only from where it reads.
ListenerPlace ==
    /\ listener \in {"none", "reading"} => stop_pc["listener"] = "idle"
    /\ listener = "stopping" => stop_pc["listener"] # "idle"
    /\ listener = "ended" => stop_pc["listener"] \in
                                 {"idle", "joining", "joining_monitor", "returned"}
    /\ ~interactive => listener = "none"

\* main stops the run once, then cleans up, once the listener has gone.
MainPlace ==
    /\ stop_pc["main"] \in {"idle", "returned"} \/ main_pc = "stop"
    /\ stop_pc["cleanup"] = "idle" \/ main_pc \in {"cleanup", "destroy", "exited"}
    /\ main_pc = "create_listener" => started = "no" /\ listener = "none"
    /\ main_pc = "start" => started \in {"no", "creating"}
    /\ main_pc \in {"poll", "stop", "cancel", "join_listener"} => started = "yes"
    /\ main_pc \in {"cleanup", "destroy", "exited"} =>
           \/ started = "failed"
           \/ started = "yes" /\ listener \in {"none", "ended"}
    /\ started = "no" => \A j \in Phil : pc[j] = "none"
    /\ started \in {"no", "creating"} => monitor = "none"
    /\ started = "yes" => \A j \in Phil : pc[j] # "none"

\* What the loop of sim_cleanup's call of sim_stop has passed has no handle.
CleanupClears ==
    /\ stop_pc["cleanup"] \in {"join", "joining"} =>
           \A j \in phil_threads : j >= join_i["cleanup"]
    /\ stop_pc["cleanup"] \in {"joining_monitor", "clear", "returned"} =>
           phil_threads = {}
    /\ stop_pc["cleanup"] \in {"clear", "returned"} => ~monitor_thread

\* Once the primitives go, whether or not a signal comes now.
GoneInBatch == main_pc \in {"destroy", "exited"} /\ ~interactive => Quiet

ProcessInv == /\ ProcessType /\ FirstJoinerWaits /\ EachIsJoined
              /\ ListenerPlace /\ MainPlace /\ CleanupClears /\ GoneInBatch

\* In a run no signal ends: what main has seen when it leaves its loop.
AllOver == \A j \in Phil : pc[j] = "done"
ListenerReturned == stop_pc["listener"] = "returned"
Unsignalled == stop_pc["handler"] = "idle"
LeavesLoop ==
    Unsignalled =>
        /\ ~g_running => ListenerReturned
        /\ started \in {"creating", "yes"} /\ ~is_running
               /\ main_pc \in {"start", "poll"} => AllOver \/ ListenerReturned
        /\ started = "yes" /\ main_pc \notin {"start", "poll"} =>
               AllOver \/ ListenerReturned
        /\ started = "yes" /\ main_pc \in {"destroy", "exited"} => AllOver
-----------------------------------------------------------------------------
(***************************************************************************)
(* The steps of the process: those of the simulation, stop requests at any  *)
(* time, and joins refused.                                                 *)
(***************************************************************************)
\* What each program point of a philosopher says; it does not depend on who
\* stops the run or how.
Core == PointsInv /\ RoundsAtPoints

Refused(t) == JoinRefused(t) \/ JoinMonitorRefused(t)

LEMMA CallersAre == {"main", "listener", "handler", "cleanup"} = Callers
  BY EngineAssumption

LEMMA StopsAre ==
  ASSUME NEW t \in Callers, Stops(t)
  PROVE  StopStep(t) \/ Refused(t)
  BY DEF Stops, StopStep, StopJoins, JoinEnds, JoinMonitorEnds, Refused

LEMMA EngineSteps ==
  [EngineNext]_engine =>
      \/ [Next]_vars
      \/ \E t \in Callers : StopRequest(t) \/ Refused(t)
<1> SUFFICES ASSUME [EngineNext]_engine
             PROVE  \/ [Next]_vars
                    \/ \E t \in Callers : StopRequest(t) \/ Refused(t)
  OBVIOUS
<1> USE CallersAre
<1>1. ASSUME NEW t \in Callers, Stops(t)
      PROVE  [Next]_vars \/ Refused(t)
  BY <1>1, StopsAre DEF Next
<1>2. ASSUME NEW i \in Phil, EnginePhilosopher(i) PROVE Next
  BY <1>2 DEF EnginePhilosopher, Next
<1>3. CASE Main
  <2>1. CASE CreateListener \/ Poll \/ CancelListener \/ JoinListener \/ Destroy
    BY <2>1 DEF CreateListener, Poll, CancelListener, JoinListener, Destroy
  <2>2. CASE Start
    BY <2>2 DEF Start, Next
  <2>3. ASSUME NEW t \in Callers, NEW here, NEW next, MainStops(t, here, next)
        PROVE  [Next]_vars \/ StopRequest(t) \/ Refused(t)
    BY <1>1, <2>3 DEF MainStops
  <2> QED
    BY <1>3, <2>1, <2>2, <2>3 DEF Main
<1>4. CASE ListenerStops \/ ListenerCancelled \/ Stops("handler")
  BY <1>1, <1>4 DEF ListenerStops, ListenerCancelled
<1>5. CASE EngineMonitor
  BY <1>5 DEF EngineMonitor, Next
<1>6. CASE ListenerReads
  BY <1>6 DEF ListenerReads, Next
<1>7. CASE Signal
  BY <1>7 DEF Signal
<1>8. CASE Exited \/ UNCHANGED engine
  BY <1>8 DEF Exited, engine
<1> QED
  BY <1>2, <1>3, <1>4, <1>5, <1>6, <1>7, <1>8 DEF EngineNext, Works

\* A join that is refused changes handles and places in sim_stop only.
LEMMA RefusedKeepsCore ==
  ASSUME Core, NEW t \in Callers, Refused(t)
  PROVE  Core'
<1> USE DEF StopAt, JoinRefused, JoinMonitorRefused
<1>1. UNCHANGED <<dining, gate, flags, monitor, started, speed_ms>>
  BY DEF Refused
<1>2. /\ stop_pc' \in [Callers -> {"idle", "wake", "join", "joining",
                                   "joining_monitor", "clear", "returned"}]
      /\ phil_threads' \subseteq Phil /\ monitor_thread' \in BOOLEAN
  BY DEF Refused, Core, PointsInv, TypeOK, ControlType
<1>3. join_i' \in [Callers -> 0 .. N] /\ JoinsAPhilosopher'
  <2>1. CASE JoinRefused(t)
    <3>1. join_i[t] \in 0 .. N /\ join_i[t] < N
      BY <2>1 DEF Core, PointsInv, TypeOK, ControlType, JoinsAPhilosopher
    <3>2. join_i[t] + 1 \in 0 .. N
      BY <3>1, NAssumption
    <3> QED
      BY <2>1, <3>2 DEF Core, PointsInv, TypeOK, ControlType, JoinsAPhilosopher
  <2>2. CASE JoinMonitorRefused(t)
    BY <2>2 DEF Core, PointsInv, TypeOK, ControlType, JoinsAPhilosopher
  <2> QED
    BY <2>1, <2>2 DEF Refused
<1>4. TypeOK'
  <2>1. DiningType'
    BY <1>1, DiningKept DEF Core, PointsInv, TypeOK
  <2>2. ControlType'
    BY <1>1, <1>2, <1>3 DEF Core, PointsInv, TypeOK, ControlType
  <2> QED
    BY <2>1, <2>2 DEF TypeOK
<1>5. PointsOfStrategy' /\ MutexesAtPoints' /\ RecordsAtPoints' /\ StatesAtPoints'
  BY <1>1
     DEF Core, PointsInv, PointsOfStrategy, MutexesAtPoints, RecordsAtPoints,
         StatesAtPoints
<1>6. PermitAccounting' /\ RoundsAtPoints'
  BY <1>1 DEF Core, PointsInv, PermitAccounting, PermitHolders, RoundsAtPoints
<1> QED
  BY <1>3, <1>4, <1>5, <1>6 DEF Core, PointsInv

\* So does a stop requested at any time.
LEMMA RequestKeepsCore ==
  ASSUME Core, NEW t \in Callers, StopRequest(t)
  PROVE  Core'
<1>1. UNCHANGED dining
  BY DEF StopRequest
<1>2. TypeOK'
  BY StopStepType DEF Core, PointsInv
<1>3. JoinsAPhilosopher'
  BY DEF StopRequest, StopAt, Core, PointsInv, JoinsAPhilosopher, TypeOK, ControlType
<1>4. PointsOfStrategy' /\ MutexesAtPoints' /\ RecordsAtPoints' /\ StatesAtPoints'
  BY <1>1
     DEF Core, PointsInv, PointsOfStrategy, MutexesAtPoints, RecordsAtPoints,
         StatesAtPoints
<1>5. PermitAccounting' /\ RoundsAtPoints'
  BY <1>1 DEF StopRequest, Core, PointsInv, PermitAccounting, PermitHolders, RoundsAtPoints
<1> QED
  BY <1>2, <1>3, <1>4, <1>5 DEF Core, PointsInv

LEMMA CoreStep == Core /\ [EngineNext]_engine => Core'
<1> SUFFICES ASSUME Core, [EngineNext]_engine PROVE Core'
  OBVIOUS
<1>1. CASE [Next]_vars
  BY <1>1, TypeNext, JoinsNext, StrategyNext, MutexNext, RecordsNext, StatesNext,
     PermitsNext, RoundsNext DEF Core, PointsInv
<1> QED
  BY <1>1, EngineSteps, RefusedKeepsCore, RequestKeepsCore

LEMMA CoreInit == EngineInit => Core
  BY IndInit, RoundsInit DEF EngineInit, Core, PointsInv, IndInv
-----------------------------------------------------------------------------
(***************************************************************************)
(* The joins.                                                               *)
(***************************************************************************)
Joins == FirstJoinerWaits /\ EachIsJoined

LEMMA ThreadsAre == Threads = Phil \cup {N} /\ N \notin Phil
  BY NAssumption DEF Threads, Phil

LEMMA NobodyCalls == Nobody \notin Callers
  BY EngineAssumption DEF Nobody

\* A step that takes nobody into a pthread_join or out of one.
LEMMA JoinsKept ==
  ASSUME Joins, UNCHANGED <<joiner, phil_threads, monitor_thread>>,
         \A j \in Phil : /\ pc'[j] = "none" <=> pc[j] = "none"
                         /\ pc[j] = "done" => pc'[j] = "done",
         monitor' = "none" <=> monitor = "none",
         monitor = "done" => monitor' = "done",
         \A t \in Callers, j \in Threads : Joining(t, j)' <=> Joining(t, j),
         CancelledInJoin => CancelledInJoin'
  PROVE  Joins'
<1>1. \A j \in Threads : Over(j) => Over(j)'
  BY ThreadsAre DEF Over
<1>2. FirstJoinerWaits'
  BY <1>1 DEF Joins, FirstJoinerWaits
<1>3. EachIsJoined'
  BY DEF Joins, EachIsJoined
<1> QED
  BY <1>2, <1>3 DEF Joins

\* A caller of sim_stop goes from one place to another.
LEMMA StopAtMoves ==
  ASSUME TypeOK, NEW t \in Callers, NEW from, NEW to, StopAt(t, from, to)
  PROVE  /\ stop_pc[t] = from /\ stop_pc'[t] = to
         /\ \A u \in Callers \ {t} : stop_pc'[u] = stop_pc[u]
  BY DEF StopAt, TypeOK, ControlType

\* Only the steps around pthread_join change who is joining.
LEMMA OutOfJoins ==
  ASSUME TypeOK, NEW t \in Callers,
         StopRequest(t) \/ StopWake(t) \/ JoinSkip(t) \/ StopReturn(t)
  PROVE  /\ \A u \in Callers, j \in Threads : Joining(u, j)' <=> Joining(u, j)
         /\ stop_pc'[t] # "idle"
         /\ \A u \in Callers \ {t} : stop_pc'[u] = stop_pc[u] /\ join_i'[u] = join_i[u]
         /\ {stop_pc[t], stop_pc'[t]} \cap {"joining", "joining_monitor"} = {}
         /\ UNCHANGED <<dining, monitor, handles>>
<1>1. /\ stop_pc'[t] # "idle"
      /\ \A u \in Callers \ {t} : stop_pc'[u] = stop_pc[u] /\ join_i'[u] = join_i[u]
      /\ {stop_pc[t], stop_pc'[t]} \cap {"joining", "joining_monitor"} = {}
  BY DEF StopRequest, StopWake, JoinSkip, StopReturn, StopAt, TypeOK, ControlType
<1>2. \A u \in Callers, j \in Threads : Joining(u, j)' <=> Joining(u, j)
  BY <1>1 DEF Joining
<1>3. UNCHANGED <<dining, monitor, handles>>
  BY DEF StopRequest, StopWake, JoinSkip, StopReturn
<1> QED
  BY <1>1, <1>2, <1>3

\* Caller t goes into the join of thread k.
LEMMA GoesInto ==
  ASSUME TypeOK, ProcessType, Joins, NEW t \in Callers, NEW k \in Threads,
         Claims(t, k), UNCHANGED <<pc, monitor, phil_threads, monitor_thread>>,
         \A j \in Threads : ~Joining(t, j),
         \A u \in Callers, j \in Threads :
             Joining(u, j)' <=> IF u = t THEN j = k ELSE Joining(u, j),
         CancelledInJoin => CancelledInJoin'
  PROVE  Joins'
<1>1. \A j \in Threads : joiner'[j] = IF j = k /\ joiner[j] = Nobody THEN t ELSE joiner[j]
  BY DEF Claims, ProcessType
<1>2. \A j \in Threads : Over(j)' <=> Over(j)
  BY DEF Over
<1>3. FirstJoinerWaits'
  BY <1>1, <1>2 DEF Joins, FirstJoinerWaits
<1>4. EachIsJoined'
  BY <1>1, NobodyCalls, ThreadsAre DEF Joins, EachIsJoined
<1> QED
  BY <1>3, <1>4 DEF Joins

\* Caller t comes back from the join of thread k, which it was first to call
\* and which is over, or it was not the first to call; the handle goes.
LEMMA ComesBack ==
  ASSUME TypeOK, ProcessType, Joins, NEW t \in Callers, NEW k \in Threads,
         Joining(t, k), joiner[k] = t => Over(k),
         UNCHANGED <<joiner, pc, monitor>>,
         IF k = N THEN UNCHANGED phil_threads /\ ~monitor_thread'
                  ELSE phil_threads' = phil_threads \ {k} /\ UNCHANGED monitor_thread,
         \A u \in Callers, j \in Threads :
             Joining(u, j)' <=> Joining(u, j) /\ u # t,
         \A j \in Threads : Joining(t, j) => j = k,
         CancelledInJoin => CancelledInJoin'
  PROVE  Joins'
<1>1. \A j \in Threads : Over(j)' <=> Over(j)
  BY DEF Over
<1>2. FirstJoinerWaits'
  BY <1>1 DEF Joins, FirstJoinerWaits
<1>3. ASSUME ~CancelledInJoin'
      PROVE  joiner[k] # Nobody
  BY <1>3 DEF Joins, EachIsJoined
<1>4. EachIsJoined'
  BY <1>3, ThreadsAre DEF Joins, EachIsJoined
<1> QED
  BY <1>2, <1>4 DEF Joins

\* A caller of sim_stop may be moved by these only.
Turn(t) == /\ t = "main" => main_pc = "stop"
           /\ t = "cleanup" => main_pc = "cleanup"
           /\ t = "listener" => listener = "stopping"

LEMMA StopsKeepJoins ==
  ASSUME Core, ProcessType, Joins, NEW t \in Callers, Stops(t), Turn(t)
  PROVE  Joins'
<1> USE DEF Core, PointsInv
<1>1. t = "listener" => ~CancelledInJoin
  BY DEF Turn, CancelledInJoin
<1>2. UNCHANGED <<pc, monitor, listener>>
  BY DEF Stops, StopJoins, JoinEnds, JoinRefused, JoinMonitorEnds, JoinMonitorRefused,
         StopWake, JoinSkip, StopReturn, JoinCall, JoinMonitor, JoinReturn,
         JoinMonitorReturn, process
<1>3. ASSUME \A u \in Callers \ {t} : stop_pc'[u] = stop_pc[u]
      PROVE  CancelledInJoin => CancelledInJoin'
  BY <1>1, <1>2, <1>3, CallersAre DEF CancelledInJoin
<1>4. CASE (StopWake(t) \/ JoinSkip(t) \/ StopReturn(t)) /\ UNCHANGED joiner
  BY <1>2, <1>3, <1>4, OutOfJoins, JoinsKept
<1>5. CASE JoinCall(t) /\ Claims(t, join_i[t])
  <2>1. /\ stop_pc[t] = "join" /\ stop_pc'[t] = "joining" /\ join_i' = join_i
        /\ \A u \in Callers \ {t} : stop_pc'[u] = stop_pc[u]
    BY <1>5, StopAtMoves DEF JoinCall
  <2>2. join_i[t] \in Threads /\ join_i[t] # N
    BY <1>5 DEF JoinCall, TypeOK, ControlType, Threads
  <2>3. \A u \in Callers, j \in Threads :
            Joining(u, j)' <=> IF u = t THEN j = join_i[t] ELSE Joining(u, j)
    BY <2>1, <2>2 DEF Joining
  <2>4. \A j \in Threads : ~Joining(t, j)
    BY <2>1 DEF Joining
  <2>5. UNCHANGED <<phil_threads, monitor_thread>>
    BY <1>5 DEF JoinCall
  <2> QED
    BY <1>2, <1>3, <1>5, <2>1, <2>2, <2>3, <2>4, <2>5, GoesInto
<1>6. CASE JoinMonitor(t) /\ IF monitor_thread THEN Claims(t, N) ELSE UNCHANGED joiner
  <2>1. /\ stop_pc[t] = "join" /\ join_i' = join_i
        /\ stop_pc'[t] = IF monitor_thread THEN "joining_monitor" ELSE "clear"
        /\ \A u \in Callers \ {t} : stop_pc'[u] = stop_pc[u]
        /\ UNCHANGED <<phil_threads, monitor_thread>>
    BY <1>6, StopAtMoves DEF JoinMonitor
  <2>2. N \in Threads
    BY ThreadsAre
  <2>3. \A j \in Threads : ~Joining(t, j)
    BY <2>1 DEF Joining
  <2>4. CASE monitor_thread
    <3>1. \A u \in Callers, j \in Threads :
              Joining(u, j)' <=> IF u = t THEN j = N ELSE Joining(u, j)
      BY <2>1, <2>4 DEF Joining
    <3> QED
      BY <1>2, <1>3, <1>6, <2>1, <2>2, <2>3, <2>4, <3>1, GoesInto
  <2>5. CASE ~monitor_thread
    <3>1. \A u \in Callers, j \in Threads : Joining(u, j)' <=> Joining(u, j)
      BY <2>1, <2>5 DEF Joining
    <3> QED
      BY <1>2, <1>3, <1>6, <2>1, <2>5, <3>1, JoinsKept
  <2> QED
    BY <2>4, <2>5
<1>7. CASE JoinEnds(t) \/ JoinRefused(t)
  <2> DEFINE k == join_i[t]
  <2>1. /\ stop_pc[t] = "joining" /\ stop_pc'[t] = "join"
        /\ \A u \in Callers \ {t} : stop_pc'[u] = stop_pc[u]
    BY <1>7, StopAtMoves DEF JoinEnds, JoinReturn, JoinRefused
  <2>2. k \in Threads /\ k # N
    BY <2>1 DEF TypeOK, ControlType, Threads, JoinsAPhilosopher
  <2>3. \A u \in Callers \ {t} : join_i'[u] = join_i[u]
    BY <1>7 DEF JoinEnds, JoinReturn, JoinRefused, TypeOK, ControlType
  <2>4. /\ UNCHANGED <<joiner, monitor_thread>>
        /\ phil_threads' = phil_threads \ {k}
        /\ joiner[k] = t => Over(k)
    BY <1>7, <2>2 DEF JoinEnds, JoinReturn, JoinRefused, At, Over
  <2>5. \A u \in Callers, j \in Threads : Joining(u, j)' <=> Joining(u, j) /\ u # t
    BY <2>1, <2>3 DEF Joining
  <2>6. Joining(t, k) /\ \A j \in Threads : Joining(t, j) => j = k
    BY <2>1, <2>2 DEF Joining
  <2> QED
    BY <1>2, <1>3, <2>1, <2>2, <2>4, <2>5, <2>6, ComesBack
<1>8. CASE JoinMonitorEnds(t) \/ JoinMonitorRefused(t)
  <2>1. /\ stop_pc[t] = "joining_monitor" /\ stop_pc'[t] = "clear" /\ join_i' = join_i
        /\ \A u \in Callers \ {t} : stop_pc'[u] = stop_pc[u]
    BY <1>8, StopAtMoves DEF JoinMonitorEnds, JoinMonitorReturn, JoinMonitorRefused
  <2>2. N \in Threads
    BY ThreadsAre
  <2>3. /\ UNCHANGED <<joiner, phil_threads>> /\ ~monitor_thread'
        /\ joiner[N] = t => Over(N)
    BY <1>8 DEF JoinMonitorEnds, JoinMonitorReturn, JoinMonitorRefused, Over
  <2>4. \A u \in Callers, j \in Threads : Joining(u, j)' <=> Joining(u, j) /\ u # t
    BY <2>1 DEF Joining
  <2>5. Joining(t, N) /\ \A j \in Threads : Joining(t, j) => j = N
    BY <2>1 DEF Joining
  <2> QED
    BY <1>2, <1>3, <2>1, <2>2, <2>3, <2>4, <2>5, ComesBack
<1> QED
  BY <1>4, <1>5, <1>6, <1>7, <1>8 DEF Stops, StopJoins
-----------------------------------------------------------------------------
(***************************************************************************)
(* The places of main and of the listener.                                  *)
(***************************************************************************)
LEMMA StopsKeepPlaces ==
  ASSUME Core, ProcessInv, NEW t \in Callers, Stops(t), Turn(t)
  PROVE  ProcessInv'
<1> USE DEF Core, PointsInv, ProcessInv
<1>1. Joins'
  BY StopsKeepJoins DEF Joins
<1>2. UNCHANGED <<pc, monitor, started, process>>
  BY DEF Stops, StopJoins, JoinEnds, JoinRefused, JoinMonitorEnds, JoinMonitorRefused,
         StopWake, JoinSkip, StopReturn, JoinCall, JoinMonitor, JoinReturn,
         JoinMonitorReturn
<1>3. /\ phil_threads' \subseteq phil_threads /\ (monitor_thread' => monitor_thread)
      /\ joiner' \in [Threads -> Callers \cup {Nobody}]
  <2>1. phil_threads' \subseteq phil_threads /\ (monitor_thread' => monitor_thread)
    BY DEF Stops, StopJoins, JoinEnds, JoinRefused, JoinMonitorEnds, JoinMonitorRefused,
           StopWake, JoinSkip, StopReturn, JoinCall, JoinMonitor, JoinReturn,
           JoinMonitorReturn
  <2>2. joiner' = joiner \/ \E k \in Threads : joiner' = [joiner EXCEPT ![k] = t]
    BY ThreadsAre DEF Stops, StopJoins, JoinEnds, JoinRefused, JoinMonitorEnds,
           JoinMonitorRefused, Claims, JoinCall, TypeOK, ControlType, Threads
  <2> QED
    BY <2>1, <2>2 DEF ProcessType
<1>4. /\ stop_pc[t] # "idle" /\ stop_pc'[t] # "idle"
      /\ \A u \in Callers \ {t} : stop_pc'[u] = stop_pc[u] /\ join_i'[u] = join_i[u]
  BY DEF Stops, StopJoins, JoinEnds, JoinRefused, JoinMonitorEnds, JoinMonitorRefused,
         StopWake, JoinSkip, StopReturn, JoinCall, JoinMonitor, JoinReturn,
         JoinMonitorReturn, StopAt, TypeOK, ControlType
<1>5. ProcessType'
  BY <1>2, <1>3 DEF ProcessType, process
<1>6. ListenerPlace'
  BY <1>2, <1>4, CallersAre DEF ListenerPlace, Turn, process
<1>7. MainPlace'
  BY <1>2, <1>4, CallersAre DEF MainPlace, Turn, process
<1>8. CleanupClears'
  <2>1. CASE t # "cleanup"
    BY <1>3, <1>4, <2>1, CallersAre DEF CleanupClears
  <2>2. CASE t = "cleanup"
    <3>1. join_i[t] \in 0 .. N /\ \A j \in phil_threads : j \in Phil /\ j \in 0 .. N - 1
      BY DEF Phil, TypeOK, ControlType
    <3>2. CASE StopWake(t)
      <4>1. stop_pc'[t] = "join" /\ join_i'[t] = 0 /\ UNCHANGED phil_threads
        BY <3>2 DEF StopWake, StopAt, TypeOK, ControlType
      <4> QED
        BY <2>2, <3>1, <4>1, NAssumption DEF CleanupClears
    <3>3. CASE JoinSkip(t)
      <4>1. /\ stop_pc[t] = "join" /\ stop_pc'[t] = "join" /\ join_i'[t] = join_i[t] + 1
            /\ join_i[t] \notin phil_threads /\ UNCHANGED phil_threads
        BY <3>3 DEF JoinSkip, TypeOK, ControlType
      <4>2. \A j \in phil_threads : j >= join_i[t] + 1
        BY <2>2, <3>1, <4>1 DEF CleanupClears
      <4> QED
        BY <2>2, <4>1, <4>2 DEF CleanupClears
    <3>4. CASE JoinCall(t)
      <4>1. /\ stop_pc[t] = "join" /\ stop_pc'[t] = "joining"
            /\ UNCHANGED <<join_i, phil_threads>>
        BY <3>4 DEF JoinCall, StopAt, TypeOK, ControlType
      <4> QED
        BY <2>2, <4>1 DEF CleanupClears
    <3>5. CASE JoinEnds(t) \/ JoinRefused(t)
      <4>1. /\ stop_pc[t] = "joining" /\ stop_pc'[t] = "join"
            /\ join_i'[t] = join_i[t] + 1 /\ phil_threads' = phil_threads \ {join_i[t]}
        BY <3>5 DEF JoinEnds, JoinReturn, JoinRefused, StopAt, TypeOK, ControlType
      <4>2. \A j \in phil_threads \ {join_i[t]} : j >= join_i[t] + 1
        BY <2>2, <3>1, <4>1 DEF CleanupClears
      <4> QED
        BY <2>2, <4>1, <4>2 DEF CleanupClears
    <3>6. CASE JoinMonitor(t)
      <4>1. /\ stop_pc[t] = "join" /\ join_i[t] = N
            /\ stop_pc'[t] = IF monitor_thread THEN "joining_monitor" ELSE "clear"
            /\ UNCHANGED <<phil_threads, monitor_thread>>
        BY <3>6 DEF JoinMonitor, StopAt, TypeOK, ControlType
      <4>2. phil_threads = {}
        BY <2>2, <3>1, <4>1, NAssumption DEF CleanupClears
      <4> QED
        BY <2>2, <4>1, <4>2 DEF CleanupClears
    <3>7. CASE JoinMonitorEnds(t) \/ JoinMonitorRefused(t)
      <4>1. /\ stop_pc[t] = "joining_monitor" /\ stop_pc'[t] = "clear"
            /\ UNCHANGED phil_threads /\ ~monitor_thread'
        BY <3>7 DEF JoinMonitorEnds, JoinMonitorReturn, JoinMonitorRefused, StopAt,
                    TypeOK, ControlType
      <4> QED
        BY <2>2, <4>1 DEF CleanupClears
    <3>8. CASE StopReturn(t)
      <4>1. /\ stop_pc[t] = "clear" /\ stop_pc'[t] = "returned"
            /\ UNCHANGED <<phil_threads, monitor_thread>>
        BY <3>8 DEF StopReturn, StopAt, TypeOK, ControlType
      <4> QED
        BY <2>2, <4>1 DEF CleanupClears
    <3> QED
      BY <3>2, <3>3, <3>4, <3>5, <3>6, <3>7, <3>8 DEF Stops, StopJoins
  <2> QED
    BY <2>1, <2>2
<1>9. GoneInBatch'
  BY <1>2 DEF GoneInBatch, Quiet, process
<1> QED
  BY <1>1, <1>5, <1>6, <1>7, <1>8, <1>9 DEF Joins

\* The first statement of sim_stop, in a thread that has not called it before.
LEMMA RequestKeepsPlaces ==
  ASSUME Core, ProcessInv, NEW t \in Callers, StopRequest(t),
         t = "main" => main_pc = "stop",
         t = "cleanup" => main_pc = "cleanup",
         IF t = "listener" THEN listener = "reading" /\ listener' = "stopping"
                           ELSE UNCHANGED listener,
         g_running' \in BOOLEAN,
         UNCHANGED <<interactive, main_pc, joiner>>
  PROVE  ProcessInv'
<1> USE DEF Core, PointsInv, ProcessInv
<1>1. /\ \A u \in Callers, j \in Threads : Joining(u, j)' <=> Joining(u, j)
      /\ \A u \in Callers \ {t} : stop_pc'[u] = stop_pc[u] /\ join_i'[u] = join_i[u]
      /\ UNCHANGED <<dining, monitor, handles>>
  BY OutOfJoins
<1>2. stop_pc[t] = "idle" /\ stop_pc'[t] = "wake"
  BY StopAtMoves DEF StopRequest
<1>3. CancelledInJoin => CancelledInJoin'
  BY <1>1, <1>2, CallersAre DEF CancelledInJoin
<1>4. Joins'
  BY <1>1, <1>3, JoinsKept DEF Joins
<1>5. ProcessType'
  BY DEF ProcessType
<1>6. ListenerPlace'
  BY <1>1, <1>2, CallersAre DEF ListenerPlace
<1>7. MainPlace'
  BY <1>1, <1>2, CallersAre DEF MainPlace
<1>8. CleanupClears'
  BY <1>1, <1>2, CallersAre DEF CleanupClears
<1>9. GoneInBatch'
  BY <1>1, CallersAre DEF GoneInBatch, Quiet, ListenerPlace
<1> QED
  BY <1>4, <1>5, <1>6, <1>7, <1>8, <1>9 DEF Joins

\* A step that calls no sim_stop and starts no thread, of a philosopher, of the
\* monitor, of the listener while it reads, or of main.
LEMMA PlacesKept ==
  ASSUME Core, ProcessInv, UNCHANGED <<interactive, joiner, handles, stopping>>,
         \A j \in Phil : /\ pc'[j] = "none" <=> pc[j] = "none"
                         /\ pc[j] = "done" => pc'[j] = "done",
         monitor' = "none" <=> monitor = "none",
         monitor = "done" => monitor' = "done",
         ProcessType', MainPlace', ListenerPlace',
         listener = "ended" => listener' = "ended",
         UNCHANGED <<main_pc, listener>> \/ GoneInBatch'
  PROVE  ProcessInv'
<1> USE DEF ProcessInv
<1>1. \A t \in Callers, j \in Threads : Joining(t, j)' <=> Joining(t, j)
  BY DEF Joining
<1>2. CancelledInJoin => CancelledInJoin'
  BY DEF CancelledInJoin
<1>3. Joins'
  BY <1>1, <1>2, JoinsKept DEF Joins
<1>4. CleanupClears'
  BY DEF CleanupClears
<1>5. GoneInBatch'
  BY DEF GoneInBatch, Quiet
<1> QED
  BY <1>3, <1>4, <1>5 DEF Joins

\* No thread ends twice, and none that was created is as if it never had been.
LEMMA NobodyUndone ==
  ASSUME TypeOK, NEW i \in Phil, PhilosopherStep(i)
  PROVE  \A j \in Phil : /\ pc'[j] = "none" <=> pc[j] = "none"
                         /\ pc[j] = "done" => pc'[j] = "done"
<1> USE GotoMoves DEF Jump, Show, LockFork, UnlockFork, Record, Post, Count, At
<1>1. CASE Barrier(i)
  BY <1>1, BarrierMoves DEF WithLeft
<1>2. CASE ~Barrier(i)
  <2>1. CASE CommonStep(i)
    <3>1. CASE SleepChunk(i) \/ SleepOver(i)
      <4>1. Moves(i) /\ pc[i] \notin {"none", "done"}
        BY <3>1 DEF SleepChunk, SleepOver, SleepPoints, WakeUp
      <4>2. pc'[i] # "none"
        BY <3>1 DEF SleepChunk, SleepOver, SleepPoints, WakeUp
      <4> QED
        BY <4>1, <4>2 DEF Moves, TypeOK, DiningType
    <3>2. CASE PassPause(i) \/ TakeStep(i)
      <4>1. pc[i] \in PausePoints /\ Moves(i) /\ pc'[i] = AfterPause[pc[i]]
        BY <3>2 DEF PassPause, TakeStep
      <4> QED
        BY <4>1 DEF PausePoints, AfterPause, Moves, TypeOK, DiningType
    <3>3. CASE WaitPause(i)
      BY <3>3 DEF WaitPause
    <3>4. CASE GetHungry(i)
      BY <3>4 DEF GetHungry, Moves, TypeOK, DiningType
    <3>5. CASE LoopTest(i) \/ BreakOnStop(i) \/ Think(i) \/ Complete(i)
      BY <3>5 DEF LoopTest, BreakOnStop, Think, Complete, Moves, TypeOK, DiningType
    <3> QED
      BY <2>1, <3>1, <3>2, <3>3, <3>4, <3>5 DEF CommonStep, Moves, TypeOK, DiningType
  <2>2. CASE RoomStep(i)
    BY <2>2 DEF RoomStep, CheckPermit, SemWait, ReturnPermitOnStop, CountPermit,
                AbandonPost, SemPost, UncountPermit, Moves, TypeOK, DiningType
  <2>3. CASE RecordStep(i)
    BY <2>3 DEF RecordStep, OwnLeft, OwnRight, DisownRight, DisownLeft, Abandon,
                UnsafeOwnLeft, UnsafeDisownLeft, Moves, TypeOK, DiningType
  <2>4. CASE LockStep(i)
    BY <2>4 DEF LockStep, LockLeft, UnsafeLockLeft, LockRight, TimedLock, Moves,
                TypeOK, DiningType
  <2>5. CASE UnlockStep(i)
    BY <2>5 DEF UnlockStep, UnlockLeft, UnsafeUnlockLeft, AbandonUnlock,
                UnlockRight, DropRight, Moves, TypeOK, DiningType
  <2>6. CASE ShowStep(i)
    BY <2>6 DEF ShowStep, Eat, Release, Acquiring, TimedLockExpires, TimedOut, Moves,
                TypeOK, DiningType
  <2> QED
    BY <1>2, <2>1, <2>2, <2>3, <2>4, <2>5, <2>6, StepKinds
<1> QED
  BY <1>1, <1>2

LEMMA ThreadsKeepPlaces ==
  ASSUME Core, ProcessInv, (\E i \in Phil : EnginePhilosopher(i)) \/ EngineMonitor
  PROVE  ProcessInv'
<1> USE DEF Core, PointsInv, ProcessInv
<1>1. CASE \E i \in Phil : EnginePhilosopher(i)
  <2>1. PICK i \in Phil : PhilosopherStep(i) /\ UNCHANGED <<process, joiner>>
    BY <1>1 DEF EnginePhilosopher
  <2>2. /\ UNCHANGED <<monitor, handles, stopping>>
        /\ \A j \in Phil : /\ pc'[j] = "none" <=> pc[j] = "none"
                           /\ pc[j] = "done" => pc'[j] = "done"
    BY <2>1, PhilosopherControl, NobodyUndone
  <2>3. ProcessType' /\ MainPlace' /\ ListenerPlace'
    BY <2>1, <2>2 DEF ProcessType, MainPlace, ListenerPlace, process
  <2> QED
    BY <2>1, <2>2, <2>3, PlacesKept DEF process
<1>2. CASE EngineMonitor
  <2>1. UNCHANGED <<pc, handles, stopping, process, joiner>>
    BY <1>2 DEF EngineMonitor, MonitorStep, MonitorLoop, MonitorDeadlock, MonitorFinish,
                MonitorNothing
  <2>2. monitor \notin {"none", "done"} /\ monitor' # "none"
    BY <1>2 DEF EngineMonitor, MonitorStep, MonitorLoop, MonitorDeadlock, MonitorFinish,
                MonitorNothing
  <2>3. ProcessType' /\ MainPlace' /\ ListenerPlace'
    BY <2>1, <2>2 DEF ProcessType, MainPlace, ListenerPlace, process
  <2> QED
    BY <2>1, <2>2, <2>3, PlacesKept DEF process
<1> QED
  BY <1>1, <1>2

LEMMA StartKeepsPlaces == Core /\ ProcessInv /\ Start => ProcessInv'
<1> SUFFICES ASSUME Core, ProcessInv, Start PROVE ProcessInv'
  OBVIOUS
<1> USE DEF Core, PointsInv, ProcessInv
<1>1. /\ StartStep /\ main_pc = "start" /\ started \in {"no", "creating"}
      /\ main_pc' = CASE started' = "yes" -> "poll"
                      [] started' = "failed" -> "cleanup"
                      [] OTHER -> "start"
      /\ UNCHANGED <<interactive, listener, g_running, joiner>>
  BY DEF Start, MainGoes, MainPlace
<1>2. stop_pc["main"] = "idle" \/ stop_pc["main"] = "returned"
  BY <1>1 DEF MainPlace
<1>3. stop_pc["cleanup"] = "idle" /\ UNCHANGED stopping
  BY <1>1 DEF MainPlace, StartStep, SimStart, CreatePhilosopher, CreateMonitor, CreateFails
<1>4. \A t \in Callers, j \in Threads : Joining(t, j)' <=> Joining(t, j)
  BY <1>3 DEF Joining
<1>5. CancelledInJoin => CancelledInJoin'
  BY <1>1, <1>3 DEF CancelledInJoin
<1>6. ProcessType'
  BY <1>1 DEF ProcessType
<1>7. ListenerPlace' /\ CleanupClears'
  BY <1>1, <1>3 DEF ListenerPlace, CleanupClears
<1>8. CASE SimStart \/ CreateFails
  <2>1. UNCHANGED <<pc, monitor, phil_threads, monitor_thread>>
    BY <1>8 DEF SimStart, CreateFails
  <2>2. Joins'
    BY <1>1, <1>4, <1>5, <2>1, JoinsKept DEF Joins
  <2>3. started' \in {"creating", "failed"}
    BY <1>8 DEF SimStart, CreateFails
  <2>4. MainPlace'
    BY <1>1, <1>2, <1>3, <2>1, <2>3 DEF MainPlace
  <2>5. GoneInBatch'
    BY <1>1, <2>3 DEF GoneInBatch
  <2> QED
    BY <1>6, <1>7, <2>2, <2>4, <2>5 DEF Joins
<1>9. CASE CreatePhilosopher
  <2>1. PICK i \in Phil : /\ pc[i] = "none" /\ Goto(i, "loop")
                          /\ phil_threads' = phil_threads \cup {i}
    BY <1>9 DEF CreatePhilosopher, At
  <2>2. \A j \in Phil : pc'[j] = IF j = i THEN "loop" ELSE pc[j]
    BY <2>1 DEF Goto, TypeOK, DiningType
  <2>3. /\ started = "creating"
        /\ UNCHANGED <<monitor, started, monitor_thread>>
    BY <1>9 DEF CreatePhilosopher
  <2>4. \A j \in Threads : Over(j) => Over(j)'
    BY <2>1, <2>2, <2>3, ThreadsAre DEF Over
  <2>5. FirstJoinerWaits'
    BY <1>1, <1>4, <2>4 DEF FirstJoinerWaits
  <2>6. EachIsJoined'
    BY <1>1, <1>4, <1>5, <2>1, <2>2, <2>3 DEF EachIsJoined
  <2>7. MainPlace'
    BY <1>1, <1>2, <1>3, <2>3 DEF MainPlace
  <2>8. GoneInBatch'
    BY <1>1, <2>3 DEF GoneInBatch
  <2> QED
    BY <1>6, <1>7, <2>5, <2>6, <2>7, <2>8
<1>10. CASE CreateMonitor
  <2>1. /\ \A j \in Phil : pc[j] # "none"
        /\ UNCHANGED <<pc, phil_threads>> /\ monitor_thread'
        /\ started' = "yes" /\ monitor' = "loop"
    BY <1>10 DEF CreateMonitor, At
  <2>2. MainPlace' /\ GoneInBatch'
    BY <1>1, <1>2, <1>3, <2>1 DEF MainPlace, GoneInBatch
  <2>3. EachIsJoined'
    BY <1>1, <1>4, <1>5, <2>1 DEF EachIsJoined
  <2>4. started = "creating"
    BY <1>10 DEF CreateMonitor
  <2>5. monitor = "none"
    BY <2>4 DEF MainPlace
  <2>6. FirstJoinerWaits'
    BY <1>1, <1>4, <2>1, <2>5, ThreadsAre DEF FirstJoinerWaits, Over
  <2> QED
    BY <1>6, <1>7, <2>2, <2>3, <2>6
<1> QED
  BY <1>1, <1>8, <1>9, <1>10 DEF StartStep
\* When sim_cleanup's call of sim_stop has returned and no other is inside it,
\* each thread that was created has been waited for by somebody.
LEMMA AllWereJoined ==
  ASSUME Core, ProcessInv, main_pc = "cleanup", stop_pc["cleanup"] = "returned",
         ~HandlerRuns, stop_pc["listener"] \in {"idle", "returned"}
  PROVE  /\ \A j \in Phil : pc[j] \in {"none", "done"}
         /\ monitor \in {"none", "done"}
<1> USE DEF ProcessInv
<1>1. phil_threads = {} /\ ~monitor_thread
  BY DEF CleanupClears
<1>2. ~CancelledInJoin
  BY DEF CancelledInJoin
<1>3. \A t \in Callers : stop_pc[t] \in {"idle", "returned"}
  BY CallersAre DEF HandlerRuns, MainPlace
<1>4. \A t \in Callers, j \in Threads : ~Joining(t, j)
  BY <1>3 DEF Joining
<1>5. \A j \in Threads : joiner[j] # Nobody => Over(j)
  BY <1>4 DEF FirstJoinerWaits, ProcessType
<1>6. \A j \in Phil : pc[j] = "none" \/ Over(j)
  BY <1>1, <1>2, <1>5, ThreadsAre DEF EachIsJoined
<1>7. monitor = "none" \/ Over(N)
  BY <1>1, <1>2, <1>5, ThreadsAre DEF EachIsJoined
<1> QED
  BY <1>6, <1>7, ThreadsAre DEF Over

LEMMA MainKeepsPlaces ==
  ASSUME Core, ProcessInv,
         CreateListener \/ Poll \/ CancelListener \/ JoinListener \/ Destroy
  PROVE  ProcessInv'
<1> USE DEF ProcessInv, MainGoes
<1>1. UNCHANGED <<vars, interactive, joiner>>
  BY DEF CreateListener, Poll, CancelListener, JoinListener, Destroy
<1>2. ProcessType'
  BY DEF CreateListener, Poll, CancelListener, JoinListener, Destroy, ProcessType
<1>3. MainPlace'
  <2>1. CASE CreateListener
    BY <2>1 DEF CreateListener, MainPlace
  <2>2. CASE Poll
    BY <2>2 DEF Poll, MainPlace
  <2>3. CASE CancelListener
    BY <2>3 DEF CancelListener, MainPlace
  <2>4. CASE JoinListener
    BY <2>4 DEF JoinListener, MainPlace
  <2>5. CASE Destroy
    BY <2>5 DEF Destroy, MainPlace
  <2> QED
    BY <2>1, <2>2, <2>3, <2>4, <2>5
<1>4. ListenerPlace' /\ (listener = "ended" => listener' = "ended")
  BY <1>1 DEF CreateListener, Poll, CancelListener, JoinListener, Destroy,
              ListenerPlace, MainPlace
<1>5. GoneInBatch'
  BY <1>1 DEF CreateListener, Poll, CancelListener, JoinListener, Destroy,
              GoneInBatch, Quiet
<1> QED
  BY <1>1, <1>2, <1>3, <1>4, <1>5, PlacesKept

LEMMA MainStopsKeepsPlaces ==
  ASSUME Core, ProcessInv,
         MainStops("main", "stop", "cancel") \/ MainStops("cleanup", "cleanup", "destroy")
  PROVE  ProcessInv'
<1> USE CallersAre
<1>1. CASE MainStops("main", "stop", "cancel")
  <2>1. CASE StopRequest("main") /\ UNCHANGED <<process, joiner>>
    BY <1>1, <2>1, RequestKeepsPlaces DEF MainStops, process, ProcessInv, ProcessType
  <2>2. CASE Stops("main")
    BY <1>1, <2>2, StopsKeepPlaces DEF MainStops, Turn
  <2>3. CASE /\ stop_pc["main"] = "returned" /\ MainGoes("stop", "cancel")
             /\ UNCHANGED <<vars, listener, g_running>>
    <3> USE DEF ProcessInv, MainGoes
    <3>1. ProcessType' /\ MainPlace' /\ ListenerPlace' /\ GoneInBatch'
      BY <2>3 DEF ProcessType, MainPlace, ListenerPlace, GoneInBatch
    <3> QED
      BY <2>3, <3>1, PlacesKept
  <2> QED
    BY <1>1, <2>1, <2>2, <2>3 DEF MainStops
<1>2. CASE MainStops("cleanup", "cleanup", "destroy")
  <2>1. CASE StopRequest("cleanup") /\ UNCHANGED <<process, joiner>>
    BY <1>2, <2>1, RequestKeepsPlaces DEF MainStops, process, ProcessInv, ProcessType
  <2>2. CASE Stops("cleanup")
    BY <1>2, <2>2, StopsKeepPlaces DEF MainStops, Turn
  <2>3. CASE /\ stop_pc["cleanup"] = "returned" /\ MainGoes("cleanup", "destroy")
             /\ UNCHANGED <<vars, listener, g_running>>
    <3> USE DEF MainGoes
    <3>1. ASSUME ~interactive PROVE Quiet'
      <4>1. listener = "none" /\ stop_pc["listener"] = "idle"
        BY <3>1 DEF ProcessInv, ListenerPlace
      <4>2. /\ \A j \in Phil : pc[j] \in {"none", "done"}
            /\ monitor \in {"none", "done"}
        BY <2>3, <4>1, AllWereJoined
      <4> QED
        BY <2>3, <4>1, <4>2 DEF Quiet
    <3>2. ProcessType' /\ MainPlace' /\ ListenerPlace' /\ GoneInBatch'
      BY <2>3, <3>1 DEF ProcessInv, ProcessType, MainPlace, ListenerPlace, GoneInBatch
    <3> QED
      BY <2>3, <3>2, PlacesKept DEF ProcessInv
  <2> QED
    BY <1>2, <2>1, <2>2, <2>3 DEF MainStops
<1> QED
  BY <1>1, <1>2

LEMMA ListenerKeepsPlaces ==
  ASSUME Core, ProcessInv, ListenerReads \/ ListenerStops \/ ListenerCancelled
  PROVE  ProcessInv'
<1> USE CallersAre DEF ListenerGoes
<1>1. CASE /\ ListenerGoes("reading", "reading") \/ ListenerGoes("reading", "ended")
           /\ UNCHANGED <<dining, monitor, handles, stopping, g_running, joiner>>
  <2> USE DEF ProcessInv
  <2>1. ProcessType' /\ ListenerPlace' /\ MainPlace' /\ GoneInBatch'
    BY <1>1 DEF ProcessType, ListenerPlace, MainPlace, GoneInBatch, Quiet
  <2> QED
    BY <1>1, <2>1, PlacesKept
<1>2. CASE ListenerReads
  <2>1. CASE Command /\ UNCHANGED <<g_running, joiner>>
             /\ ListenerGoes("reading", IF g_running THEN "reading" ELSE "ended")
    BY <1>1, <2>1 DEF Command, SimPause, SimResume, SimStep, SimSetSpeed
  <2>2. CASE /\ StopRequest("listener") /\ ListenerGoes("reading", "stopping")
             /\ UNCHANGED <<g_running, joiner>>
    BY <2>2, RequestKeepsPlaces DEF ProcessInv, ProcessType
  <2>3. CASE ListenerGoes("reading", "ended") /\ UNCHANGED <<vars, g_running, joiner>>
    BY <1>1, <2>3
  <2> QED
    BY <1>2, <2>1, <2>2, <2>3 DEF ListenerReads
<1>3. CASE ListenerStops
  <2>1. CASE Stops("listener")
    BY <1>3, <2>1, StopsKeepPlaces DEF ListenerStops, Turn
  <2>2. CASE /\ stop_pc["listener"] = "returned" /\ ListenerGoes("stopping", "ended")
             /\ g_running' = FALSE /\ UNCHANGED <<vars, joiner>>
    <3> USE DEF ProcessInv
    <3>1. ProcessType' /\ ListenerPlace' /\ MainPlace' /\ GoneInBatch'
      BY <2>2 DEF ProcessType, ListenerPlace, MainPlace, GoneInBatch, Quiet
    <3> QED
      BY <2>2, <3>1, PlacesKept
  <2> QED
    BY <1>3, <2>1, <2>2 DEF ListenerStops
<1>4. CASE ListenerCancelled
  <2>1. CASE ListenerGoes("reading", "ended") /\ UNCHANGED <<vars, g_running, joiner>>
    BY <1>1, <2>1
  <2>2. CASE /\ stop_pc["listener"] \in {"joining", "joining_monitor"}
             /\ ListenerGoes("stopping", "ended")
             /\ joiner' = [joiner EXCEPT ![join_i["listener"]] =
                               IF @ = "listener" THEN Nobody ELSE @]
             /\ UNCHANGED <<vars, g_running>>
    <3> USE DEF ProcessInv
    <3>1. /\ joiner' \in [Threads -> Callers \cup {Nobody}]
          /\ \A j \in Threads : joiner'[j] \in {joiner[j], Nobody}
          /\ joiner'[join_i["listener"]] # "listener"
      <4>1. join_i["listener"] \in Threads
        BY DEF Core, PointsInv, TypeOK, ControlType, Threads
      <4> QED
        BY <2>2, <4>1, NobodyCalls DEF ProcessType
    <3>2. \A t \in Callers, j \in Threads : Joining(t, j)' <=> Joining(t, j)
      BY <2>2 DEF Joining
    <3>3. FirstJoinerWaits'
      BY <2>2, <3>1, <3>2, NobodyCalls DEF FirstJoinerWaits, Over
    <3>4. EachIsJoined'
      BY <2>2 DEF EachIsJoined, CancelledInJoin
    <3>5. ProcessType' /\ ListenerPlace' /\ MainPlace' /\ CleanupClears' /\ GoneInBatch'
      BY <2>2, <3>1 DEF ProcessType, ListenerPlace, MainPlace, CleanupClears, GoneInBatch,
                        Quiet
    <3> QED
      BY <3>3, <3>4, <3>5
  <2> QED
    BY <1>4, <2>1, <2>2 DEF ListenerCancelled
<1> QED
  BY <1>2, <1>3, <1>4

LEMMA ProcessStep == Core /\ ProcessInv /\ [EngineNext]_engine => ProcessInv'
<1> SUFFICES ASSUME Core, ProcessInv, [EngineNext]_engine PROVE ProcessInv'
  OBVIOUS
<1> USE CallersAre
<1>1. CASE Main
  BY <1>1, MainKeepsPlaces, MainStopsKeepsPlaces, StartKeepsPlaces DEF Main
<1>2. CASE Stops("handler")
  BY <1>2, StopsKeepPlaces DEF Turn
<1>3. CASE Signal
  BY <1>3, RequestKeepsPlaces DEF Signal
<1>4. CASE Exited \/ UNCHANGED engine
  <2>1. UNCHANGED engine
    BY <1>4 DEF Exited
  <2> QED
    BY <2>1 DEF engine, process, ProcessInv, ProcessType, FirstJoinerWaits, EachIsJoined,
                ListenerPlace, MainPlace, CleanupClears, GoneInBatch, Quiet, Over, Joining,
                CancelledInJoin
<1> QED
  BY <1>1, <1>2, <1>3, <1>4, ThreadsKeepPlaces, ListenerKeepsPlaces DEF EngineNext, Works

LEMMA ProcessInit == EngineInit => ProcessInv
<1> SUFFICES ASSUME EngineInit PROVE ProcessInv
  OBVIOUS
<1>1. /\ stop_pc = [t \in Callers |-> "idle"] /\ joiner = [j \in Threads |-> Nobody]
      /\ \A j \in Phil : pc[j] = "none"
      /\ started = "no" /\ monitor = "none"
  BY DEF EngineInit, Init
<1>2. \A t \in Callers, j \in Threads : ~Joining(t, j) /\ joiner[j] # t
  BY <1>1, NobodyCalls DEF Joining
<1>3. FirstJoinerWaits /\ EachIsJoined
  BY <1>1, <1>2 DEF FirstJoinerWaits, EachIsJoined
<1>4. ProcessType /\ ListenerPlace /\ MainPlace /\ CleanupClears /\ GoneInBatch
  BY <1>1, CallersAre DEF EngineInit, ProcessType, ListenerPlace, MainPlace,
     CleanupClears, GoneInBatch
<1> QED
  BY <1>3, <1>4 DEF ProcessInv

LEMMA ProcessInvariant == EngineSpec => [](Core /\ ProcessInv)
  BY CoreInit, ProcessInit, CoreStep, ProcessStep, PTL DEF EngineSpec

\* Without the listener no thread is left when sim_cleanup destroys the
\* primitives, wherever the signal came and whichever of sim_start's creations
\* failed (dining_philosophers.c:16-22, 141-172, simulation.c:553-580).
THEOREM BatchEndsQuiet == EngineSpec => []QuietInBatch
<1>1. ProcessInv => QuietInBatch
  BY DEF ProcessInv, GoneInBatch, QuietInBatch
<1> QED
  BY <1>1, ProcessInvariant, PTL
-----------------------------------------------------------------------------
(***************************************************************************)
(* With the listener: main leaves its loop when the philosophers are done,  *)
(* or when the listener's sim_stop has returned.                            *)
(***************************************************************************)
LEMMA LoopKept ==
  ASSUME LeavesLoop, UNCHANGED <<main_pc, g_running, is_running, started>>,
         AllOver => AllOver', ListenerReturned => ListenerReturned',
         Unsignalled' => Unsignalled
  PROVE  LeavesLoop'
  BY DEF LeavesLoop

\* What a call of sim_stop by t changes of what main has seen.
LEMMA StopsKeepLoop ==
  ASSUME Core, LeavesLoop, NEW t \in Callers, Stops(t), Turn(t)
  PROVE  LeavesLoop'
<1> USE CallersAre DEF Core, PointsInv
<1>1. UNCHANGED <<dining, monitor, started, process>>
  BY DEF Stops, StopJoins, JoinEnds, JoinRefused, JoinMonitorEnds, JoinMonitorRefused,
         StopWake, JoinSkip, StopReturn, JoinCall, JoinMonitor, JoinReturn,
         JoinMonitorReturn
<1>2. /\ stop_pc[t] \notin {"idle", "returned"} /\ stop_pc'[t] # "idle"
      /\ \A u \in Callers \ {t} : stop_pc'[u] = stop_pc[u]
  BY DEF Stops, StopJoins, JoinEnds, JoinRefused, JoinMonitorEnds, JoinMonitorRefused,
         StopWake, JoinSkip, StopReturn, JoinCall, JoinMonitor, JoinReturn,
         JoinMonitorReturn, StopAt, TypeOK, ControlType
<1>3. CASE UNCHANGED is_running
  BY <1>1, <1>2, <1>3, LoopKept DEF AllOver, ListenerReturned, Unsignalled, process
<1>4. CASE StopReturn(t)
  <2>1. stop_pc'[t] = "returned"
    BY <1>4, StopAtMoves DEF StopReturn
  <2> QED
    BY <1>1, <1>2, <2>1 DEF LeavesLoop, AllOver, ListenerReturned, Unsignalled, Turn, process
<1> QED
  BY <1>3, <1>4 DEF Stops, StopJoins, JoinEnds, JoinRefused, JoinMonitorEnds,
     JoinMonitorRefused, StopWake, JoinSkip, JoinCall, JoinMonitor, JoinReturn,
     JoinMonitorReturn

LEMMA StartKeepsLoop ==
  ASSUME Core, ProcessInv, LeavesLoop, Start
  PROVE  LeavesLoop'
<1>1. /\ StartStep /\ main_pc = "start"
      /\ main_pc' = CASE started' = "yes" -> "poll"
                      [] started' = "failed" -> "cleanup"
                      [] OTHER -> "start"
      /\ UNCHANGED <<stopping, g_running>>
  BY DEF Start, MainGoes, StartStep, SimStart, CreatePhilosopher, CreateMonitor, CreateFails
<1> USE DEF LeavesLoop, ListenerReturned, Unsignalled
<1>2. CASE SimStart
  BY <1>1, <1>2 DEF SimStart
<1>3. CASE CreatePhilosopher
  <2>1. ~AllOver
    BY <1>3 DEF CreatePhilosopher, At, AllOver
  <2> QED
    BY <1>1, <1>3, <2>1 DEF CreatePhilosopher
<1>4. CASE CreateMonitor
  <2>1. AllOver => AllOver'
    BY <1>4 DEF CreateMonitor, AllOver
  <2> QED
    BY <1>1, <1>4, <2>1 DEF CreateMonitor
<1>5. CASE CreateFails
  BY <1>1, <1>5 DEF CreateFails
<1> QED
  BY <1>1, <1>2, <1>3, <1>4, <1>5 DEF StartStep

LEMMA MonitorKeepsLoop ==
  ASSUME Prevention, Core, LeavesLoop, EngineMonitor
  PROVE  LeavesLoop'
<1>1. UNCHANGED <<pc, started, stopping, process>>
  BY DEF EngineMonitor, MonitorStep, MonitorLoop, MonitorDeadlock, MonitorFinish,
         MonitorNothing
<1>2. CASE MonitorFinish
  <2>1. \A i \in Phil : RoundOf(i)
    BY RoundsAre DEF Core, PointsInv
  <2>2. AllOver
    BY <1>2, <2>1 DEF MonitorFinish, AllDone, RoundOf, AllOver
  <2> QED
    BY <1>1, <2>2 DEF LeavesLoop, AllOver, ListenerReturned, Unsignalled, process
<1>3. CASE UNCHANGED is_running
  BY <1>1, <1>3, LoopKept DEF AllOver, ListenerReturned, Unsignalled, process
<1> QED
  BY <1>2, <1>3 DEF EngineMonitor, MonitorStep, MonitorLoop, MonitorDeadlock, MonitorNothing

LEMMA MainKeepsLoop ==
  ASSUME Core, ProcessInv, LeavesLoop, Main
  PROVE  LeavesLoop'
<1> USE CallersAre
<1>1. ASSUME UNCHANGED <<vars, g_running>>, NEW from, NEW to, MainGoes(from, to),
             <<from, to>> \in {<<"create_listener", "start">>, <<"stop", "cancel">>,
                               <<"join_listener", "cleanup">>, <<"destroy", "exited">>}
      PROVE  LeavesLoop'
  <2>1. main_pc = from /\ main_pc' = to
    BY <1>1 DEF MainGoes
  <2>2. main_pc = "create_listener" => started = "no"
    BY DEF ProcessInv, MainPlace
  <2>3. main_pc' = "exited" => main_pc = "destroy"
    BY <1>1, <2>1
  <2>4. main_pc' # "destroy"
    BY <1>1, <2>1
  <2>5. main_pc' = "start" <=> main_pc = "create_listener"
    BY <1>1, <2>1
  <2>6. main_pc' # "poll" /\ main_pc \notin {"start", "poll"}
    BY <1>1, <2>1
  <2> QED
    BY <1>1, <2>2, <2>3, <2>4, <2>5, <2>6
       DEF LeavesLoop, AllOver, ListenerReturned, Unsignalled
<1>2. CASE CreateListener \/ JoinListener \/ Destroy
  BY <1>1, <1>2 DEF CreateListener, JoinListener, Destroy
<1>3. CASE CancelListener
  BY <1>3 DEF CancelListener, LeavesLoop, AllOver, ListenerReturned, Unsignalled
<1>4. CASE Poll
  <2>1. started = "yes" /\ main_pc = "poll" /\ main_pc' = "stop"
    BY <1>4 DEF Poll, MainGoes, ProcessInv, MainPlace
  <2> QED
    BY <1>4, <2>1 DEF Poll, RunIsOver, LeavesLoop, AllOver, ListenerReturned, Unsignalled
<1>5. ASSUME NEW t \in Callers, StopRequest(t) /\ UNCHANGED <<process, joiner>>, Core
      PROVE  LeavesLoop'
  <2>1. UNCHANGED <<dining, is_running, started>> /\ stop_pc[t] = "idle"
    BY <1>5 DEF StopRequest, StopAt
  <2>2. /\ stop_pc'[t] # "idle"
        /\ \A u \in Callers \ {t} : stop_pc'[u] = stop_pc[u]
    BY <1>5, OutOfJoins DEF Core, PointsInv
  <2> QED
    BY <1>5, <2>1, <2>2, LoopKept DEF AllOver, ListenerReturned, Unsignalled, process
<1>6. CASE MainStops("main", "stop", "cancel")
  <2>1. CASE Stops("main")
    BY <1>6, <2>1, StopsKeepLoop DEF MainStops, Turn
  <2> QED
    BY <1>1, <1>5, <1>6, <2>1 DEF MainStops
<1>7. CASE MainStops("cleanup", "cleanup", "destroy")
  <2>1. CASE Stops("cleanup")
    BY <1>7, <2>1, StopsKeepLoop DEF MainStops, Turn
  <2>2. CASE /\ stop_pc["cleanup"] = "returned" /\ MainGoes("cleanup", "destroy")
             /\ UNCHANGED <<vars, listener, g_running>>
    <3>1. ASSUME ListenerReturned, started = "yes" PROVE AllOver
      <4>1. \A j \in Phil : pc[j] \in {"none", "done"}
        BY <2>2, <3>1, AllWereJoined DEF MainGoes, ListenerReturned
      <4>2. \A j \in Phil : pc[j] # "none"
        BY <3>1 DEF ProcessInv, MainPlace
      <4> QED
        BY <4>1, <4>2 DEF AllOver
    <3> QED
      BY <2>2, <3>1 DEF MainGoes, LeavesLoop, AllOver, ListenerReturned, Unsignalled
  <2> QED
    BY <1>5, <1>7, <2>1, <2>2 DEF MainStops
<1> QED
  BY <1>2, <1>3, <1>4, <1>6, <1>7, StartKeepsLoop DEF Main

LEMMA ListenerKeepsLoop ==
  ASSUME Core, LeavesLoop, ListenerReads \/ ListenerStops \/ ListenerCancelled
  PROVE  LeavesLoop'
<1> USE CallersAre DEF ListenerGoes
<1>1. ASSUME UNCHANGED <<dining, is_running, started, stop_pc, g_running, main_pc>>
      PROVE  LeavesLoop'
  BY <1>1, LoopKept DEF AllOver, ListenerReturned, Unsignalled
<1>2. CASE ListenerReads
  <2>1. CASE StopRequest("listener") /\ UNCHANGED <<main_pc, g_running>>
    <3>1. UNCHANGED <<dining, is_running, started>>
      BY <2>1 DEF StopRequest
    <3>2. /\ stop_pc["listener"] = "idle"
          /\ \A u \in Callers \ {"listener"} : stop_pc'[u] = stop_pc[u]
      BY <2>1, StopAtMoves DEF StopRequest, Core, PointsInv
    <3> QED
      BY <2>1, <3>1, <3>2, LoopKept DEF AllOver, ListenerReturned, Unsignalled
  <2> QED
    BY <1>1, <1>2, <2>1 DEF ListenerReads, Command, SimPause, SimResume, SimStep, SimSetSpeed
<1>3. CASE ListenerStops
  <2>1. CASE Stops("listener")
    BY <1>3, <2>1, StopsKeepLoop DEF ListenerStops, Turn
  <2>2. CASE /\ stop_pc["listener"] = "returned" /\ UNCHANGED <<vars, main_pc>>
    BY <2>2 DEF LeavesLoop, AllOver, ListenerReturned, Unsignalled
  <2> QED
    BY <1>3, <2>1, <2>2 DEF ListenerStops
<1>4. CASE ListenerCancelled
  BY <1>1, <1>4 DEF ListenerCancelled
<1> QED
  BY <1>2, <1>3, <1>4

LEMMA LoopStep ==
  Prevention /\ Core /\ ProcessInv /\ LeavesLoop /\ [EngineNext]_engine => LeavesLoop'
<1> SUFFICES ASSUME Prevention, Core, ProcessInv, LeavesLoop, [EngineNext]_engine
             PROVE  LeavesLoop'
  OBVIOUS
<1> USE CallersAre
<1>1. ASSUME NEW i \in Phil, EnginePhilosopher(i) PROVE LeavesLoop'
  <2>1. PhilosopherStep(i) /\ UNCHANGED process
    BY <1>1 DEF EnginePhilosopher
  <2>2. UNCHANGED <<is_running, started, stop_pc>> /\ (AllOver => AllOver')
    BY <2>1, PhilosopherControl, NobodyUndone DEF AllOver, Core, PointsInv
  <2> QED
    BY <2>1, <2>2, LoopKept DEF ListenerReturned, Unsignalled, process
<1>2. CASE Stops("handler")
  BY <1>2, StopsKeepLoop DEF Turn
<1>3. CASE Signal
  <2>1. stop_pc'["handler"] # "idle"
    BY <1>3, OutOfJoins DEF Signal, Core, PointsInv
  <2> QED
    BY <2>1 DEF LeavesLoop, Unsignalled
<1>4. CASE Exited \/ UNCHANGED engine
  BY <1>4 DEF Exited, engine, process, LeavesLoop, AllOver, ListenerReturned, Unsignalled
<1> QED
  BY <1>1, <1>2, <1>3, <1>4, MonitorKeepsLoop, MainKeepsLoop, ListenerKeepsLoop
     DEF EngineNext, Works

\* With the listener too, under strategy 0: when the primitives are destroyed
\* after a run that started and that no signal ended, every philosopher has
\* given back its forks, also one whose join main refused because the listener
\* was in it, and that nobody waited for once main had cancelled the listener
\* (dining_philosophers.c:24-75, 141-172).
THEOREM NobodyLeftDining == Prevention => (EngineSpec => []NobodyDines)
<1> SUFFICES ASSUME Prevention PROVE EngineSpec => []NobodyDines
  OBVIOUS
<1>1. EngineInit => LeavesLoop
  BY DEF EngineInit, Init, LeavesLoop
<1>2. Core /\ LeavesLoop => NobodyDines
  <2> SUFFICES ASSUME Core, LeavesLoop, main_pc = "destroy", started = "yes",
                      Unsignalled, NEW i \in Phil
               PROVE  pc[i] = "done" /\ \A f \in Fork : fork_mutex[f] # i
    BY DEF NobodyDines, Unsignalled
  <2>1. pc[i] = "done"
    BY DEF LeavesLoop, AllOver
  <2>2. \A f \in Fork : fork_mutex[f] # i
    BY <2>1 DEF Core, PointsInv, MutexesAtPoints, LeftLocked, RightLocked,
                LeftPoints, BothPoints, UnsafeLeftPoints
  <2> QED
    BY <2>1, <2>2
<1>3. Core /\ ProcessInv /\ LeavesLoop /\ [EngineNext]_engine => LeavesLoop'
  BY LoopStep
<1> QED
  BY <1>1, <1>2, <1>3, ProcessInvariant, PTL DEF EngineSpec
-----------------------------------------------------------------------------
(***************************************************************************)
(* What holds of the simulation by itself and holds in the process too,     *)
(* whatever the threads of the process do to each other's joins.  A join    *)
(* that is refused takes the handle of a thread that may be running, so     *)
(* JoinedHaveEnded does not hold here, and nothing below rests on it.       *)
(***************************************************************************)
\* Neighbours never eat together, the table of owners agrees with the
\* mutexes, permits are neither lost nor made, and strategy 0 closes no circle
\* of waiting philosophers and never leaves everyone blocked, also while
\* several threads stop the run at once (simulation.c:147-372, 543-567).
THEOREM ProcessKeepsTableSafe ==
  EngineSpec => [](/\ NeighboursNeverEatTogether /\ ForkRecordsAgree
                   /\ PermitAccounting /\ NoCircularWait /\ SomeoneCanGoOn)
<1>1. Core => /\ NeighboursNeverEatTogether /\ ForkRecordsAgree
              /\ PermitAccounting /\ NoCircularWait
  BY PointsExclude, PointsAgree, PointsBreakCircles DEF Core, PointsInv
<1>2. Core => SomeoneCanGoOn
  BY NotAllBlocked DEF Core, SomeoneCanGoOn
<1> QED
  BY <1>1, <1>2, ProcessInvariant, PTL

\* Under strategy 0 whoever watches the table of the process sees what the
\* abstract table does: the listener, the signal, main's own call of sim_stop
\* and sim_cleanup's are steps nobody there notices
\* (dining_philosophers.c:24-75, 141-172).
THEOREM ProcessImplementsTable == Prevention => (EngineSpec => DiningSpec)
<1> SUFFICES ASSUME Prevention PROVE EngineSpec => DiningSpec
  OBVIOUS
<1>1. EngineInit => Table!Init
  BY TableInit DEF EngineInit
<1>2. Core /\ [EngineNext]_engine => [Table!Next]_Table!vars
  <2> SUFFICES ASSUME Core, [EngineNext]_engine
               PROVE  [Table!Next]_Table!vars
    OBVIOUS
  <2>1. CASE [Next]_vars
    BY <2>1, TableStep DEF Core
  <2>2. ASSUME NEW t \in Callers, StopRequest(t) \/ Refused(t)
        PROVE  UNCHANGED <<state, meals_eaten>>
    BY <2>2 DEF StopRequest, Refused, JoinRefused, JoinMonitorRefused
  <2>3. ASSUME UNCHANGED <<state, meals_eaten>>
        PROVE  [Table!Next]_Table!vars
    BY <2>3 DEF Seen, Table!vars
  <2> QED
    BY <2>1, <2>2, <2>3, EngineSteps
<1> QED
  BY <1>1, <1>2, ProcessInvariant, PTL DEF EngineSpec, DiningSpec, Table!Spec
=============================================================================
