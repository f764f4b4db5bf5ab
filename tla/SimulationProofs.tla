--------------------------- MODULE SimulationProofs ---------------------------
(***************************************************************************)
(* Theorems about the engine of Simulation.tla, for any number of           *)
(* philosophers and meals, any strategy, any commands and any callers.      *)
(***************************************************************************)
EXTENDS SimulationProperties, FiniteSetTheorems, TLAPS

USE DEF vars, dining, data, control, records, room, progress, counts, gate,
        flags, handles, stopping, others

-----------------------------------------------------------------------------
\* The ring: a philosopher's right fork is another fork than its left one.
LEMMA RightIs == \A i \in Phil : Right(i) = IF i = N - 1 THEN 0 ELSE i + 1
  BY NAssumption, SMT DEF Phil, Right

LEMMA RightIsFork == \A i \in Phil : /\ Left(i) \in Fork /\ Right(i) \in Fork
                                     /\ Right(i) # Left(i)
  BY RightIs, NAssumption DEF Phil, Fork, Left

\* Every point a checkpoint or a sleep leads to is a point of the thread.
LEMMA Labels == /\ \A l \in PausePoints : AfterPause[l] \in Points
                /\ \A l \in SleepPoints : WakeUp[l] \in Points
  BY DEF PausePoints, AfterPause, SleepPoints, WakeUp, Points, LoopPoints,
         PreventionPoints, PermitPoints, LeftPoints, BothPoints

-----------------------------------------------------------------------------
(***************************************************************************)
(* Type correctness.                                                        *)
(***************************************************************************)
LEMMA TypeInit == Init => TypeOK
<1> SUFFICES ASSUME Init PROVE TypeOK
  OBVIOUS
<1>1. /\ pc \in [Phil -> Points]
      /\ sleep_ms \in [Phil -> Nat]
      /\ meals_eaten \in [Phil -> Nat]
  BY DEF Init, Points
<1>2. /\ fork_mutex \in [Fork -> Phil \cup {NoOne}]
      /\ fork_owners \in [Fork -> Phil \cup {NoOne}]
  BY DEF Init
<1>3. forks_held \in [Phil -> [{0, 1} -> Fork \cup {NoOne}]]
  BY DEF Init
<1>4. /\ permit_semaphore \in Nat /\ current_permits \in Int
      /\ current_eating_count \in Int /\ max_concurrent_eating \in Nat
      /\ speed_ms \in Nat \ {0}
  BY NAssumption, SpeedAssumption DEF Init, Permits
<1>5. join_i \in [Callers -> 0 .. N]
  BY NAssumption DEF Init
<1> QED
  BY <1>1, <1>2, <1>3, <1>4, <1>5 DEF Init, TypeOK, DiningType, ControlType

\* A step of the dining keeps the control's types, and the other way round.
LEMMA ControlKept == ControlType /\ UNCHANGED control => ControlType'
  BY DEF ControlType

LEMMA DiningKept == DiningType /\ UNCHANGED dining => DiningType'
  BY DEF DiningType

\* The sections the engine is made of keep the types.
LEMMA JumpType ==
  ASSUME TypeOK, NEW i \in Phil, NEW from, NEW to \in Points,
         Jump(i, from, to)
  PROVE  TypeOK'
  BY DEF TypeOK, DiningType, ControlType, Jump, Goto

LEMMA ShowType ==
  ASSUME TypeOK, NEW i \in Phil, NEW from, NEW to \in Points,
         NEW s \in {"HUNGRY", "ACQUIRING_FORKS", "COMPLETED"},
         Show(i, from, s, to)
  PROVE  TypeOK'
  BY DEF TypeOK, DiningType, ControlType, Show, Goto

LEMMA LockType ==
  ASSUME TypeOK, NEW i \in Phil, NEW f \in Fork, NEW from, NEW to \in Points,
         LockFork(i, f, from, to) \/ UnlockFork(i, f, from, to)
  PROVE  TypeOK'
<1>1. pc' \in [Phil -> Points]
  BY DEF TypeOK, DiningType, LockFork, UnlockFork, Goto
<1>2. fork_mutex' \in [Fork -> Phil \cup {NoOne}]
  BY DEF TypeOK, DiningType, LockFork, UnlockFork
<1>3. DiningType'
  BY <1>1, <1>2 DEF TypeOK, DiningType, LockFork, UnlockFork
<1> QED
  BY <1>3, ControlKept DEF TypeOK, LockFork, UnlockFork

LEMMA SetOwnerType ==
  ASSUME TypeOK, NEW i \in Phil, NEW f \in Fork, NEW slot \in {0, 1},
         NEW who \in {i, NoOne}, SetOwner(i, f, slot, who)
  PROVE  /\ fork_owners' \in [Fork -> Phil \cup {NoOne}]
         /\ forks_held' \in [Phil -> [{0, 1} -> Fork \cup {NoOne}]]
<1>1. fork_owners' \in [Fork -> Phil \cup {NoOne}]
  BY DEF TypeOK, DiningType, ControlType, SetOwner
<1>2. forks_held' \in [Phil -> [{0, 1} -> Fork \cup {NoOne}]]
  <2> DEFINE v == IF who = NoOne THEN NoOne ELSE f
  <2>1. forks_held' = [forks_held EXCEPT ![i] = [forks_held[i] EXCEPT ![slot] = v]]
    BY DEF TypeOK, DiningType, ControlType, SetOwner
  <2>2. [forks_held[i] EXCEPT ![slot] = v] \in [{0, 1} -> Fork \cup {NoOne}]
    BY DEF TypeOK, DiningType, ControlType
  <2> QED
    BY <2>1, <2>2 DEF TypeOK, DiningType, ControlType
<1> QED
  BY <1>1, <1>2

LEMMA RecordType ==
  ASSUME TypeOK, NEW i \in Phil, NEW f \in Fork, NEW slot \in {0, 1},
         NEW who \in {i, NoOne}, NEW from, NEW to \in Points,
         Record(i, f, slot, who, from, to)
  PROVE  TypeOK'
  BY SetOwnerType DEF TypeOK, DiningType, ControlType, Record, Goto

LEMMA PostType ==
  ASSUME TypeOK, NEW i \in Phil, NEW from, NEW to \in Points,
         NEW d \in {-1, 1}, Post(i, from, to) \/ Count(i, d, from, to)
  PROVE  TypeOK'
  BY DEF TypeOK, DiningType, ControlType, Post, Count, Goto

LEMMA CommonStepType ==
  ASSUME TypeOK, NEW i \in Phil, CommonStep(i)
  PROVE  TypeOK'
<1> USE DEF LoopPoints, PreventionPoints, PermitPoints, LeftPoints,
            BothPoints, UnsafePoints
<1>1. CASE SleepChunk(i)
  BY <1>1, Labels DEF TypeOK, DiningType, ControlType, SleepChunk, Goto, CHUNK
<1>2. CASE SleepOver(i)
  <2> DEFINE to == CASE At(i, "sleep_eat") -> "release"
                     [] At(i, "sleep_think") ->
                           IF stop_requested THEN "complete" ELSE "pause_hungry"
                     [] At(i, "sleep_left") ->
                           IF stop_requested THEN "abandon" ELSE "lock_right"
  <2>1. to \in Points
    BY <1>2 DEF SleepOver, SleepPoints, WakeUp, At, Points
  <2> QED
    BY <1>2, <2>1 DEF TypeOK, DiningType, ControlType, SleepOver, Goto
<1>3. CASE PassPause(i)
  BY <1>3, Labels, JumpType DEF PassPause
<1>4. CASE TakeStep(i)
  BY <1>4, Labels DEF TypeOK, DiningType, ControlType, TakeStep, Goto
<1>5. CASE WaitPause(i)
  BY <1>5 DEF TypeOK, DiningType, ControlType, WaitPause
<1>6. CASE LoopTest(i)
  BY <1>6, JumpType DEF LoopTest, Points
<1>7. CASE BreakOnStop(i)
  BY <1>7, JumpType DEF BreakOnStop, Points
<1>8. CASE Think(i)
  BY <1>8 DEF TypeOK, DiningType, ControlType, Think, Goto, Points
<1>9. CASE GetHungry(i)
  BY <1>9, ShowType DEF GetHungry, Points
<1>10. CASE Complete(i)
  BY <1>10, JumpType, ShowType DEF Complete, Points
<1> QED
  BY <1>1, <1>2, <1>3, <1>4, <1>5, <1>6, <1>7, <1>8, <1>9, <1>10
     DEF CommonStep

LEMMA PreventionStepType ==
  ASSUME TypeOK, NEW i \in Phil, PreventionStep(i)
  PROVE  TypeOK'
<1> USE RightIsFork
<1>1. {"complete", "sem_wait", "got_permit", "lock_left", "own_left",
       "sleep_left", "abandon_unlock", "abandon_post", "own_right", "eat",
       "sleep_eat", "disown_right", "unlock_right", "disown_left",
       "unlock_left", "sem_post", "permit_inc", "loop"} \subseteq Points
  BY DEF Points, LoopPoints, PreventionPoints, PermitPoints, LeftPoints,
         BothPoints
<1>2. CASE CheckPermit(i)
  BY <1>1, <1>2, JumpType DEF CheckPermit
<1>3. CASE SemWait(i)
  BY <1>1, <1>3 DEF TypeOK, DiningType, ControlType, SemWait, Goto
<1>4. CASE ReturnPermitOnStop(i) \/ AbandonPost(i) \/ SemPost(i)
  BY <1>1, <1>4, PostType DEF ReturnPermitOnStop, AbandonPost, SemPost
<1>5. CASE CountPermit(i) \/ UncountPermit(i)
  BY <1>1, <1>5, PostType DEF CountPermit, UncountPermit
<1>6. CASE LockLeft(i) \/ LockRight(i)
  BY <1>1, <1>6, LockType DEF LockLeft, LockRight
<1>7. CASE AbandonUnlock(i) \/ UnlockRight(i) \/ UnlockLeft(i)
  BY <1>1, <1>7, LockType DEF AbandonUnlock, UnlockRight, UnlockLeft
<1>8. CASE OwnRight(i) \/ DisownRight(i) \/ DisownLeft(i)
  BY <1>1, <1>8, RecordType DEF OwnRight, DisownRight, DisownLeft
<1>9. CASE OwnLeft(i)
  <2>1. speed_ms \div 3 \in Nat
    BY DEF TypeOK, DiningType, ControlType
  <2> QED
    BY <1>1, <1>9, <2>1, SetOwnerType DEF TypeOK, DiningType, ControlType, OwnLeft, Goto
<1>10. CASE Abandon(i)
  BY <1>1, <1>10, SetOwnerType DEF TypeOK, DiningType, ControlType, Abandon, Goto
<1>11. CASE Eat(i)
  BY <1>1, <1>11 DEF TypeOK, DiningType, ControlType, Eat, Goto
<1>12. CASE Release(i)
  BY <1>1, <1>12 DEF TypeOK, DiningType, ControlType, Release, Goto
<1> QED
  BY <1>2, <1>3, <1>4, <1>5, <1>6, <1>7, <1>8, <1>9, <1>10, <1>11, <1>12
     DEF PreventionStep

LEMMA UnsafeStepType ==
  ASSUME TypeOK, NEW i \in Phil, UnsafeStep(i)
  PROVE  TypeOK'
<1> USE RightIsFork
<1>1. {"u_own_left", "barrier", "at_barrier", "acquiring", "timed_lock",
       "timed_out", "drop_right", "u_disown_left", "u_unlock_left",
       "complete"} \subseteq Points
  BY DEF Points, UnsafePoints, UnsafeLeftPoints
<1>2. CASE UnsafeLockLeft(i) \/ TimedLock(i)
  BY <1>1, <1>2, LockType DEF UnsafeLockLeft, TimedLock
<1>3. CASE DropRight(i) \/ UnsafeUnlockLeft(i)
  BY <1>1, <1>3, LockType DEF DropRight, UnsafeUnlockLeft
<1>4. CASE UnsafeOwnLeft(i) \/ UnsafeDisownLeft(i)
  BY <1>1, <1>4, RecordType DEF UnsafeOwnLeft, UnsafeDisownLeft
<1>5. CASE Barrier(i)
  BY <1>1, <1>5 DEF TypeOK, DiningType, ControlType, Barrier, Goto
<1>6. CASE Acquiring(i)
  BY <1>1, <1>6, ShowType DEF Acquiring
<1>7. CASE TimedLockExpires(i)
  BY <1>1, <1>7, JumpType DEF TimedLockExpires
<1>8. CASE TimedOut(i)
  BY <1>1, <1>8 DEF TypeOK, DiningType, ControlType, TimedOut, Goto
<1> QED
  BY <1>2, <1>3, <1>4, <1>5, <1>6, <1>7, <1>8 DEF UnsafeStep

LEMMA MonitorStepType ==
  ASSUME TypeOK, MonitorStep
  PROVE  TypeOK'
<1>1. CASE MonitorLoop \/ MonitorFinish \/ MonitorNothing
  <2>1. DiningType'
    BY <1>1, DiningKept DEF TypeOK, MonitorLoop, MonitorFinish, MonitorNothing
  <2>2. ControlType'
    BY <1>1 DEF TypeOK, ControlType, MonitorLoop, MonitorFinish, MonitorNothing
  <2> QED
    BY <2>1, <2>2 DEF TypeOK
<1>2. CASE MonitorDeadlock
  <2>1. state' \in [Phil -> {"DEADLOCKED"}]
    BY <1>2 DEF MonitorDeadlock
  <2>2. DiningType'
    BY <1>2, <2>1 DEF TypeOK, DiningType, MonitorDeadlock
  <2>3. ControlType'
    BY <1>2 DEF TypeOK, ControlType, MonitorDeadlock
  <2> QED
    BY <2>2, <2>3 DEF TypeOK
<1> QED
  BY <1>1, <1>2 DEF MonitorStep

LEMMA StartStepType ==
  ASSUME TypeOK, StartStep
  PROVE  TypeOK'
<1>1. CASE SimStart \/ CreateMonitor \/ CreateFails
  <2>1. DiningType'
    BY <1>1, DiningKept DEF TypeOK, SimStart, CreateMonitor, CreateFails
  <2>2. ControlType'
    BY <1>1 DEF TypeOK, ControlType, SimStart, CreateMonitor, CreateFails
  <2> QED
    BY <2>1, <2>2 DEF TypeOK
<1>2. CASE CreatePhilosopher
  <2>1. PICK i \in Phil : /\ Goto(i, "loop")
                          /\ phil_threads' = phil_threads \cup {i}
    BY <1>2 DEF CreatePhilosopher
  <2>2. pc' \in [Phil -> Points]
    BY <2>1 DEF TypeOK, DiningType, Goto, Points, LoopPoints
  <2>3. DiningType'
    BY <1>2, <2>2 DEF TypeOK, DiningType, CreatePhilosopher
  <2>4. ControlType'
    BY <1>2, <2>1 DEF TypeOK, ControlType, CreatePhilosopher
  <2> QED
    BY <2>3, <2>4 DEF TypeOK
<1> QED
  BY <1>1, <1>2 DEF StartStep

LEMMA CommandType ==
  ASSUME TypeOK, Command
  PROVE  TypeOK'
<1>1. DiningType'
  <2>1. UNCHANGED dining
    BY DEF Command, SimPause, SimResume, SimStep, SimSetSpeed
  <2> QED
    BY <2>1, DiningKept DEF TypeOK
<1>2. CASE SimPause \/ SimResume \/ SimStep
  <2>1. /\ is_paused' \in BOOLEAN /\ step_mode' \in BOOLEAN
        /\ waiting' \subseteq Phil
    BY <1>2 DEF TypeOK, ControlType, SimPause, SimResume, SimStep
  <2>2. UNCHANGED <<speed_ms, flags, monitor, handles, stopping>>
    BY <1>2 DEF SimPause, SimResume, SimStep
  <2> QED
    BY <1>1, <2>1, <2>2 DEF TypeOK, ControlType
<1>3. CASE SimSetSpeed
  <2>1. speed_ms' \in Nat \ {0}
    BY <1>3, SpeedAssumption DEF SimSetSpeed
  <2> QED
    BY <1>1, <1>3, <2>1 DEF TypeOK, ControlType, SimSetSpeed
<1> QED
  BY <1>2, <1>3 DEF Command

\* No philosopher touches the monitor, the handles or the calls of sim_stop.
LEMMA PhilosopherLeavesHandles ==
  ASSUME NEW i \in Phil, PhilosopherStep(i)
  PROVE  UNCHANGED <<monitor, handles, stopping>>
<1> USE DEF Jump, Show, LockFork, UnlockFork, Record, Post, Count
<1>1. CASE CommonStep(i)
  BY <1>1 DEF CommonStep, SleepChunk, SleepOver, PassPause, TakeStep,
              WaitPause, LoopTest, BreakOnStop, Think, GetHungry, Complete
<1>2. CASE PreventionStep(i)
  BY <1>2 DEF PreventionStep, CheckPermit, SemWait, ReturnPermitOnStop,
              CountPermit, LockLeft, OwnLeft, Abandon, AbandonUnlock,
              AbandonPost, LockRight, OwnRight, Eat, Release, DisownRight,
              UnlockRight, DisownLeft, UnlockLeft, SemPost, UncountPermit
<1>3. CASE UnsafeStep(i)
  BY <1>3 DEF UnsafeStep, UnsafeLockLeft, UnsafeOwnLeft, Barrier, Acquiring,
              TimedLock, TimedLockExpires, TimedOut, DropRight,
              UnsafeDisownLeft, UnsafeUnlockLeft
<1> QED
  BY <1>1, <1>2, <1>3 DEF PhilosopherStep

LEMMA StopStepType ==
  ASSUME TypeOK, JoinsAPhilosopher, NEW t \in Callers, StopRequest(t) \/ StopStep(t)
  PROVE  TypeOK'
<1> USE DEF StopStep, StopRequest, StopWake, JoinSkip, JoinCall, JoinReturn,
            JoinMonitor, JoinMonitorReturn, StopReturn, StopAt
<1>1. DiningType'
  BY DiningKept DEF TypeOK
<1>2. stop_pc' \in [Callers -> {"idle", "wake", "join", "joining",
                                "joining_monitor", "clear", "returned"}]
  BY DEF TypeOK, ControlType
<1>3. join_i' \in [Callers -> 0 .. N]
  <2>1. CASE StopWake(t)
    BY <2>1, NAssumption DEF TypeOK, ControlType
  <2>2. CASE JoinSkip(t)
    BY <2>2, NAssumption DEF TypeOK, ControlType
  <2>3. CASE JoinReturn(t)
    <3>1. join_i[t] + 1 \in 0 .. N
      BY <2>3, NAssumption DEF TypeOK, ControlType, JoinsAPhilosopher
    <3> QED
      BY <2>3, <3>1 DEF TypeOK, ControlType
  <2> QED
    BY <2>1, <2>2, <2>3 DEF TypeOK, ControlType
<1>4. /\ phil_threads' \subseteq Phil
      /\ monitor_thread' \in BOOLEAN /\ is_running' \in BOOLEAN
      /\ stop_requested' \in BOOLEAN /\ is_paused' \in BOOLEAN
      /\ waiting' \subseteq Phil
  BY DEF TypeOK, ControlType
<1>5. UNCHANGED <<step_mode, deadlock_occurred, monitor, started, speed_ms>>
  OBVIOUS
<1> QED
  BY <1>1, <1>2, <1>3, <1>4, <1>5 DEF TypeOK, ControlType

\* What keeps a caller's index in its range.
LEMMA JoinsNext ==
  TypeOK /\ JoinsAPhilosopher /\ [Next]_vars => JoinsAPhilosopher'
<1> SUFFICES ASSUME TypeOK, JoinsAPhilosopher, [Next]_vars
             PROVE  JoinsAPhilosopher'
  OBVIOUS
<1>1. CASE UNCHANGED stopping
  BY <1>1 DEF JoinsAPhilosopher
<1>2. ASSUME NEW t \in Callers, StopRequest(t) \/ StopStep(t)
      PROVE  JoinsAPhilosopher'
  BY <1>2 DEF JoinsAPhilosopher, TypeOK, ControlType, StopStep, StopRequest,
              StopWake, JoinSkip, JoinCall, JoinReturn, JoinMonitor,
              JoinMonitorReturn, StopReturn, StopAt
<1>3. MonitorStep \/ StartStep \/ Command => UNCHANGED stopping
  BY DEF MonitorStep, MonitorLoop, MonitorDeadlock, MonitorFinish,
         MonitorNothing, StartStep, SimStart, CreatePhilosopher,
         CreateMonitor, CreateFails, Command, SimPause, SimResume, SimStep,
         SimSetSpeed
<1>4. ASSUME NEW i \in Phil, PhilosopherStep(i) PROVE UNCHANGED stopping
  BY <1>4, PhilosopherLeavesHandles
<1> QED
  BY <1>1, <1>2, <1>3, <1>4 DEF Next, Returned

LEMMA TypeNext == TypeOK /\ JoinsAPhilosopher /\ [Next]_vars => TypeOK'
<1> SUFFICES ASSUME TypeOK, JoinsAPhilosopher, [Next]_vars PROVE TypeOK'
  OBVIOUS
<1>1. CASE UNCHANGED vars
  BY <1>1 DEF TypeOK, DiningType, ControlType
<1>2. ASSUME NEW i \in Phil, PhilosopherStep(i) PROVE TypeOK'
  BY <1>2, CommonStepType, PreventionStepType, UnsafeStepType
     DEF PhilosopherStep
<1> QED
  BY <1>1, <1>2, MonitorStepType, StartStepType, CommandType, StopStepType
     DEF Next, Returned

\* The variables of the engine keep the types they have in SimulationContext,
\* and the value of the semaphore stays a natural number.
THEOREM TypeCorrect == Spec => []TypeOK
<1> DEFINE Inv == TypeOK /\ JoinsAPhilosopher
<1>1. Init => Inv
  BY TypeInit DEF Init, JoinsAPhilosopher
<1>2. Inv /\ [Next]_vars => Inv'
  BY TypeNext, JoinsNext
<1> QED
  BY <1>1, <1>2, PTL DEF Spec
===============================================================================
