----------------------------- MODULE DiningProofs -----------------------------
(***************************************************************************)
(* The counts the engine of Simulation.tla keeps, pausing, stepping,        *)
(* resuming and stopping it, the rounds of strategy 0, that the engine      *)
(* implements the table of Dining.tla, and the deadlock of strategy 1.      *)
(***************************************************************************)
EXTENDS SafetyProofs

USE DEF vars, dining, data, control, records, room, progress, counts, gate,
        flags, handles, stopping, others

-----------------------------------------------------------------------------
(***************************************************************************)
(* The counts kept beside the semaphore and the states.                     *)
(***************************************************************************)
LEMMA OneIn ==
  ASSUME TypeOK, NEW S, NEW i \in Phil, Moves(i), pc[i] \notin S, pc'[i] \in S
  PROVE  Cardinality({j \in Phil : pc'[j] \in S})
             = Cardinality({j \in Phil : pc[j] \in S}) + 1
<1> DEFINE A == {j \in Phil : pc[j] \in S}
<1>1. {j \in Phil : pc'[j] \in S} = A \cup {i} /\ i \notin A
  BY DEF Moves, TypeOK, DiningType
<1>2. IsFiniteSet(A)
  BY HoldersFinite
<1> HIDE DEF A
<1>3. Cardinality(A \cup {i}) = Cardinality(A) + 1
  BY <1>1, <1>2, FS_AddElement
<1> QED
  BY <1>1, <1>3 DEF A

LEMMA OneOut ==
  ASSUME TypeOK, NEW S, NEW i \in Phil, Moves(i), pc[i] \in S, pc'[i] \notin S
  PROVE  Cardinality({j \in Phil : pc'[j] \in S})
             = Cardinality({j \in Phil : pc[j] \in S}) - 1
<1> DEFINE A == {j \in Phil : pc[j] \in S}
<1>1. {j \in Phil : pc'[j] \in S} = A \ {i} /\ i \in A
  BY DEF Moves, TypeOK, DiningType
<1>2. IsFiniteSet(A)
  BY HoldersFinite
<1> HIDE DEF A
<1>3. Cardinality(A \ {i}) = Cardinality(A) - 1
  BY <1>1, <1>2, FS_RemoveElement
<1> QED
  BY <1>1, <1>3 DEF A

Eaters == {i \in Phil : pc[i] \in EatingPoints}
CountsAtPoints == /\ current_permits = N - 1 - Cardinality(Counted)
                  /\ current_eating_count = Cardinality(Eaters)

\* A step that moves nobody into or out of the sets that are counted.
KeepsCounts == /\ \A j \in Phil : Keeps(j, PermitCounted)
               /\ \A j \in Phil : Keeps(j, EatingPoints)
               /\ UNCHANGED <<current_permits, counts>>

LEMMA CountsKept == CountsAtPoints /\ KeepsCounts => CountsAtPoints'
<1> SUFFICES ASSUME CountsAtPoints, KeepsCounts PROVE CountsAtPoints'
  OBVIOUS
<1>1. Counted' = Counted /\ Eaters' = Eaters
  BY DEF KeepsCounts, Keeps, Counted, Eaters
<1> QED
  BY <1>1 DEF CountsAtPoints, KeepsCounts

LEMMA KeptByMove ==
  ASSUME TypeOK, NEW i \in Phil, Moves(i), NEW S, Keeps(i, S)
  PROVE  \A j \in Phil : Keeps(j, S)
  BY DEF Moves, Keeps, TypeOK, DiningType

\* The steps that change a count.
CountingStep(i) ==
    \/ CountPermit(i) \/ UncountPermit(i) \/ Abandon(i) \/ Eat(i) \/ Release(i)

LEMMA OthersKeepCounts ==
  ASSUME TypeOK, NEW i \in Phil, PhilosopherStep(i), ~CountingStep(i)
  PROVE  KeepsCounts
<1>1. CASE Barrier(i)
  <2>1. WithLeft \cap PermitCounted = {} /\ WithLeft \cap EatingPoints = {}
    BY DEF WithLeft, PermitCounted, LeftPoints, BothPoints, EatingPoints
  <2>2. /\ \A j \in Phil : \/ pc'[j] = pc[j]
                           \/ pc[j] \in WithLeft /\ pc'[j] \in WithLeft
        /\ UNCHANGED <<current_permits, counts>>
    BY <1>1, BarrierMoves
  <2> QED
    BY <2>1, <2>2 DEF KeepsCounts, Keeps
<1>2. CASE ~Barrier(i)
  <2> SUFFICES /\ Moves(i) /\ Keeps(i, PermitCounted)
               /\ Keeps(i, EatingPoints)
               /\ UNCHANGED <<current_permits, counts>>
    BY KeptByMove DEF KeepsCounts
  <2> USE GotoMoves
      DEF Keeps, Jump, Show, LockFork, UnlockFork, Record, Post, Count, At,
          PermitCounted, LeftPoints, BothPoints, EatingPoints
  <2>1. CASE SleepChunk(i) \/ SleepOver(i)
    BY <2>1 DEF SleepChunk, SleepOver, SleepPoints, WakeUp
  <2>2. CASE PassPause(i) \/ TakeStep(i)
    <3>1. /\ pc[i] \in PausePoints /\ Moves(i) /\ pc'[i] = AfterPause[pc[i]]
          /\ UNCHANGED <<current_permits, counts>>
      BY <2>2 DEF PassPause, TakeStep
    <3> QED
      BY <3>1 DEF PausePoints, AfterPause
  <2>3. CASE WaitPause(i)
    BY <2>3 DEF WaitPause, Moves, TypeOK, DiningType
  <2>4. CASE LoopTest(i) \/ BreakOnStop(i) \/ Think(i) \/ GetHungry(i)
             \/ Complete(i)
    BY <2>4 DEF LoopTest, BreakOnStop, Think, GetHungry, Complete
  <2>5. CASE RoomStep(i)
    BY <2>5 DEF RoomStep, CountingStep, CheckPermit, SemWait,
                ReturnPermitOnStop, AbandonPost, SemPost
  <2>6. CASE RecordStep(i)
    BY <2>6 DEF RecordStep, CountingStep, OwnLeft, OwnRight, DisownRight,
                DisownLeft, UnsafeOwnLeft, UnsafeDisownLeft
  <2>7. CASE LockStep(i) \/ UnlockStep(i)
    BY <2>7 DEF LockStep, UnlockStep, LockLeft, UnsafeLockLeft, LockRight,
                TimedLock, UnlockLeft, UnsafeUnlockLeft, AbandonUnlock,
                UnlockRight, DropRight
  <2>8. CASE ShowStep(i)
    BY <2>8 DEF ShowStep, CountingStep, Acquiring, TimedLockExpires, TimedOut
  <2> QED
    BY <1>2, <2>1, <2>2, <2>3, <2>4, <2>5, <2>6, <2>7, <2>8, StepKinds
       DEF CommonStep
<1> QED
  BY <1>1, <1>2

LEMMA CountingSteps ==
  ASSUME TypeOK, CountsAtPoints, NEW i \in Phil, CountingStep(i)
  PROVE  CountsAtPoints'
<1> USE GotoMoves
    DEF Count, At, PermitCounted, LeftPoints, BothPoints, EatingPoints
<1> DEFINE SameEaters == Keeps(i, EatingPoints) /\ UNCHANGED counts
           SameCounted == Keeps(i, PermitCounted) /\ UNCHANGED current_permits
<1>1. CASE CountPermit(i)
  <2>1. /\ Moves(i) /\ SameEaters
        /\ pc[i] \notin PermitCounted /\ pc'[i] \in PermitCounted
        /\ current_permits' = current_permits - 1
    BY <1>1 DEF CountPermit, Keeps, TypeOK, DiningType
  <2> HIDE DEF PermitCounted, EatingPoints
  <2>2. Eaters' = Eaters
    BY <2>1, KeptByMove DEF Keeps, Eaters
  <2>3. Cardinality(Counted') = Cardinality(Counted) + 1
    BY <2>1, OneIn DEF Counted
  <2> QED
    BY <2>1, <2>2, <2>3, NAssumption, HoldersFinite
       DEF CountsAtPoints, Counted
<1>2. CASE UncountPermit(i) \/ Abandon(i)
  <2>1. /\ Moves(i) /\ SameEaters
        /\ pc[i] \in PermitCounted /\ pc'[i] \notin PermitCounted
        /\ current_permits' = current_permits + 1
    BY <1>2 DEF UncountPermit, Abandon, Keeps
  <2> HIDE DEF PermitCounted, EatingPoints
  <2>2. Eaters' = Eaters
    BY <2>1, KeptByMove DEF Keeps, Eaters
  <2>3. Cardinality(Counted') = Cardinality(Counted) - 1
    BY <2>1, OneOut DEF Counted
  <2> QED
    BY <2>1, <2>2, <2>3, NAssumption, HoldersFinite
       DEF CountsAtPoints, Counted
<1>3. CASE Eat(i)
  <2>1. /\ Moves(i) /\ SameCounted
        /\ pc[i] \notin EatingPoints /\ pc'[i] \in EatingPoints
        /\ current_eating_count' = current_eating_count + 1
    BY <1>3 DEF Eat, Keeps
  <2> HIDE DEF PermitCounted, EatingPoints
  <2>2. Counted' = Counted
    BY <2>1, KeptByMove DEF Keeps, Counted
  <2>3. Cardinality(Eaters') = Cardinality(Eaters) + 1
    BY <2>1, OneIn DEF Eaters
  <2> QED
    BY <2>1, <2>2, <2>3 DEF CountsAtPoints
<1>4. CASE Release(i)
  <2>1. /\ Moves(i) /\ SameCounted
        /\ pc[i] \in EatingPoints /\ pc'[i] \notin EatingPoints
        /\ current_eating_count' = current_eating_count - 1
    BY <1>4 DEF Release, Keeps
  <2> HIDE DEF PermitCounted, EatingPoints
  <2>2. Counted' = Counted
    BY <2>1, KeptByMove DEF Keeps, Counted
  <2>3. Cardinality(Eaters') = Cardinality(Eaters) - 1
    BY <2>1, OneOut DEF Eaters
  <2> QED
    BY <2>1, <2>2, <2>3 DEF CountsAtPoints
<1> QED
  BY <1>1, <1>2, <1>3, <1>4 DEF CountingStep

\* Nobody but a philosopher changes the counts.
LEMMA OtherCounts ==
  ASSUME TypeOK, MonitorStep \/ StartStep \/ Command
                 \/ (\E t \in Callers : StopRequest(t) \/ StopStep(t))
  PROVE  KeepsCounts
<1>1. UNCHANGED <<current_permits, counts>>
  BY DEF MonitorStep, MonitorLoop, MonitorDeadlock, MonitorFinish,
         MonitorNothing, StartStep, SimStart, CreatePhilosopher, CreateMonitor,
         CreateFails, Command, SimPause, SimResume, SimStep, SimSetSpeed,
         StopRequest, StopStep, StopWake, JoinSkip, JoinCall, JoinReturn,
         JoinMonitor, JoinMonitorReturn, StopReturn
<1>2. ASSUME NEW i \in Phil, Moves(i), pc[i] = "none", pc'[i] = "loop"
      PROVE  /\ \A j \in Phil : Keeps(j, PermitCounted)
             /\ \A j \in Phil : Keeps(j, EatingPoints)
  <2>1. Keeps(i, PermitCounted) /\ Keeps(i, EatingPoints)
    BY <1>2 DEF Keeps, PermitCounted, LeftPoints, BothPoints, EatingPoints
  <2> QED
    BY <1>2, <2>1, KeptByMove
<1> QED
  BY <1>1, <1>2, OtherMoves DEF KeepsCounts, Keeps

LEMMA CountsNext ==
  TypeOK /\ CountsAtPoints /\ [Next]_vars => CountsAtPoints'
<1> SUFFICES ASSUME TypeOK, CountsAtPoints, [Next]_vars PROVE CountsAtPoints'
  OBVIOUS
<1>1. CASE UNCHANGED vars
  BY <1>1, CountsKept DEF KeepsCounts, Keeps
<1>2. ASSUME NEW i \in Phil, PhilosopherStep(i) PROVE CountsAtPoints'
  BY <1>2, CountsKept, CountingSteps, OthersKeepCounts
<1> QED
  BY <1>1, <1>2, CountsKept, OtherCounts DEF Next, Returned

LEMMA CountsInit == Init => CountsAtPoints
<1> SUFFICES ASSUME Init PROVE CountsAtPoints
  OBVIOUS
<1>1. Counted = {} /\ Eaters = {}
  BY DEF Init, Counted, Eaters, PermitCounted, LeftPoints, BothPoints,
         EatingPoints
<1> QED
  BY <1>1, FS_EmptySet, NAssumption DEF Init, CountsAtPoints

\* current_permits counts what the philosophers have counted, and is never
\* more than one below zero (lines 200, 225, 293).
THEOREM PermitCountRight == Spec => []PermitCountTrails
<1>1. CountsAtPoints => PermitCountTrails
  BY HoldersFinite, NAssumption DEF CountsAtPoints, PermitCountTrails, Counted
<1> QED
  BY <1>1, CountsInit, CountsNext, TypeCorrect, PTL DEF Spec

\* No more than half the philosophers eat: each of them keeps its right
\* neighbour, another one for each, from eating.
LEMMA HalfTheTable ==
  ASSUME IndInv
  PROVE  2 * Cardinality(Eaters) <= N
<1> DEFINE Kept == {Right(i) : i \in Eaters}
           f == [i \in Eaters |-> Right(i)]
<1>1. Eaters \subseteq Phil /\ Kept \subseteq Phil
  BY RightIsFork DEF Eaters, Phil, Fork
<1>2. Eaters \cap Kept = {}
  <2> SUFFICES ASSUME NEW i \in Eaters, NEW j \in Eaters, j = Right(i)
               PROVE  FALSE
    OBVIOUS
  <2>1. /\ pc[i] \in LeftLocked /\ pc[i] \in RightLocked
        /\ pc[j] \in LeftLocked /\ pc[j] \in RightLocked
    BY DEF Eaters, EatingPoints, LeftLocked, RightLocked, BothPoints
  <2>2. fork_mutex[Right(i)] = i /\ fork_mutex[Left(j)] = j
    BY <1>1, <2>1, RightIsFork DEF IndInv, PointsInv, MutexesAtPoints
  <2> QED
    BY <1>1, <2>2, RightIsFork DEF Left
<1>3. f \in Bijection(Eaters, Kept)
  <2>1. \A i, j \in Eaters : f[i] = f[j] => i = j
    BY <1>1, RightIs, NAssumption DEF Phil
  <2>2. f \in [Eaters -> Kept] /\ \A k \in Kept : \E i \in Eaters : f[i] = k
    OBVIOUS
  <2> HIDE DEF f, Kept
  <2> QED
    BY <2>1, <2>2 DEF Bijection, Injection, Surjection, IsInjective
<1> HIDE DEF f, Kept
<1>4. IsFiniteSet(Eaters) /\ IsFiniteSet(Kept)
  BY <1>1, HoldersFinite
<1>5. Cardinality(Kept) = Cardinality(Eaters)
  <2>1. ExistsBijection(Eaters, Kept)
    BY <1>3 DEF ExistsBijection
  <2> QED
    BY <1>4, <2>1, FS_Bijection
<1>6. Cardinality(Eaters \cup Kept)
          = Cardinality(Eaters) + Cardinality(Kept) - Cardinality({})
  BY <1>2, <1>4, FS_Union
<1>7. Cardinality(Eaters \cup Kept) <= N /\ Cardinality(Eaters) \in Nat
  BY <1>1, HoldersFinite
<1> QED
  BY <1>5, <1>6, <1>7, FS_EmptySet

PeakRight == /\ current_eating_count <= max_concurrent_eating
             /\ 2 * max_concurrent_eating <= N

LEMMA PeakNext ==
  ASSUME TypeOK, PeakRight, [Next]_vars, CountsAtPoints', IndInv'
  PROVE  PeakRight'
<1>1. CASE KeepsCounts
  BY <1>1 DEF KeepsCounts, PeakRight
<1>2. ASSUME NEW i \in Phil, Eat(i) PROVE PeakRight'
  <2>1. (2 * Cardinality(Eaters) <= N)'
    BY HalfTheTable, PTL
  <2>2. 2 * current_eating_count' <= N
    BY <2>1 DEF CountsAtPoints
  <2> QED
    BY <1>2, <2>2 DEF Eat, PeakRight, TypeOK, DiningType
<1>3. ASSUME NEW i \in Phil, Release(i) PROVE PeakRight'
  BY <1>3 DEF Release, PeakRight, TypeOK, DiningType
<1>4. ASSUME NEW i \in Phil,
             CountPermit(i) \/ UncountPermit(i) \/ Abandon(i)
      PROVE  PeakRight'
  BY <1>4 DEF CountPermit, UncountPermit, Abandon, Count, PeakRight
<1>5. CASE UNCHANGED vars
  BY <1>5 DEF PeakRight
<1> QED
  BY <1>1, <1>2, <1>3, <1>4, <1>5, OtherCounts, OthersKeepCounts
     DEF Next, Returned, CountingStep

\* The count of eaters is right, and no more than half the table was ever
\* counted eating (lines 247-250, 266).
THEOREM EatersCounted == Spec => []EatingCountRight
<1>1. Init => PeakRight
  BY NAssumption DEF Init, PeakRight
<1>2. IndInv /\ CountsAtPoints /\ PeakRight => EatingCountRight
  <2> SUFFICES ASSUME IndInv, CountsAtPoints, PeakRight PROVE EatingCountRight
    OBVIOUS
  <2>1. {i \in Phil : state[i] = "EATING"} = Eaters
    BY DEF IndInv, PointsInv, StatesAtPoints, Eaters
  <2> QED
    BY <2>1 DEF CountsAtPoints, PeakRight, EatingCountRight
<1>3. TypeOK /\ PeakRight /\ [Next]_vars /\ CountsAtPoints' /\ IndInv'
          => PeakRight'
  BY PeakNext
<1> QED
  BY <1>1, <1>2, <1>3, CountsInit, CountsNext, TypeCorrect, Inductive, PTL
     DEF Spec

-----------------------------------------------------------------------------
(***************************************************************************)
(* Pausing, stepping and resuming.                                          *)
(***************************************************************************)
\* What of the control a philosopher touches: it uses up a STEP or waits.
LEMMA PhilosopherControl ==
  ASSUME NEW i \in Phil, PhilosopherStep(i)
  PROVE  /\ UNCHANGED <<is_paused, is_running, stop_requested, monitor,
                        handles, stopping, speed_ms>>
         /\ \/ TakeStep(i) \/ WaitPause(i)
            \/ UNCHANGED <<step_mode, waiting>>
<1> USE DEF Jump, Show, LockFork, UnlockFork, Record, Post, Count
<1>1. CASE CommonStep(i)
  BY <1>1 DEF CommonStep, SleepChunk, SleepOver, PassPause, TakeStep,
              WaitPause, LoopTest, BreakOnStop, Think, GetHungry, Complete
<1>2. CASE RoomStep(i)
  BY <1>2 DEF RoomStep, CheckPermit, SemWait, ReturnPermitOnStop, CountPermit,
              AbandonPost, SemPost, UncountPermit
<1>3. CASE RecordStep(i)
  BY <1>3 DEF RecordStep, OwnLeft, OwnRight, DisownRight, DisownLeft, Abandon,
              UnsafeOwnLeft, UnsafeDisownLeft
<1>4. CASE LockStep(i)
  BY <1>4 DEF LockStep, LockLeft, UnsafeLockLeft, LockRight, TimedLock
<1>5. CASE UnlockStep(i)
  BY <1>5 DEF UnlockStep, UnlockLeft, UnsafeUnlockLeft, AbandonUnlock,
              UnlockRight, DropRight
<1>6. CASE ShowStep(i)
  BY <1>6 DEF ShowStep, Eat, Release, Acquiring, TimedLockExpires, TimedOut
<1>7. CASE Barrier(i)
  BY <1>7 DEF Barrier
<1> QED
  BY <1>1, <1>2, <1>3, <1>4, <1>5, <1>6, <1>7, StepKinds

-----------------------------------------------------------------------------
LEMMA WakeupNext ==
  TypeOK /\ NoLostWakeup /\ [Next]_vars => NoLostWakeup'
<1> SUFFICES ASSUME TypeOK, NoLostWakeup, [Next]_vars PROVE NoLostWakeup'
  OBVIOUS
<1>1. CASE UNCHANGED <<is_paused, step_mode, waiting, stop_requested, stop_pc>>
  BY <1>1 DEF NoLostWakeup
<1>2. ASSUME NEW i \in Phil, PhilosopherStep(i) PROVE NoLostWakeup'
  <2>1. CASE TakeStep(i)
    BY <1>2, <2>1, PhilosopherControl DEF TakeStep, NoLostWakeup
  <2>2. CASE WaitPause(i)
    BY <1>2, <2>2, PhilosopherControl DEF WaitPause, NoLostWakeup
  <2> QED
    BY <1>1, <1>2, <2>1, <2>2, PhilosopherControl
<1>3. CASE MonitorStep
  BY <1>1, <1>3 DEF MonitorStep, MonitorLoop, MonitorDeadlock, MonitorFinish,
                    MonitorNothing
<1>4. CASE StartStep
  <2>1. CASE SimStart
    BY <2>1 DEF SimStart, NoLostWakeup
  <2> QED
    BY <1>1, <1>4, <2>1 DEF StartStep, CreatePhilosopher, CreateMonitor,
                            CreateFails
<1>5. CASE Command
  BY <1>5 DEF Command, SimPause, SimResume, SimStep, SimSetSpeed, NoLostWakeup
<1>6. ASSUME NEW t \in Callers, StopRequest(t) \/ StopStep(t)
      PROVE  NoLostWakeup'
  <2>1. CASE StopRequest(t)
    <3>1. stop_pc'[t] = "wake"
      BY <2>1 DEF StopRequest, StopAt, TypeOK, ControlType
    <3> QED
      BY <2>1, <3>1 DEF StopRequest, NoLostWakeup
  <2>2. CASE StopWake(t)
    BY <2>2 DEF StopWake, NoLostWakeup
  <2>3. CASE \/ JoinSkip(t) \/ JoinCall(t) \/ JoinReturn(t) \/ JoinMonitor(t)
             \/ JoinMonitorReturn(t) \/ StopReturn(t)
    <3>1. UNCHANGED <<is_paused, step_mode, waiting, stop_requested>>
      BY <2>3 DEF JoinSkip, JoinCall, JoinReturn, JoinMonitor,
                  JoinMonitorReturn, StopReturn
    <3>2. stop_pc[t] # "wake"
      BY <2>3 DEF JoinSkip, JoinCall, JoinReturn, JoinMonitor,
                  JoinMonitorReturn, StopReturn, StopAt
    <3>3. \A u \in Callers : u # t => stop_pc'[u] = stop_pc[u]
      BY <2>3 DEF JoinSkip, JoinCall, JoinReturn, JoinMonitor,
                  JoinMonitorReturn, StopReturn, StopAt, TypeOK, ControlType
    <3> QED
      BY <3>1, <3>2, <3>3 DEF NoLostWakeup
  <2> QED
    BY <1>6, <2>1, <2>2, <2>3 DEF StopStep
<1> QED
  BY <1>1, <1>2, <1>3, <1>4, <1>5, <1>6 DEF Next, Returned

\* No philosopher waits on pause_cond once the run is not paused, a STEP is
\* there or a stop has made its broadcast (lines 124-132, 509-551).
THEOREM WakeupsKept == Spec => []NoLostWakeup
<1>1. Init => NoLostWakeup
  BY DEF Init, NoLostWakeup
<1>2. TypeOK /\ TypeOK' /\ NoLostWakeup /\ [Next]_vars => NoLostWakeup'
  BY WakeupNext
<1> QED
  BY <1>1, <1>2, TypeCorrect, PTL DEF Spec

-----------------------------------------------------------------------------
\* Only PassPause and TakeStep take a philosopher over a checkpoint.
LEMMA OverACheckpoint ==
  ASSUME TypeOK, NEW i \in Phil, PhilosopherStep(i), pc[i] \in PausePoints,
         pc'[i] # pc[i]
  PROVE  PassPause(i) \/ TakeStep(i)
<1> USE DEF PausePoints, AfterPause, Jump, Show, LockFork, UnlockFork, Record,
            Post, Count, At
<1>1. CASE CommonStep(i)
  <2>1. ~SleepChunk(i) /\ ~SleepOver(i)
    BY DEF SleepChunk, SleepOver, SleepPoints, WakeUp
  <2>2. ~WaitPause(i)
    BY DEF WaitPause
  <2>3. ~LoopTest(i) /\ ~BreakOnStop(i) /\ ~Think(i) /\ ~GetHungry(i)
        /\ ~Complete(i)
    BY DEF LoopTest, BreakOnStop, Think, GetHungry, Complete
  <2> QED
    BY <1>1, <2>1, <2>2, <2>3 DEF CommonStep
<1>2. ~RoomStep(i)
  BY DEF RoomStep, CheckPermit, SemWait, ReturnPermitOnStop, CountPermit,
         AbandonPost, SemPost, UncountPermit
<1>3. ~RecordStep(i)
  BY DEF RecordStep, OwnLeft, OwnRight, DisownRight, DisownLeft, Abandon,
         UnsafeOwnLeft, UnsafeDisownLeft
<1>4. ~LockStep(i) /\ ~UnlockStep(i)
  BY DEF LockStep, LockLeft, UnsafeLockLeft, LockRight, TimedLock, UnlockStep,
         UnlockLeft, UnsafeUnlockLeft, AbandonUnlock, UnlockRight, DropRight
<1>5. ~ShowStep(i)
  BY DEF ShowStep, Eat, Release, Acquiring, TimedLockExpires, TimedOut
<1>6. ~Barrier(i)
  BY DEF Barrier
<1> QED
  BY <1>1, <1>2, <1>3, <1>4, <1>5, <1>6, StepKinds

\* While the run is paused, one STEP lets one philosopher over one checkpoint
\* (lines 125-129).
THEOREM OneStepEach == Spec => StepsPayForCheckpoints
<1> DEFINE Paid == \A i \in Phil :
              is_paused /\ ~stop_requested /\ pc[i] \in PausePoints
              /\ pc'[i] # pc[i]
                 => /\ step_mode /\ ~step_mode'
                    /\ \A j \in Phil \ {i} : pc'[j] = pc[j]
<1>1. TypeOK /\ [Next]_vars => Paid
  <2> SUFFICES ASSUME TypeOK, [Next]_vars, NEW i \in Phil, is_paused,
                      ~stop_requested, pc[i] \in PausePoints, pc'[i] # pc[i]
               PROVE  /\ step_mode /\ ~step_mode'
                      /\ \A j \in Phil \ {i} : pc'[j] = pc[j]
    OBVIOUS
  <2>1. ASSUME NEW k \in Phil, PhilosopherStep(k) PROVE k = i
    <3>1. CASE Barrier(k)
      <4>1. pc[i] \notin WithLeft
        BY DEF WithLeft, PausePoints, AfterPause
      <4> QED
        BY <3>1, <4>1, BarrierMoves
    <3>2. CASE ~Barrier(k)
      <4>1. Moves(k)
        BY <2>1, <3>2, StepKinds, CommonMoves, RoomMoves, RecordMoves,
           LockMoves, ShowMoves
      <4> QED
        BY <4>1 DEF Moves, TypeOK, DiningType
    <3> QED
      BY <3>1, <3>2
  <2>2. ~ (MonitorStep \/ StartStep \/ Command
           \/ (\E t \in Callers : StopRequest(t) \/ StopStep(t)))
    <3>1. pc[i] # "none"
      BY DEF PausePoints, AfterPause
    <3> QED
      BY <3>1, OtherMoves DEF Moves, TypeOK, DiningType
  <2>3. PhilosopherStep(i)
    BY <2>1, <2>2 DEF Next, Returned
  <2>4. TakeStep(i)
    BY <2>3, OverACheckpoint DEF PassPause
  <2> QED
    BY <2>4, GotoMoves DEF TakeStep, Moves, TypeOK, DiningType
<1> QED
  BY <1>1, TypeCorrect, PTL DEF Spec, StepsPayForCheckpoints

-----------------------------------------------------------------------------
(***************************************************************************)
(* Stopping.                                                                *)
(***************************************************************************)
\* When no thread runs, the table is as sim_init left it.
LEMMA EndedMeansClear ==
  ASSUME IndInv, CountsAtPoints, AllEnded
  PROVE  TableClear
<1> USE DEF LeftLocked, RightLocked, LeftOwned, RightOwned, PermitHeld,
            PermitCounted, LeftPoints, BothPoints, UnsafeLeftPoints,
            EatingPoints
<1>1. \A i \in Phil : /\ pc[i] \notin LeftLocked \cup RightLocked
                      /\ pc[i] \notin LeftOwned \cup RightOwned
                      /\ pc[i] \notin PermitHeld /\ pc[i] \notin PermitCounted
                      /\ pc[i] \notin EatingPoints
  BY DEF AllEnded, Ended
<1> HIDE DEF LeftLocked, RightLocked, LeftOwned, RightOwned, PermitHeld,
             PermitCounted, EatingPoints
<1>2. \A f \in Fork : fork_owners[f] = NoOne /\ fork_mutex[f] = NoOne
  <2>1. \A f \in Fork : /\ fork_owners[f] \in Phil \cup {NoOne}
                        /\ fork_mutex[f] \in Phil \cup {NoOne}
    BY DEF IndInv, PointsInv, TypeOK, DiningType
  <2>2. \A f \in Fork, i \in Phil : fork_owners[f] # i /\ fork_mutex[f] # i
    BY <1>1 DEF IndInv, PointsInv, MutexesAtPoints, RecordsAtPoints
  <2> QED
    BY <2>1, <2>2
<1>3. \A i \in Phil : \A s \in {0, 1} : forks_held[i][s] = NoOne
  BY <1>1 DEF IndInv, PointsInv, RecordsAtPoints
<1>4. PermitHolders = {} /\ Counted = {} /\ Eaters = {}
  BY <1>1 DEF PermitHolders, Counted, Eaters
<1>5. /\ permit_semaphore = N - 1 /\ current_permits = N - 1
      /\ current_eating_count = 0
  BY <1>4, FS_EmptySet, NAssumption
     DEF IndInv, PointsInv, PermitAccounting, CountsAtPoints, TypeOK, DiningType
<1> QED
  BY <1>2, <1>3, <1>5 DEF TableClear

\* Once sim_stop has returned, no thread runs and nothing is locked, so that
\* sim_cleanup may destroy what the threads used (lines 543-585).
THEOREM StopIsClean == Spec => []StoppedMeansQuiet
<1>1. IndInv /\ CountsAtPoints => StoppedMeansQuiet
  <2> SUFFICES ASSUME IndInv, CountsAtPoints, NEW t \in Callers,
                      stop_pc[t] = "returned"
               PROVE  /\ AllEnded /\ monitor \in {"none", "done"}
                      /\ phil_threads = {} /\ ~monitor_thread
                      /\ TableClear
    BY DEF StoppedMeansQuiet
  <2>1. phil_threads = {} /\ ~monitor_thread /\ monitor \in {"none", "done"}
    BY DEF IndInv, PointsInv, JoinedHaveEnded
  <2>2. AllEnded
    BY <2>1 DEF IndInv, PointsInv, JoinedHaveEnded, AllEnded
  <2> QED
    BY <2>1, <2>2, EndedMeansClear
<1> QED
  BY <1>1, CountsInit, CountsNext, TypeCorrect, Inductive, PTL DEF Spec

-----------------------------------------------------------------------------
(***************************************************************************)
(* The rounds of strategy 0.                                                *)
(***************************************************************************)
Prevention == Strategy = STRATEGY_DEADLOCK_PREVENTION

\* The round of one philosopher.
RoundOf(i) == /\ state[i] \notin {"ACQUIRING_FORKS", "DEADLOCKED"}
              /\ state[i] = "THINKING" => pc[i] \in ThinkingPoints
              /\ state[i] = "HUNGRY" => pc[i] \in HungryPoints
              /\ state[i] = "RELEASING_FORKS" => pc[i] \in ReleasingPoints
              /\ state[i] = "COMPLETED" <=> pc[i] = "done"
              /\ meals_eaten[i] <= MaxMeals
              /\ pc[i] \in BeforeMeal => meals_eaten[i] < MaxMeals
              /\ pc[i] \in LeavingPoints =>
                     stop_requested \/ meals_eaten[i] = MaxMeals

-----------------------------------------------------------------------------
(***************************************************************************)
(* The shape of a philosopher's steps under strategy 0.                     *)
(***************************************************************************)
USE DEF LoopPoints, PermitPoints, ThinkingPoints, HungryPoints,
        ReleasingPoints, LeavingPoints, BeforeMeal, LeftPoints, BothPoints,
        EatingPoints

LEMMA RoundCommon ==
  ASSUME TypeOK, Prevention, NEW i \in Phil, RoundOf(i), ~deadlock_occurred,
         CommonStep(i)
  PROVE  RoundOf(i)'
<1> USE GotoMoves, MealsAssumption DEF RoundOf, Jump, Show, At
<1>1. CASE SleepChunk(i)
  <2>1. /\ pc[i] \in SleepPoints /\ pc'[i] = WakeUp[pc[i]]
        /\ UNCHANGED <<state, meals_eaten, stop_requested>>
    BY <1>1 DEF SleepChunk
  <2> QED
    BY <2>1 DEF SleepPoints, WakeUp
<1>2. CASE SleepOver(i)
  <2>1. CASE At(i, "sleep_eat")
    BY <1>2, <2>1 DEF SleepOver
  <2>2. CASE At(i, "sleep_think")
    BY <1>2, <2>2 DEF SleepOver
  <2>3. CASE At(i, "sleep_left")
    BY <1>2, <2>3 DEF SleepOver
  <2> QED
    BY <1>2, <2>1, <2>2, <2>3 DEF SleepOver, SleepPoints, WakeUp
<1>3. CASE PassPause(i) \/ TakeStep(i)
  <2>1. /\ pc[i] \in PausePoints /\ pc'[i] = AfterPause[pc[i]]
        /\ UNCHANGED <<state, meals_eaten, stop_requested>>
    BY <1>3 DEF PassPause, TakeStep
  <2> QED
    BY <2>1 DEF PausePoints, AfterPause
<1>4. CASE WaitPause(i)
  BY <1>4 DEF WaitPause
<1>5. CASE LoopTest(i)
  <2>1. meals_eaten[i] \in Nat
    BY DEF TypeOK, DiningType
  <2> QED
    BY <1>5, <2>1 DEF LoopTest
<1>6. CASE BreakOnStop(i)
  BY <1>6 DEF BreakOnStop
<1>7. CASE Think(i)
  BY <1>7 DEF Think, TypeOK, DiningType
<1>8. CASE GetHungry(i)
  BY <1>8 DEF GetHungry, Prevention, TypeOK, DiningType
<1>9. CASE Complete(i)
  BY <1>9 DEF Complete, TypeOK, DiningType
<1> QED
  BY <1>1, <1>2, <1>3, <1>4, <1>5, <1>6, <1>7, <1>8, <1>9 DEF CommonStep

LEMMA RoundPrevention ==
  ASSUME TypeOK, StatesAtPoints, NEW i \in Phil, RoundOf(i), PreventionStep(i)
  PROVE  RoundOf(i)'
<1> USE GotoMoves DEF RoundOf, Jump, LockFork, UnlockFork, Record, Post, Count,
                      At
<1>1. CASE \/ CheckPermit(i) \/ SemWait(i) \/ ReturnPermitOnStop(i)
           \/ CountPermit(i) \/ AbandonPost(i) \/ SemPost(i)
           \/ UncountPermit(i)
  BY <1>1 DEF CheckPermit, SemWait, ReturnPermitOnStop, CountPermit,
              AbandonPost, SemPost, UncountPermit
<1>2. CASE \/ OwnLeft(i) \/ Abandon(i) \/ OwnRight(i) \/ DisownRight(i)
           \/ DisownLeft(i)
  BY <1>2 DEF OwnLeft, Abandon, OwnRight, DisownRight, DisownLeft
<1>3. CASE \/ LockLeft(i) \/ LockRight(i) \/ AbandonUnlock(i)
           \/ UnlockRight(i) \/ UnlockLeft(i)
  BY <1>3 DEF LockLeft, LockRight, AbandonUnlock, UnlockRight, UnlockLeft
<1>4. CASE Eat(i)
  <2>1. /\ state'[i] = "EATING" /\ meals_eaten'[i] = meals_eaten[i] + 1
        /\ pc[i] = "eat" /\ pc'[i] = "sleep_eat"
    BY <1>4 DEF Eat, TypeOK, DiningType
  <2>2. meals_eaten[i] \in Nat
    BY DEF TypeOK, DiningType
  <2> QED
    BY <2>1, <2>2, MealsAssumption
<1>5. CASE Release(i)
  BY <1>5 DEF Release, TypeOK, DiningType
<1> QED
  BY <1>1, <1>2, <1>3, <1>4, <1>5 DEF PreventionStep

\* The steps that change what a philosopher is shown as, or its meals.
LEMMA Looks ==
  ASSUME TypeOK, NEW i \in Phil, CommonStep(i) \/ PreventionStep(i)
  PROVE  /\ Moves(i) /\ UNCHANGED deadlock_occurred
         /\ \/ Think(i) \/ GetHungry(i) \/ Eat(i) \/ Release(i)
            \/ Complete(i) /\ ~deadlock_occurred
            \/ UNCHANGED <<state, meals_eaten>>
<1>1. Moves(i)
  <2>1. CASE PreventionStep(i)
    BY <2>1, RoomMoves, RecordMoves, LockMoves, ShowMoves
       DEF PreventionStep, RoomStep, RecordStep, LockStep, UnlockStep, ShowStep
  <2> QED
    BY <2>1, CommonMoves
<1> USE DEF Jump, Show, LockFork, UnlockFork, Record, Post, Count
<1>2. CASE CommonStep(i)
  BY <1>1, <1>2 DEF CommonStep, SleepChunk, SleepOver, PassPause, TakeStep,
                    WaitPause, LoopTest, BreakOnStop, Think, GetHungry, Complete
<1>3. CASE PreventionStep(i)
  BY <1>1, <1>3
     DEF PreventionStep, CheckPermit, SemWait, ReturnPermitOnStop, CountPermit,
         LockLeft, OwnLeft, Abandon, AbandonUnlock, AbandonPost, LockRight,
         OwnRight, Eat, Release, DisownRight, UnlockRight, DisownLeft,
         UnlockLeft, SemPost, UncountPermit
<1> QED
  BY <1>2, <1>3

\* Each strategy takes its own steps only.
LEMMA OwnStrategy ==
  ASSUME PointsOfStrategy, NEW i \in Phil, PhilosopherStep(i)
  PROVE  CommonStep(i) \/ IF Prevention THEN PreventionStep(i)
                                        ELSE UnsafeStep(i)
<1> USE DEF Jump, Show, LockFork, UnlockFork, Record, Post, Count, At
<1>1. CASE Prevention
  <2>1. pc[i] \notin UnsafePoints
    BY <1>1 DEF PointsOfStrategy, Prevention
  <2>2. ~UnsafeStep(i)
    BY <2>1 DEF UnsafeStep, UnsafePoints, UnsafeLeftPoints, UnsafeLockLeft,
                UnsafeOwnLeft, Barrier, Acquiring, TimedLock, TimedLockExpires,
                TimedOut, DropRight, UnsafeDisownLeft, UnsafeUnlockLeft
  <2> QED
    BY <1>1, <2>2 DEF PhilosopherStep
<1>2. CASE ~Prevention
  <2>1. pc[i] \notin PreventionPoints
    BY <1>2 DEF PointsOfStrategy, Prevention
  <2>2. ~PreventionStep(i)
    BY <2>1
       DEF PreventionStep, PreventionPoints, CheckPermit, SemWait,
           ReturnPermitOnStop, CountPermit, LockLeft, OwnLeft, Abandon,
           AbandonUnlock, AbandonPost, LockRight, OwnRight, Eat, Release,
           DisownRight, UnlockRight, DisownLeft, UnlockLeft, SemPost,
           UncountPermit
  <2> QED
    BY <1>2, <2>2 DEF PhilosopherStep
<1> QED
  BY <1>1, <1>2

-----------------------------------------------------------------------------
(***************************************************************************)
(* The rounds are kept.                                                     *)
(***************************************************************************)
HIDE DEF LoopPoints, PermitPoints, ThinkingPoints, HungryPoints,
         ReleasingPoints, LeavingPoints, BeforeMeal, LeftPoints, BothPoints,
         EatingPoints

LEMMA RoundsAre ==
  RoundsAtPoints <=>
      /\ \A i \in Phil : meals_eaten[i] <= MaxMeals
      /\ Prevention => /\ ~deadlock_occurred
                       /\ started = "no" => \A i \in Phil : pc[i] = "none"
                       /\ \A i \in Phil : RoundOf(i)
  BY DEF RoundsAtPoints, Prevention, RoundOf

\* A philosopher's step leaves the round of the others alone.
LEMMA RoundOfOthers ==
  ASSUME TypeOK, NEW i \in Phil, CommonStep(i) \/ PreventionStep(i),
         NEW j \in Phil, j # i
  PROVE  UNCHANGED <<pc[j], state[j], meals_eaten[j]>>
<1>1. pc'[j] = pc[j]
  BY Looks DEF Moves, TypeOK, DiningType
<1>2. state'[j] = state[j] /\ meals_eaten'[j] = meals_eaten[j]
  BY Looks DEF Think, GetHungry, Eat, Release, Complete, Show, TypeOK,
               DiningType
<1> QED
  BY <1>1, <1>2

LEMMA RoundsPhilosopher ==
  ASSUME TypeOK, PointsOfStrategy, StatesAtPoints, RoundsAtPoints,
         NEW i \in Phil, PhilosopherStep(i)
  PROVE  RoundsAtPoints'
<1>1. CASE Prevention
  <2>1. CommonStep(i) \/ PreventionStep(i)
    BY <1>1, OwnStrategy
  <2>2. /\ ~deadlock_occurred /\ \A j \in Phil : RoundOf(j)
        /\ started = "no" => \A j \in Phil : pc[j] = "none"
    BY <1>1, RoundsAre
  <2>3. UNCHANGED <<deadlock_occurred, stop_requested, started>>
    BY <2>1, Looks, PhilosopherControl
  <2>4. \A j \in Phil : RoundOf(j)'
    <3>1. RoundOf(i)'
      BY <1>1, <2>1, <2>2, RoundCommon, RoundPrevention
    <3>2. \A j \in Phil \ {i} : RoundOf(j)'
      BY <2>1, <2>2, <2>3, RoundOfOthers DEF RoundOf
    <3> QED
      BY <3>1, <3>2
  <2>5. started # "no"
    <3>1. pc[i] # "none"
      BY <2>1 DEF CommonStep, PreventionStep, SleepChunk, SleepOver,
                  SleepPoints, WakeUp, PassPause, TakeStep, WaitPause,
                  PausePoints, AfterPause, LoopTest, BreakOnStop, Think,
                  GetHungry, Complete, CheckPermit, SemWait,
                  ReturnPermitOnStop, CountPermit, LockLeft, OwnLeft, Abandon,
                  AbandonUnlock, AbandonPost, LockRight, OwnRight, Eat,
                  Release, DisownRight, UnlockRight, DisownLeft, UnlockLeft,
                  SemPost, UncountPermit, Jump, Show, LockFork, UnlockFork,
                  Record, Post, Count, At
    <3> QED
      BY <2>2, <3>1
  <2>6. \A j \in Phil : meals_eaten'[j] <= MaxMeals
    BY <2>4 DEF RoundOf
  <2> QED
    BY <2>2, <2>3, <2>4, <2>5, <2>6 DEF RoundsAtPoints, RoundOf
<1>2. CASE ~Prevention
  <2>1. UNCHANGED meals_eaten
    <3>1. CASE CommonStep(i)
      BY <3>1 DEF CommonStep, SleepChunk, SleepOver, PassPause, TakeStep,
                  WaitPause, LoopTest, BreakOnStop, Think, GetHungry, Complete,
                  Jump, Show
    <3>2. CASE UnsafeStep(i)
      BY <3>2 DEF UnsafeStep, UnsafeLockLeft, UnsafeOwnLeft, Barrier,
                  Acquiring, TimedLock, TimedLockExpires, TimedOut, DropRight,
                  UnsafeDisownLeft, UnsafeUnlockLeft, Jump, Show, LockFork,
                  UnlockFork, Record
    <3> QED
      BY <1>2, <3>1, <3>2, OwnStrategy
  <2> QED
    BY <1>2, <2>1 DEF RoundsAtPoints, Prevention
<1> QED
  BY <1>1, <1>2

LEMMA RoundsNext ==
  TypeOK /\ PointsOfStrategy /\ StatesAtPoints /\ RoundsAtPoints /\ [Next]_vars
      => RoundsAtPoints'
<1> SUFFICES ASSUME TypeOK, PointsOfStrategy, StatesAtPoints, RoundsAtPoints,
                    [Next]_vars
             PROVE  RoundsAtPoints'
  OBVIOUS
<1>1. ASSUME UNCHANGED <<pc, state, meals_eaten, deadlock_occurred>>,
             started' = "no" => started = "no",
             stop_requested => stop_requested'
      PROVE  RoundsAtPoints'
  BY <1>1 DEF RoundsAtPoints
<1>2. CASE MonitorDeadlock
  <2>1. ~Prevention /\ UNCHANGED meals_eaten
    BY <1>2 DEF MonitorDeadlock, CircularWaitSeen, Prevention,
                STRATEGY_DEADLOCK_PREVENTION, STRATEGY_UNSAFE_DEADLOCK
  <2> QED
    BY <2>1 DEF RoundsAtPoints, Prevention
<1>3. CASE MonitorLoop \/ MonitorFinish \/ MonitorNothing \/ Command
  BY <1>1, <1>3 DEF MonitorLoop, MonitorFinish, MonitorNothing, Command,
                    SimPause, SimResume, SimStep, SimSetSpeed
<1>4. CASE SimStart
  <2>1. Prevention => \A i \in Phil : pc[i] = "none"
    BY <1>4, RoundsAre DEF SimStart
  <2>2. "none" \notin LeavingPoints
    BY DEF LeavingPoints
  <2> QED
    BY <1>4, <2>1, <2>2 DEF SimStart, RoundsAtPoints, Prevention
<1>5. CASE CreatePhilosopher
  <2>1. PICK i \in Phil : pc[i] = "none" /\ Goto(i, "loop")
    BY <1>5 DEF CreatePhilosopher, At
  <2>2. Moves(i) /\ pc'[i] = "loop"
    BY <2>1, GotoMoves
  <2>3. UNCHANGED <<state, meals_eaten, deadlock_occurred, stop_requested,
                    started>> /\ started = "creating"
    BY <1>5 DEF CreatePhilosopher
  <2>4. ASSUME Prevention PROVE \A j \in Phil : RoundOf(j)'
    <3>1. \A j \in Phil \ {i} : RoundOf(j)'
      BY <2>2, <2>3, <2>4, RoundsAre DEF RoundOf, Moves, TypeOK, DiningType
    <3>2. RoundOf(i)
      BY <2>4, RoundsAre
    <3>3. RoundOf(i)'
      BY <2>1, <2>2, <2>3, <3>2
         DEF RoundOf, ThinkingPoints, HungryPoints, ReleasingPoints,
             LoopPoints, PermitPoints, LeftPoints, LeavingPoints, BeforeMeal
    <3> QED
      BY <3>1, <3>3
  <2> QED
    BY <2>3, <2>4, RoundsAre DEF RoundsAtPoints, RoundOf, Prevention
<1>6. CASE CreateMonitor \/ CreateFails
  BY <1>1, <1>6 DEF CreateMonitor, CreateFails
<1>7. ASSUME NEW t \in Callers, StopRequest(t) \/ StopStep(t)
      PROVE  RoundsAtPoints'
  BY <1>1, <1>7 DEF StopRequest, StopStep, StopWake, JoinSkip, JoinCall,
                    JoinReturn, JoinMonitor, JoinMonitorReturn, StopReturn
<1>8. CASE UNCHANGED vars
  BY <1>1, <1>8
<1> QED
  BY <1>2, <1>3, <1>4, <1>5, <1>6, <1>7, <1>8, RoundsPhilosopher
     DEF Next, MonitorStep, StartStep, Returned

LEMMA RoundsInit == Init => RoundsAtPoints
  BY MealsAssumption
     DEF Init, RoundsAtPoints, ThinkingPoints, BeforeMeal, LeavingPoints,
         LoopPoints, PermitPoints

\* In every round of strategy 0 the program point tells what the philosopher
\* is shown as, that it has a meal left to eat before the meal and none left,
\* or a stop to obey, when it leaves (lines 160-371).
THEOREM Rounds == Spec => []RoundsAtPoints
<1>1. Init => RoundsAtPoints
  BY RoundsInit
<1>2. IndInv /\ RoundsAtPoints /\ [Next]_vars => RoundsAtPoints'
  BY RoundsNext DEF IndInv, PointsInv
<1> QED
  BY <1>1, <1>2, Inductive, PTL DEF Spec

\* Nobody has more than max_meals; a philosopher that is COMPLETED in a run of
\* strategy 0 that nobody stopped has had them all (lines 160-162, 250, 365).
THEOREM FullMeals == Spec => []FullUnlessStopped
<1>1. RoundsAtPoints => FullUnlessStopped
  BY DEF RoundsAtPoints, FullUnlessStopped, LeavingPoints
<1> QED
  BY <1>1, Rounds, PTL

-----------------------------------------------------------------------------
(***************************************************************************)
(* The end of a run.                                                        *)
(***************************************************************************)
\* is_running is taken back by the monitor when everybody is done, or by
\* sim_stop when everybody has been joined; neither happens during sim_start.
RunningUntilEnded == /\ started = "creating" => is_running /\ monitor = "none"
                     /\ started = "no" => monitor = "none"
                     /\ started = "yes" /\ ~is_running => AllEnded

LEMMA RunningPhilosopher ==
  ASSUME TypeOK, RunningUntilEnded, NEW i \in Phil, PhilosopherStep(i)
  PROVE  RunningUntilEnded'
<1>1. UNCHANGED <<started, monitor, is_running>>
  BY PhilosopherControl
<1>2. ~AllEnded
  BY EndedDoesNothing DEF AllEnded
<1> QED
  BY <1>1, <1>2 DEF RunningUntilEnded

LEMMA RunningNext ==
  Prevention /\ IndInv /\ RoundsAtPoints /\ RunningUntilEnded /\ [Next]_vars
      => RunningUntilEnded'
<1> SUFFICES ASSUME Prevention, IndInv, RoundsAtPoints, RunningUntilEnded,
                    [Next]_vars
             PROVE  RunningUntilEnded'
  OBVIOUS
<1> USE DEF RunningUntilEnded, AllEnded, Ended
<1>1. CASE UNCHANGED <<pc, started, monitor, is_running>>
  BY <1>1
<1>2. CASE MonitorFinish
  <2>1. \A i \in Phil : state[i] = "COMPLETED"
    BY <1>2, RoundsAre DEF MonitorFinish, AllDone, RoundOf
  <2>2. AllEnded
    BY <2>1, RoundsAre DEF RoundOf
  <2> QED
    BY <1>2, <2>2 DEF MonitorFinish
<1>3. CASE MonitorLoop \/ MonitorDeadlock \/ MonitorNothing
  BY <1>3 DEF MonitorLoop, MonitorDeadlock, MonitorNothing
<1>4. CASE StartStep
  BY <1>4 DEF StartStep, SimStart, CreatePhilosopher, CreateMonitor, CreateFails
<1>5. CASE Command
  BY <1>1, <1>5 DEF Command, SimPause, SimResume, SimStep, SimSetSpeed
<1>6. ASSUME NEW t \in Callers, StopRequest(t) \/ StopStep(t)
      PROVE  RunningUntilEnded'
  <2>1. CASE StopReturn(t)
    <3>1. phil_threads = {} /\ started \in {"failed", "yes"}
      BY <2>1 DEF StopReturn, StopAt, IndInv, PointsInv, JoinedHaveEnded
    <3>2. AllEnded
      BY <3>1 DEF IndInv, PointsInv, JoinedHaveEnded
    <3> QED
      BY <2>1, <3>1, <3>2 DEF StopReturn
  <2> QED
    BY <1>1, <1>6, <2>1
       DEF StopRequest, StopStep, StopWake, JoinSkip, JoinCall, JoinReturn,
           JoinMonitor, JoinMonitorReturn
<1> QED
  BY <1>1, <1>2, <1>3, <1>4, <1>5, <1>6, RunningPhilosopher
     DEF Next, MonitorStep, Returned, IndInv, PointsInv

\* When a run of strategy 0 is over, everything is back on the table, before
\* sim_stop joins anybody (lines 413-418, 566).
THEOREM EndIsClean == Spec => []FinishedMeansReturned
<1>1. CASE ~Prevention
  <2>1. FinishedMeansReturned
    BY <1>1 DEF FinishedMeansReturned, Prevention
  <2> QED
    BY <2>1, PTL
<1>2. CASE Prevention
  <2>1. Init => RunningUntilEnded
    BY DEF Init, RunningUntilEnded
  <2>2. IndInv /\ RoundsAtPoints /\ RunningUntilEnded /\ [Next]_vars
            => RunningUntilEnded'
    BY <1>2, RunningNext
  <2>3. IndInv /\ CountsAtPoints /\ RunningUntilEnded => FinishedMeansReturned
    BY EndedMeansClear DEF RunningUntilEnded, FinishedMeansReturned
  <2> QED
    BY <2>1, <2>2, <2>3, CountsInit, CountsNext, TypeCorrect, Inductive,
       Rounds, PTL DEF Spec
<1> QED
  BY <1>1, <1>2

-----------------------------------------------------------------------------
(***************************************************************************)
(* The refinement.                                                          *)
(***************************************************************************)
\* Neighbours of a philosopher with both forks are not shown EATING.
LEMMA NeighboursIdle ==
  ASSUME PointsInv, NEW i \in Phil, pc[i] = "eat", NEW j \in Phil,
         state[j] = "EATING"
  PROVE  Right(i) # j /\ Right(j) # i
<1>1. pc[i] \in LeftLocked /\ pc[i] \in RightLocked
  BY DEF LeftLocked, RightLocked, BothPoints
<1>2. pc[j] \in EatingPoints
  BY DEF PointsInv, StatesAtPoints
<1>3. i # j /\ pc[j] \in LeftLocked /\ pc[j] \in RightLocked
  BY <1>2 DEF LeftLocked, RightLocked, BothPoints, EatingPoints
<1>4. /\ fork_mutex[Left(i)] = i /\ fork_mutex[Right(i)] = i
      /\ fork_mutex[Left(j)] = j /\ fork_mutex[Right(j)] = j
  BY <1>1, <1>3, RightIsFork DEF PointsInv, MutexesAtPoints
<1> QED
  BY <1>3, <1>4 DEF Left

\* How each state of a philosopher looks.
Look(s) == CASE s \in {"THINKING", "RELEASING_FORKS"} -> "thinking"
             [] s \in {"HUNGRY", "ACQUIRING_FORKS", "DEADLOCKED"} -> "hungry"
             [] s = "EATING" -> "eating"
             [] s = "COMPLETED" -> "gone"

LEMMA SeenIs == Seen = [i \in Phil |-> Look(state[i])]
  BY DEF Seen, Look

LEMMA SeenAfter ==
  ASSUME TypeOK, NEW i \in Phil, NEW s,
         state' = [state EXCEPT ![i] = s]
  PROVE  Seen' = [Seen EXCEPT ![i] = Look(s)]
<1>1. Seen' = [j \in Phil |-> Look(state'[j])]
  BY DEF Seen, Look
<1>2. \A j \in Phil : state'[j] = IF j = i THEN s ELSE state[j]
  BY DEF TypeOK, DiningType
<1> HIDE DEF Look
<1> QED
  BY <1>1, <1>2, SeenIs

LEMMA TablePhilosopher ==
  ASSUME PointsInv, RoundsAtPoints, Prevention, NEW i \in Phil,
         PhilosopherStep(i)
  PROVE  [Table!Next]_Table!vars
<1>1. CommonStep(i) \/ PreventionStep(i)
  BY OwnStrategy DEF PointsInv
<1>2. TypeOK /\ RoundOf(i)
  BY RoundsAre DEF PointsInv
<1>3. i \in Table!Phil
  BY DEF Phil, Table!Phil
<1> USE DEF Table!vars
<1>4. CASE UNCHANGED <<state, meals_eaten>>
  BY <1>4 DEF Seen
<1>5. CASE Think(i)
  <2>1. state[i] \in {"THINKING", "RELEASING_FORKS"}
    BY <1>2, <1>5
       DEF Think, At, RoundOf, PointsInv, TypeOK, DiningType, StatesAtPoints,
           EatingPoints, HungryPoints, PermitPoints, LeftPoints
  <2>2. Seen' = [Seen EXCEPT ![i] = "thinking"] /\ UNCHANGED meals_eaten
    BY <1>2, <1>5, SeenAfter DEF Think, Look
  <2>3. Seen[i] = "thinking"
    BY <2>1, SeenIs DEF Look
  <2> QED
    BY <2>2, <2>3 DEF Seen
<1>6. CASE GetHungry(i)
  <2>1. state[i] = "THINKING" /\ meals_eaten[i] < MaxMeals
    BY <1>2, <1>6
       DEF GetHungry, Show, At, RoundOf, PointsInv, TypeOK, DiningType,
           StatesAtPoints, EatingPoints, HungryPoints, PermitPoints,
           LeftPoints, ReleasingPoints, BeforeMeal, LoopPoints
  <2>2. Seen' = [Seen EXCEPT ![i] = "hungry"] /\ UNCHANGED meals_eaten
    BY <1>2, <1>6, SeenAfter DEF GetHungry, Show, Look
  <2>3. Seen[i] = "thinking"
    BY <2>1, SeenIs DEF Look
  <2>4. Table!GetHungry(i)
    BY <2>1, <2>2, <2>3 DEF Table!GetHungry
  <2> QED
    BY <1>3, <2>4 DEF Table!Next
<1>7. CASE Eat(i)
  <2>1. state[i] = "HUNGRY" /\ pc[i] = "eat"
    BY <1>2, <1>7
       DEF Eat, At, RoundOf, PointsInv, TypeOK, DiningType, StatesAtPoints,
           EatingPoints, ThinkingPoints, LoopPoints, ReleasingPoints
  <2>2. Seen' = [Seen EXCEPT ![i] = "eating"]
    BY <1>2, <1>7, SeenAfter DEF Eat, Look
  <2>3. Seen[i] = "hungry"
    BY <2>1, SeenIs DEF Look
  <2>4. \A j \in Table!Phil : Seen[j] = "eating" => Table!Apart(i, j)
    <3>1. \A j \in Phil : Seen[j] = "eating" => state[j] = "EATING"
      BY SeenIs DEF Look, PointsInv, TypeOK, DiningType
    <3> QED
      BY <2>1, <3>1, NeighboursIdle
         DEF Table!Apart, Table!Phil, Table!Right, Phil, Right
  <2>5. Table!Eat(i)
    BY <1>7, <2>2, <2>3, <2>4 DEF Table!Eat, Eat
  <2> QED
    BY <1>3, <2>5 DEF Table!Next
<1>8. CASE Release(i)
  <2>1. state[i] = "EATING"
    BY <1>8 DEF Release, At, PointsInv, StatesAtPoints, EatingPoints
  <2>2. Seen' = [Seen EXCEPT ![i] = "thinking"] /\ UNCHANGED meals_eaten
    BY <1>2, <1>8, SeenAfter DEF Release, Look
  <2>3. Seen[i] = "eating"
    BY <2>1, SeenIs DEF Look
  <2>4. Table!FinishMeal(i)
    BY <2>2, <2>3 DEF Table!FinishMeal
  <2> QED
    BY <1>3, <2>4 DEF Table!Next
<1>9. CASE Complete(i) /\ ~deadlock_occurred
  <2>1. state[i] \in {"THINKING", "HUNGRY", "RELEASING_FORKS"}
    BY <1>2, <1>9
       DEF Complete, Show, At, RoundOf, PointsInv, TypeOK, DiningType,
           StatesAtPoints, EatingPoints
  <2>2. Seen' = [Seen EXCEPT ![i] = "gone"] /\ UNCHANGED meals_eaten
    BY <1>2, <1>9, SeenAfter DEF Complete, Show, Look
  <2>3. Seen[i] \in {"thinking", "hungry"}
    BY <2>1, SeenIs DEF Look
  <2>4. Table!Leave(i)
    BY <2>2, <2>3 DEF Table!Leave
  <2> QED
    BY <1>3, <2>4 DEF Table!Next
<1> QED
  BY <1>1, <1>2, <1>4, <1>5, <1>6, <1>7, <1>8, <1>9, Looks

\* The engine starts as the table does.
LEMMA TableInit == Init => Table!Init
<1> SUFFICES ASSUME Init PROVE Table!Init
  OBVIOUS
<1>1. \A i \in Phil : Seen[i] = "thinking"
  BY SeenIs DEF Init, Look
<1> QED
  BY <1>1 DEF Init, Seen, Phil, Table!Init, Table!Phil

\* And what it does is a step of the table, or nothing that can be seen there.
LEMMA TableStep ==
  Prevention /\ PointsInv /\ RoundsAtPoints /\ [Next]_vars => [Table!Next]_Table!vars
<1> SUFFICES ASSUME Prevention, PointsInv, RoundsAtPoints, [Next]_vars
             PROVE  [Table!Next]_Table!vars
  OBVIOUS
<1>1. ASSUME UNCHANGED <<state, meals_eaten>>
      PROVE  [Table!Next]_Table!vars
  BY <1>1 DEF Seen, Table!vars
<1>2. ~MonitorDeadlock
  BY DEF MonitorDeadlock, CircularWaitSeen, Prevention,
         STRATEGY_DEADLOCK_PREVENTION, STRATEGY_UNSAFE_DEADLOCK
<1>3. CASE MonitorLoop \/ MonitorFinish \/ MonitorNothing \/ Command
           \/ StartStep
  BY <1>1, <1>3 DEF MonitorLoop, MonitorFinish, MonitorNothing, Command,
                    SimPause, SimResume, SimStep, SimSetSpeed, StartStep,
                    SimStart, CreatePhilosopher, CreateMonitor, CreateFails
<1>4. ASSUME NEW t \in Callers, StopRequest(t) \/ StopStep(t)
      PROVE  [Table!Next]_Table!vars
  BY <1>1, <1>4 DEF StopRequest, StopStep, StopWake, JoinSkip, JoinCall,
                    JoinReturn, JoinMonitor, JoinMonitorReturn, StopReturn
<1>5. CASE UNCHANGED vars
  BY <1>1, <1>5
<1> QED
  BY <1>2, <1>3, <1>4, <1>5, TablePhilosopher
     DEF Next, MonitorStep, Returned

\* Under strategy 0 the engine implements the abstract table: pauses, permits,
\* forks and stops are steps nobody at the table sees.
THEOREM Refinement == Prevention => (Spec => DiningSpec)
<1> SUFFICES ASSUME Prevention PROVE Spec => DiningSpec
  OBVIOUS
<1>1. IndInv /\ RoundsAtPoints /\ [Next]_vars => [Table!Next]_Table!vars
  BY TableStep DEF IndInv
<1> QED
  BY <1>1, TableInit, Inductive, Rounds, PTL DEF Spec, DiningSpec, Table!Spec

-----------------------------------------------------------------------------
(***************************************************************************)
(* The demonstration of strategy 1: a deadlock is recorded before anybody   *)
(* gives a fork back, and only a real one is.                               *)
(***************************************************************************)

\* Points where the left fork is given back, those past the barrier, and those
\* reached with the left fork recorded.
Yielding == {"drop_right", "u_disown_left", "u_unlock_left"}
PastBarrier == (Stuck \ {"barrier", "at_barrier"}) \cup Yielding
Met == Stuck \cup Yielding \cup {"complete", "done"}

\* Once anybody has passed the barrier, and until a deadlock is recorded,
\* everybody has a left fork and nobody gives one up.
HeldUntilVerdict ==
    ~deadlock_occurred /\ (\E i \in Phil : pc[i] \in PastBarrier) =>
        \A j \in Phil : pc[j] \in Stuck

\* A recorded deadlock, or one that is shown, comes after all have met.
VerdictAfterMeeting ==
    deadlock_occurred \/ (\E i \in Phil : state[i] = "DEADLOCKED") =>
        Strategy # STRATEGY_DEADLOCK_PREVENTION /\ \A j \in Phil : pc[j] \in Met

\* Nobody eats under strategy 1, so nobody leaves the loop but for a stop or
\* after a deadlock.
LeavesForAReason ==
    Strategy # STRATEGY_DEADLOCK_PREVENTION =>
        \A i \in Phil : /\ meals_eaten[i] = 0
                        /\ pc[i] \in {"complete", "done"} =>
                               stop_requested \/ deadlock_occurred

NotStarted == started = "no" => \A i \in Phil : pc[i] = "none"

ShownIsRecorded == (\E i \in Phil : state[i] = "DEADLOCKED") => deadlock_occurred

UnsafeInv == NotStarted /\ LeavesForAReason /\ HeldUntilVerdict /\ VerdictAfterMeeting

-----------------------------------------------------------------------------
(***************************************************************************)
(* How a philosopher of strategy 1 moves.                                   *)
(***************************************************************************)
USE DEF Stuck, Yielding, PastBarrier, Met

\* The course of philosopher i, the barrier apart.
Course(i) ==
    /\ Moves(i)
    /\ pc[i] \in Met => pc'[i] \in Met
    /\ pc'[i] \in PastBarrier => pc[i] \in PastBarrier
    /\ pc[i] \in Stuck => pc'[i] \in Stuck \/ TimedOut(i) \/ TimedLock(i)
    /\ pc'[i] \in {"complete", "done"} =>
           pc[i] \in {"complete", "done", "u_unlock_left"} \/ stop_requested

LEMMA CourseCommon ==
  ASSUME TypeOK, Strategy # STRATEGY_DEADLOCK_PREVENTION, LeavesForAReason,
         NEW i \in Phil, CommonStep(i)
  PROVE  Course(i) /\ UNCHANGED meals_eaten
<1> USE GotoMoves DEF Course, Jump, Show, At
<1>1. CASE SleepChunk(i) \/ SleepOver(i)
  BY <1>1 DEF SleepChunk, SleepOver, SleepPoints, WakeUp
<1>2. CASE PassPause(i) \/ TakeStep(i)
  <2>1. /\ pc[i] \in PausePoints /\ Moves(i) /\ pc'[i] = AfterPause[pc[i]]
        /\ UNCHANGED meals_eaten
    BY <1>2 DEF PassPause, TakeStep
  <2> QED
    BY <2>1 DEF PausePoints, AfterPause
<1>3. CASE WaitPause(i)
  BY <1>3 DEF WaitPause, Moves, TypeOK, DiningType
<1>4. CASE LoopTest(i)
  <2>1. meals_eaten[i] < MaxMeals
    BY MealsAssumption DEF LeavesForAReason
  <2> QED
    BY <1>4, <2>1 DEF LoopTest
<1>5. CASE GetHungry(i)
  BY <1>5 DEF GetHungry
<1>6. CASE BreakOnStop(i) \/ Think(i) \/ Complete(i)
  BY <1>6 DEF BreakOnStop, Think, Complete
<1> QED
  BY <1>1, <1>2, <1>3, <1>4, <1>5, <1>6 DEF CommonStep

LEMMA CourseUnsafe ==
  ASSUME TypeOK, NEW i \in Phil, UnsafeStep(i), ~Barrier(i)
  PROVE  Course(i) /\ UNCHANGED meals_eaten
<1> USE GotoMoves DEF Course, Jump, Show, LockFork, UnlockFork, Record, At
<1>1. CASE UnsafeLockLeft(i) \/ UnsafeOwnLeft(i)
  BY <1>1 DEF UnsafeLockLeft, UnsafeOwnLeft
<1>2. CASE Acquiring(i) \/ TimedLockExpires(i)
  BY <1>2 DEF Acquiring, TimedLockExpires
<1>3. CASE TimedLock(i) \/ TimedOut(i)
  BY <1>3 DEF TimedLock, TimedOut
<1>4. CASE DropRight(i) \/ UnsafeDisownLeft(i) \/ UnsafeUnlockLeft(i)
  BY <1>4 DEF DropRight, UnsafeDisownLeft, UnsafeUnlockLeft
<1> QED
  BY <1>1, <1>2, <1>3, <1>4 DEF UnsafeStep

LEMMA CourseIs ==
  ASSUME TypeOK, PointsOfStrategy, LeavesForAReason,
         Strategy # STRATEGY_DEADLOCK_PREVENTION,
         NEW i \in Phil, PhilosopherStep(i), ~Barrier(i)
  PROVE  Course(i) /\ UNCHANGED meals_eaten
  BY CourseCommon, CourseUnsafe, OwnStrategy DEF Prevention

\* Only a timeout makes a philosopher record or show a deadlock.
LEMMA NoVerdict ==
  ASSUME TypeOK, NEW i \in Phil, PhilosopherStep(i), ~TimedOut(i)
  PROVE  /\ UNCHANGED deadlock_occurred
         /\ \A j \in Phil : state'[j] = "DEADLOCKED" => state[j] = "DEADLOCKED"
<1> USE DEF Jump, Show, LockFork, UnlockFork, Record, Post, Count, TypeOK, DiningType
<1>1. CASE CommonStep(i)
  BY <1>1 DEF CommonStep, SleepChunk, SleepOver, PassPause, TakeStep,
              WaitPause, LoopTest, BreakOnStop, Think, GetHungry, Complete
<1>2. CASE RoomStep(i)
  BY <1>2 DEF RoomStep, CheckPermit, SemWait, ReturnPermitOnStop, CountPermit,
              AbandonPost, SemPost, UncountPermit
<1>3. CASE RecordStep(i)
  BY <1>3 DEF RecordStep, OwnLeft, OwnRight, DisownRight, DisownLeft, Abandon,
              UnsafeOwnLeft, UnsafeDisownLeft
<1>4. CASE LockStep(i)
  BY <1>4 DEF LockStep, LockLeft, UnsafeLockLeft, LockRight, TimedLock
<1>5. CASE UnlockStep(i)
  BY <1>5 DEF UnlockStep, UnlockLeft, UnsafeUnlockLeft, AbandonUnlock,
              UnlockRight, DropRight
<1>6. CASE ShowStep(i)
  BY <1>6 DEF ShowStep, Eat, Release, Acquiring, TimedLockExpires
<1>7. CASE Barrier(i)
  BY <1>7 DEF Barrier
<1> QED
  BY <1>1, <1>2, <1>3, <1>4, <1>5, <1>6, <1>7, StepKinds

\* Whoever stands before its right fork finds it taken while all have their
\* left forks.
LEMMA RightForkTaken ==
  ASSUME TypeOK, MutexesAtPoints, \A j \in Phil : pc[j] \in Stuck, NEW i \in Phil
  PROVE  ~TimedLock(i)
<1> DEFINE j == Right(i)
<1>1. j \in Phil /\ j \in Fork /\ Left(j) = j
  BY RightIsFork DEF Phil, Fork, Left
<1>2. fork_mutex[j] = j
  BY <1>1 DEF MutexesAtPoints, LeftLocked, UnsafeLeftPoints
<1> QED
  BY <1>1, <1>2, NobodyIsNoOne DEF TimedLock, LockFork

-----------------------------------------------------------------------------
(***************************************************************************)
(* The invariant is kept.                                                   *)
(***************************************************************************)
\* Under either strategy, once somebody is past the barrier all have met.
LEMMA AllHaveMet ==
  ASSUME HeldUntilVerdict, VerdictAfterMeeting, NEW i \in Phil, pc[i] \in PastBarrier
  PROVE  \A j \in Phil : pc[j] \in Met
  BY DEF HeldUntilVerdict, VerdictAfterMeeting

LEMMA UnsafeBarrier ==
  ASSUME TypeOK, PointsOfStrategy, UnsafeInv, NEW i \in Phil, Barrier(i)
  PROVE  UnsafeInv'
<1>1. UNCHANGED <<deadlock_occurred, state, meals_eaten, stop_requested, started>>
  BY DEF Barrier
<1>2. Strategy # STRATEGY_DEADLOCK_PREVENTION /\ pc[i] = "barrier"
  BY DEF Barrier, At, PointsOfStrategy, UnsafePoints, UnsafeLeftPoints
<1>3. NotStarted'
  BY <1>1, <1>2 DEF UnsafeInv, NotStarted
<1>4. CASE \A j \in Phil \ {i} : At(j, "at_barrier")
  <2>1. \A j \in Phil : pc'[j] = "acquiring"
    BY <1>4 DEF Barrier
  <2> QED
    BY <1>1, <1>2, <1>3, <2>1
       DEF UnsafeInv, LeavesForAReason, HeldUntilVerdict, VerdictAfterMeeting
<1>5. CASE ~ \A j \in Phil \ {i} : At(j, "at_barrier")
  <2>1. \A j \in Phil : pc'[j] = IF j = i THEN "at_barrier" ELSE pc[j]
    BY <1>5 DEF Barrier, Goto, TypeOK, DiningType
  <2> QED
    BY <1>1, <1>2, <1>3, <2>1
       DEF UnsafeInv, LeavesForAReason, HeldUntilVerdict, VerdictAfterMeeting
<1> QED
  BY <1>4, <1>5

LEMMA UnsafePhilosopher ==
  ASSUME TypeOK, PointsOfStrategy, MutexesAtPoints, UnsafeInv,
         NEW i \in Phil, PhilosopherStep(i), ~Barrier(i),
         Strategy # STRATEGY_DEADLOCK_PREVENTION
  PROVE  UnsafeInv'
<1>1. Course(i) /\ UNCHANGED meals_eaten
  BY CourseIs DEF UnsafeInv
<1>2. \A j \in Phil : j # i => pc'[j] = pc[j]
  BY <1>1 DEF Course, Moves, TypeOK, DiningType
<1>3. UNCHANGED <<stop_requested, started>>
  BY PhilosopherControl
<1>4. deadlock_occurred => deadlock_occurred'
  <2>1. CASE TimedOut(i)
    BY <2>1 DEF TimedOut
  <2> QED
    BY <2>1, NoVerdict
<1>5. pc[i] # "none"
  BY EndedDoesNothing DEF Ended
<1>6. NotStarted'
  BY <1>3, <1>5 DEF UnsafeInv, NotStarted
<1>7. (\A j \in Phil : pc[j] \in Met) => \A j \in Phil : pc'[j] \in Met
  BY <1>1, <1>2 DEF Course
<1>8. HeldUntilVerdict'
  <2> SUFFICES ASSUME ~deadlock_occurred', NEW k \in Phil, pc'[k] \in PastBarrier
               PROVE  \A j \in Phil : pc'[j] \in Stuck
    BY DEF HeldUntilVerdict
  <2>1. ~deadlock_occurred
    BY <1>4
  <2>2. pc[k] \in PastBarrier
    BY <1>1, <1>2 DEF Course
  <2>3. \A j \in Phil : pc[j] \in Stuck
    BY <2>1, <2>2 DEF UnsafeInv, HeldUntilVerdict
  <2>4. ~TimedOut(i)
    BY DEF TimedOut
  <2>5. ~TimedLock(i)
    BY <2>3, RightForkTaken
  <2> QED
    BY <1>1, <1>2, <2>3, <2>4, <2>5 DEF Course
<1>9. VerdictAfterMeeting'
  <2>1. CASE TimedOut(i)
    <3>1. pc[i] \in PastBarrier
      BY <2>1 DEF TimedOut, At
    <3>2. \A j \in Phil : pc'[j] \in Met
      BY <1>7, <3>1, AllHaveMet DEF UnsafeInv
    <3> QED
      BY <3>2 DEF VerdictAfterMeeting
  <2>2. CASE ~TimedOut(i)
    BY <1>7, <2>2, NoVerdict DEF UnsafeInv, VerdictAfterMeeting
  <2> QED
    BY <2>1, <2>2
<1>10. LeavesForAReason'
  <2>1. pc[i] = "u_unlock_left" => deadlock_occurred
    BY DEF UnsafeInv, HeldUntilVerdict
  <2>2. ASSUME NEW j \in Phil, pc'[j] \in {"complete", "done"}
        PROVE  stop_requested' \/ deadlock_occurred'
    <3>1. CASE j = i
      BY <1>1, <1>3, <1>4, <2>1, <2>2, <3>1 DEF Course, UnsafeInv, LeavesForAReason
    <3>2. CASE j # i
      BY <1>2, <1>3, <1>4, <2>2, <3>2 DEF UnsafeInv, LeavesForAReason
    <3> QED
      BY <3>1, <3>2
  <2> QED
    BY <1>1, <2>2 DEF UnsafeInv, LeavesForAReason
<1> QED
  BY <1>6, <1>8, <1>9, <1>10 DEF UnsafeInv

\* Strategy 0 never comes near.
LEMMA UnsafeNever ==
  ASSUME TypeOK, PointsOfStrategy, PointsOfStrategy', UnsafeInv,
         NEW i \in Phil, PhilosopherStep(i),
         Strategy = STRATEGY_DEADLOCK_PREVENTION
  PROVE  UnsafeInv'
<1>1. ~TimedOut(i)
  BY DEF TimedOut, At, PointsOfStrategy, UnsafePoints, UnsafeLeftPoints
<1>2. started' = started /\ pc[i] # "none"
  BY PhilosopherControl, EndedDoesNothing DEF Ended
<1>3. NotStarted'
  BY <1>2 DEF UnsafeInv, NotStarted
<1>4. HeldUntilVerdict'
  BY DEF HeldUntilVerdict, PointsOfStrategy, UnsafePoints, UnsafeLeftPoints
<1>5. VerdictAfterMeeting'
  BY <1>1, NoVerdict DEF UnsafeInv, VerdictAfterMeeting
<1>6. LeavesForAReason'
  BY DEF LeavesForAReason
<1> QED
  BY <1>3, <1>4, <1>5, <1>6 DEF UnsafeInv

\* The watchdog sees forks in the records only of those who have met.
LEMMA UnsafeMonitor ==
  ASSUME TypeOK, PointsOfStrategy, RecordsAtPoints, UnsafeInv, MonitorStep
  PROVE  UnsafeInv'
<1>1. UNCHANGED <<pc, meals_eaten, stop_requested, started>>
  BY DEF MonitorStep, MonitorLoop, MonitorDeadlock, MonitorFinish, MonitorNothing
<1>2. CASE MonitorDeadlock
  <2>1. Strategy = STRATEGY_UNSAFE_DEADLOCK /\ deadlock_occurred'
        /\ \A j \in Phil : HoldsOneFork(j)
    BY <1>2 DEF MonitorDeadlock, CircularWaitSeen
  <2>2. ASSUME NEW j \in Phil PROVE pc[j] \in Met
    <3>1. pc[j] \in LeftOwned
      BY <2>1 DEF HoldsOneFork, RecordsAtPoints
    <3>2. pc[j] \notin PreventionPoints
      BY <2>1 DEF PointsOfStrategy, STRATEGY_DEADLOCK_PREVENTION,
                  STRATEGY_UNSAFE_DEADLOCK
    <3> QED
      BY <3>1, <3>2 DEF LeftOwned, LeftLocked, PreventionPoints, UnsafeLeftPoints
  <2> QED
    BY <1>1, <2>1, <2>2
       DEF UnsafeInv, NotStarted, LeavesForAReason, HeldUntilVerdict,
           VerdictAfterMeeting, STRATEGY_DEADLOCK_PREVENTION,
           STRATEGY_UNSAFE_DEADLOCK
<1>3. CASE ~MonitorDeadlock
  <2>1. UNCHANGED <<deadlock_occurred, state>>
    BY <1>3 DEF MonitorStep, MonitorLoop, MonitorFinish, MonitorNothing
  <2> QED
    BY <1>1, <2>1 DEF UnsafeInv, NotStarted, LeavesForAReason,
                      HeldUntilVerdict, VerdictAfterMeeting
<1> QED
  BY <1>2, <1>3

\* The rest of the engine: threads are created while none has met, and stops
\* are asked for.
LEMMA UnsafeOthers ==
  ASSUME TypeOK, UnsafeInv,
         StartStep \/ Command \/ (\E t \in Callers : StopRequest(t) \/ StopStep(t))
  PROVE  UnsafeInv'
<1> USE DEF UnsafeInv, NotStarted, LeavesForAReason, HeldUntilVerdict, VerdictAfterMeeting
<1>1. CASE SimStart
  BY <1>1 DEF SimStart
<1>2. CASE CreatePhilosopher
  <2>1. PICK i \in Phil : At(i, "none") /\ Goto(i, "loop")
    BY <1>2 DEF CreatePhilosopher
  <2>2. /\ pc[i] = "none" /\ \A j \in Phil : pc'[j] = IF j = i THEN "loop" ELSE pc[j]
        /\ UNCHANGED <<state, meals_eaten, deadlock_occurred, stop_requested, started>>
        /\ started # "no"
    BY <1>2, <2>1 DEF CreatePhilosopher, At, Goto, TypeOK, DiningType
  <2> QED
    BY <2>2
<1>3. CASE CreateMonitor \/ CreateFails
  BY <1>3 DEF CreateMonitor, CreateFails
<1>4. CASE Command
  BY <1>4 DEF Command, SimPause, SimResume, SimStep, SimSetSpeed
<1>5. ASSUME NEW t \in Callers, StopRequest(t) PROVE UnsafeInv'
  BY <1>5 DEF StopRequest
<1>6. ASSUME NEW t \in Callers, StopStep(t) PROVE UnsafeInv'
  <2>1. UNCHANGED <<pc, state, meals_eaten, deadlock_occurred, stop_requested, started>>
    BY <1>6 DEF StopStep, StopWake, JoinSkip, JoinCall, JoinReturn,
                JoinMonitor, JoinMonitorReturn, StopReturn
  <2> QED
    BY <2>1
<1> QED
  BY <1>1, <1>2, <1>3, <1>4, <1>5, <1>6 DEF StartStep

LEMMA UnsafeNext ==
  TypeOK /\ PointsOfStrategy /\ PointsOfStrategy' /\ MutexesAtPoints
    /\ RecordsAtPoints /\ UnsafeInv /\ [Next]_vars => UnsafeInv'
<1> SUFFICES ASSUME TypeOK, PointsOfStrategy, PointsOfStrategy',
                    MutexesAtPoints, RecordsAtPoints, UnsafeInv, [Next]_vars
             PROVE  UnsafeInv'
  OBVIOUS
<1>1. ASSUME NEW i \in Phil, PhilosopherStep(i) PROVE UnsafeInv'
  <2>1. CASE Strategy = STRATEGY_DEADLOCK_PREVENTION
    BY <1>1, <2>1, UnsafeNever
  <2>2. CASE Strategy # STRATEGY_DEADLOCK_PREVENTION
    BY <1>1, <2>2, UnsafeBarrier, UnsafePhilosopher
  <2> QED
    BY <2>1, <2>2
<1>2. CASE UNCHANGED vars
  BY <1>2 DEF UnsafeInv, NotStarted, LeavesForAReason, HeldUntilVerdict,
              VerdictAfterMeeting
<1> QED
  BY <1>1, <1>2, UnsafeMonitor, UnsafeOthers DEF Next, Returned

LEMMA UnsafeInit == Init => UnsafeInv
  BY NAssumption DEF Init, UnsafeInv, NotStarted, LeavesForAReason,
                     HeldUntilVerdict, VerdictAfterMeeting

LEMMA UnsafeInvariant == Spec => [](IndInv /\ UnsafeInv)
<1>1. Init => IndInv /\ UnsafeInv
  BY IndInit, UnsafeInit
<1>2. IndInv /\ UnsafeInv /\ [Next]_vars /\ IndInv' => UnsafeInv'
  BY UnsafeNext DEF IndInv, PointsInv
<1> QED
  BY <1>1, <1>2, Inductive, UnsafeInit, PTL DEF Spec

\* Whoever lets go of its left fork under strategy 1 does so after the deadlock
\* was recorded, and a run that nobody stopped ends with its deadlock recorded
\* (lines 312-371, Test 7).
THEOREM DeadlockReported == Spec => []UnsafeReportsDeadlock
<1>1. UnsafeInv => UnsafeReportsDeadlock
  BY DEF UnsafeInv, HeldUntilVerdict, LeavesForAReason, UnsafeReportsDeadlock, At
<1> QED
  BY <1>1, UnsafeInvariant, PTL

\* Until a deadlock is recorded, whoever is on its way to the right fork and
\* all the others with it close the circle.
LEMMA StuckIsClosed ==
  ASSUME TypeOK, MutexesAtPoints, RecordsAtPoints, \A i \in Phil : pc[i] \in Stuck
  PROVE  CircleClosed
<1> SUFFICES ASSUME NEW i \in Phil
             PROVE  /\ fork_mutex[Left(i)] = i /\ fork_owners[Left(i)] = i
                    /\ HoldsOneFork(i)
  BY DEF CircleClosed
<1>1. Left(i) = i /\ i \in Fork /\ i # NoOne
  BY NobodyIsNoOne DEF Left, Phil, Fork
<1>2. pc[i] \in LeftLocked /\ pc[i] \in LeftOwned /\ pc[i] \notin RightOwned
  BY DEF LeftLocked, LeftOwned, RightOwned, UnsafeLeftPoints, BothPoints
<1>3. fork_mutex[Left(i)] = i /\ fork_owners[Left(i)] = i
  BY <1>1, <1>2 DEF MutexesAtPoints, RecordsAtPoints
<1>4. forks_held[i][0] = Left(i) /\ forks_held[i][1] = NoOne
  BY <1>2 DEF RecordsAtPoints
<1> QED
  BY <1>1, <1>3, <1>4 DEF HoldsOneFork

\* A timeout, or the monitor's scan, records the deadlock with all of them
\* stuck; nothing else records one.
LEMMA RecordedWhenStuck ==
  ASSUME TypeOK, PointsOfStrategy, RecordsAtPoints, UnsafeInv, [Next]_vars,
         ~deadlock_occurred, deadlock_occurred'
  PROVE  Strategy # STRATEGY_DEADLOCK_PREVENTION /\ \A i \in Phil : pc[i] \in Stuck
<1>1. ASSUME NEW i \in Phil, PhilosopherStep(i)
      PROVE  Strategy # STRATEGY_DEADLOCK_PREVENTION /\ \A j \in Phil : pc[j] \in Stuck
  <2>1. pc[i] = "timed_out"
    BY <1>1, NoVerdict DEF TimedOut, At
  <2> QED
    BY <2>1 DEF UnsafeInv, HeldUntilVerdict, PointsOfStrategy, UnsafePoints,
                UnsafeLeftPoints
<1>2. CASE MonitorDeadlock
  <2>1. Strategy = STRATEGY_UNSAFE_DEADLOCK /\ \A j \in Phil : HoldsOneFork(j)
    BY <1>2 DEF MonitorDeadlock, CircularWaitSeen
  <2>2. ASSUME NEW j \in Phil PROVE pc[j] \in Stuck \cup Yielding
    <3>1. pc[j] \in LeftOwned
      BY <2>1 DEF HoldsOneFork, RecordsAtPoints
    <3>2. pc[j] \notin PreventionPoints
      BY <2>1 DEF PointsOfStrategy, STRATEGY_DEADLOCK_PREVENTION,
                  STRATEGY_UNSAFE_DEADLOCK
    <3> QED
      BY <3>1, <3>2 DEF LeftOwned, LeftLocked, PreventionPoints, UnsafeLeftPoints
  <2> QED
    BY <2>1, <2>2 DEF UnsafeInv, HeldUntilVerdict, STRATEGY_DEADLOCK_PREVENTION,
                      STRATEGY_UNSAFE_DEADLOCK
<1>3. CASE StartStep \/ Command \/ \E t \in Callers : StopRequest(t) \/ StopStep(t)
  BY <1>3 DEF StartStep, SimStart, CreatePhilosopher, CreateMonitor, CreateFails,
              Command, SimPause, SimResume, SimStep, SimSetSpeed, StopRequest,
              StopStep, StopWake, JoinSkip, JoinCall, JoinReturn, JoinMonitor,
              JoinMonitorReturn, StopReturn
<1>4. CASE MonitorStep /\ ~MonitorDeadlock
  BY <1>4 DEF MonitorStep, MonitorLoop, MonitorFinish, MonitorNothing
<1>5. CASE UNCHANGED vars
  BY <1>5
<1> QED
  BY <1>1, <1>2, <1>3, <1>4, <1>5 DEF Next, Returned

LEMMA ShownStep ==
  TypeOK /\ ShownIsRecorded /\ [Next]_vars => ShownIsRecorded'
<1> SUFFICES ASSUME TypeOK, ShownIsRecorded, [Next]_vars PROVE ShownIsRecorded'
  OBVIOUS
<1>1. ASSUME NEW i \in Phil, PhilosopherStep(i) PROVE ShownIsRecorded'
  <2>1. CASE TimedOut(i)
    BY <2>1 DEF TimedOut, ShownIsRecorded
  <2> QED
    BY <1>1, <2>1, NoVerdict DEF ShownIsRecorded
<1>2. CASE StartStep \/ Command \/ \E t \in Callers : StopRequest(t) \/ StopStep(t)
  BY <1>2 DEF StartStep, SimStart, CreatePhilosopher, CreateMonitor, CreateFails,
              Command, SimPause, SimResume, SimStep, SimSetSpeed, StopRequest,
              StopStep, StopWake, JoinSkip, JoinCall, JoinReturn, JoinMonitor,
              JoinMonitorReturn, StopReturn, ShownIsRecorded
<1>3. CASE MonitorStep
  BY <1>3 DEF MonitorStep, MonitorLoop, MonitorDeadlock, MonitorFinish,
              MonitorNothing, ShownIsRecorded
<1>4. CASE UNCHANGED vars
  BY <1>4 DEF ShownIsRecorded
<1> QED
  BY <1>1, <1>2, <1>3, <1>4 DEF Next, Returned

\* The monitor, which reads only the records, and a timeout, which sees only
\* one fork, record a deadlock only at a moment when all philosophers are in
\* it, and under strategy 0 never (lines 307-335, 378-400).
THEOREM DeadlockIsReal == Spec => DeadlockOnlyIfReal
<1> DEFINE Recorded == ~deadlock_occurred /\ deadlock_occurred' =>
                           Strategy # STRATEGY_DEADLOCK_PREVENTION /\ CircleClosed
<1>1. IndInv /\ UnsafeInv /\ [Next]_vars => Recorded
  BY RecordedWhenStuck, StuckIsClosed DEF IndInv, PointsInv
<1>2. Init => ShownIsRecorded
  BY DEF Init, ShownIsRecorded
<1>3. IndInv /\ ShownIsRecorded /\ [Next]_vars => ShownIsRecorded'
  BY ShownStep DEF IndInv, PointsInv
<1>4. Recorded /\ ShownIsRecorded' =>
         [/\ Recorded
          /\ (\E i \in Phil : state'[i] = "DEADLOCKED") => deadlock_occurred']_vars
  BY DEF ShownIsRecorded
<1> QED
  BY <1>1, <1>2, <1>3, <1>4, UnsafeInvariant, PTL DEF Spec, DeadlockOnlyIfReal
===============================================================================
