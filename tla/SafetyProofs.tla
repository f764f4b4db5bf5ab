----------------------------- MODULE SafetyProofs -----------------------------
(***************************************************************************)
(* What holds at each program point of a philosopher of Simulation.tla, and *)
(* the safety properties that follow, for every value of the constants.     *)
(***************************************************************************)
EXTENDS SimulationProofs

USE DEF vars, dining, data, control, records, room, progress, counts, gate,
        flags, handles, stopping, others

\* Philosopher i moves and the others stay.
Moves(i) == pc' = [pc EXCEPT ![i] = pc'[i]]

\* The move of philosopher i is neither into S nor out of it.
Keeps(i, S) == pc'[i] \in S <=> pc[i] \in S

KeepsForks(i) == Keeps(i, LeftLocked) /\ Keeps(i, RightLocked)
KeepsRecords(i) == Keeps(i, LeftOwned) /\ Keeps(i, RightOwned)
KeepsPermits(i) == Keeps(i, PermitHeld)

\* The sets of program points, down to their labels.
USE DEF LeftLocked, RightLocked, LeftOwned, RightOwned, EatingPoints,
        PermitHeld, LeftPoints, BothPoints, UnsafeLeftPoints

-----------------------------------------------------------------------------
(***************************************************************************)
(* How the steps move.                                                      *)
(***************************************************************************)
LEMMA GotoMoves ==
  ASSUME TypeOK, NEW i \in Phil, NEW to, Goto(i, to)
  PROVE  Moves(i) /\ pc'[i] = to
  BY DEF TypeOK, DiningType, Goto, Moves

\* Sleeping, pausing, thinking and ending take and return nothing.
LEMMA CommonMoves ==
  ASSUME TypeOK, NEW i \in Phil, CommonStep(i)
  PROVE  /\ Moves(i) /\ KeepsForks(i) /\ KeepsRecords(i) /\ KeepsPermits(i)
         /\ Keeps(i, EatingPoints)
         /\ UNCHANGED <<fork_mutex, records, room>>
<1> DEFINE Quiet == /\ Moves(i) /\ KeepsForks(i) /\ KeepsRecords(i)
                    /\ KeepsPermits(i) /\ Keeps(i, EatingPoints)
                    /\ UNCHANGED <<fork_mutex, records, room>>
<1> USE GotoMoves DEF Keeps, KeepsForks, KeepsRecords, KeepsPermits
<1>1. CASE SleepChunk(i)
  BY <1>1 DEF SleepChunk, SleepPoints, WakeUp
<1>2. CASE SleepOver(i)
  BY <1>2 DEF SleepOver, SleepPoints, WakeUp, At
<1>3. CASE PassPause(i)
  BY <1>3 DEF PassPause, PausePoints, AfterPause, Jump
<1>4. CASE TakeStep(i)
  BY <1>4 DEF TakeStep, PausePoints, AfterPause
<1>5. CASE WaitPause(i)
  BY <1>5 DEF WaitPause, Moves, TypeOK, DiningType
<1>6. CASE LoopTest(i)
  BY <1>6 DEF LoopTest, Jump, At
<1>7. CASE BreakOnStop(i)
  BY <1>7 DEF BreakOnStop, Jump, At
<1>8. CASE Think(i)
  BY <1>8 DEF Think, At
<1>9. CASE GetHungry(i)
  BY <1>9 DEF GetHungry, Show, At
<1>10. CASE Complete(i)
  BY <1>10 DEF Complete, Jump, Show, At
<1> QED
  BY <1>1, <1>2, <1>3, <1>4, <1>5, <1>6, <1>7, <1>8, <1>9, <1>10
     DEF CommonStep

\* The other steps, by the kind of thing they work on.
RoomStep(i) ==
    CheckPermit(i) \/ SemWait(i) \/ ReturnPermitOnStop(i) \/ CountPermit(i)
    \/ AbandonPost(i) \/ SemPost(i) \/ UncountPermit(i)
RecordStep(i) ==
    OwnLeft(i) \/ OwnRight(i) \/ DisownRight(i) \/ DisownLeft(i) \/ Abandon(i)
    \/ UnsafeOwnLeft(i) \/ UnsafeDisownLeft(i)
LockStep(i) == LockLeft(i) \/ UnsafeLockLeft(i) \/ LockRight(i) \/ TimedLock(i)
UnlockStep(i) == UnlockLeft(i) \/ UnsafeUnlockLeft(i) \/ AbandonUnlock(i)
                 \/ UnlockRight(i) \/ DropRight(i)
ShowStep(i) == Eat(i) \/ Release(i) \/ Acquiring(i) \/ TimedLockExpires(i)
               \/ TimedOut(i)

LEMMA StepKinds ==
  ASSUME NEW i \in Phil, PhilosopherStep(i)
  PROVE  CommonStep(i) \/ RoomStep(i) \/ RecordStep(i) \/ LockStep(i)
         \/ UnlockStep(i) \/ ShowStep(i) \/ Barrier(i)
  BY DEF PhilosopherStep, PreventionStep, UnsafeStep, RoomStep, RecordStep,
         LockStep, UnlockStep, ShowStep

LEMMA RoomMoves ==
  ASSUME TypeOK, NEW i \in Phil, RoomStep(i)
  PROVE  /\ Moves(i) /\ KeepsForks(i) /\ KeepsRecords(i)
         /\ Keeps(i, EatingPoints)
         /\ UNCHANGED <<fork_mutex, records, state>>
<1> USE GotoMoves DEF Keeps, KeepsForks, KeepsRecords, Jump, Post, Count, At
<1>1. CASE CheckPermit(i) \/ SemWait(i)
  BY <1>1 DEF CheckPermit, SemWait
<1>2. CASE ReturnPermitOnStop(i) \/ AbandonPost(i) \/ SemPost(i)
  BY <1>2 DEF ReturnPermitOnStop, AbandonPost, SemPost
<1>3. CASE CountPermit(i) \/ UncountPermit(i)
  BY <1>3 DEF CountPermit, UncountPermit
<1> QED
  BY <1>1, <1>2, <1>3 DEF RoomStep

LEMMA RecordMoves ==
  ASSUME TypeOK, NEW i \in Phil, RecordStep(i)
  PROVE  /\ Moves(i) /\ KeepsForks(i) /\ KeepsPermits(i)
         /\ Keeps(i, EatingPoints)
         /\ UNCHANGED <<fork_mutex, permit_semaphore, state>>
<1> USE GotoMoves DEF Keeps, KeepsForks, KeepsPermits, Record, At
<1>1. CASE OwnLeft(i) \/ Abandon(i)
  BY <1>1 DEF OwnLeft, Abandon
<1>2. CASE OwnRight(i) \/ DisownRight(i) \/ DisownLeft(i)
  BY <1>2 DEF OwnRight, DisownRight, DisownLeft
<1>3. CASE UnsafeOwnLeft(i) \/ UnsafeDisownLeft(i)
  BY <1>3 DEF UnsafeOwnLeft, UnsafeDisownLeft
<1> QED
  BY <1>1, <1>2, <1>3 DEF RecordStep

LEMMA LockMoves ==
  ASSUME TypeOK, NEW i \in Phil, LockStep(i) \/ UnlockStep(i)
  PROVE  /\ Moves(i) /\ KeepsRecords(i) /\ KeepsPermits(i)
         /\ Keeps(i, EatingPoints)
         /\ UNCHANGED <<records, room, state>>
<1> USE GotoMoves DEF Keeps, KeepsRecords, KeepsPermits, LockFork, UnlockFork,
                      At
<1>1. CASE LockStep(i)
  BY <1>1 DEF LockStep, LockLeft, UnsafeLockLeft, LockRight, TimedLock
<1>2. CASE UnlockLeft(i) \/ UnsafeUnlockLeft(i) \/ AbandonUnlock(i)
  BY <1>2 DEF UnlockLeft, UnsafeUnlockLeft, AbandonUnlock
<1>3. CASE UnlockRight(i) \/ DropRight(i)
  BY <1>3 DEF UnlockRight, DropRight
<1> QED
  BY <1>1, <1>2, <1>3 DEF UnlockStep

LEMMA ShowMoves ==
  ASSUME TypeOK, NEW i \in Phil, ShowStep(i)
  PROVE  /\ Moves(i) /\ KeepsForks(i) /\ KeepsRecords(i) /\ KeepsPermits(i)
         /\ UNCHANGED <<fork_mutex, records, room>>
<1> USE GotoMoves DEF Keeps, KeepsForks, KeepsRecords, KeepsPermits, At
<1>1. CASE Eat(i) \/ Release(i)
  BY <1>1 DEF Eat, Release
<1>2. CASE Acquiring(i)
  BY <1>2 DEF Acquiring, Show
<1>3. CASE TimedLockExpires(i)
  BY <1>3 DEF TimedLockExpires, Jump
<1>4. CASE TimedOut(i)
  BY <1>4 DEF TimedOut
<1> QED
  BY <1>1, <1>2, <1>3, <1>4 DEF ShowStep

\* The barrier, alone, moves several philosophers: all of them stay at points
\* where they hold their left fork only.
WithLeft == {"barrier", "at_barrier", "acquiring"}
LEMMA BarrierMoves ==
  ASSUME TypeOK, NEW i \in Phil, Barrier(i)
  PROVE  /\ \A j \in Phil : \/ pc'[j] = pc[j]
                            \/ pc[j] \in WithLeft /\ pc'[j] \in WithLeft
         /\ UNCHANGED <<sleep_ms, data, control>>
<1>1. CASE \A j \in Phil \ {i} : At(j, "at_barrier")
  <2>1. \A j \in Phil : pc[j] \in WithLeft
    BY <1>1 DEF Barrier, At, WithLeft
  <2>2. \A j \in Phil : pc'[j] \in WithLeft
    BY <1>1 DEF Barrier, WithLeft
  <2> QED
    BY <2>1, <2>2 DEF Barrier
<1>2. CASE ~ \A j \in Phil \ {i} : At(j, "at_barrier")
  <2>1. Moves(i) /\ pc'[i] = "at_barrier" /\ pc[i] = "barrier"
    BY <1>2, GotoMoves DEF Barrier, At
  <2> QED
    BY <2>1 DEF Moves, Barrier, WithLeft, TypeOK, DiningType
<1> QED
  BY <1>1, <1>2

\* Nobody else moves a philosopher, but for sim_start, which starts it.
LEMMA OtherMoves ==
  ASSUME TypeOK, MonitorStep \/ StartStep \/ Command
                 \/ (\E t \in Callers : StopRequest(t) \/ StopStep(t))
  PROVE  /\ \/ UNCHANGED pc
            \/ \E i \in Phil : Moves(i) /\ pc[i] = "none" /\ pc'[i] = "loop"
         /\ UNCHANGED <<fork_mutex, records, room>>
<1>1. CASE MonitorStep
  BY <1>1 DEF MonitorStep, MonitorLoop, MonitorDeadlock, MonitorFinish,
              MonitorNothing
<1>2. CASE StartStep
  <2>1. CASE CreatePhilosopher
    BY <2>1, GotoMoves DEF CreatePhilosopher, At
  <2> QED
    BY <1>2, <2>1 DEF StartStep, SimStart, CreateMonitor, CreateFails
<1>3. CASE Command
  BY <1>3 DEF Command, SimPause, SimResume, SimStep, SimSetSpeed
<1>4. ASSUME NEW t \in Callers, StopRequest(t) \/ StopStep(t)
      PROVE  UNCHANGED dining
  BY <1>4 DEF StopRequest, StopStep, StopWake, JoinSkip, JoinCall, JoinReturn,
              JoinMonitor, JoinMonitorReturn, StopReturn
<1> QED
  BY <1>1, <1>2, <1>3, <1>4

-----------------------------------------------------------------------------
(***************************************************************************)
(* A fork's mutex is locked by the philosopher that is between the lock and *)
(* the unlock of it, and by nobody else.                                    *)
(***************************************************************************)
LEMMA NobodyIsNoOne == \A i \in Phil : i # NoOne
  BY NAssumption DEF Phil, NoOne

LEMMA MutexKept ==
  ASSUME TypeOK, MutexesAtPoints, NEW i \in Phil,
         Moves(i), KeepsForks(i), UNCHANGED fork_mutex
  PROVE  MutexesAtPoints'
<1>1. \A j \in Phil : /\ pc'[j] \in LeftLocked <=> pc[j] \in LeftLocked
                      /\ pc'[j] \in RightLocked <=> pc[j] \in RightLocked
  <2> HIDE DEF LeftLocked, RightLocked
  <2> QED
    BY DEF Moves, KeepsForks, Keeps, TypeOK, DiningType
<1> HIDE DEF LeftLocked, RightLocked
<1> QED
  BY <1>1 DEF MutexesAtPoints

LEMMA MutexLocked ==
  ASSUME TypeOK, MutexesAtPoints, NEW i \in Phil, NEW f \in Fork, Moves(i),
         fork_mutex[f] = NoOne, fork_mutex' = [fork_mutex EXCEPT ![f] = i],
         \/ f = Left(i) /\ pc'[i] \in LeftLocked /\ Keeps(i, RightLocked)
         \/ f = Right(i) /\ pc'[i] \in RightLocked /\ Keeps(i, LeftLocked)
  PROVE  MutexesAtPoints'
<1> HIDE DEF LeftLocked, RightLocked
<1> SUFFICES ASSUME NEW g \in Fork, NEW j \in Phil
             PROVE  (fork_mutex[g] = j <=>
                        \/ g = Left(j) /\ pc[j] \in LeftLocked
                        \/ g = Right(j) /\ pc[j] \in RightLocked)'
  BY DEF MutexesAtPoints
<1>1. fork_mutex'[g] = IF g = f THEN i ELSE fork_mutex[g]
  BY DEF TypeOK, DiningType
<1>2. j # i => pc'[j] = pc[j]
  BY DEF Moves, TypeOK, DiningType
<1>3. j # i /\ g = f => ~ \/ g = Left(j) /\ pc[j] \in LeftLocked
                          \/ g = Right(j) /\ pc[j] \in RightLocked
  BY NobodyIsNoOne DEF MutexesAtPoints
<1> QED
  BY <1>1, <1>2, <1>3, RightIsFork DEF MutexesAtPoints, Keeps

LEMMA MutexUnlocked ==
  ASSUME TypeOK, MutexesAtPoints, NEW i \in Phil, NEW f \in Fork, Moves(i),
         fork_mutex' = [fork_mutex EXCEPT ![f] = NoOne],
         \/ /\ f = Left(i) /\ pc[i] \in LeftLocked /\ pc'[i] \notin LeftLocked
            /\ Keeps(i, RightLocked)
         \/ /\ f = Right(i) /\ pc[i] \in RightLocked
            /\ pc'[i] \notin RightLocked /\ Keeps(i, LeftLocked)
  PROVE  MutexesAtPoints'
<1> HIDE DEF LeftLocked, RightLocked
<1> SUFFICES ASSUME NEW g \in Fork, NEW j \in Phil
             PROVE  (fork_mutex[g] = j <=>
                        \/ g = Left(j) /\ pc[j] \in LeftLocked
                        \/ g = Right(j) /\ pc[j] \in RightLocked)'
  BY DEF MutexesAtPoints
<1>1. fork_mutex'[g] = IF g = f THEN NoOne ELSE fork_mutex[g]
  BY DEF TypeOK, DiningType
<1>2. j # i => pc'[j] = pc[j]
  BY DEF Moves, TypeOK, DiningType
<1>3. fork_mutex[f] = i
  BY DEF MutexesAtPoints
<1> QED
  BY <1>1, <1>2, <1>3, RightIsFork, NobodyIsNoOne DEF MutexesAtPoints, Keeps

LEMMA MutexLockStep ==
  ASSUME TypeOK, MutexesAtPoints, NEW i \in Phil, LockStep(i)
  PROVE  MutexesAtPoints'
<1> USE GotoMoves, RightIsFork DEF LockFork, At
<1>1. CASE LockLeft(i) \/ UnsafeLockLeft(i)
  <2>1. /\ fork_mutex[Left(i)] = NoOne
        /\ fork_mutex' = [fork_mutex EXCEPT ![Left(i)] = i]
        /\ Moves(i) /\ pc'[i] \in LeftLocked /\ Keeps(i, RightLocked)
    BY <1>1 DEF LockLeft, UnsafeLockLeft, Keeps
  <2> QED
    BY <2>1, MutexLocked
<1>2. CASE LockRight(i) \/ TimedLock(i)
  <2>1. /\ fork_mutex[Right(i)] = NoOne
        /\ fork_mutex' = [fork_mutex EXCEPT ![Right(i)] = i]
        /\ Moves(i) /\ pc'[i] \in RightLocked /\ Keeps(i, LeftLocked)
    BY <1>2 DEF LockRight, TimedLock, Keeps
  <2> QED
    BY <2>1, MutexLocked
<1> QED
  BY <1>1, <1>2 DEF LockStep

LEMMA MutexUnlockStep ==
  ASSUME TypeOK, MutexesAtPoints, NEW i \in Phil, UnlockStep(i)
  PROVE  MutexesAtPoints'
<1> USE GotoMoves, RightIsFork DEF UnlockFork, At
<1>1. CASE UnlockLeft(i) \/ UnsafeUnlockLeft(i) \/ AbandonUnlock(i)
  <2>1. /\ fork_mutex' = [fork_mutex EXCEPT ![Left(i)] = NoOne]
        /\ Moves(i) /\ Keeps(i, RightLocked)
        /\ pc[i] \in LeftLocked /\ pc'[i] \notin LeftLocked
    BY <1>1 DEF UnlockLeft, UnsafeUnlockLeft, AbandonUnlock, Keeps
  <2> QED
    BY <2>1, MutexUnlocked
<1>2. CASE UnlockRight(i) \/ DropRight(i)
  <2>1. /\ fork_mutex' = [fork_mutex EXCEPT ![Right(i)] = NoOne]
        /\ Moves(i) /\ Keeps(i, LeftLocked)
        /\ pc[i] \in RightLocked /\ pc'[i] \notin RightLocked
    BY <1>2 DEF UnlockRight, DropRight, Keeps
  <2> QED
    BY <2>1, MutexUnlocked
<1> QED
  BY <1>1, <1>2 DEF UnlockStep

LEMMA MutexNext == TypeOK /\ MutexesAtPoints /\ [Next]_vars => MutexesAtPoints'
<1> SUFFICES ASSUME TypeOK, MutexesAtPoints, [Next]_vars
             PROVE  MutexesAtPoints'
  OBVIOUS
<1>1. CASE UNCHANGED <<pc, fork_mutex>>
  BY <1>1 DEF MutexesAtPoints
<1>2. ASSUME NEW i \in Phil, PhilosopherStep(i) PROVE MutexesAtPoints'
  <2>1. CASE CommonStep(i)
    BY <2>1, CommonMoves, MutexKept
  <2>2. CASE RoomStep(i)
    BY <2>2, RoomMoves, MutexKept
  <2>3. CASE RecordStep(i)
    BY <2>3, RecordMoves, MutexKept
  <2>4. CASE ShowStep(i)
    BY <2>4, ShowMoves, MutexKept
  <2>5. CASE Barrier(i)
    <3>1. WithLeft \subseteq LeftLocked /\ WithLeft \cap RightLocked = {}
      BY DEF WithLeft
    <3>2. /\ \A j \in Phil : \/ pc'[j] = pc[j]
                             \/ pc[j] \in WithLeft /\ pc'[j] \in WithLeft
          /\ UNCHANGED fork_mutex
      BY <2>5, BarrierMoves
    <3> HIDE DEF LeftLocked, RightLocked
    <3>3. \A j \in Phil : /\ pc'[j] \in LeftLocked <=> pc[j] \in LeftLocked
                          /\ pc'[j] \in RightLocked <=> pc[j] \in RightLocked
      BY <3>1, <3>2
    <3> QED
      BY <3>2, <3>3 DEF MutexesAtPoints
  <2> QED
    BY <1>2, <2>1, <2>2, <2>3, <2>4, <2>5, StepKinds, MutexLockStep,
       MutexUnlockStep
<1>3. CASE MonitorStep \/ StartStep \/ Command
           \/ (\E t \in Callers : StopRequest(t) \/ StopStep(t))
  <2>1. CASE UNCHANGED pc
    BY <1>1, <1>3, <2>1, OtherMoves
  <2>2. ASSUME NEW i \in Phil, Moves(i), pc[i] = "none", pc'[i] = "loop"
        PROVE  MutexesAtPoints'
    <3>1. KeepsForks(i)
      BY <2>2 DEF KeepsForks, Keeps
    <3> QED
      BY <1>3, <2>2, <3>1, OtherMoves, MutexKept
  <2> QED
    BY <1>3, <2>1, <2>2, OtherMoves
<1> QED
  BY <1>1, <1>2, <1>3 DEF Next, Returned

-----------------------------------------------------------------------------
(***************************************************************************)
(* The records of a fork are made and cleared while its mutex is locked.    *)
(***************************************************************************)
LEMMA OwnedIsLocked == LeftOwned \subseteq LeftLocked
                       /\ RightOwned \subseteq RightLocked
  OBVIOUS

LEMMA RightLockedIsLeft == RightLocked \subseteq LeftLocked
  OBVIOUS

LEMMA RecordsKept ==
  ASSUME RecordsAtPoints, UNCHANGED records,
         \A j \in Phil : Keeps(j, LeftOwned) /\ Keeps(j, RightOwned)
  PROVE  RecordsAtPoints'
<1> HIDE DEF LeftOwned, RightOwned
<1> QED
  BY DEF RecordsAtPoints, Keeps

LEMMA RecordsKeptByMove ==
  ASSUME TypeOK, RecordsAtPoints, NEW i \in Phil,
         Moves(i), KeepsRecords(i), UNCHANGED records
  PROVE  RecordsAtPoints'
<1> HIDE DEF LeftOwned, RightOwned
<1>1. \A j \in Phil : Keeps(j, LeftOwned) /\ Keeps(j, RightOwned)
  BY DEF Moves, KeepsRecords, Keeps, TypeOK, DiningType
<1> QED
  BY <1>1, RecordsKept

LEMMA RecordsWritten ==
  ASSUME TypeOK, MutexesAtPoints, RecordsAtPoints, NEW i \in Phil, Moves(i),
         NEW f \in Fork, NEW slot \in {0, 1}, NEW who \in {i, NoOne},
         SetOwner(i, f, slot, who),
         \/ /\ slot = 0 /\ f = Left(i) /\ pc[i] \in LeftLocked
            /\ who = i <=> pc'[i] \in LeftOwned
            /\ Keeps(i, RightOwned)
         \/ /\ slot = 1 /\ f = Right(i) /\ pc[i] \in RightLocked
            /\ who = i <=> pc'[i] \in RightOwned
            /\ Keeps(i, LeftOwned)
  PROVE  RecordsAtPoints'
<1> HIDE DEF LeftOwned, RightOwned, LeftLocked, RightLocked
<1>1. \A j \in Phil : j # i => pc'[j] = pc[j]
  BY DEF Moves, TypeOK, DiningType
<1>2. ASSUME NEW j \in Phil
      PROVE  /\ forks_held'[j][0] = IF pc'[j] \in LeftOwned THEN Left(j)
                                                            ELSE NoOne
             /\ forks_held'[j][1] = IF pc'[j] \in RightOwned THEN Right(j)
                                                             ELSE NoOne
  <2>1. CASE j = i
    <3>1. forks_held'[i] = [forks_held[i] EXCEPT ![slot] =
                               IF who = NoOne THEN NoOne ELSE f]
      BY DEF SetOwner, TypeOK, DiningType
    <3>2. forks_held[i] \in [{0, 1} -> Fork \cup {NoOne}]
      BY DEF TypeOK, DiningType
    <3> QED
      BY <2>1, <3>1, <3>2, NobodyIsNoOne DEF RecordsAtPoints, Keeps
  <2>2. CASE j # i
    <3>1. forks_held'[j] = forks_held[j]
      BY <2>2 DEF SetOwner, TypeOK, DiningType
    <3> QED
      BY <1>1, <2>2, <3>1 DEF RecordsAtPoints
  <2> QED
    BY <2>1, <2>2
<1>3. ASSUME NEW g \in Fork, NEW j \in Phil
      PROVE  fork_owners'[g] = j <=> \/ g = Left(j) /\ pc'[j] \in LeftOwned
                                     \/ g = Right(j) /\ pc'[j] \in RightOwned
  <2>1. fork_owners'[g] = IF g = f THEN who ELSE fork_owners[g]
    BY DEF SetOwner, TypeOK, DiningType
  <2>2. fork_mutex[f] = i
    BY DEF MutexesAtPoints
  <2>3. g = f /\ j # i => ~ \/ g = Left(j) /\ pc[j] \in LeftOwned
                            \/ g = Right(j) /\ pc[j] \in RightOwned
    BY <2>2, OwnedIsLocked DEF MutexesAtPoints
  <2>4. CASE g = f
    BY <1>1, <2>1, <2>3, <2>4, RightIsFork, NobodyIsNoOne
  <2>5. CASE g # f
    BY <1>1, <2>1, <2>5, RightIsFork DEF RecordsAtPoints, Keeps
  <2> QED
    BY <2>4, <2>5
<1> QED
  BY <1>2, <1>3 DEF RecordsAtPoints

LEMMA RecordsRecordStep ==
  ASSUME TypeOK, MutexesAtPoints, RecordsAtPoints, NEW i \in Phil,
         RecordStep(i)
  PROVE  RecordsAtPoints'
<1> USE GotoMoves, RightIsFork DEF Record, At
<1>1. CASE OwnLeft(i) \/ UnsafeOwnLeft(i)
  <2>1. /\ SetOwner(i, Left(i), 0, i) /\ Moves(i) /\ pc[i] \in LeftLocked
        /\ pc'[i] \in LeftOwned /\ Keeps(i, RightOwned)
    BY <1>1 DEF OwnLeft, UnsafeOwnLeft, Keeps
  <2> QED
    BY <2>1, RecordsWritten
<1>2. CASE Abandon(i) \/ DisownLeft(i) \/ UnsafeDisownLeft(i)
  <2>1. /\ SetOwner(i, Left(i), 0, NoOne) /\ Moves(i) /\ pc[i] \in LeftLocked
        /\ pc'[i] \notin LeftOwned /\ Keeps(i, RightOwned)
    BY <1>2 DEF Abandon, DisownLeft, UnsafeDisownLeft, Keeps
  <2> QED
    BY <2>1, RecordsWritten, NobodyIsNoOne
<1>3. CASE OwnRight(i)
  <2>1. /\ SetOwner(i, Right(i), 1, i) /\ Moves(i) /\ pc[i] \in RightLocked
        /\ pc'[i] \in RightOwned /\ Keeps(i, LeftOwned)
    BY <1>3 DEF OwnRight, Keeps
  <2> QED
    BY <2>1, RecordsWritten
<1>4. CASE DisownRight(i)
  <2>1. /\ SetOwner(i, Right(i), 1, NoOne) /\ Moves(i)
        /\ pc[i] \in RightLocked
        /\ pc'[i] \notin RightOwned /\ Keeps(i, LeftOwned)
    BY <1>4 DEF DisownRight, Keeps
  <2> QED
    BY <2>1, RecordsWritten, NobodyIsNoOne
<1> QED
  BY <1>1, <1>2, <1>3, <1>4 DEF RecordStep

LEMMA RecordsNext ==
  TypeOK /\ MutexesAtPoints /\ RecordsAtPoints /\ [Next]_vars
      => RecordsAtPoints'
<1> SUFFICES ASSUME TypeOK, MutexesAtPoints, RecordsAtPoints, [Next]_vars
             PROVE  RecordsAtPoints'
  OBVIOUS
<1>1. CASE UNCHANGED <<pc, records>>
  BY <1>1, RecordsKept DEF Keeps
<1>2. ASSUME NEW i \in Phil, PhilosopherStep(i) PROVE RecordsAtPoints'
  <2>1. CASE CommonStep(i)
    BY <2>1, CommonMoves, RecordsKeptByMove
  <2>2. CASE RoomStep(i)
    BY <2>2, RoomMoves, RecordsKeptByMove
  <2>3. CASE LockStep(i) \/ UnlockStep(i)
    BY <2>3, LockMoves, RecordsKeptByMove
  <2>4. CASE ShowStep(i)
    BY <2>4, ShowMoves, RecordsKeptByMove
  <2>5. CASE Barrier(i)
    <3>1. WithLeft \subseteq LeftOwned /\ WithLeft \cap RightOwned = {}
      BY DEF WithLeft
    <3>2. /\ \A j \in Phil : \/ pc'[j] = pc[j]
                             \/ pc[j] \in WithLeft /\ pc'[j] \in WithLeft
          /\ UNCHANGED records
      BY <2>5, BarrierMoves
    <3> HIDE DEF LeftOwned, RightOwned
    <3>3. \A j \in Phil : Keeps(j, LeftOwned) /\ Keeps(j, RightOwned)
      BY <3>1, <3>2 DEF Keeps
    <3> QED
      BY <3>2, <3>3, RecordsKept
  <2> QED
    BY <1>2, <2>1, <2>2, <2>3, <2>4, <2>5, StepKinds, RecordsRecordStep
<1>3. CASE MonitorStep \/ StartStep \/ Command
           \/ (\E t \in Callers : StopRequest(t) \/ StopStep(t))
  <2>1. CASE UNCHANGED pc
    BY <1>1, <1>3, <2>1, OtherMoves
  <2>2. ASSUME NEW i \in Phil, Moves(i), pc[i] = "none", pc'[i] = "loop"
        PROVE  RecordsAtPoints'
    <3>1. KeepsRecords(i)
      BY <2>2 DEF KeepsRecords, Keeps
    <3> QED
      BY <1>3, <2>2, <3>1, OtherMoves, RecordsKeptByMove
  <2> QED
    BY <1>3, <2>1, <2>2, OtherMoves
<1> QED
  BY <1>1, <1>2, <1>3 DEF Next, Returned

-----------------------------------------------------------------------------
(***************************************************************************)
(* The strategy decides which points are reached.                           *)
(***************************************************************************)
\* A philosopher reaches the points of a strategy from points of the same
\* strategy, or under it.
OnlyUnder(i) ==
    /\ pc'[i] \in UnsafePoints =>
           pc[i] \in UnsafePoints \/ Strategy # STRATEGY_DEADLOCK_PREVENTION
    /\ pc'[i] \in PreventionPoints =>
           pc[i] \in PreventionPoints \/ Strategy = STRATEGY_DEADLOCK_PREVENTION

LEMMA StrategyMoves ==
  ASSUME TypeOK, PointsOfStrategy, NEW i \in Phil, PhilosopherStep(i),
         ~Barrier(i)
  PROVE  Moves(i) /\ OnlyUnder(i)
<1> USE GotoMoves DEF OnlyUnder, PreventionPoints, UnsafePoints, PermitPoints,
                      Jump, Show, LockFork, UnlockFork, Record, Post, Count, At
<1>1. CASE CommonStep(i)
  <2>1. CASE SleepChunk(i) \/ SleepOver(i)
    BY <2>1 DEF SleepChunk, SleepOver, SleepPoints, WakeUp
  <2>2. CASE PassPause(i) \/ TakeStep(i)
    <3>1. pc[i] \in PausePoints /\ Moves(i) /\ pc'[i] = AfterPause[pc[i]]
      BY <2>2 DEF PassPause, TakeStep
    <3> QED
      BY <3>1 DEF PausePoints, AfterPause
  <2>3. CASE WaitPause(i)
    BY <2>3 DEF WaitPause, Moves, TypeOK, DiningType
  <2>4. CASE GetHungry(i)
    BY <2>4 DEF GetHungry
  <2>5. CASE LoopTest(i) \/ BreakOnStop(i) \/ Think(i) \/ Complete(i)
    BY <2>5 DEF LoopTest, BreakOnStop, Think, Complete
  <2> QED
    BY <1>1, <2>1, <2>2, <2>3, <2>4, <2>5 DEF CommonStep
<1>2. CASE RoomStep(i)
  BY <1>2 DEF RoomStep, CheckPermit, SemWait, ReturnPermitOnStop, CountPermit,
              AbandonPost, SemPost, UncountPermit
<1>3. CASE RecordStep(i)
  BY <1>3 DEF RecordStep, OwnLeft, OwnRight, DisownRight, DisownLeft, Abandon,
              UnsafeOwnLeft, UnsafeDisownLeft
<1>4. CASE LockStep(i)
  BY <1>4 DEF LockStep, LockLeft, UnsafeLockLeft, LockRight, TimedLock
<1>5. CASE UnlockStep(i)
  BY <1>5 DEF UnlockStep, UnlockLeft, UnsafeUnlockLeft, AbandonUnlock,
              UnlockRight, DropRight
<1>6. CASE ShowStep(i)
  BY <1>6 DEF ShowStep, Eat, Release, Acquiring, TimedLockExpires, TimedOut
<1> QED
  BY <1>1, <1>2, <1>3, <1>4, <1>5, <1>6, StepKinds

LEMMA StrategyNext ==
  TypeOK /\ PointsOfStrategy /\ [Next]_vars => PointsOfStrategy'
<1> SUFFICES ASSUME TypeOK, PointsOfStrategy, [Next]_vars
             PROVE  PointsOfStrategy'
  OBVIOUS
<1>1. CASE UNCHANGED pc
  BY <1>1 DEF PointsOfStrategy
<1>2. ASSUME NEW i \in Phil, Moves(i), OnlyUnder(i) PROVE PointsOfStrategy'
  BY <1>2 DEF PointsOfStrategy, Moves, OnlyUnder, TypeOK, DiningType
<1>3. ASSUME NEW i \in Phil, PhilosopherStep(i) PROVE PointsOfStrategy'
  <2>1. CASE Barrier(i)
    <3>1. \A j \in Phil : \/ pc'[j] = pc[j]
                          \/ pc[j] \in WithLeft /\ pc'[j] \in WithLeft
      BY <2>1, BarrierMoves
    <3>2. WithLeft \subseteq UnsafePoints /\ WithLeft \cap PreventionPoints = {}
      BY DEF WithLeft, UnsafePoints, PreventionPoints, PermitPoints
    <3> QED
      BY <3>1, <3>2 DEF PointsOfStrategy
  <2> QED
    BY <1>2, <1>3, <2>1, StrategyMoves
<1>4. CASE MonitorStep \/ StartStep \/ Command
           \/ (\E t \in Callers : StopRequest(t) \/ StopStep(t))
  <2>1. "loop" \notin UnsafePoints /\ "loop" \notin PreventionPoints
    BY DEF UnsafePoints, PreventionPoints, PermitPoints
  <2> QED
    BY <1>1, <1>2, <1>4, <2>1, OtherMoves DEF OnlyUnder
<1> QED
  BY <1>1, <1>3, <1>4 DEF Next, Returned

-----------------------------------------------------------------------------
(***************************************************************************)
(* A philosopher is shown EATING from the start of its meal to the section  *)
(* that ends it.                                                            *)
(***************************************************************************)
LEMMA StatesPhilosopher ==
  ASSUME TypeOK, StatesAtPoints, NEW i \in Phil, PhilosopherStep(i),
         ~Barrier(i)
  PROVE  StatesAtPoints'
<1>1. ASSUME Moves(i), state' = [state EXCEPT ![i] = state'[i]],
             state'[i] = "EATING" <=> pc'[i] \in EatingPoints
      PROVE  StatesAtPoints'
  <2>1. \A j \in Phil \ {i} : pc'[j] = pc[j] /\ state'[j] = state[j]
    BY <1>1 DEF Moves, TypeOK, DiningType
  <2> QED
    BY <1>1, <2>1 DEF StatesAtPoints
<1>2. ASSUME Moves(i), Keeps(i, EatingPoints), UNCHANGED state
      PROVE  StatesAtPoints'
  BY <1>1, <1>2 DEF Keeps, StatesAtPoints, TypeOK, DiningType
<1> USE GotoMoves DEF Show, At
<1>3. CASE CommonStep(i)
  <2>1. CASE Think(i) \/ GetHungry(i) \/ (Complete(i) /\ ~deadlock_occurred)
    <3>1. /\ Moves(i) /\ state'[i] # "EATING" /\ pc'[i] \notin EatingPoints
          /\ state' = [state EXCEPT ![i] = state'[i]]
      BY <2>1 DEF Think, GetHungry, Complete, TypeOK, DiningType
    <3> QED
      BY <1>1, <3>1
  <2>2. CASE \/ SleepChunk(i) \/ SleepOver(i) \/ PassPause(i) \/ TakeStep(i)
             \/ WaitPause(i) \/ LoopTest(i) \/ BreakOnStop(i)
             \/ (Complete(i) /\ deadlock_occurred)
    <3>1. UNCHANGED state
      BY <2>2 DEF SleepChunk, SleepOver, PassPause, TakeStep, WaitPause,
                  LoopTest, BreakOnStop, Complete, Jump
    <3> QED
      BY <1>2, <1>3, <3>1, CommonMoves
  <2> QED
    BY <1>3, <2>1, <2>2 DEF CommonStep
<1>4. CASE RoomStep(i) \/ RecordStep(i)
  BY <1>2, <1>4, RoomMoves, RecordMoves
<1>5. CASE LockStep(i) \/ UnlockStep(i)
  BY <1>2, <1>5, LockMoves
<1>6. CASE ShowStep(i)
  <2>1. CASE TimedLockExpires(i)
    <3>1. Moves(i) /\ Keeps(i, EatingPoints) /\ UNCHANGED state
      BY <2>1 DEF TimedLockExpires, Jump, Keeps
    <3> QED
      BY <1>2, <3>1
  <2>2. CASE Eat(i) \/ Release(i) \/ Acquiring(i) \/ TimedOut(i)
    <3>1. /\ Moves(i)
          /\ state'[i] = "EATING" <=> pc'[i] \in EatingPoints
          /\ state' = [state EXCEPT ![i] = state'[i]]
      BY <2>2 DEF Eat, Release, Acquiring, TimedOut, TypeOK, DiningType
    <3> QED
      BY <1>1, <3>1
  <2> QED
    BY <1>6, <2>1, <2>2 DEF ShowStep
<1> QED
  BY <1>3, <1>4, <1>5, <1>6, StepKinds

LEMMA StatesNext ==
  TypeOK /\ PointsOfStrategy /\ StatesAtPoints /\ [Next]_vars
      => StatesAtPoints'
<1> SUFFICES ASSUME TypeOK, PointsOfStrategy, StatesAtPoints, [Next]_vars
             PROVE  StatesAtPoints'
  OBVIOUS
<1>1. CASE UNCHANGED <<pc, state>>
  BY <1>1 DEF StatesAtPoints
<1>2. ASSUME NEW i \in Phil, Barrier(i) PROVE StatesAtPoints'
  <2>1. WithLeft \cap EatingPoints = {}
    BY DEF WithLeft
  <2> QED
    BY <1>2, <2>1, BarrierMoves DEF StatesAtPoints
<1>3. CASE MonitorDeadlock
  <2>1. \A j \in Phil : pc[j] \notin EatingPoints
    BY <1>3 DEF MonitorDeadlock, CircularWaitSeen, PointsOfStrategy,
                PreventionPoints, STRATEGY_DEADLOCK_PREVENTION,
                STRATEGY_UNSAFE_DEADLOCK
  <2> QED
    BY <1>3, <2>1 DEF MonitorDeadlock, StatesAtPoints
<1>4. CASE StartStep
  <2>1. UNCHANGED state
    BY <1>4 DEF StartStep, SimStart, CreatePhilosopher, CreateMonitor,
                CreateFails
  <2>2. CASE UNCHANGED pc
    BY <1>1, <2>1, <2>2
  <2>3. ASSUME NEW i \in Phil, Moves(i), pc[i] = "none", pc'[i] = "loop"
        PROVE  StatesAtPoints'
    BY <2>1, <2>3 DEF StatesAtPoints, Moves, TypeOK, DiningType
  <2> QED
    BY <1>4, <2>2, <2>3, OtherMoves
<1>5. CASE MonitorLoop \/ MonitorFinish \/ MonitorNothing \/ Command
  BY <1>1, <1>5 DEF MonitorLoop, MonitorFinish, MonitorNothing, Command,
                    SimPause, SimResume, SimStep, SimSetSpeed
<1>6. ASSUME NEW t \in Callers, StopRequest(t) \/ StopStep(t)
      PROVE  StatesAtPoints'
  BY <1>1, <1>6 DEF StopRequest, StopStep, StopWake, JoinSkip, JoinCall,
                    JoinReturn, JoinMonitor, JoinMonitorReturn, StopReturn
<1> QED
  BY <1>1, <1>2, <1>3, <1>4, <1>5, <1>6, StatesPhilosopher
     DEF Next, MonitorStep, Returned

-----------------------------------------------------------------------------
(***************************************************************************)
(* Permits: every one is in the semaphore or in the hands of a philosopher. *)
(***************************************************************************)
LEMMA PhilosophersFinite == IsFiniteSet(Phil) /\ Cardinality(Phil) = N
  BY NAssumption, FS_Interval DEF Phil

LEMMA HoldersFinite == \A S \in SUBSET Phil :
                           /\ IsFiniteSet(S)
                           /\ Cardinality(S) \in Nat
                           /\ Cardinality(S) <= N
  BY PhilosophersFinite, FS_Subset, FS_CardinalityType

LEMMA PermitsKept ==
  ASSUME PermitAccounting, UNCHANGED permit_semaphore,
         \A j \in Phil : Keeps(j, PermitHeld)
  PROVE  PermitAccounting'
<1> HIDE DEF PermitHeld
<1>1. PermitHolders' = PermitHolders
  BY DEF PermitHolders, Keeps
<1> QED
  BY <1>1 DEF PermitAccounting

LEMMA PermitsKeptByMove ==
  ASSUME TypeOK, PermitAccounting, NEW i \in Phil,
         Moves(i), KeepsPermits(i), UNCHANGED permit_semaphore
  PROVE  PermitAccounting'
<1> HIDE DEF PermitHeld
<1>1. \A j \in Phil : Keeps(j, PermitHeld)
  BY DEF Moves, KeepsPermits, Keeps, TypeOK, DiningType
<1> QED
  BY <1>1, PermitsKept

\* A permit is taken from the semaphore by one that had none, or posted by one
\* that had one.
LEMMA PermitTaken ==
  ASSUME TypeOK, PermitAccounting, NEW i \in Phil, Moves(i),
         pc[i] \notin PermitHeld, pc'[i] \in PermitHeld,
         permit_semaphore' = permit_semaphore - 1
  PROVE  PermitAccounting'
<1> HIDE DEF PermitHeld
<1>1. PermitHolders' = PermitHolders \cup {i} /\ i \notin PermitHolders
  BY DEF PermitHolders, Moves, TypeOK, DiningType
<1>2. IsFiniteSet(PermitHolders) /\ Cardinality(PermitHolders) \in Nat
  BY HoldersFinite DEF PermitHolders
<1>3. Cardinality(PermitHolders') = Cardinality(PermitHolders) + 1
  BY <1>1, <1>2, FS_AddElement
<1> QED
  BY <1>2, <1>3 DEF PermitAccounting, TypeOK, DiningType

LEMMA PermitPosted ==
  ASSUME TypeOK, PermitAccounting, NEW i \in Phil, Moves(i),
         pc[i] \in PermitHeld, pc'[i] \notin PermitHeld,
         permit_semaphore' = permit_semaphore + 1
  PROVE  PermitAccounting'
<1> HIDE DEF PermitHeld
<1>1. PermitHolders' = PermitHolders \ {i} /\ i \in PermitHolders
  BY DEF PermitHolders, Moves, TypeOK, DiningType
<1>2. IsFiniteSet(PermitHolders) /\ Cardinality(PermitHolders) \in Nat
  BY HoldersFinite DEF PermitHolders
<1>3. Cardinality(PermitHolders') = Cardinality(PermitHolders) - 1
  BY <1>1, <1>2, FS_RemoveElement
<1> QED
  BY <1>2, <1>3 DEF PermitAccounting, TypeOK, DiningType

LEMMA PermitsRoomStep ==
  ASSUME TypeOK, PermitAccounting, NEW i \in Phil, RoomStep(i)
  PROVE  PermitAccounting'
<1> USE GotoMoves DEF Jump, Post, Count, At
<1>1. CASE SemWait(i)
  <2>1. /\ Moves(i) /\ pc[i] \notin PermitHeld /\ pc'[i] \in PermitHeld
        /\ permit_semaphore' = permit_semaphore - 1
    BY <1>1 DEF SemWait
  <2> QED
    BY <2>1, PermitTaken
<1>2. CASE ReturnPermitOnStop(i) \/ AbandonPost(i) \/ SemPost(i)
  <2>1. /\ Moves(i) /\ pc[i] \in PermitHeld /\ pc'[i] \notin PermitHeld
        /\ permit_semaphore' = permit_semaphore + 1
    BY <1>2 DEF ReturnPermitOnStop, AbandonPost, SemPost
  <2> QED
    BY <2>1, PermitPosted
<1>3. CASE CheckPermit(i) \/ CountPermit(i) \/ UncountPermit(i)
  <2>1. Moves(i) /\ KeepsPermits(i) /\ UNCHANGED permit_semaphore
    BY <1>3 DEF CheckPermit, CountPermit, UncountPermit, KeepsPermits, Keeps
  <2> QED
    BY <2>1, PermitsKeptByMove
<1> QED
  BY <1>1, <1>2, <1>3 DEF RoomStep

LEMMA PermitsNext ==
  TypeOK /\ PermitAccounting /\ [Next]_vars => PermitAccounting'
<1> SUFFICES ASSUME TypeOK, PermitAccounting, [Next]_vars
             PROVE  PermitAccounting'
  OBVIOUS
<1>1. CASE UNCHANGED <<pc, permit_semaphore>>
  BY <1>1, PermitsKept DEF Keeps
<1>2. ASSUME NEW i \in Phil, PhilosopherStep(i) PROVE PermitAccounting'
  <2>1. CASE CommonStep(i)
    BY <2>1, CommonMoves, PermitsKeptByMove
  <2>2. CASE RecordStep(i)
    BY <2>2, RecordMoves, PermitsKeptByMove
  <2>3. CASE LockStep(i) \/ UnlockStep(i)
    BY <2>3, LockMoves, PermitsKeptByMove
  <2>4. CASE ShowStep(i)
    BY <2>4, ShowMoves, PermitsKeptByMove
  <2>5. CASE Barrier(i)
    <3>1. WithLeft \cap PermitHeld = {}
      BY DEF WithLeft
    <3>2. /\ \A j \in Phil : \/ pc'[j] = pc[j]
                             \/ pc[j] \in WithLeft /\ pc'[j] \in WithLeft
          /\ UNCHANGED permit_semaphore
      BY <2>5, BarrierMoves
    <3> HIDE DEF PermitHeld
    <3>3. \A j \in Phil : Keeps(j, PermitHeld)
      BY <3>1, <3>2 DEF Keeps
    <3> QED
      BY <3>2, <3>3, PermitsKept
  <2> QED
    BY <1>2, <2>1, <2>2, <2>3, <2>4, <2>5, StepKinds, PermitsRoomStep
<1>3. CASE MonitorStep \/ StartStep \/ Command
           \/ (\E t \in Callers : StopRequest(t) \/ StopStep(t))
  <2>1. CASE UNCHANGED pc
    BY <1>1, <1>3, <2>1, OtherMoves
  <2>2. ASSUME NEW i \in Phil, Moves(i), pc[i] = "none", pc'[i] = "loop"
        PROVE  PermitAccounting'
    <3>1. KeepsPermits(i)
      BY <2>2 DEF KeepsPermits, Keeps
    <3> QED
      BY <1>3, <2>2, <3>1, OtherMoves, PermitsKeptByMove
  <2> QED
    BY <1>3, <2>1, <2>2, OtherMoves
<1> QED
  BY <1>1, <1>2, <1>3 DEF Next, Returned

-----------------------------------------------------------------------------
(***************************************************************************)
(* Joining: what sim_stop has waited for has ended.                         *)
(***************************************************************************)
LEMMA EndedDoesNothing ==
  ASSUME NEW i \in Phil, PhilosopherStep(i)
  PROVE  ~Ended(i)
<1> USE DEF Ended, Jump, Show, LockFork, UnlockFork, Record, Post, Count, At
<1>1. CASE CommonStep(i)
  BY <1>1 DEF CommonStep, SleepChunk, SleepOver, SleepPoints, WakeUp,
              PassPause, TakeStep, WaitPause, PausePoints, AfterPause,
              LoopTest, BreakOnStop, Think, GetHungry, Complete
<1>2. CASE RoomStep(i)
  BY <1>2 DEF RoomStep, CheckPermit, SemWait, ReturnPermitOnStop, CountPermit,
              AbandonPost, SemPost, UncountPermit
<1>3. CASE RecordStep(i)
  BY <1>3 DEF RecordStep, OwnLeft, OwnRight, DisownRight, DisownLeft, Abandon,
              UnsafeOwnLeft, UnsafeDisownLeft
<1>4. CASE LockStep(i) \/ UnlockStep(i)
  BY <1>4 DEF LockStep, LockLeft, UnsafeLockLeft, LockRight, TimedLock,
              UnlockStep, UnlockLeft, UnsafeUnlockLeft, AbandonUnlock,
              UnlockRight, DropRight
<1>5. CASE ShowStep(i)
  BY <1>5 DEF ShowStep, Eat, Release, Acquiring, TimedLockExpires, TimedOut
<1>6. CASE Barrier(i)
  BY <1>6 DEF Barrier
<1> QED
  BY <1>1, <1>2, <1>3, <1>4, <1>5, <1>6, StepKinds

LEMMA EndedStays ==
  ASSUME TypeOK, NEW i \in Phil, PhilosopherStep(i), NEW j \in Phil, Ended(j)
  PROVE  Ended(j)'
<1>1. CASE Barrier(i)
  <2>1. pc[j] \notin WithLeft
    BY DEF Ended, WithLeft
  <2> QED
    BY <1>1, <2>1, BarrierMoves DEF Ended
<1>2. CASE ~Barrier(i)
  <2>1. Moves(i)
    BY <1>2, StepKinds, CommonMoves, RoomMoves, RecordMoves, LockMoves,
       ShowMoves
  <2>2. j # i
    BY EndedDoesNothing
  <2> QED
    BY <2>1, <2>2 DEF Moves, Ended, TypeOK, DiningType
<1> QED
  BY <1>1, <1>2

LEMMA JoinedInStop ==
  ASSUME TypeOK, JoinedHaveEnded, NEW t \in Callers,
         (MayStop /\ StopRequest(t)) \/ StopStep(t)
  PROVE  JoinedHaveEnded'
<1> USE DEF StopAt
<1>1. /\ UNCHANGED <<pc, monitor, started>>
      /\ \A u \in Callers \ {t} : stop_pc'[u] = stop_pc[u]
                                  /\ join_i'[u] = join_i[u]
  BY DEF StopRequest, StopStep, StopWake, JoinSkip, JoinCall, JoinReturn,
         JoinMonitor, JoinMonitorReturn, StopReturn, TypeOK, ControlType
<1>2. phil_threads' \subseteq phil_threads /\ (monitor_thread' => monitor_thread)
  BY DEF StopRequest, StopStep, StopWake, JoinSkip, JoinCall, JoinReturn,
         JoinMonitor, JoinMonitorReturn, StopReturn
<1>3. join_i[t] \in 0 .. N /\ \A j \in phil_threads : j \in Phil /\ j \in Int
  <2>1. Phil \subseteq Int
    BY DEF Phil
  <2> QED
    BY <2>1 DEF TypeOK, ControlType
<1> DEFINE Mine == /\ stop_pc[t] # "idle" => started \in {"failed", "yes"}
                   /\ stop_pc[t] \in {"join", "joining"} =>
                          \A j \in phil_threads : j >= join_i[t]
                   /\ stop_pc[t] \in {"joining_monitor", "clear", "returned"}
                          => phil_threads = {}
                   /\ stop_pc[t] \in {"clear", "returned"} => ~monitor_thread
<1>4. Mine
  BY DEF JoinedHaveEnded
<1>5. Mine'
  <2>1. CASE MayStop /\ StopRequest(t)
    BY <2>1 DEF MayStop, StopRequest, TypeOK, ControlType
  <2>2. CASE StopWake(t)
    <3>1. stop_pc'[t] = "join" /\ join_i'[t] = 0 /\ UNCHANGED handles
      BY <2>2 DEF StopWake, TypeOK, ControlType
    <3>2. \A j \in phil_threads : j >= 0
      BY <1>3, NAssumption DEF Phil
    <3> QED
      BY <1>4, <2>2, <3>1, <3>2 DEF StopWake
  <2>3. CASE JoinSkip(t)
    <3>1. /\ stop_pc'[t] = "join" /\ stop_pc[t] = "join" /\ UNCHANGED handles
          /\ join_i'[t] = join_i[t] + 1 /\ join_i[t] \notin phil_threads
      BY <2>3 DEF JoinSkip, TypeOK, ControlType
    <3>2. \A j \in phil_threads : j >= join_i[t] + 1
      BY <1>3, <1>4, <3>1
    <3> QED
      BY <1>4, <3>1, <3>2
  <2>4. CASE JoinCall(t)
    <3>1. /\ stop_pc'[t] = "joining" /\ stop_pc[t] = "join"
          /\ UNCHANGED <<handles, join_i>>
      BY <2>4 DEF JoinCall, TypeOK, ControlType
    <3> QED
      BY <1>4, <3>1
  <2>5. CASE JoinReturn(t)
    <3>1. /\ stop_pc'[t] = "join" /\ stop_pc[t] = "joining"
          /\ join_i'[t] = join_i[t] + 1
          /\ phil_threads' = phil_threads \ {join_i[t]} /\ UNCHANGED started
      BY <2>5 DEF JoinReturn, TypeOK, ControlType
    <3>2. \A j \in phil_threads \ {join_i[t]} : j >= join_i[t] + 1
      BY <1>3, <1>4, <3>1
    <3> QED
      BY <1>4, <3>1, <3>2
  <2>6. CASE JoinMonitor(t)
    <3>1. /\ stop_pc[t] = "join" /\ join_i[t] = N /\ UNCHANGED <<handles, join_i>>
          /\ stop_pc'[t] = IF monitor_thread THEN "joining_monitor" ELSE "clear"
      BY <2>6 DEF JoinMonitor, TypeOK, ControlType
    <3>2. phil_threads = {}
      BY <1>3, <1>4, <3>1, NAssumption DEF Phil
    <3> QED
      BY <1>4, <3>1, <3>2
  <2>7. CASE JoinMonitorReturn(t)
    <3>1. /\ stop_pc'[t] = "clear" /\ stop_pc[t] = "joining_monitor"
          /\ UNCHANGED <<phil_threads, started>> /\ ~monitor_thread'
      BY <2>7 DEF JoinMonitorReturn, TypeOK, ControlType
    <3> QED
      BY <1>4, <3>1
  <2>8. CASE StopReturn(t)
    <3>1. stop_pc'[t] = "returned" /\ stop_pc[t] = "clear" /\ UNCHANGED handles
      BY <2>8 DEF StopReturn, TypeOK, ControlType
    <3> QED
      BY <1>4, <3>1
  <2> QED
    BY <2>1, <2>2, <2>3, <2>4, <2>5, <2>6, <2>7, <2>8 DEF StopStep
<1>6. \A i \in Phil \ phil_threads' : Ended(i)'
  <2>1. CASE JoinReturn(t)
    BY <1>1, <2>1 DEF JoinReturn, At, Ended, JoinedHaveEnded
  <2>2. CASE ~JoinReturn(t)
    <3>1. UNCHANGED phil_threads
      BY <2>2 DEF StopRequest, StopStep, StopWake, JoinSkip, JoinCall,
                  JoinMonitor, JoinMonitorReturn, StopReturn
    <3> QED
      BY <1>1, <3>1 DEF Ended, JoinedHaveEnded
  <2> QED
    BY <2>1, <2>2
<1>7. ~monitor_thread' => monitor' \in {"none", "done"}
  BY <1>1 DEF JoinedHaveEnded, StopRequest, StopStep, StopWake, JoinSkip,
              JoinCall, JoinReturn, JoinMonitor, JoinMonitorReturn, StopReturn
<1> QED
  BY <1>1, <1>2, <1>5, <1>6, <1>7 DEF JoinedHaveEnded

LEMMA JoinedNext ==
  TypeOK /\ JoinedHaveEnded /\ [Next]_vars => JoinedHaveEnded'
<1> SUFFICES ASSUME TypeOK, JoinedHaveEnded, [Next]_vars
             PROVE  JoinedHaveEnded'
  OBVIOUS
<1>1. CASE UNCHANGED <<pc, monitor, handles, stopping>>
  BY <1>1 DEF JoinedHaveEnded, Ended
<1>2. ASSUME NEW i \in Phil, PhilosopherStep(i) PROVE JoinedHaveEnded'
  <2>1. UNCHANGED <<monitor, handles, stopping>>
    BY <1>2, PhilosopherLeavesHandles
  <2>2. \A j \in Phil \ phil_threads : Ended(j)'
    BY <1>2, EndedStays DEF JoinedHaveEnded
  <2> QED
    BY <2>1, <2>2 DEF JoinedHaveEnded
<1>3. CASE MonitorStep
  BY <1>3 DEF MonitorStep, MonitorLoop, MonitorDeadlock, MonitorFinish,
              MonitorNothing, JoinedHaveEnded, Ended
<1>4. CASE StartStep
  <2>1. \A t \in Callers : stop_pc[t] = "idle" /\ UNCHANGED stopping
    BY <1>4 DEF StartStep, SimStart, CreatePhilosopher, CreateMonitor,
                CreateFails, JoinedHaveEnded
  <2>2. \A t \in Callers : stop_pc'[t] = "idle"
    BY <2>1
  <2>3. CASE CreatePhilosopher
    <3>1. UNCHANGED <<monitor, monitor_thread>>
      BY <2>3 DEF CreatePhilosopher
    <3>2. \A i \in Phil \ phil_threads' : Ended(i)'
      BY <2>3, GotoMoves
         DEF CreatePhilosopher, JoinedHaveEnded, Ended, Moves, TypeOK, DiningType
    <3> QED
      BY <2>2, <3>1, <3>2 DEF JoinedHaveEnded
  <2>4. CASE SimStart \/ CreateMonitor \/ CreateFails
    BY <2>2, <2>4 DEF SimStart, CreateMonitor, CreateFails, JoinedHaveEnded,
                      Ended
  <2> QED
    BY <1>4, <2>3, <2>4 DEF StartStep
<1>5. CASE Command
  BY <1>1, <1>5 DEF Command, SimPause, SimResume, SimStep, SimSetSpeed
<1> QED
  BY <1>1, <1>2, <1>3, <1>4, <1>5, JoinedInStop DEF Next, Returned

-----------------------------------------------------------------------------
(***************************************************************************)
(* The theorems.                                                            *)
(***************************************************************************)
LEMMA IndInit == Init => IndInv
<1> SUFFICES ASSUME Init PROVE IndInv
  OBVIOUS
<1>1. \A i \in Phil : pc[i] = "none"
  BY DEF Init
<1>2. PointsOfStrategy
  BY <1>1 DEF PointsOfStrategy, UnsafePoints, PreventionPoints, PermitPoints
<1>3. MutexesAtPoints
  BY <1>1, NobodyIsNoOne DEF Init, MutexesAtPoints
<1>4. RecordsAtPoints
  BY <1>1, NobodyIsNoOne DEF Init, RecordsAtPoints
<1>5. StatesAtPoints
  BY <1>1 DEF Init, StatesAtPoints
<1>6. PermitAccounting
  <2>1. PermitHolders = {}
    BY <1>1 DEF PermitHolders
  <2> QED
    BY <2>1, FS_EmptySet, NAssumption DEF Init, Permits, PermitAccounting
<1>7. JoinsAPhilosopher
  BY DEF Init, JoinsAPhilosopher
<1>8. JoinedHaveEnded
  BY <1>1 DEF Init, JoinedHaveEnded, Ended
<1> QED
  BY <1>2, <1>3, <1>4, <1>5, <1>6, <1>7, <1>8, TypeInit DEF IndInv, PointsInv

\* In every state of every run the program points tell who has locked which
\* fork, what the records say, who is shown EATING and where the permits are
\* (philosopher_thread, lines 160-371, and sim_stop).
THEOREM Inductive == Spec => []IndInv
<1>1. Init => IndInv
  BY IndInit
<1>2. IndInv /\ [Next]_vars => IndInv'
  <2> SUFFICES ASSUME IndInv, [Next]_vars PROVE IndInv'
    OBVIOUS
  <2> QED
    BY TypeNext, JoinsNext, StrategyNext, MutexNext, RecordsNext, StatesNext,
       PermitsNext, JoinedNext DEF IndInv, PointsInv
<1> QED
  BY <1>1, <1>2, PTL DEF Spec

\* Each of two eaters that share a fork would have it locked.
LEMMA PointsExclude == PointsInv => NeighboursNeverEatTogether
<1> SUFFICES ASSUME PointsInv, NEW i \in Phil, NEW j \in Phil, i # j,
                    state[i] = "EATING", state[j] = "EATING"
             PROVE  Right(i) # j /\ Right(j) # i
  BY DEF NeighboursNeverEatTogether
<1>1. pc[i] \in EatingPoints /\ pc[j] \in EatingPoints
  BY DEF PointsInv, StatesAtPoints
<1>2. EatingPoints \subseteq LeftLocked /\ EatingPoints \subseteq RightLocked
  OBVIOUS
<1>3. /\ fork_mutex[Left(i)] = i /\ fork_mutex[Right(i)] = i
      /\ fork_mutex[Left(j)] = j /\ fork_mutex[Right(j)] = j
  BY <1>1, <1>2, RightIsFork DEF PointsInv, MutexesAtPoints
<1> QED
  BY <1>3 DEF Left

\* Forks are recorded between their locking and their unlocking.
LEMMA PointsAgree == PointsInv => ForkRecordsAgree
<1> SUFFICES ASSUME PointsInv PROVE ForkRecordsAgree
  OBVIOUS
<1>1. ASSUME NEW f \in Fork PROVE fork_owners[f] \in {NoOne, fork_mutex[f]}
  <2>1. fork_owners[f] \in Phil \cup {NoOne}
    BY DEF PointsInv, TypeOK, DiningType
  <2>2. ASSUME NEW i \in Phil, fork_owners[f] = i PROVE fork_mutex[f] = i
    BY <2>2, OwnedIsLocked DEF PointsInv, RecordsAtPoints, MutexesAtPoints
  <2> QED
    BY <2>1, <2>2
<1>2. ASSUME NEW i \in Phil
      PROVE  /\ (forks_held[i][0] = Left(i)) <=> (fork_owners[Left(i)] = i)
             /\ (forks_held[i][1] = Right(i)) <=> (fork_owners[Right(i)] = i)
             /\ forks_held[i][0] \in {NoOne, Left(i)}
             /\ forks_held[i][1] \in {NoOne, Right(i)}
  <2>1. Left(i) # NoOne /\ Right(i) # NoOne
    BY RightIsFork, NAssumption DEF Fork, NoOne
  <2> HIDE DEF LeftOwned, RightOwned
  <2> QED
    BY <2>1, RightIsFork DEF PointsInv, RecordsAtPoints
<1> QED
  BY <1>1, <1>2 DEF ForkRecordsAgree

\* Those who have locked their left fork have a permit, and there are N - 1.
LEMMA PointsBreakCircles == PointsInv => NoCircularWait
<1> SUFFICES ASSUME PointsInv, Strategy = STRATEGY_DEADLOCK_PREVENTION,
                    \A i \in Phil : fork_mutex[Left(i)] = i
             PROVE  FALSE
  BY DEF NoCircularWait
<1>1. \A i \in Phil : pc[i] \in LeftLocked
  BY RightIsFork, OwnedIsLocked, RightLockedIsLeft
     DEF PointsInv, MutexesAtPoints
<1>2. \A i \in Phil : pc[i] \in PermitHeld
  BY <1>1 DEF PointsInv, PointsOfStrategy, UnsafePoints
<1>3. PermitHolders = Phil
  BY <1>2 DEF PermitHolders
<1> QED
  BY <1>3, PhilosophersFinite, NAssumption
     DEF PointsInv, PermitAccounting, TypeOK, DiningType

\* Philosophers that share a fork are never shown EATING together: each of
\* them would have the shared fork locked (lines 211-285).
THEOREM Exclusion == Spec => []NeighboursNeverEatTogether
<1>1. IndInv => NeighboursNeverEatTogether
  BY PointsExclude DEF IndInv
<1> QED
  BY <1>1, Inductive, PTL

\* The records never claim a fork that is not locked, and agree with each
\* other (lines 211-286 and 303-349).
THEOREM RecordsRight == Spec => []ForkRecordsAgree
<1>1. IndInv => ForkRecordsAgree
  BY PointsAgree DEF IndInv
<1> QED
  BY <1>1, Inductive, PTL

\* Permits are neither lost nor made up (lines 196-200, 223-232, 291).
THEOREM PermitsRight == Spec => []PermitAccounting
<1>1. IndInv => PermitAccounting
  BY DEF IndInv, PointsInv
<1> QED
  BY <1>1, Inductive, PTL

\* Under strategy 0 somebody's left fork is not in its own hands, so no circle
\* of philosophers waits: all N of them would hold a permit, of N - 1.
THEOREM NoCircle == Spec => []NoCircularWait
<1>1. IndInv => NoCircularWait
  BY PointsBreakCircles DEF IndInv
<1> QED
  BY <1>1, Inductive, PTL

-----------------------------------------------------------------------------
(***************************************************************************)
(* Somebody can always go on.                                               *)
(***************************************************************************)
LEMMA LeastNatural ==
  ASSUME NEW S \in SUBSET Nat, S # {}
  PROVE  \E x \in S : \A y \in S : x <= y
<1> DEFINE Less == OpToRel(<, Nat)
<1>1. IsWellFoundedOn(Less, Nat)
  BY NatLessThanWellFounded
<1>2. \A x, y \in Nat : x < y => <<x, y>> \in Less
  BY DEF OpToRel
<1> HIDE DEF Less
<1>3. PICK x \in S : \A y \in S : <<y, x>> \notin Less
  BY <1>1, WFMin
<1>4. ASSUME NEW y \in S PROVE x <= y
  <2>1. x \in Nat /\ y \in Nat
    OBVIOUS
  <2>2. ~ (y < x)
    BY <1>2, <1>3, <2>1
  <2> QED
    BY <2>1, <2>2
<1> QED
  BY <1>4

\* A set of philosophers that has the right neighbour of each of them is the
\* whole table.
LEMMA WholeRing ==
  ASSUME NEW S \in SUBSET Phil, S # {}, \A i \in S : Right(i) \in S
  PROVE  S = Phil
<1>1. \A i \in S : i \in Nat /\ i <= N - 1
  BY NAssumption DEF Phil
<1>2. N - 1 \in S
  <2> DEFINE T == {N - 1 - i : i \in S}
  <2>1. T \in SUBSET Nat /\ T # {}
    BY <1>1, NAssumption
  <2>2. PICK t \in T : \A u \in T : t <= u
    BY <2>1, LeastNatural
  <2>3. PICK m \in S : t = N - 1 - m
    BY <2>2
  <2>4. \A i \in S : i <= m
    <3>1. \A i \in S : N - 1 - m <= N - 1 - i
      BY <2>2, <2>3
    <3> QED
      BY <1>1, <3>1, NAssumption
  <2>5. m # N - 1 => m + 1 \in S
    BY RightIs
  <2> QED
    BY <1>1, <2>4, <2>5
<1>3. 0 \in S
  BY <1>2, RightIs
<1>4. Phil \ S = {}
  <2> SUFFICES ASSUME Phil \ S # {} PROVE FALSE
    OBVIOUS
  <2>1. Phil \ S \in SUBSET Nat
    BY NAssumption DEF Phil
  <2>2. PICK k \in Phil \ S : \A j \in Phil \ S : k <= j
    BY <2>1, LeastNatural
  <2>3. k \in Nat /\ k # 0 /\ k <= N - 1
    BY <1>3, <2>2, NAssumption DEF Phil
  <2>4. k - 1 \in Phil
    BY <2>3, NAssumption DEF Phil
  <2>5. k - 1 \in S
    BY <2>2, <2>3, <2>4
  <2>6. Right(k - 1) = k
    BY <2>3, <2>4, RightIs, NAssumption
  <2> QED
    BY <2>2, <2>5, <2>6
<1> QED
  BY <1>4

\* If everybody whose thread runs were blocked, those with a permit would all
\* wait for their right forks, each held by a neighbour that waits too: nobody,
\* and then the semaphore is full, or the whole table, with N permits.
LEMMA NotAllBlocked ==
  ASSUME PointsInv, Strategy = STRATEGY_DEADLOCK_PREVENTION,
         \A i \in Phil : Ended(i) \/ Blocked(i)
  PROVE  AllEnded
<1> DEFINE W == {i \in Phil : pc[i] = "lock_right"}
<1>1. ASSUME NEW i \in Phil, pc[i] \in LeftLocked \/ pc[i] \in RightLocked
      PROVE  pc[i] \in PermitHeld
  BY <1>1 DEF PointsInv, PointsOfStrategy, UnsafePoints
<1>2. ASSUME NEW i \in Phil, pc[i] \in PermitHeld
      PROVE  /\ At(i, "lock_left") \/ At(i, "lock_right")
             /\ BlockedOnFork(i)
  BY <1>2 DEF Ended, Blocked, BlockedOnFork, At
<1>3. ASSUME NEW i \in Phil PROVE pc[i] \notin RightLocked
  <2>1. pc[i] \in RightLocked => pc[i] # "lock_left" /\ pc[i] # "lock_right"
    OBVIOUS
  <2> QED
    BY <1>1, <1>2, <2>1 DEF At
<1>4. ASSUME NEW i \in Phil, NEW f \in Fork, fork_mutex[f] # NoOne
      PROVE  f \in Phil /\ pc[f] \in LeftLocked /\ fork_mutex[f] = f
  <2>1. PICK k \in Phil : fork_mutex[f] = k
    BY <1>4 DEF PointsInv, TypeOK, DiningType
  <2>2. f = Left(k) /\ pc[k] \in LeftLocked
    BY <2>1, <1>3 DEF PointsInv, MutexesAtPoints
  <2> QED
    BY <2>1, <2>2 DEF Left
<1>5. ASSUME NEW i \in Phil, pc[i] \in PermitHeld PROVE i \in W
  <2>1. At(i, "lock_left") => fork_mutex[Left(i)] # NoOne
    BY <1>2, <1>5 DEF BlockedOnFork, At
  <2>2. ~At(i, "lock_left")
    <3>1. "lock_left" \notin LeftLocked
      OBVIOUS
    <3> QED
      BY <1>4, <2>1, <3>1, RightIsFork DEF At, Left
  <2> QED
    BY <1>2, <1>5, <2>2 DEF At
<1>6. ASSUME NEW i \in W PROVE Right(i) \in W
  <2>1. pc[i] \in PermitHeld /\ ~At(i, "lock_left")
    BY DEF At
  <2>2. fork_mutex[Right(i)] # NoOne
    BY <1>2, <2>1 DEF BlockedOnFork
  <2>3. Right(i) \in Phil /\ pc[Right(i)] \in LeftLocked
    BY <1>4, <2>2, RightIsFork
  <2> QED
    BY <1>1, <1>5, <2>3
<1>7. CASE W = {}
  <2>1. PermitHolders = {}
    BY <1>5, <1>7 DEF PermitHolders
  <2>2. permit_semaphore > 0
    BY <2>1, FS_EmptySet, NAssumption
       DEF PointsInv, PermitAccounting, TypeOK, DiningType
  <2>3. \A i \in Phil : ~Blocked(i)
    <3>1. \A i \in Phil : pc[i] \notin PermitHeld
      BY <2>1 DEF PermitHolders
    <3> QED
      BY <2>2, <3>1 DEF Blocked, BlockedOnFork, At, PointsInv, TypeOK, DiningType
  <2> QED
    BY <2>3 DEF AllEnded
<1>8. CASE W # {}
  <2>1. W = Phil
    <3> HIDE DEF W
    <3>1. W \in SUBSET Phil
      BY DEF W
    <3> QED
      BY <1>6, <1>8, <3>1, WholeRing
  <2>2. PermitHolders = Phil
    BY <2>1 DEF PermitHolders
  <2> QED
    BY <2>2, PhilosophersFinite, NAssumption
       DEF PointsInv, PermitAccounting, TypeOK, DiningType
<1> QED
  BY <1>7, <1>8

\* Under strategy 0, while a philosopher's thread runs, some philosopher waits
\* neither for a fork nor for a permit: no deadlock, for any number of them.
THEOREM NeverStuck == Spec => []SomeoneCanGoOn
<1>1. IndInv => SomeoneCanGoOn
  BY NotAllBlocked DEF SomeoneCanGoOn, IndInv
<1> QED
  BY <1>1, Inductive, PTL
===============================================================================
