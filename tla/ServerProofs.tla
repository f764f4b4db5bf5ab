---------------------------- MODULE ServerProofs ----------------------------
(***************************************************************************)
(* What the manager of server.py keeps true for any number of requests,     *)
(* engines and event streams: whether the run is over, which engines were   *)
(* told to stop, and that no stream has a gap.                              *)
(***************************************************************************)
EXTENDS ServerManager, SequenceTheorems, TLAPS

(*************************** Types *****************************************)

\* The parts of the state the proofs speak of.
ManagerType ==
    /\ process \in Engines \cup {None}
    /\ is_running \in BOOLEAN
    /\ engine \in [Engines -> {"unborn", "running", "ended"}]
    /\ reader \in [Engines -> {"none", "reading", "event", "eof", "gone"}]
StreamType ==
    /\ applied \in Nat
    /\ next \in [Clients -> Nat]
    /\ client_queue \in [Clients -> Seq(Nat)]
    /\ DOMAIN client = Clients

\* A request is inside the lock only to wait for the engine it told to stop.
WaitsForAsked == lock # None => process \in asked

\* Nobody's queue is filled after it has left the list.
AwayIsEmpty ==
    \A c \in Clients : client[c] = "away" => c \notin subscribers /\ client_queue[c] = <<>>

(*************************** The manager ***********************************)

ManagerInv == ManagerType /\ WaitsForAsked /\ RunningIsTrue /\ NoEngineForgotten
managerVars == <<process, is_running, engine, reader, lock, asked>>

LEMMA ManagerInit == Init => ManagerInv
  <1> SUFFICES ASSUME Init PROVE ManagerInv
    OBVIOUS
  <1>1. ManagerType /\ WaitsForAsked /\ NoEngineForgotten
    BY DEF Init, ManagerType, WaitsForAsked, NoEngineForgotten
  <1>2. RunningIsTrue
    BY DEF Init, RunningIsTrue
  <1> QED
    BY <1>1, <1>2 DEF ManagerInv

LEMMA ManagerUntouched == ManagerInv /\ UNCHANGED managerVars => ManagerInv'
  BY DEF managerVars, ManagerInv, ManagerType, WaitsForAsked, RunningIsTrue, NoEngineForgotten

\* Stopping, and starting in the same section, once the engine there was has
\* been told to stop.
LEMMA StoppedKeeps ==
    ASSUME ManagerInv, NEW r, Stopped(r), lock' = None, asked' = asked,
           process = None \/ process \in asked
    PROVE  ManagerInv'
  <1> USE DEF ManagerInv, ManagerType, WaitsForAsked, RunningIsTrue, NoEngineForgotten
  <1>1. CASE Clears
    BY <1>1 DEF Clears, Engines, None
  <1>2. CASE Spawns
    <2>1. PICK e \in Engines :
              /\ engine' = [engine EXCEPT ![e] = "running"]
              /\ reader' = [reader EXCEPT ![e] = "reading"]
              /\ process' = e /\ is_running' = TRUE
      BY <1>2 DEF Spawns
    <2>2. None \notin Engines
      BY ServerAssumption DEF Engines, None
    <2>3. ManagerType'
      BY <2>1
    <2>4. WaitsForAsked'
      OBVIOUS
    <2>5. reader'[e] = "reading"
      BY <2>1
    <2>6. RunningIsTrue'
      BY <2>1, <2>2, <2>5
    <2>7. ASSUME NEW d \in Engines, engine'[d] = "running", d # e PROVE d \in asked'
      BY <2>1, <2>2, <2>7
    <2> QED
      BY <2>1, <2>3, <2>4, <2>6, <2>7
  <1> QED
    BY <1>1, <1>2 DEF Stopped

LEMMA ServesKeeps == ASSUME ManagerInv, NEW r \in Requests, Serves(r) PROVE ManagerInv'
  <1> USE DEF manager, engines
  <1>1. CASE BeginStop(r)
    <2>1. CASE process = None
      BY <1>1, <2>1, StoppedKeeps DEF BeginStop, Begins, Free
    <2>2. CASE process # None
      BY <1>1, <2>2 DEF BeginStop, ManagerInv, ManagerType, WaitsForAsked, RunningIsTrue,
                        NoEngineForgotten
    <2> QED
      BY <2>1, <2>2
  <1>2. CASE WaitEnds(r)
    <2>1. process \in asked
      BY <1>2, ServerAssumption DEF WaitEnds, ManagerInv, WaitsForAsked
    <2> QED
      BY <1>2, <2>1, StoppedKeeps DEF WaitEnds
  <1>3. CASE Clear(r) \/ SendCommand(r) \/ SetStatus(r)
    BY <1>3, ManagerUntouched DEF Clear, SendCommand, SetStatus, managerVars
  <1> QED
    BY <1>1, <1>2, <1>3 DEF Serves

LEMMA EnginesKeep ==
    ASSUME ManagerInv, NEW e \in Engines, Prints(e) \/ Ends(e) \/ Reads(e)
    PROVE  ManagerInv'
  <1> USE DEF manager, engines
  <1>1. CASE Prints(e)
    BY <1>1, ManagerUntouched DEF Prints, managerVars
  <1> USE DEF ManagerInv, ManagerType, WaitsForAsked, RunningIsTrue, NoEngineForgotten
  <1>2. CASE Ends(e)
    BY <1>2 DEF Ends
  <1>3. CASE ReadLine(e)
    BY <1>3 DEF ReadLine
  <1>4. CASE ProcessEvent(e)
    BY <1>4 DEF ProcessEvent
  <1>5. CASE EndOfOutput(e)
    <2>1. process = e => process # None
      BY ServerAssumption DEF Engines, None
    <2> QED
      BY <1>5, <2>1 DEF EndOfOutput, IsCurrent
  <1> QED
    BY <1>1, <1>2, <1>3, <1>4, <1>5 DEF Reads

LEMMA ManagerStep == ManagerInv /\ [Next]_vars => ManagerInv'
  <1> SUFFICES ASSUME ManagerInv, [Next]_vars PROVE ManagerInv'
    OBVIOUS
  <1> USE DEF manager, engines
  <1>1. CASE \E r \in Requests : Request(r)
    BY <1>1, ManagerUntouched DEF Request, managerVars
  <1>2. CASE \E c \in Clients : Streams(c)
    BY <1>2, ManagerUntouched DEF Streams, Subscribe, Delivers, Leaves, managerVars
  <1>3. CASE UNCHANGED vars
    BY <1>3, ManagerUntouched DEF vars, managerVars
  <1> QED
    BY <1>1, <1>2, <1>3, ServesKeeps, EnginesKeep DEF Next

(*************************** The streams ***********************************)

StreamInv == StreamType /\ AwayIsEmpty /\ StreamsAreComplete

LEMMA StreamInit == Init => StreamInv
  BY DEF Init, StreamInv, StreamType, AwayIsEmpty, StreamsAreComplete

LEMMA StreamUntouched == StreamInv /\ UNCHANGED <<applied, streams>> => StreamInv'
  BY DEF streams, StreamInv, StreamType, AwayIsEmpty, StreamsAreComplete

\* One more event: who is on the list and has room gets it and stays.
LEMMA EventKeeps ==
    ASSUME StreamInv, Broadcast, UNCHANGED <<client, next>> PROVE StreamInv'
  <1>1. applied' = applied + 1 /\ applied' \in Nat
    BY DEF Broadcast, StreamInv, StreamType
  <1>2. \A c \in Clients :
           /\ client_queue'[c] = IF c \in subscribers /\ Len(client_queue[c]) < QueueSize
                                 THEN Append(client_queue[c], applied') ELSE client_queue[c]
           /\ c \in subscribers' <=> c \in subscribers /\ ~Drops(c)
    BY DEF Broadcast
  <1>3. DOMAIN client_queue' = Clients /\ client_queue' \in [Clients -> Seq(Nat)]
    BY <1>1, AppendProperties DEF Broadcast, StreamInv, StreamType
  <1>4. StreamType'
    BY <1>1, <1>3 DEF StreamInv, StreamType
  <1>5. AwayIsEmpty'
    BY <1>2 DEF StreamInv, AwayIsEmpty
  <1>6. ASSUME NEW c \in Clients
        PROVE /\ \A k \in 1 .. Len(client_queue'[c]) : client_queue'[c][k] = next'[c] + k - 1
              /\ c \in subscribers' => next'[c] + Len(client_queue'[c]) = applied' + 1
    <2> DEFINE q == client_queue[c]
               n == next[c]
    <2>1. /\ q \in Seq(Nat) /\ n \in Nat /\ Len(q) \in Nat /\ applied \in Nat
          /\ \A k \in 1 .. Len(q) : q[k] = n + k - 1
          /\ c \in subscribers => n + Len(q) = applied + 1
      BY DEF StreamInv, StreamType, StreamsAreComplete
    <2>2. next'[c] = n
      OBVIOUS
    <2>3. CASE c \in subscribers /\ Len(q) < QueueSize
      <3>1. client_queue'[c] = Append(q, applied')
        BY <1>2, <2>3
      <3>2. /\ Len(client_queue'[c]) = Len(q) + 1
            /\ \A k \in 1 .. Len(q) : client_queue'[c][k] = q[k]
            /\ client_queue'[c][Len(q) + 1] = applied'
        BY <3>1, <2>1, <1>1, AppendProperties
      <3>3. applied' = n + Len(q)
        BY <2>1, <2>3, <1>1
      <3>4. ASSUME NEW k \in 1 .. Len(q) + 1
            PROVE  client_queue'[c][k] = n + k - 1
        <4>1. CASE k \in 1 .. Len(q)
          BY <4>1, <3>2, <2>1
        <4>2. CASE k = Len(q) + 1
          BY <4>2, <3>2, <3>3, <2>1
        <4> QED
          BY <4>1, <4>2, <2>1
      <3>5. n + (Len(q) + 1) = applied' + 1
        BY <3>3, <2>1
      <3> HIDE DEF q, n
      <3> QED
        BY <3>2, <3>4, <3>5, <2>2
    <2>4. CASE ~(c \in subscribers /\ Len(q) < QueueSize)
      <3>1. client_queue'[c] = q
        BY <1>2, <2>4
      <3>2. c \notin subscribers'
        BY <1>2, <2>1, <2>4, ServerAssumption DEF Drops
      <3> QED
        BY <2>1, <2>2, <3>1, <3>2
    <2> QED
      BY <2>3, <2>4
  <1> QED
    BY <1>4, <1>5, <1>6 DEF StreamInv, StreamsAreComplete

LEMMA StreamsKeep == ASSUME StreamInv, NEW c \in Clients, Streams(c) PROVE StreamInv'
  <1> USE DEF StreamInv, StreamType, AwayIsEmpty, StreamsAreComplete
  <1>1. CASE Subscribe(c)
    BY <1>1 DEF Subscribe
  <1>2. CASE Leaves(c)
    BY <1>2 DEF Leaves
  <1>3. CASE Delivers(c)
    <2> DEFINE q == client_queue[c]
               n == next[c]
    <2>1. /\ q \in Seq(Nat) /\ n \in Nat /\ Len(q) \in Nat /\ applied \in Nat
          /\ \A k \in 1 .. Len(q) : q[k] = n + k - 1
          /\ c \in subscribers => n + Len(q) = applied + 1
          /\ q # <<>> /\ client[c] # "away"
      BY <1>3 DEF Delivers
    <2>2. /\ client_queue' = [client_queue EXCEPT ![c] = Tail(q)]
          /\ next' = [next EXCEPT ![c] = Head(q) + 1]
          /\ UNCHANGED <<applied, subscribers, client>>
      BY <1>3 DEF Delivers
    <2>3. /\ Head(q) = q[1] /\ Tail(q) \in Seq(Nat) /\ Len(Tail(q)) = Len(q) - 1
          /\ \A k \in 1 .. Len(Tail(q)) : Tail(q)[k] = q[k + 1]
      BY <2>1, HeadTailProperties
    <2>4. Len(q) >= 1
      BY <2>1, EmptySeq
    <2>5. Head(q) = n
      BY <2>1, <2>3, <2>4
    <2>6. \A k \in 1 .. Len(Tail(q)) : Tail(q)[k] = (n + 1) + k - 1
      BY <2>1, <2>3
    <2>7. c \in subscribers => (n + 1) + Len(Tail(q)) = applied + 1
      BY <2>1, <2>3
    <2>8. next' = [next EXCEPT ![c] = n + 1]
      BY <2>2, <2>5
    <2> HIDE DEF n
    <2>9. StreamType'
      BY <2>1, <2>2, <2>3, <2>8
    <2>10. AwayIsEmpty'
      BY <2>1, <2>2
    <2>11. client_queue'[c] = Tail(q) /\ next'[c] = n + 1
      BY <2>2, <2>8
    <2>12. \A d \in Clients \ {c} : client_queue'[d] = client_queue[d] /\ next'[d] = next[d]
      BY <2>2, <2>8
    <2> HIDE DEF q
    <2>13. StreamsAreComplete'
      BY <2>2, <2>6, <2>7, <2>11, <2>12
    <2> QED
      BY <2>9, <2>10, <2>13
  <1> QED
    BY <1>1, <1>2, <1>3 DEF Streams

LEMMA StreamStep == StreamInv /\ [Next]_vars => StreamInv'
  <1> SUFFICES ASSUME StreamInv, [Next]_vars PROVE StreamInv'
    OBVIOUS
  <1>1. CASE \E r \in Requests : Request(r) \/ Serves(r)
    BY <1>1, StreamUntouched
       DEF Request, Serves, BeginStop, WaitEnds, Stopped, Clear, SendCommand, SetStatus
  <1>2. CASE \E e \in Engines : Prints(e) \/ Ends(e) \/ ReadLine(e) \/ EndOfOutput(e)
    BY <1>2, StreamUntouched DEF Prints, Ends, ReadLine, EndOfOutput
  <1>3. CASE \E e \in Engines : ProcessEvent(e)
    BY <1>3, EventKeeps DEF ProcessEvent
  <1>4. CASE UNCHANGED vars
    BY <1>4, StreamUntouched DEF vars
  <1> QED
    BY <1>1, <1>2, <1>3, <1>4, StreamsKeep DEF Next, Reads

(*************************** Theorems **************************************)

\* The manager says that a run is on exactly while the output of the current
\* engine has not been read to its end, however many old readers are about
\* (server.py:153).
THEOREM RunningKnown == Spec => []RunningIsTrue
  <1>1. ManagerInv => RunningIsTrue
    BY DEF ManagerInv
  <1> QED
    BY ManagerInit, ManagerStep, <1>1, PTL DEF Spec

\* An engine that runs and is not the current one was told to stop
\* (server.py:237).
THEOREM EnginesToldToStop == Spec => []NoEngineForgotten
  <1>1. ManagerInv => NoEngineForgotten
    BY DEF ManagerInv
  <1> QED
    BY ManagerInit, ManagerStep, <1>1, PTL DEF Spec

\* No event stream has a gap before the point at which it was dropped
\* (server.py:187).
THEOREM StreamsHaveNoGap == Spec => []StreamsAreComplete
  <1>1. StreamInv => StreamsAreComplete
    BY DEF StreamInv
  <1> QED
    BY StreamInit, StreamStep, <1>1, PTL DEF Spec
=============================================================================
