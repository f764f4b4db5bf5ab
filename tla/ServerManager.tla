---------------------------- MODULE ServerManager ----------------------------
(***************************************************************************)
(* SimulationProcessManager and the routes of hackthone/backend/server.py:  *)
(* the threads that serve requests, one thread for each engine that reads   *)
(* its standard output, and the generators that feed event streams.  They   *)
(* share one lock; a step is one section of it, but for stop_simulation,    *)
(* which waits for the engine with the lock held.                           *)
(*                                                                         *)
(* Of an event only its deadlock flag and the order in which it was applied *)
(* are kept, of current_state the status and that flag.  event_history, the *)
(* routes and the snapshot that only read, and step and set_speed, which    *)
(* change nothing that is kept, are left out.  The engines are seen from    *)
(* outside: they print, and end.                                            *)
(***************************************************************************)
EXTENDS Naturals, Sequences

CONSTANTS
    Requests,     \* threads of the web server
    Clients,      \* event streams
    MaxEngines,   \* bound: the processes that are started
    Demos,        \* the engines whose last event reports a deadlock
    MaxEvents,    \* bound: the events one engine prints
    Pipe,         \* bound: the events its pipe holds
    QueueSize     \* of a client_queue, 100 in the code

None == 0

ASSUME ServerAssumption ==
    /\ None \notin Requests
    /\ MaxEngines \in Nat /\ Demos \subseteq 1 .. MaxEngines
    /\ MaxEvents \in Nat /\ Pipe \in Nat \ {0} /\ QueueSize \in Nat \ {0}

Engines == 1 .. MaxEngines
Ops == {"start", "stop", "reset", "PAUSE", "RESUME"}

VARIABLES
    process, is_running, status, deadlock, subscribers,  \* of the manager
    lock,          \* the request that waits inside it, or None
    request,       \* the operation of each request thread, and where it is
    engine,        \* "unborn", "running" or "ended"
    out,           \* what is in the pipe of each engine
    printed,       \* how many events it has printed
    asked,         \* the engines sent STOP, and SIGTERM if that was not enough
    reader,        \* where each reader thread is
    client,        \* where each generator is
    client_queue,  \* the numbers of the events in it
    \* For the properties: how many events were applied, and the number of the
    \* one each client should get next.
    applied, next

manager == <<process, is_running, status, deadlock>>
engines == <<engine, out, printed>>
streams == <<subscribers, client, client_queue, next>>
vars == <<manager, lock, request, engines, asked, reader, applied, streams>>

Idle == [op |-> "none", at |-> "idle"]
Init ==
    /\ process = None /\ is_running = FALSE
    /\ status = "STOPPED" /\ deadlock = FALSE
    /\ subscribers = {} /\ lock = None
    /\ request = [r \in Requests |-> Idle]
    /\ engine = [e \in Engines |-> "unborn"]
    /\ out = [e \in Engines |-> <<>>] /\ printed = [e \in Engines |-> 0]
    /\ asked = {}
    /\ reader = [e \in Engines |-> "none"]
    /\ client = [c \in Clients |-> "away"]
    /\ client_queue = [c \in Clients |-> <<>>]
    /\ applied = 0 /\ next = [c \in Clients |-> 0]

Free == lock = None
At(r, place) == request[r].at = place
Goes(r, place) == request' = [request EXCEPT ![r].at = place]
Answers(r) == request' = [request EXCEPT ![r] = Idle]

(*************************** start and stop_simulation *********************)

Clears == /\ process' = None /\ is_running' = FALSE /\ status' = "STOPPED"
          /\ UNCHANGED <<deadlock, engine, reader>>

\* Popen, and the rest of start_simulation; Popen may also raise.
Spawns ==
    /\ \E e \in Engines :
           /\ engine[e] = "unborn" /\ \A d \in 1 .. e - 1 : engine[d] # "unborn"
           /\ engine' = [engine EXCEPT ![e] = "running"]
           /\ reader' = [reader EXCEPT ![e] = "reading"]
           /\ process' = e
    /\ is_running' = TRUE /\ status' = "RUNNING" /\ deadlock' = FALSE

\* start goes on in the section of the stop, reset in one of its own.
Stopped(r) ==
    /\ \/ request[r].op = "stop"  /\ Clears /\ Answers(r)
       \/ request[r].op = "reset" /\ Clears /\ Goes(r, "clear")
       \/ request[r].op = "start" /\ (Spawns \/ Clears) /\ Answers(r)
    /\ UNCHANGED <<out, printed, applied, streams>>

Begins(r) ==
    /\ Free /\ At(r, "begin") /\ request[r].op \in {"start", "stop", "reset"}

(*************************** Slips *****************************************)
(* Plausible mistakes in the code below, each of which a run must notice.   *)
(***************************************************************************)
\* The manager lets go of the engine without a STOP.
LetGo(r) == Begins(r) /\ Stopped(r) /\ UNCHANGED <<lock, asked>>

\* The engine is waited for without a limit.
WaitForGood(r) ==
    /\ lock = r /\ engine[process] = "ended"
    /\ lock' = None /\ Stopped(r)
    /\ UNCHANGED asked

\* A client whose queue is full misses the event and stays on the list.
NeverDrops(c) == FALSE

\* The end of any engine's output ends the run.
AnyProcess(e) == TRUE

(***************************************************************************)

\* STOP is written to the engine there is.
BeginStop(r) ==
    /\ Begins(r)
    /\ IF process = None
       THEN Stopped(r) /\ UNCHANGED <<lock, asked>>
       ELSE /\ asked' = asked \cup {process}
            /\ lock' = r /\ Goes(r, "wait")
            /\ UNCHANGED <<manager, engines, reader, applied, streams>>

\* wait(timeout=1.5) comes back when the engine has ended, or with the
\* exception after which the engine is sent SIGTERM and left to itself.
WaitEnds(r) ==
    /\ lock = r
    /\ lock' = None /\ Stopped(r)
    /\ UNCHANGED asked

(*************************** The other routes ******************************)

Request(r) ==
    /\ At(r, "idle")
    /\ \E op \in Ops : request' = [request EXCEPT ![r] = [op |-> op, at |-> "begin"]]
    /\ UNCHANGED <<manager, lock, engines, asked, reader, applied, streams>>

\* reset_simulation's own section.
Clear(r) ==
    /\ Free /\ At(r, "clear")
    /\ status' = "STOPPED" /\ deadlock' = FALSE
    /\ Answers(r)
    /\ UNCHANGED <<process, is_running, lock, engines, asked, reader, applied, streams>>

\* send_command; a write to an engine that has ended is an error.
SendCommand(r) ==
    /\ Free /\ At(r, "begin") /\ request[r].op \in {"PAUSE", "RESUME"}
    /\ IF is_running /\ process # None /\ engine[process] = "running"
       THEN Goes(r, "set") ELSE Answers(r)
    /\ UNCHANGED <<manager, lock, engines, asked, reader, applied, streams>>

\* The second section of pause and resume.
SetStatus(r) ==
    /\ Free /\ At(r, "set")
    /\ status' = IF request[r].op = "PAUSE" THEN "PAUSED" ELSE "RUNNING"
    /\ Answers(r)
    /\ UNCHANGED <<process, is_running, deadlock, lock, engines, asked, reader,
                   applied, streams>>

Serves(r) == \/ BeginStop(r) \/ WaitEnds(r) \/ Clear(r)
             \/ SendCommand(r) \/ SetStatus(r)

(*************************** The engines ***********************************)

Prints(e) ==
    /\ engine[e] = "running"
    /\ Len(out[e]) < Pipe /\ printed[e] < MaxEvents
    /\ printed' = [printed EXCEPT ![e] = @ + 1]
    /\ out' = [out EXCEPT ![e] = Append(@,
                    [deadlock |-> e \in Demos /\ printed'[e] = MaxEvents])]
    /\ UNCHANGED <<manager, lock, request, engine, asked, reader, applied, streams>>

\* An engine whose pipe is full cannot end: it still has to print that.
Ends(e) ==
    /\ engine[e] = "running" /\ Len(out[e]) < Pipe
    /\ engine' = [engine EXCEPT ![e] = "ended"]
    /\ UNCHANGED <<manager, lock, request, out, printed, asked, reader, applied, streams>>

(*************************** _read_stdout and _process_event ***************)

\* Reading is a step of its own: the line is in hand while the lock is not.
ReadLine(e) ==
    /\ reader[e] = "reading"
    /\ \/ out[e] # <<>> /\ reader' = [reader EXCEPT ![e] = "event"]
       \/ /\ out[e] = <<>> /\ engine[e] = "ended"
          /\ reader' = [reader EXCEPT ![e] = "eof"]
    /\ UNCHANGED <<manager, lock, request, engines, asked, applied, streams>>

\* put_nowait into every queue; a full one is taken off the list.
Drops(c) == Len(client_queue[c]) >= QueueSize
Broadcast ==
    /\ applied' = applied + 1
    /\ client_queue' = [c \in Clients |->
                            IF c \in subscribers /\ Len(client_queue[c]) < QueueSize
                            THEN Append(client_queue[c], applied')
                            ELSE client_queue[c]]
    /\ subscribers' = {c \in subscribers : ~Drops(c)}

\* Nothing asks whose event it is.
ProcessEvent(e) ==
    /\ Free /\ reader[e] = "event"
    /\ Broadcast
    /\ deadlock' = Head(out[e]).deadlock
    /\ status' = IF deadlock' THEN "DEADLOCKED" ELSE status
    /\ out' = [out EXCEPT ![e] = Tail(@)]
    /\ reader' = [reader EXCEPT ![e] = "reading"]
    /\ UNCHANGED <<process, is_running, lock, request, engine, printed, asked,
                   client, next>>

\* The section after the loop.
IsCurrent(e) == process = e
EndOfOutput(e) ==
    /\ Free /\ reader[e] = "eof"
    /\ reader' = [reader EXCEPT ![e] = "gone"]
    /\ IF IsCurrent(e)
       THEN /\ is_running' = FALSE
            /\ status' = IF deadlock THEN "DEADLOCKED" ELSE "FINISHED"
       ELSE UNCHANGED <<is_running, status>>
    /\ UNCHANGED <<process, deadlock, lock, request, engines, asked, applied, streams>>

Reads(e) == ReadLine(e) \/ ProcessEvent(e) \/ EndOfOutput(e)

(*************************** sse_stream ************************************)

Subscribe(c) ==
    /\ Free /\ client[c] = "away"
    /\ client' = [client EXCEPT ![c] = "streaming"]
    /\ subscribers' = subscribers \cup {c}
    /\ next' = [next EXCEPT ![c] = applied + 1]
    /\ UNCHANGED <<manager, lock, request, engines, asked, reader, applied,
                   client_queue>>

Delivers(c) ==
    /\ client[c] = "streaming" /\ client_queue[c] # <<>>
    /\ client_queue' = [client_queue EXCEPT ![c] = Tail(@)]
    /\ next' = [next EXCEPT ![c] = Head(client_queue[c]) + 1]
    /\ UNCHANGED <<manager, lock, request, engines, asked, reader, applied,
                   subscribers, client>>

\* GeneratorExit: the connection is closed, and the page connects again.
Leaves(c) ==
    /\ Free /\ client[c] = "streaming"
    /\ client' = [client EXCEPT ![c] = "away"]
    /\ subscribers' = subscribers \ {c}
    /\ client_queue' = [client_queue EXCEPT ![c] = <<>>]
    /\ next' = [next EXCEPT ![c] = 0]
    /\ UNCHANGED <<manager, lock, request, engines, asked, reader, applied>>

Streams(c) == Subscribe(c) \/ Delivers(c) \/ Leaves(c)

(***************************************************************************)

Next == \/ \E r \in Requests : Request(r) \/ Serves(r)
        \/ \E e \in Engines : Prints(e) \/ Ends(e) \/ Reads(e)
        \/ \E c \in Clients : Streams(c)

Spec == Init /\ [][Next]_vars

\* Threads that serve a request are run.  Nothing is asked of the engines,
\* which may hang, nor of anybody else.
FairSpec == Spec /\ \A r \in Requests : WF_vars(Serves(r))

(*************************** Properties ************************************)

\* is_running says that the current engine's output has not come to its end,
\* whatever old engines' readers are still about (server.py:153-156).
RunningIsTrue == is_running = (process # None /\ reader[process] # "gone")

\* No engine is left running behind the manager's back: each one but the
\* current one was told to stop, over all interleavings of start, stop and
\* reset, timeouts and failed starts (server.py:51-53, 237-249).
NoEngineForgotten ==
    \A e \in Engines : engine[e] = "running" /\ e # process => e \in asked

\* What waits for a client follows on what it got without a gap, and while it
\* is on the list nothing after that is missing; so a client whose queue was
\* full has everything up to the moment it was dropped (server.py:187-194,
\* 350-363).
StreamsAreComplete ==
    \A c \in Clients :
        LET waiting == Len(client_queue[c])
        IN  /\ \A k \in 1 .. waiting : client_queue[c][k] = next[c] + k - 1
            /\ c \in subscribers => next[c] + waiting = applied + 1

\* Every request is answered, although stop waits with the lock held for an
\* engine that may be waiting for its reader, which waits for the lock
\* (server.py:234-248).
RequestsReturn == \A r \in Requests : ~At(r, "idle") ~> At(r, "idle")
=============================================================================
