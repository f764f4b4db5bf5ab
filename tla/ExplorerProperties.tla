------------------------- MODULE ExplorerProperties -------------------------
(***************************************************************************)
(* What must hold of the explorer.  Line numbers are those of               *)
(* LinuxFileSystemExplorer/src/file_operations.c unless a file is named.    *)
(***************************************************************************)
EXTENDS Explorer

VARIABLES
    moving,    \* history: what the write or the copy has to move, where to,
               \* and what that file held when it was opened
    there      \* history: the names that were in the directory all along since
               \* the listing opened it

NoTransfer == [source |-> <<>>, base |-> <<>>, into |-> Nothing]

Into(f) == fds'[f].ino

\* Bytes that no other process appended.
Ours(b) == b \in {"x", "y", "t", "newline"}

MovingNext ==
    moving' =
        CASE pc = "write:text" /\ pc' = "write:open" ->
                 [moving EXCEPT !.source = Append(frame'.buf, "newline")]
          [] pc = "write:open" /\ pc' = "write:loop" ->
                 [moving EXCEPT !.into = Into(frame'.fd),
                                !.base = content'[Into(frame'.fd)]]
          [] pc = "copy:create" /\ pc' = "copy:read" ->
                 [source |-> SelectSeq(content[fds[frame.fd].ino], Ours), base |-> <<>>,
                  into |-> Into(frame'.fd2)]
          [] pc = "return" /\ pc' # "return" -> NoTransfer
          [] OTHER -> moving

Streaming == pc \in {"list:read", "list:lstat", "list:close", "list:abandon"}
ThereNext ==
    there' = CASE ~Streaming' -> {}
               [] ~Streaming /\ Streaming' -> Present(Into(frame'.fd))
               [] OTHER -> there \cap Present(fds[frame.fd].ino)'

historyVars == <<moving, there>>
allVars == <<vars, historyVars>>
HInit == Init /\ moving = NoTransfer /\ there = {}
History == MovingNext /\ ThereNext
HNext == Next /\ History
HSpec == HInit /\ [][HNext]_allVars
HFairSpec == HSpec /\ WF_allVars(Process /\ History)

(*************************** Types *****************************************)

Byte == {"x", "y", "t", "newline", "o", "hole"}

\* Every variable has its type.
TypeOK ==
    /\ entry \in [Inodes -> [Names -> Inodes \cup {Nothing}]]
    /\ kind \in [Inodes -> {"file", "dir", "link"}]
    /\ \A i \in Inodes : content[i] \in Seq(Byte) /\ Len(content[i]) <= MaxSize
    /\ up \in [Inodes -> Inodes] /\ cwd \in Inodes
    /\ \A f \in Descriptors : fds[f].ino \in Inodes \cup {Nothing}
    /\ frame.fd \in Descriptors \cup {NoFd}
    /\ frame.fd2 \in Descriptors \cup {NoFd}
    /\ frame.n \in (0 .. MaxSize) \cup Offsets
    /\ told \in {"none", "success", "error", "notice", "warning"}
    /\ eof \in BOOLEAN /\ faults \in 0 .. MaxFaults /\ others \in 0 .. MaxOtherActs

(*************************** Descriptors ***********************************)

\* The points of the code at which an operation holds one descriptor, and two.
HoldsOne == {"create:close", "read:loop", "read:abandon", "read:close",
             "write:loop", "write:newline", "write:abandon", "write:close",
             "lseek:ask", "lseek:cancel", "lseek:seek", "lseek:read",
             "lseek:abandon", "lseek:close", "copy:fstat", "copy:create",
             "copy:abandon", "list:read", "list:lstat", "list:abandon",
             "list:close"}
HoldsTwo == {"copy:read", "copy:write", "copy:cleanup", "copy:closesrc"}
Held == {frame.fd, frame.fd2} \ {NoFd}

\* The descriptors that are open are those the running operation holds, no
\* more and no fewer: no error path leaves one open behind it, and no call is
\* made on one that is closed already.  "never leak the descriptor" (:140).
OnlyHeldAreOpen ==
    /\ \A f \in Descriptors : IsOpen(f) <=> f \in Held
    /\ pc \in HoldsOne => frame.fd # NoFd /\ frame.fd2 = NoFd
    /\ pc \in HoldsTwo => frame.fd # NoFd /\ frame.fd2 # NoFd /\ frame.fd # frame.fd2
    /\ pc = "copy:closedst" => frame.fd = NoFd /\ frame.fd2 # NoFd
    /\ pc \notin HoldsOne \cup HoldsTwo \cup {"copy:closedst"} => Held = {}

(*************************** Transfers *************************************)

Arrived == IF moving.into = Nothing THEN <<>>
           ELSE SelectSeq(SubSeq(content[moving.into], Len(moving.base) + 1,
                                 Len(content[moving.into])), Ours)

\* The write (:183) and the copy (:424) as transfers.
WriteOrCopy == INSTANCE Transfer WITH
    source <- IF moving.into = Nothing THEN <<>> ELSE moving.source,
    moved <- Arrived,
    phase <- CASE moving.into = Nothing -> "idle"
               [] moving.into # Nothing /\ pc # "return" -> "moving"
               [] OTHER -> IF told = "success" THEN "done" ELSE "failed"

\* A write moves the typed line and its newline, a copy the bytes of its
\* source: in order, each byte once, success only when all are there, and
\* however the kernel splits, interrupts or fails the calls.
TransfersFaithfully == WriteOrCopy!Spec

\* A transfer that has begun ends: every retry of the loops is spent some day.
TransfersEnd == WriteOrCopy!Ends

\* What a file held before a write is still in front of what was written,
\* and what another process appended meanwhile is not written over (O_APPEND,
\* :206).
AppendsOnly ==
    [][frame.op = "write" => \A i \in Inodes : Alive(i) => IsPrefix(content[i], content'[i])]_vars

\* A copy that reports success has left the destination with what the source
\* held: two names of one file are not copied onto each other (:548).
CopiedWhole ==
    frame.op = "copy" /\ pc = "return" /\ told = "success"
        => content[moving.into] = moving.source

\* No copy fails because a signal interrupted one of its calls, however often
\* (:469, :487), and no write but at its last call, that of the newline, which
\* is not made again (:221, :231).  Reading has no such promise (:137, :360).
InterruptsAreRetried ==
    pc = "return" /\ told = "error" /\ frame.errno = "EINTR" =>
        frame.op \in {"read", "lseek"} \/ (frame.op = "write" /\ frame.buf = <<>>)

(*************************** Names *****************************************)

\* No file or directory loses its last name by an operation but what a rename
\* replaces and the empty directory rmdir is asked to remove, even when other
\* processes change what the names stand for between the prompt and the call.
\* One that has another name left may lose the name it was given.
LosesNoFile ==
    [][others' = others => \A i \in Inodes \ {Root} : Alive(i) /\ ~Alive(i)' =>
           \/ pc = "rename:call" /\ i = Lookup(frame.path2)
           \/ pc = "rmdir:call" /\ i = Lookup(frame.path)
              /\ Is(i, "dir") /\ Present(i) = {}]_vars

(*************************** Listing ***************************************)

Rows(n) == {j \in 1 .. Len(frame.shown) : frame.shown[j][1] = n}

\* A listing shows no entry twice, and when readdir has come to the end, though
\* others create and remove entries meanwhile, it has shown every entry that
\* was there all along (directory_operations.c:79).
ListsEachOnce ==
    Streaming =>
        /\ \A n \in Names : Cardinality(Rows(n)) <= 1
        /\ pc \in {"list:close", "list:abandon"} /\ frame.errno # "EIO" =>
              \A n \in there : Rows(n) # {} \/ TooLong(Within(frame.path, n))

(*************************** Progress **************************************)

\* Every operation returns to the menu, whatever fails.
OperationsReturn == pc \notin {"menu", "choice", "exit", "ended"} ~> pc = "return"

\* The end of input ends the program, even in the middle of an operation.
EndOfInputEnds == eof ~> pc = "ended"
=============================================================================
