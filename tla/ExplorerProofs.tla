--------------------------- MODULE ExplorerProofs ---------------------------
(***************************************************************************)
(* No operation of the explorer leaves a descriptor open, and none calls    *)
(* the kernel on a descriptor it does not hold; the disk, the descriptors   *)
(* and the locals are of the right type, a write only ever appends, and     *)
(* interrupted calls are made again.                                        *)
(***************************************************************************)
EXTENDS ExplorerProperties, SequenceTheorems, WellFoundedInduction, TLAPS

USE DEF IsOpen, Closed, Opened, kernel, disk, process, NoFd

\* The records keep the fields the proofs look at.
Shapes == /\ {"fd", "fd2"} \subseteq DOMAIN frame
          /\ DOMAIN fds = Descriptors
          /\ \A f \in Descriptors : "open" \in DOMAIN fds[f]
          /\ Held \subseteq Descriptors

HeldInv == Shapes /\ OnlyHeldAreOpen

\* What a step that leaves the descriptors alone keeps.
LEMMA DescriptorsUntouched ==
    ASSUME HeldInv,
           {"fd", "fd2"} \subseteq DOMAIN frame', frame'.fd = frame.fd, frame'.fd2 = frame.fd2,
           DOMAIN fds' = Descriptors,
           \A f \in Descriptors : "open" \in DOMAIN fds'[f] /\ fds'[f].open = fds[f].open,
           pc \in HoldsOne <=> pc' \in HoldsOne,
           pc \in HoldsTwo <=> pc' \in HoldsTwo,
           pc = "copy:closedst" <=> pc' = "copy:closedst"
    PROVE  HeldInv'
  BY DEF HeldInv, Shapes, OnlyHeldAreOpen, Held

LEMMA InitHeld == Init => HeldInv
  <1> SUFFICES ASSUME Init PROVE HeldInv
    OBVIOUS
  <1> QED
    BY DEF Init, FileSystemInit, Empty, HeldInv, Shapes, OnlyHeldAreOpen, Held,
           HoldsOne, HoldsTwo

LEMMA PromptHeld ==
    ASSUME HeldInv, NEW here, NEW field \in {"path", "path2"}, NEW refused, NEW next,
           here \notin HoldsOne \cup HoldsTwo \cup {"copy:closedst"},
           next \notin HoldsOne \cup HoldsTwo \cup {"copy:closedst"},
           AskName(here, field, refused, next)
    PROVE  HeldInv'
  BY DEF AskName, EndOfInput, Return, Goto, HeldInv, Shapes, OnlyHeldAreOpen, Held,
         HoldsOne, HoldsTwo

LEMMA CloseHeld ==
    ASSUME HeldInv, NEW here \in HoldsOne, CloseLast(here) \/ Abandon(here)
    PROVE  HeldInv'
  BY DEF CloseLast, Abandon, CloseFd, Return, HeldInv, Shapes, OnlyHeldAreOpen, Held,
         HoldsOne, HoldsTwo

\* A descriptor opened into a local that was empty.
LEMMA OpenedHeld ==
    ASSUME HeldInv, NEW f \in Descriptors, ~fds[f].open,
           NEW i, NEW app, NEW names, fds' = [fds EXCEPT ![f] = Opened(i, app, names)],
           {"fd", "fd2"} \subseteq DOMAIN frame', frame'.fd = f, frame'.fd2 = frame.fd2,
           pc \notin HoldsOne \cup HoldsTwo \cup {"copy:closedst"},
           pc' \in HoldsOne
    PROVE  HeldInv'
  <1>1. /\ frame.fd = NoFd /\ frame.fd2 = NoFd
        /\ \A g \in Descriptors : ~fds[g].open
    BY DEF HeldInv, Shapes, OnlyHeldAreOpen, Held
  <1>2. /\ DOMAIN fds' = Descriptors
        /\ \A g \in Descriptors : "open" \in DOMAIN fds'[g] /\ (fds'[g].open <=> g = f)
    BY <1>1 DEF HeldInv, Shapes
  <1>3. f # NoFd
    BY ExplorerAssumption
  <1>4. pc' \notin HoldsTwo \cup {"copy:closedst"}
    BY DEF HoldsOne, HoldsTwo
  <1> QED
    BY <1>1, <1>2, <1>3, <1>4 DEF HeldInv, Shapes, OnlyHeldAreOpen, Held

LEMMA OpenHeld ==
    ASSUME HeldInv, NEW here, NEW next \in {"read:loop", "lseek:ask", "copy:fstat"},
           here \notin HoldsOne \cup HoldsTwo \cup {"copy:closedst"},
           OpenToRead(here, "fd", next, Return("error"))
    PROVE  HeldInv'
  <1>1. CASE \E f \in Descriptors : /\ OpenReading(frame.path, f)
                                    /\ frame' = [frame EXCEPT !.fd = f]
                                    /\ pc' = next
    <2>1. PICK f \in Descriptors : /\ OpenReading(frame.path, f)
                                   /\ frame' = [frame EXCEPT !.fd = f]
                                   /\ pc' = next
      BY <1>1
    <2> QED
      BY <2>1, OpenedHeld DEF OpenToRead, OpenReading, HeldInv, Shapes, HoldsOne
  <1>2. CASE UNCHANGED <<kernel, frame>> /\ pc' = "return"
    BY <1>2, DescriptorsUntouched DEF OpenToRead, HeldInv, Shapes, HoldsOne, HoldsTwo
  <1> QED
    BY <1>1, <1>2 DEF OpenToRead, Return, Goto

\* open for writing, into fd.
LEMMA OpenWritingHeld ==
    ASSUME HeldInv, NEW p, NEW truncate, NEW next \in {"create:close", "write:loop"},
           pc \notin HoldsOne \cup HoldsTwo \cup {"copy:closedst"}, pc' = next,
           \E f \in Descriptors : /\ OpenWriting(p, f, truncate)
                                  /\ frame' = [frame EXCEPT !.fd = f]
    PROVE  HeldInv'
  <1>1. PICK f \in Descriptors : /\ OpenWriting(p, f, truncate)
                                 /\ frame' = [frame EXCEPT !.fd = f]
    OBVIOUS
  <1>2. PICK i : ~fds[f].open /\ fds' = [fds EXCEPT ![f] = Opened(i, ~truncate, {})]
    BY <1>1 DEF OpenWriting
  <1> QED
    BY <1>1, <1>2, OpenedHeld DEF HeldInv, Shapes, HoldsOne

LEMMA CreateHeld == HeldInv /\ CreateFile => HeldInv'
  <1> SUFFICES ASSUME HeldInv, CreateFile PROVE HeldInv'
    OBVIOUS
  <1>1. CASE AskName("create", "path", {}, "create:open")
    BY <1>1, PromptHeld DEF HoldsOne, HoldsTwo
  <1>2. CASE CreateOpen
    <2>1. CASE UNCHANGED <<kernel, frame>> /\ pc' = "return"
      BY <1>2, <2>1, DescriptorsUntouched
         DEF CreateOpen, HeldInv, Shapes, HoldsOne, HoldsTwo
    <2>2. CASE /\ pc' = "create:close"
               /\ \E f \in Descriptors : /\ OpenWriting(frame.path, f, TRUE)
                                         /\ frame' = [frame EXCEPT !.fd = f]
      BY <1>2, <2>2, OpenWritingHeld DEF CreateOpen, HoldsOne, HoldsTwo
    <2> QED
      BY <1>2, <2>1, <2>2 DEF CreateOpen, Return, Goto
  <1>3. CASE CloseLast("create:close")
    BY <1>3, CloseHeld DEF HoldsOne
  <1> QED
    BY <1>1, <1>2, <1>3 DEF CreateFile

LEMMA ReadHeld == HeldInv /\ ReadFile => HeldInv'
  <1> SUFFICES ASSUME HeldInv, ReadFile PROVE HeldInv'
    OBVIOUS
  <1>1. CASE AskName("read", "path", {}, "read:open")
    BY <1>1, PromptHeld DEF HoldsOne, HoldsTwo
  <1>2. CASE OpenToRead("read:open", "fd", "read:loop", Return("error"))
    BY <1>2, OpenHeld DEF HoldsOne, HoldsTwo
  <1>3. CASE ReadSome
    <2>1. PICK k : \/ UNCHANGED kernel
                   \/ SkipOver(frame.fd, k)
      BY <1>3 DEF ReadSome
    <2> QED
      BY <1>3, <2>1, DescriptorsUntouched
         DEF ReadSome, SkipOver, MoveTo, Goto, HeldInv, Shapes, HoldsOne, HoldsTwo
  <1>4. CASE ReadFails
    BY <1>4, DescriptorsUntouched DEF ReadFails, Goto, HeldInv, Shapes, HoldsOne, HoldsTwo
  <1>5. CASE Abandon("read:abandon") \/ CloseLast("read:close")
    BY <1>5, CloseHeld DEF HoldsOne
  <1> QED
    BY <1>1, <1>2, <1>3, <1>4, <1>5 DEF ReadFile

LEMMA WriteHeld == HeldInv /\ WriteFile => HeldInv'
  <1> SUFFICES ASSUME HeldInv, WriteFile PROVE HeldInv'
    OBVIOUS
  <1>1. CASE AskName("write", "path", {}, "write:text")
    BY <1>1, PromptHeld DEF HoldsOne, HoldsTwo
  <1>2. CASE AskText
    BY <1>2, DescriptorsUntouched
       DEF AskText, EndOfInput, Goto, HeldInv, Shapes, HoldsOne, HoldsTwo
  <1>3. CASE WriteOpen
    <2>1. CASE UNCHANGED <<kernel, frame>> /\ pc' = "return"
      BY <1>3, <2>1, DescriptorsUntouched
         DEF WriteOpen, HeldInv, Shapes, HoldsOne, HoldsTwo
    <2>2. CASE /\ pc' = "write:loop"
               /\ \E f \in Descriptors : /\ OpenWriting(frame.path, f, FALSE)
                                         /\ frame' = [frame EXCEPT !.fd = f]
      BY <1>3, <2>2, OpenWritingHeld DEF WriteOpen, HoldsOne, HoldsTwo
    <2> QED
      BY <1>3, <2>1, <2>2 DEF WriteOpen, OpenToAppend, Return, Goto
  <1>4. CASE WriteSome
    BY <1>4, DescriptorsUntouched
       DEF WriteSome, WriteTo, Goto, HeldInv, Shapes, HoldsOne, HoldsTwo
  <1>5. CASE WriteFails
    BY <1>5, DescriptorsUntouched DEF WriteFails, Goto, HeldInv, Shapes, HoldsOne, HoldsTwo
  <1>6. CASE Interrupted("write:loop", "write:abandon")
    BY <1>6, DescriptorsUntouched
       DEF Interrupted, Retry, Goto, HeldInv, Shapes, HoldsOne, HoldsTwo
  <1>7. CASE WriteNewline
    BY <1>7, DescriptorsUntouched
       DEF WriteNewline, WriteTo, Goto, HeldInv, Shapes, HoldsOne, HoldsTwo
  <1>8. CASE Abandon("write:abandon") \/ CloseLast("write:close")
    BY <1>8, CloseHeld DEF HoldsOne
  <1> QED
    BY <1>1, <1>2, <1>3, <1>4, <1>5, <1>6, <1>7, <1>8 DEF WriteFile

LEMMA LseekHeld == HeldInv /\ LseekDemo => HeldInv'
  <1> SUFFICES ASSUME HeldInv, LseekDemo PROVE HeldInv'
    OBVIOUS
  <1>1. CASE AskName("lseek", "path", {}, "lseek:open")
    BY <1>1, PromptHeld DEF HoldsOne, HoldsTwo
  <1>2. CASE OpenToRead("lseek:open", "fd", "lseek:ask", Return("error"))
    BY <1>2, OpenHeld DEF HoldsOne, HoldsTwo
  <1>3. CASE AskOffset
    BY <1>3, DescriptorsUntouched DEF AskOffset, Goto, HeldInv, Shapes, HoldsOne, HoldsTwo
  <1>4. CASE LseekCancel
    BY <1>4 DEF LseekCancel, CloseFd, Return, HeldInv, Shapes, OnlyHeldAreOpen, Held,
                HoldsOne, HoldsTwo
  <1>5. CASE LseekMove
    BY <1>5, DescriptorsUntouched
       DEF LseekMove, MoveTo, Goto, HeldInv, Shapes, HoldsOne, HoldsTwo
  <1>6. CASE LseekRead
    BY <1>6, DescriptorsUntouched
       DEF LseekRead, SkipOver, MoveTo, Goto, HeldInv, Shapes, HoldsOne, HoldsTwo
  <1>7. CASE Abandon("lseek:abandon") \/ CloseLast("lseek:close")
    BY <1>7, CloseHeld DEF HoldsOne
  <1> QED
    BY <1>1, <1>2, <1>3, <1>4, <1>5, <1>6, <1>7 DEF LseekDemo

LEMMA CopyHeld == HeldInv /\ (CopyOp \/ CopyFile) => HeldInv'
  <1> SUFFICES ASSUME HeldInv, CopyOp \/ CopyFile PROVE HeldInv'
    OBVIOUS
  <1>1. CASE CopyOp
    BY <1>1, PromptHeld DEF CopyOp, AskTwoNames, HoldsOne, HoldsTwo
  <1>2. CASE OpenToRead("copy:open", "fd", "copy:fstat", Return("error"))
    BY <1>2, OpenHeld DEF HoldsOne, HoldsTwo
  <1>3. CASE CopyFstat
    BY <1>3, DescriptorsUntouched DEF CopyFstat, Goto, HeldInv, Shapes, HoldsOne, HoldsTwo
  <1>4. CASE Abandon("copy:abandon")
    BY <1>4, CloseHeld DEF HoldsOne
  <1>5. CASE CopyCreate
    <2>1. CASE UNCHANGED <<kernel, frame>> /\ pc' = "copy:abandon"
      BY <1>5, <2>1, DescriptorsUntouched
         DEF CopyCreate, HeldInv, Shapes, HoldsOne, HoldsTwo
    <2>2. CASE /\ pc' = "copy:read"
               /\ \E f \in Descriptors : /\ OpenWriting(frame.path2, f, TRUE)
                                         /\ frame' = [frame EXCEPT !.fd2 = f]
      <3>1. PICK f, i :
                    /\ f \in Descriptors /\ ~fds[f].open
                    /\ fds' = [fds EXCEPT ![f] = Opened(i, FALSE, {})]
                    /\ frame' = [frame EXCEPT !.fd2 = f]
        BY <2>2 DEF OpenWriting
      <3>2. /\ frame.fd # NoFd /\ frame.fd2 = NoFd /\ frame.fd \in Descriptors
            /\ \A g \in Descriptors : fds[g].open <=> g = frame.fd
        BY <1>5, ExplorerAssumption
           DEF CopyCreate, HeldInv, Shapes, OnlyHeldAreOpen, Held, HoldsOne
      <3>3. f # frame.fd /\ f # NoFd
        BY <3>1, <3>2, ExplorerAssumption
      <3>4. /\ DOMAIN fds' = Descriptors
            /\ \A g \in Descriptors :
                   "open" \in DOMAIN fds'[g] /\ (fds'[g].open <=> g = f \/ g = frame.fd)
        BY <3>1, <3>2 DEF HeldInv, Shapes
      <3> QED
        BY <2>2, <3>1, <3>2, <3>3, <3>4
           DEF HeldInv, Shapes, OnlyHeldAreOpen, Held, HoldsOne, HoldsTwo
    <2> QED
      BY <1>5, <2>1, <2>2 DEF CopyCreate, Goto
  <1>6. CASE CopyRead
    BY <1>6, DescriptorsUntouched
       DEF CopyRead, SkipOver, MoveTo, Goto, HeldInv, Shapes, HoldsOne, HoldsTwo
  <1>7. CASE CopyWrite
    BY <1>7, DescriptorsUntouched
       DEF CopyWrite, WriteTo, Goto, HeldInv, Shapes, HoldsOne, HoldsTwo
  <1>8. CASE \/ Interrupted("copy:read", "copy:cleanup")
             \/ Interrupted("copy:write", "copy:cleanup")
    BY <1>8, DescriptorsUntouched
       DEF Interrupted, Retry, Goto, HeldInv, Shapes, HoldsOne, HoldsTwo
  <1>9. CASE CopyFails
    BY <1>9, DescriptorsUntouched DEF CopyFails, Goto, HeldInv, Shapes, HoldsOne, HoldsTwo
  <1>10. CASE CopyCleanup
    BY <1>10 DEF CopyCleanup, ClosedByCleanup, Return, HeldInv, Shapes, OnlyHeldAreOpen,
                 Held, HoldsOne, HoldsTwo
  <1>11. CASE CopyCloseSource
    BY <1>11 DEF CopyCloseSource, CloseFd, Goto, HeldInv, Shapes, OnlyHeldAreOpen, Held,
                 HoldsOne, HoldsTwo
  <1>12. CASE CopyCloseDestination
    BY <1>12 DEF CopyCloseDestination, CloseFd, Return, HeldInv, Shapes, OnlyHeldAreOpen,
                 Held, HoldsOne, HoldsTwo
  <1> QED
    BY <1>1, <1>2, <1>3, <1>4, <1>5, <1>6, <1>7, <1>8, <1>9, <1>10, <1>11, <1>12
       DEF CopyFile

LEMMA RenameHeld == HeldInv /\ RenameFile => HeldInv'
  <1> SUFFICES ASSUME HeldInv, RenameFile PROVE HeldInv'
    OBVIOUS
  <1>1. CASE AskTwoNames("rename", "rename:new", "rename:call")
    BY <1>1, PromptHeld DEF AskTwoNames, HoldsOne, HoldsTwo
  <1>2. CASE CallAndReturn("rename:call", CanRename(frame.path, frame.path2),
                           Rename(frame.path, frame.path2))
    BY <1>2, DescriptorsUntouched
       DEF CallAndReturn, Rename, Return, HeldInv, Shapes, HoldsOne, HoldsTwo
  <1> QED
    BY <1>1, <1>2 DEF RenameFile

LEMMA ListHeld == HeldInv /\ ListDirectory => HeldInv'
  <1> SUFFICES ASSUME HeldInv, ListDirectory PROVE HeldInv'
    OBVIOUS
  <1>1. CASE ListAsk
    BY <1>1, DescriptorsUntouched
       DEF ListAsk, EndOfInput, Goto, Return, HeldInv, Shapes, HoldsOne, HoldsTwo
  <1>2. CASE ListOpen
    <2>1. CASE UNCHANGED <<kernel, frame>> /\ pc' = "return"
      BY <1>2, <2>1, DescriptorsUntouched
         DEF ListOpen, HeldInv, Shapes, HoldsOne, HoldsTwo
    <2>2. CASE /\ pc' = "list:read"
               /\ \E f \in Descriptors :
                     /\ Opendir(frame.path, f)
                     /\ frame' = [frame EXCEPT !.fd = f, !.errno = "0"]
      <3>1. PICK f \in Descriptors : /\ Opendir(frame.path, f)
                                     /\ frame' = [frame EXCEPT !.fd = f, !.errno = "0"]
        BY <2>2
      <3> QED
        BY <1>2, <2>2, <3>1, OpenedHeld
           DEF ListOpen, Opendir, HeldInv, Shapes, HoldsOne, HoldsTwo
    <2> QED
      BY <1>2, <2>1, <2>2 DEF ListOpen, Return, Goto
  <1>3. CASE ListRead
    <2>1. pc = "list:read" /\ pc' \in {"list:read", "list:lstat", "list:close", "list:abandon"}
      BY <1>3 DEF ListRead, Goto
    <2>2. CASE UNCHANGED kernel
      BY <1>3, <2>1, <2>2, DescriptorsUntouched
         DEF ListRead, HeldInv, Shapes, HoldsOne, HoldsTwo
    <2>3. CASE \E n \in Names : /\ Readdir(frame.fd, n)
                               /\ frame' = [frame EXCEPT !.path2 = Within(frame.path, n)]
      <3>1. PICK n \in Names : /\ Readdir(frame.fd, n)
                               /\ frame' = [frame EXCEPT !.path2 = Within(frame.path, n)]
        BY <2>3
      <3>2. \A f \in Descriptors : "open" \in DOMAIN fds'[f] /\ fds'[f].open = fds[f].open
        BY <3>1 DEF Readdir, HeldInv, Shapes
      <3>3. DOMAIN fds' = Descriptors
        BY <3>1 DEF Readdir, HeldInv, Shapes
      <3> QED
        BY <2>1, <3>1, <3>2, <3>3, DescriptorsUntouched DEF HeldInv, Shapes, HoldsOne, HoldsTwo
    <2> QED
      BY <1>3, <2>2, <2>3 DEF ListRead
  <1>4. CASE ListLstat
    BY <1>4, DescriptorsUntouched DEF ListLstat, Goto, HeldInv, Shapes, HoldsOne, HoldsTwo
  <1>5. CASE Abandon("list:abandon") \/ CloseLast("list:close")
    BY <1>5, CloseHeld DEF HoldsOne
  <1> QED
    BY <1>1, <1>2, <1>3, <1>4, <1>5 DEF ListDirectory

LEMMA DirectoryHeld ==
    HeldInv /\ (CreateDirectory \/ RemoveDirectory \/ ShowCwd \/ ChangeDir \/ FileInfo)
        => HeldInv'
  <1> SUFFICES ASSUME HeldInv,
                      CreateDirectory \/ RemoveDirectory \/ ShowCwd \/ ChangeDir \/ FileInfo
               PROVE  HeldInv'
    OBVIOUS
  <1>1. CASE CreateDirectory
    BY <1>1, PromptHeld, DescriptorsUntouched
       DEF CreateDirectory, CallAndReturn, Mkdir, Return, HeldInv, Shapes, HoldsOne, HoldsTwo
  <1>2. CASE RemoveDirectory
    BY <1>2, PromptHeld, DescriptorsUntouched
       DEF RemoveDirectory, CallAndReturn, Unlink, Return, HeldInv, Shapes, HoldsOne, HoldsTwo
  <1>3. CASE ShowCwd
    BY <1>3, DescriptorsUntouched
       DEF ShowCwd, ShowGetcwd, Return, HeldInv, Shapes, HoldsOne, HoldsTwo
  <1>4. CASE ChangeDir
    BY <1>4, PromptHeld, DescriptorsUntouched
       DEF ChangeDir, ShowGetcwd, Chdir, Goto, Return, HeldInv, Shapes, HoldsOne, HoldsTwo
  <1>5. CASE FileInfo
    BY <1>5, PromptHeld, DescriptorsUntouched
       DEF FileInfo, InfoLstat, InfoReadlink, Goto, Return, HeldInv, Shapes, HoldsOne, HoldsTwo
  <1> QED
    BY <1>1, <1>2, <1>3, <1>4, <1>5

LEMMA MainHeld == HeldInv /\ Main => HeldInv'
  <1> SUFFICES ASSUME HeldInv, Main PROVE HeldInv'
    OBVIOUS
  <1>1. CASE ShowMenu
    BY <1>1, DescriptorsUntouched DEF ShowMenu, Goto, HeldInv, Shapes, HoldsOne, HoldsTwo
  <1>2. CASE Choose
    <2>1. /\ pc = "choice" /\ UNCHANGED fds
          /\ pc' \notin HoldsOne \cup HoldsTwo \cup {"copy:closedst"}
      BY <1>2, ExplorerAssumption DEF Choose, AtEof, Goto, HoldsOne, HoldsTwo
    <2>2. frame.fd = NoFd /\ frame.fd2 = NoFd
      BY <2>1 DEF HeldInv, OnlyHeldAreOpen, Held, HoldsOne, HoldsTwo
    <2>3. {"fd", "fd2"} \subseteq DOMAIN frame' /\ frame'.fd = NoFd /\ frame'.fd2 = NoFd
      BY <1>2, <2>2 DEF Choose, Empty, HeldInv, Shapes
    <2> QED
      BY <2>1, <2>2, <2>3, DescriptorsUntouched DEF HeldInv, Shapes, HoldsOne, HoldsTwo
  <1>3. CASE BackToMenu
    BY <1>3 DEF BackToMenu, Empty, HeldInv, Shapes, OnlyHeldAreOpen, Held, HoldsOne, HoldsTwo
  <1>4. CASE Exit
    BY <1>4, DescriptorsUntouched DEF Exit, Goto, HeldInv, Shapes, HoldsOne, HoldsTwo
  <1> QED
    BY <1>1, <1>2, <1>3, <1>4 DEF Main

LEMMA OthersHeld == HeldInv /\ OtherProcess => HeldInv'
  <1> SUFFICES ASSUME HeldInv, OtherProcess PROVE HeldInv'
    OBVIOUS
  <1>1. CASE AnotherAppends \/ AnotherCreates \/ AnotherLinks
    BY <1>1, DescriptorsUntouched
       DEF AnotherAppends, AnotherCreates, AnotherLinks, Act, HeldInv, Shapes
  <1>2. CASE AnotherUnlinks \/ AnotherRemovesDirectory
    BY <1>2, DescriptorsUntouched
       DEF AnotherUnlinks, AnotherRemovesDirectory, Unlink, Act, HeldInv, Shapes
  <1> QED
    BY <1>1, <1>2 DEF OtherProcess

LEMMA StepHeld == HeldInv /\ [Next]_vars => HeldInv'
  <1> SUFFICES ASSUME HeldInv, [Next]_vars PROVE HeldInv'
    OBVIOUS
  <1>1. CASE UNCHANGED vars
    BY <1>1 DEF vars, HeldInv, Shapes, OnlyHeldAreOpen, Held
  <1>2. CASE FileOperation
    BY <1>2, CreateHeld, ReadHeld, WriteHeld, LseekHeld, CopyHeld, RenameHeld
       DEF FileOperation
  <1>3. CASE DirectoryOperation
    BY <1>3, ListHeld, DirectoryHeld DEF DirectoryOperation
  <1> QED
    BY <1>1, <1>2, <1>3, MainHeld, OthersHeld DEF Next, Process, Ended

\* Whatever names, files, faults and other processes there are, the
\* descriptors that are open are those the running operation holds; in
\* particular none is open at the menu or at the end (file_operations.c:20,
\* main.c:127).
THEOREM DescriptorsAreHeld == Spec => []OnlyHeldAreOpen
  <1>1. HeldInv => OnlyHeldAreOpen
    BY DEF HeldInv
  <1> QED
    BY InitHeld, StepHeld, <1>1, PTL DEF Spec


(*************************** Types *****************************************)

DiskType ==
    /\ entry \in [Inodes -> [Names -> Inodes \cup {Nothing}]]
    /\ kind \in [Inodes -> {"file", "dir", "link"}]
    /\ DOMAIN content = Inodes
    /\ \A i \in Inodes : content[i] \in Seq(Byte) /\ Len(content[i]) <= MaxSize
    /\ up \in [Inodes -> Inodes] /\ cwd \in Inodes

Descriptor == [open : BOOLEAN, ino : Inodes \cup {Nothing}, pos : Nat, append : BOOLEAN,
               had : SUBSET Names, due : SUBSET Names, listed : SUBSET Names]
FdsType ==
    /\ fds \in [Descriptors -> Descriptor]
    /\ \A f \in Descriptors : IsOpen(f) => fds[f].ino \in Inodes

KernelType == DiskType /\ FdsType

Messages == {"none", "success", "error", "notice", "warning"}
FrameType ==
    /\ {"op", "fd", "fd2", "buf", "n", "errno", "result"} \subseteq DOMAIN frame
    /\ frame.fd \in Descriptors \cup {NoFd}
    /\ frame.fd2 \in Descriptors \cup {NoFd}
    /\ frame.buf \in Seq(Byte)
    /\ frame.n \in (0 .. MaxSize) \cup Offsets
    /\ frame.result \in Messages
Around ==
    /\ told \in Messages /\ eof \in BOOLEAN
    /\ faults \in 0 .. MaxFaults /\ others \in 0 .. MaxOtherActs

(*************************** The kernel ************************************)

LEMMA LeastInode ==
    ASSUME NEW S \in SUBSET Nat, S # {}
    PROVE  \E x \in S : \A y \in S : x <= y
  <1> DEFINE Less == OpToRel(<, Nat)
  <1>1. IsWellFoundedOn(Less, Nat)
    BY NatLessThanWellFounded
  <1>2. \A x, y \in Nat : x < y => <<x, y>> \in Less
    BY DEF OpToRel
  <1> HIDE DEF Less
  <1>3. PICK x \in S : \A y \in S : <<y, x>> \notin Less
    BY <1>1, WFMin
  <1>4. ASSUME NEW y \in S PROVE x <= y
    <2>1. ~ (y < x)
      BY <1>2, <1>3
    <2> QED
      BY <2>1
  <1> QED
    BY <1>4

\* A new file or directory is made of an inode nothing refers to.
LEMMA NewInodeIsFree ==
    ASSUME FreeInodes # {}
    PROVE  NewInode \in Inodes /\ ~Alive(NewInode)
  <1>1. FreeInodes \in SUBSET Nat
    BY KernelAssumption DEF FreeInodes, Inodes
  <1>2. \E i \in FreeInodes : \A j \in FreeInodes : i <= j
    BY <1>1, LeastInode
  <1>3. NewInode \in FreeInodes
    BY <1>2 DEF NewInode
  <1> QED
    BY <1>3 DEF FreeInodes, InUse

LEMMA WrittenType ==
    ASSUME NEW c \in Seq(Byte), NEW at \in Nat, NEW data \in Seq(Byte)
    PROVE  /\ Written(c, at, data) \in Seq(Byte)
           /\ Len(Written(c, at, data)) =
                  IF at + Len(data) > Len(c) THEN at + Len(data) ELSE Len(c)
           /\ at = Len(c) => IsPrefix(c, Written(c, at, data))
  <1> DEFINE size == IF at + Len(data) > Len(c) THEN at + Len(data) ELSE Len(c)
             w(j) == IF j > at /\ j <= at + Len(data) THEN data[j - at]
                     ELSE IF j <= Len(c) THEN c[j] ELSE "hole"
  <1>1. size \in Nat /\ Written(c, at, data) = [j \in 1 .. size |-> w(j)]
    BY DEF Written
  <1>2. ASSUME NEW j \in 1 .. size PROVE w(j) \in Byte
    BY DEF Byte
  <1>3. Written(c, at, data) \in Seq(Byte)
    BY <1>1, <1>2
  <1>4. Len(Written(c, at, data)) = size
    BY <1>1, <1>3
  <1>5. ASSUME at = Len(c) PROVE IsPrefix(c, Written(c, at, data))
    <2>1. Len(c) <= size /\ \A j \in 1 .. Len(c) : c[j] = Written(c, at, data)[j]
      BY <1>1, <1>5
    <2>2. SubSeq(c, 1, Len(c)) = SubSeq(Written(c, at, data), 1, Len(c))
      BY <1>3, <1>4, <2>1, SubSeqProperties
    <2> QED
      BY <1>4, <2>1, <2>2 DEF IsPrefix
  <1> QED
    BY <1>3, <1>4, <1>5

LEMMA OpenReadingKeeps ==
    ASSUME KernelType, NEW p, NEW f \in Descriptors, CanOpen(p), OpenReading(p, f)
    PROVE  KernelType'
  BY DEF CanOpen, OpenReading, KernelType, DiskType, FdsType, Descriptor

LEMMA OpenWritingKeeps ==
    ASSUME KernelType, NEW p, NEW f \in Descriptors, NEW truncate \in BOOLEAN,
           CanOpenWriting(p), OpenWriting(p, f, truncate)
    PROVE  /\ KernelType'
           /\ fds'[f].append = ~truncate
           /\ ~truncate => \A i \in Inodes : Alive(i) => content'[i] = content[i]
  <1> DEFINE new == Missing(p)
             i == IF new THEN NewInode ELSE Resolve(p)
             at == CreatePlace(p)
  <1>1. i \in Inodes /\ (new => ~Alive(i))
    BY NewInodeIsFree DEF CanOpenWriting, Is, Missing
  <1>2. /\ fds' = [fds EXCEPT ![f] = Opened(i, ~truncate, {})]
        /\ entry' = IF new THEN [entry EXCEPT ![at[1]][at[2]] = i] ELSE entry
        /\ kind' = [kind EXCEPT ![i] = "file"]
        /\ content' = IF new \/ truncate THEN [content EXCEPT ![i] = <<>>] ELSE content
        /\ UNCHANGED <<up, cwd>>
    BY DEF OpenWriting
  <1> HIDE DEF new, i, at
  <1>3. FdsType' /\ fds'[f].append = ~truncate
    BY <1>1, <1>2 DEF KernelType, FdsType, Descriptor
  <1>4. <<>> \in Seq(Byte) /\ Len(<<>>) = 0 /\ 0 <= MaxSize
    BY KernelAssumption
  <1>5. /\ DOMAIN content' = Inodes
        /\ \A j \in Inodes : content'[j] \in Seq(Byte) /\ Len(content'[j]) <= MaxSize
    BY <1>1, <1>2, <1>4 DEF KernelType, DiskType
  <1>6. entry' \in [Inodes -> [Names -> Inodes \cup {Nothing}]]
    BY <1>1, <1>2 DEF KernelType, DiskType
  <1>7. DiskType'
    BY <1>1, <1>2, <1>5, <1>6 DEF KernelType, DiskType
  <1>8. ~truncate => \A j \in Inodes : Alive(j) => content'[j] = content[j]
    BY <1>1, <1>2 DEF KernelType, DiskType
  <1> QED
    BY <1>3, <1>7, <1>8 DEF KernelType

LEMMA CloseKeeps ==
    ASSUME KernelType, NEW f, CloseFd(f)
    PROVE  KernelType'
  BY DEF CloseFd, KernelType, DiskType, FdsType, Descriptor

LEMMA OffsetKeeps ==
    ASSUME FdsType, NEW f, NEW offset \in Nat, fds' = [fds EXCEPT ![f].pos = offset]
    PROVE  FdsType' /\ \A g \in Descriptors : fds'[g].append = fds[g].append
  <1>1. ASSUME NEW g \in Descriptors
        PROVE  /\ fds'[g] \in Descriptor
               /\ fds'[g].open = fds[g].open /\ fds'[g].ino = fds[g].ino
               /\ fds'[g].append = fds[g].append
    <2>1. fds[g] \in Descriptor
      BY DEF FdsType
    <2>2. fds'[g] = IF g = f THEN [fds[g] EXCEPT !.pos = offset] ELSE fds[g]
      BY DEF FdsType
    <2> QED
      BY <2>1, <2>2 DEF Descriptor
  <1>2. DOMAIN fds' = Descriptors /\ fds' = [g \in DOMAIN fds' |-> fds'[g]]
    BY DEF FdsType
  <1> HIDE DEF Descriptor
  <1> QED
    BY <1>1, <1>2 DEF FdsType

LEMMA MoveKeeps ==
    ASSUME KernelType, NEW f, NEW offset \in Nat, MoveTo(f, offset)
    PROVE  KernelType'
  BY OffsetKeeps DEF MoveTo, KernelType, DiskType

LEMMA WriteKeeps ==
    ASSUME KernelType, NEW f \in Descriptors, IsOpen(f), NEW data \in Seq(Byte),
           Fits(f, Len(data)), WriteTo(f, data)
    PROVE  /\ KernelType'
           /\ fds'[f].append = fds[f].append
           /\ fds[f].append => \A i \in Inodes : IsPrefix(content[i], content'[i])
  <1> DEFINE i == fds[f].ino
             at == WritesAt(f)
  <1>1. i \in Inodes /\ content[i] \in Seq(Byte) /\ Len(content[i]) <= MaxSize
    BY DEF KernelType, DiskType, FdsType
  <1>2. at \in Nat /\ (fds[f].append => at = Len(content[i]))
    BY <1>1 DEF WritesAt, KernelType, FdsType, Descriptor
  <1>3. at + Len(data) <= MaxSize
    BY DEF Fits
  <1>4. /\ content' = [content EXCEPT ![i] = Written(content[i], at, data)]
        /\ fds' = [fds EXCEPT ![f].pos = at + Len(data)]
        /\ UNCHANGED <<entry, kind, up, cwd>>
    BY DEF WriteTo
  <1> HIDE DEF i, at
  <1>5. /\ DOMAIN content' = Inodes
        /\ content'[i] = Written(content[i], at, data)
        /\ \A j \in Inodes : j # i => content'[j] = content[j]
    BY <1>1, <1>4 DEF KernelType, DiskType
  <1>6. content'[i] \in Seq(Byte) /\ Len(content'[i]) <= MaxSize
    <2>1. Len(content[i]) \in Nat /\ Len(data) \in Nat
      BY <1>1
    <2>2. /\ content'[i] \in Seq(Byte)
          /\ Len(content'[i]) = IF at + Len(data) > Len(content[i]) THEN at + Len(data)
                                ELSE Len(content[i])
      BY <1>1, <1>2, <1>5, WrittenType
    <2> QED
      BY <1>1, <1>3, <2>1, <2>2
  <1>7. DiskType'
    BY <1>4, <1>5, <1>6 DEF KernelType, DiskType
  <1>8. FdsType' /\ fds'[f].append = fds[f].append
    <2>1. at + Len(data) \in Nat
      BY <1>2
    <2> QED
      BY <1>4, <2>1, OffsetKeeps DEF KernelType
  <1>9. ASSUME fds[f].append, NEW j \in Inodes PROVE IsPrefix(content[j], content'[j])
    <2>1. CASE j = i
      BY <1>1, <1>2, <1>5, <1>9, <2>1, WrittenType
    <2>2. CASE j # i
      BY <1>5, <2>2 DEF KernelType, DiskType, IsPrefix
    <2> QED
      BY <2>1, <2>2
  <1> QED
    BY <1>7, <1>8, <1>9 DEF KernelType

LEMMA RenameKeeps ==
    ASSUME KernelType, NEW p, NEW q, CanRename(p, q), Rename(p, q)
    PROVE  KernelType'
  <1>1. Lookup(p) \in Inodes /\ DirOf(q) \in Inodes
    BY DEF CanRename, InLiveDir, Is
  <1>2. entry' \in [Inodes -> [Names -> Inodes \cup {Nothing}]]
    BY <1>1 DEF Rename, KernelType, DiskType
  <1>3. up' \in [Inodes -> Inodes]
    BY <1>1 DEF Rename, KernelType, DiskType
  <1> QED
    BY <1>2, <1>3 DEF Rename, KernelType, DiskType, FdsType

LEMMA MkdirKeeps ==
    ASSUME KernelType, NEW p, CanMkdir(p), Mkdir(p)
    PROVE  KernelType'
  <1>1. NewInode \in Inodes /\ DirOf(p) \in Inodes
    BY NewInodeIsFree DEF CanMkdir, InLiveDir, Is
  <1>2. <<>> \in Seq(Byte) /\ Len(<<>>) = 0 /\ 0 <= MaxSize
    BY KernelAssumption
  <1>3. entry' \in [Inodes -> [Names -> Inodes \cup {Nothing}]]
    BY <1>1 DEF Mkdir, KernelType, DiskType
  <1>4. /\ kind' \in [Inodes -> {"file", "dir", "link"}] /\ up' \in [Inodes -> Inodes]
        /\ DOMAIN content' = Inodes
        /\ \A i \in Inodes : content'[i] \in Seq(Byte) /\ Len(content'[i]) <= MaxSize
    BY <1>1, <1>2 DEF Mkdir, KernelType, DiskType
  <1> QED
    BY <1>3, <1>4 DEF Mkdir, KernelType, DiskType, FdsType

LEMMA UnlinkKeeps ==
    ASSUME KernelType, NEW p, Unlink(p)
    PROVE  KernelType'
  <1>1. entry' \in [Inodes -> [Names -> Inodes \cup {Nothing}]]
    BY DEF Unlink, KernelType, DiskType
  <1>2. FdsType'
    BY DEF Unlink, KernelType, FdsType, Descriptor
  <1> QED
    BY <1>1, <1>2 DEF Unlink, KernelType, DiskType

LEMMA OpendirKeeps ==
    ASSUME KernelType, NEW p, NEW f \in Descriptors, CanOpendir(p), Opendir(p, f)
    PROVE  KernelType'
  BY DEF CanOpendir, Opendir, Is, Present, KernelType, DiskType, FdsType, Descriptor

LEMMA ReaddirKeeps ==
    ASSUME KernelType, NEW f, NEW n \in Names, Readdir(f, n)
    PROVE  KernelType'
  <1>1. ASSUME NEW g \in Descriptors
        PROVE  /\ fds'[g] \in Descriptor
               /\ fds'[g].open = fds[g].open /\ fds'[g].ino = fds[g].ino
    <2>1. fds[g] \in Descriptor
      BY DEF KernelType, FdsType
    <2>2. fds'[g] = IF g = f THEN [fds[g] EXCEPT !.listed = @ \cup {n}, !.due = @ \ {n}]
                    ELSE fds[g]
      BY DEF Readdir, KernelType, FdsType
    <2>3. fds[g].listed \cup {n} \in SUBSET Names /\ fds[g].due \ {n} \in SUBSET Names
      BY <2>1 DEF Descriptor
    <2> QED
      BY <2>1, <2>2, <2>3 DEF Descriptor
  <1>2. DOMAIN fds' = Descriptors /\ fds' = [g \in DOMAIN fds' |-> fds'[g]]
    BY DEF Readdir, KernelType, FdsType
  <1>3. FdsType'
    BY <1>1, <1>2 DEF KernelType, FdsType
  <1> QED
    BY <1>3 DEF Readdir, KernelType, DiskType

LEMMA ChdirKeeps ==
    ASSUME KernelType, NEW p, CanChdir(p), Chdir(p)
    PROVE  KernelType'
  BY DEF CanChdir, Chdir, Is, KernelType, DiskType, FdsType

(*************************** Steps *****************************************)

WritePoints == {"write", "write:text", "write:open", "write:loop", "write:newline",
                "write:abandon", "write:close", "return"}

\* While a line is written the descriptor appends.
Writing ==
    /\ frame.op = "write" => pc \in WritePoints
    /\ pc \in {"write:loop", "write:newline"} => fds[frame.fd].append

DiskInv == KernelType /\ FrameType /\ Around /\ Writing

\* What every step but those of the menu shows, and the action property.
Proper == KernelType' /\ FrameType' /\ Around' /\ frame'.op = frame.op
Appends ==
    frame.op = "write" => \A i \in Inodes : Alive(i) => IsPrefix(content[i], content'[i])

LEMMA KernelUntouched == KernelType /\ UNCHANGED kernel => KernelType'
  BY DEF KernelType, DiskType, FdsType

LEMMA SameContent == KernelType /\ UNCHANGED content => Appends
  BY DEF Appends, KernelType, DiskType, IsPrefix

\* Steps of the operations that do not write lines.
LEMMA AwayFromWriting ==
    ASSUME DiskInv, Proper, pc \notin WritePoints,
           pc' \notin {"write:loop", "write:newline"}
    PROVE  DiskInv' /\ Appends
  BY DEF DiskInv, Writing, Proper, Appends

LEMMA HeldIsOpen ==
    ASSUME HeldInv
    PROVE  /\ pc \in HoldsOne \cup HoldsTwo => frame.fd \in Descriptors /\ IsOpen(frame.fd)
           /\ pc \in HoldsTwo => frame.fd2 \in Descriptors /\ IsOpen(frame.fd2)
  BY DEF HeldInv, Shapes, OnlyHeldAreOpen, Held

LEMMA PieceType ==
    ASSUME NEW s \in Seq(Byte), NEW m \in Nat \ {0}, NEW n \in Nat, n <= Len(s)
    PROVE  /\ SubSeq(s, m, n) \in Seq(Byte)
           /\ m <= n => Len(SubSeq(s, m, n)) = n - m + 1
           /\ m > n => SubSeq(s, m, n) = <<>>
  <1>1. \A i \in m .. n : s[i] \in Byte
    OBVIOUS
  <1> QED
    BY <1>1, SubSeqProperties, SubSeqEmpty

LEMMA UnreadType ==
    ASSUME KernelType, NEW f \in Descriptors, IsOpen(f)
    PROVE  Unread(f) \in Seq(Byte)
  <1>1. /\ content[fds[f].ino] \in Seq(Byte)
        /\ fds[f].pos + 1 \in Nat \ {0}
    BY DEF KernelType, DiskType, FdsType, Descriptor
  <1> QED
    BY <1>1, PieceType DEF Unread

LEMMA PromptTypes ==
    ASSUME DiskInv, NEW here, NEW field \in {"path", "path2"}, NEW refused, NEW next,
           AskName(here, field, refused, next)
    PROVE  Proper /\ UNCHANGED kernel /\ pc = here /\ pc' \in {next, "return"}
  <1>1. FrameType' /\ Around' /\ frame'.op = frame.op
    BY DEF AskName, EndOfInput, Return, Goto, DiskInv, FrameType, Around, Messages
  <1>2. UNCHANGED kernel /\ pc = here /\ pc' \in {next, "return"}
    BY DEF AskName, EndOfInput, Return, Goto
  <1> QED
    BY <1>1, <1>2, KernelUntouched DEF DiskInv, Proper

LEMMA CloseTypes ==
    ASSUME DiskInv, NEW here, CloseLast(here) \/ Abandon(here)
    PROVE  Proper /\ UNCHANGED content /\ pc = here /\ pc' = "return"
  <1>1. FrameType' /\ Around' /\ frame'.op = frame.op
    BY ExplorerAssumption
       DEF CloseLast, Abandon, Return, Works, Fault, DiskInv, FrameType, Around, Messages
  <1>2. KernelType'
    BY CloseKeeps DEF CloseLast, Abandon, DiskInv
  <1> QED
    BY <1>1, <1>2 DEF CloseLast, Abandon, CloseFd, Return, Proper

LEMMA OpenTypes ==
    ASSUME DiskInv, NEW here, NEW next, OpenToRead(here, "fd", next, Return("error"))
    PROVE  Proper /\ UNCHANGED content /\ pc = here /\ pc' \in {next, "return"}
  <1> DEFINE can == CanOpen(frame.path) /\ FreeFd
  <1>1. CASE /\ can /\ Works /\ Goto(next)
             /\ \E f \in Descriptors : /\ OpenReading(frame.path, f)
                                       /\ frame' = [frame EXCEPT !.fd = f]
    <2>1. PICK f \in Descriptors : /\ OpenReading(frame.path, f)
                                   /\ frame' = [frame EXCEPT !.fd = f]
      BY <1>1
    <2>2. KernelType' /\ UNCHANGED content
      BY <1>1, <2>1, OpenReadingKeeps DEF DiskInv, OpenReading
    <2>3. FrameType' /\ Around' /\ frame'.op = frame.op
      BY <1>1, <2>1 DEF Works, Goto, DiskInv, FrameType, Around
    <2> QED
      BY <1>1, <2>2, <2>3 DEF OpenToRead, Goto, Proper
  <1>2. CASE Fails(can) /\ Return("error") /\ UNCHANGED <<kernel, frame>>
    BY <1>2, KernelUntouched, ExplorerAssumption
       DEF OpenToRead, Fails, Fault, Return, Proper, DiskInv, FrameType, Around, Messages
  <1> QED
    BY <1>1, <1>2 DEF OpenToRead

\* open for writing, by the operation that creates, writes or copies.
LEMMA OpenWritingTypes ==
    ASSUME DiskInv, NEW p, NEW truncate \in BOOLEAN, NEW field \in {"fd", "fd2"},
           CanOpenWriting(p), Works, UNCHANGED <<told, eof, others>>,
           NEW f \in Descriptors, OpenWriting(p, f, truncate),
           frame' = [frame EXCEPT ![field] = f]
    PROVE  /\ Proper
           /\ fds'[f].append = ~truncate /\ frame'[field] = f
           /\ ~truncate => \A i \in Inodes : Alive(i) => content'[i] = content[i]
  <1>1. FrameType' /\ Around' /\ frame'.op = frame.op /\ frame'[field] = f
    BY DEF Works, DiskInv, FrameType, Around
  <1> QED
    BY <1>1, OpenWritingKeeps DEF Proper, DiskInv

\* write of a piece of the buffer.
LEMMA WriteTypes ==
    ASSUME DiskInv, Works, UNCHANGED <<told, eof, others>>,
           NEW f \in Descriptors, IsOpen(f),
           NEW k \in 1 .. Len(frame.buf), Fits(f, k),
           WriteTo(f, SubSeq(frame.buf, 1, k)),
           frame' = [frame EXCEPT !.buf = Advance(k)]
    PROVE  /\ Proper
           /\ frame'.errno = frame.errno /\ frame'.fd = frame.fd
           /\ fds'[f].append = fds[f].append
           /\ fds[f].append => \A i \in Inodes : IsPrefix(content[i], content'[i])
  <1>1. frame.buf \in Seq(Byte) /\ Len(frame.buf) \in Nat
    BY DEF DiskInv, FrameType
  <1>2. /\ SubSeq(frame.buf, 1, k) \in Seq(Byte)
        /\ Len(SubSeq(frame.buf, 1, k)) = k
    BY <1>1, PieceType
  <1>3. Advance(k) \in Seq(Byte)
    BY <1>1, PieceType DEF Advance
  <1>4. FrameType' /\ Around' /\ frame'.op = frame.op
        /\ frame'.errno = frame.errno /\ frame'.fd = frame.fd
    BY <1>3 DEF Works, DiskInv, FrameType, Around
  <1> QED
    BY <1>2, <1>4, WriteKeeps DEF Proper, DiskInv

(*************************** Operations ************************************)

Good == DiskInv' /\ Appends

\* What follows when a step leaves the points where lines are written alone.
LEMMA ElsewhereGood ==
    ASSUME DiskInv, Proper, pc \notin WritePoints,
           pc' \notin {"write:loop", "write:newline"}
    PROVE  Good
  BY AwayFromWriting DEF Good

LEMMA CreateTypes == HeldInv /\ DiskInv /\ CreateFile => Good
  <1> SUFFICES ASSUME HeldInv, DiskInv, CreateFile PROVE Good
    OBVIOUS
  <1>1. CASE AskName("create", "path", {}, "create:open")
    <2>1. Proper /\ pc = "create" /\ pc' \in {"create:open", "return"}
      BY <1>1, PromptTypes
    <2> QED
      BY <2>1, ElsewhereGood DEF WritePoints
  <1>2. CASE CreateOpen
    <2>1. pc = "create:open" /\ pc' \in {"create:close", "return"}
      BY <1>2 DEF CreateOpen, Goto, Return
    <2>2. ASSUME UNCHANGED <<kernel, frame>>, Return("error"),
                 Fails(CanOpenWriting(frame.path) /\ FreeFd)
          PROVE  Proper
      BY <2>2, KernelUntouched, ExplorerAssumption
         DEF Return, Fails, Fault, Proper, DiskInv, FrameType, Around, Messages
    <2>3. ASSUME CanOpenWriting(frame.path), Works, Goto("create:close"),
                 \E f \in Descriptors : /\ OpenWriting(frame.path, f, TRUE)
                                        /\ frame' = [frame EXCEPT !.fd = f]
          PROVE  Proper
      <3>1. PICK f \in Descriptors : /\ OpenWriting(frame.path, f, TRUE)
                                     /\ frame' = [frame EXCEPT !.fd = f]
        BY <2>3
      <3> QED
        BY <2>3, <3>1, OpenWritingTypes DEF Goto
    <2>4. Proper
      BY <1>2, <2>2, <2>3 DEF CreateOpen
    <2> QED
      BY <2>1, <2>4, ElsewhereGood DEF WritePoints
  <1>3. CASE CloseLast("create:close")
    BY <1>3, CloseTypes, ElsewhereGood DEF WritePoints
  <1> QED
    BY <1>1, <1>2, <1>3 DEF CreateFile

LEMMA ReadTypes == HeldInv /\ DiskInv /\ ReadFile => Good
  <1> SUFFICES ASSUME HeldInv, DiskInv, ReadFile PROVE Good
    OBVIOUS
  <1>1. CASE AskName("read", "path", {}, "read:open")
    <2>1. Proper /\ pc = "read" /\ pc' \in {"read:open", "return"}
      BY <1>1, PromptTypes
    <2> QED
      BY <2>1, ElsewhereGood DEF WritePoints
  <1>2. CASE OpenToRead("read:open", "fd", "read:loop", Return("error"))
    BY <1>2, OpenTypes, ElsewhereGood DEF WritePoints
  <1>3. CASE ReadSome
    <2>1. pc = "read:loop" /\ pc' \in {"read:loop", "read:abandon", "read:close"}
      BY <1>3 DEF ReadSome, Goto
    <2>2. frame.fd \in Descriptors /\ IsOpen(frame.fd)
      BY <2>1, HeldIsOpen DEF HoldsOne
    <2>3. KernelType'
      <3>1. CASE UNCHANGED kernel
        BY <3>1, KernelUntouched DEF DiskInv
      <3>2. CASE \E k \in 1 .. Len(Unread(frame.fd)) : SkipOver(frame.fd, k)
        <4>1. PICK k \in 1 .. Len(Unread(frame.fd)) : MoveTo(frame.fd, fds[frame.fd].pos + k)
          BY <3>2 DEF SkipOver
        <4>2. fds[frame.fd].pos + k \in Nat
          BY <2>2, <4>1 DEF DiskInv, KernelType, FdsType, Descriptor
        <4> QED
          BY <4>1, <4>2, MoveKeeps DEF DiskInv
      <3>3. \/ UNCHANGED kernel
            \/ \E k \in 1 .. Len(Unread(frame.fd)) : SkipOver(frame.fd, k)
        BY <1>3 DEF ReadSome
      <3> QED
        BY <3>1, <3>2, <3>3
    <2>4. \E s : \E r \in {"notice", "success"} :
              \/ frame' = [frame EXCEPT !.result = r]
              \/ frame' = [frame EXCEPT !.shown = s]
      BY <1>3 DEF ReadSome
    <2>5. FrameType' /\ frame'.op = frame.op
      BY <2>4 DEF DiskInv, FrameType, Messages
    <2>6. Around'
      BY <1>3, ExplorerAssumption DEF ReadSome, Goto, Fault, Works, DiskInv, Around
    <2> QED
      BY <2>1, <2>3, <2>5, <2>6, ElsewhereGood DEF Proper, WritePoints
  <1>4. CASE ReadFails
    <2>1. Proper /\ pc = "read:loop" /\ pc' = "read:abandon"
      BY <1>4, KernelUntouched, ExplorerAssumption
         DEF ReadFails, Goto, Fails, Fault, Proper, DiskInv, FrameType, Around
    <2> QED
      BY <2>1, ElsewhereGood DEF WritePoints
  <1>5. CASE Abandon("read:abandon") \/ CloseLast("read:close")
    BY <1>5, CloseTypes, ElsewhereGood DEF WritePoints
  <1> QED
    BY <1>1, <1>2, <1>3, <1>4, <1>5 DEF ReadFile

\* The writing of a line.
LEMMA WriteGood == HeldInv /\ DiskInv /\ WriteFile => Good
  <1> SUFFICES ASSUME HeldInv, DiskInv, WriteFile PROVE Good
    OBVIOUS
  <1>1. ASSUME Proper, UNCHANGED content, pc' \in WritePoints,
               pc \in WritePoints,
               pc' \in {"write:loop", "write:newline"} =>
                   pc \in {"write:loop", "write:newline"} /\ UNCHANGED <<kernel, frame.fd>>
        PROVE  Good
    <2>1. Writing'
      BY <1>1 DEF DiskInv, Writing, Proper
    <2>2. Appends
      BY <1>1, SameContent DEF DiskInv
    <2>3. KernelType' /\ FrameType' /\ Around'
      BY <1>1 DEF Proper
    <2> QED
      BY <2>1, <2>2, <2>3 DEF Good, DiskInv
  <1>2. CASE AskName("write", "path", {}, "write:text")
    <2>1. Proper /\ UNCHANGED kernel /\ pc = "write" /\ pc' \in {"write:text", "return"}
      BY <1>2, PromptTypes
    <2> QED
      BY <1>1, <2>1 DEF WritePoints
  <1>3. CASE AskText
    <2>1. ASSUME NEW t \in Texts PROVE t \in Seq(Byte)
      BY ExplorerAssumption DEF Byte
    <2>2. FrameType' /\ Around' /\ frame'.op = frame.op
      BY <1>3, <2>1
         DEF AskText, EndOfInput, Goto, DiskInv, FrameType, Around, Messages
    <2>3. /\ UNCHANGED kernel
          /\ pc = "write:text" /\ pc' \in {"write:open", "return"}
      BY <1>3 DEF AskText, EndOfInput, Goto
    <2> QED
      BY <1>1, <2>2, <2>3, KernelUntouched DEF WritePoints, Proper, DiskInv
  <1>4. CASE WriteOpen
    <2>1. CASE /\ UNCHANGED <<kernel, frame>> /\ Return("error")
               /\ Fails(CanOpenWriting(frame.path) /\ FreeFd)
      <3>1. Proper /\ pc = "write:open" /\ pc' = "return"
        BY <1>4, <2>1, KernelUntouched, ExplorerAssumption
           DEF WriteOpen, Return, Fails, Fault, Proper, DiskInv, FrameType, Around, Messages
      <3> QED
        BY <1>1, <2>1, <3>1 DEF WritePoints
    <2>2. CASE /\ CanOpenWriting(frame.path) /\ Works /\ Goto("write:loop")
               /\ \E f \in Descriptors : /\ OpenToAppend(f)
                                         /\ frame' = [frame EXCEPT !.fd = f]
      <3>1. PICK f \in Descriptors : /\ OpenWriting(frame.path, f, FALSE)
                                     /\ frame' = [frame EXCEPT !.fd = f]
        BY <2>2 DEF OpenToAppend
      <3>2. /\ Proper /\ fds'[f].append /\ frame'.fd = f
            /\ \A i \in Inodes : Alive(i) => content'[i] = content[i]
        BY <2>2, <3>1, OpenWritingTypes DEF Goto
      <3>3. pc = "write:open" /\ pc' = "write:loop"
        BY <1>4, <2>2 DEF WriteOpen, Goto
      <3>4. Writing'
        BY <3>2, <3>3 DEF Writing, WritePoints
      <3>5. Appends
        BY <3>2 DEF Appends, DiskInv, KernelType, DiskType, IsPrefix
      <3> QED
        BY <3>2, <3>3, <3>4, <3>5 DEF Good, DiskInv, Proper
    <2> QED
      BY <1>4, <2>1, <2>2 DEF WriteOpen
  <1>5. CASE WriteSome
    <2>1. CASE frame.buf = <<>>
      <3>1. /\ Proper /\ UNCHANGED <<kernel, frame>>
            /\ pc = "write:loop" /\ pc' = "write:newline"
        BY <1>5, <2>1, KernelUntouched
           DEF WriteSome, Goto, Works, Proper, DiskInv, FrameType, Around
      <3> QED
        BY <1>1, <3>1 DEF WritePoints
    <2>2. CASE frame.buf # <<>>
      <3>1. PICK k \in 1 .. Len(frame.buf) :
                /\ Fits(frame.fd, k)
                /\ WriteTo(frame.fd, SubSeq(frame.buf, 1, k))
                /\ frame' = [frame EXCEPT !.buf = Advance(k)]
        BY <1>5, <2>2 DEF WriteSome
      <3>2. pc = "write:loop" /\ pc' = pc /\ Works /\ UNCHANGED <<told, eof, others>>
        BY <1>5, <2>2 DEF WriteSome, Goto
      <3>3. frame.fd \in Descriptors /\ IsOpen(frame.fd) /\ fds[frame.fd].append
        BY <3>2, HeldIsOpen DEF HoldsOne, DiskInv, Writing
      <3>4. /\ Proper /\ frame'.fd = frame.fd /\ fds'[frame.fd].append
            /\ \A i \in Inodes : IsPrefix(content[i], content'[i])
        BY <3>1, <3>2, <3>3, WriteTypes
      <3>5. Writing'
        BY <3>2, <3>4 DEF Writing, WritePoints
      <3> QED
        BY <3>2, <3>4, <3>5 DEF Good, DiskInv, Proper, Appends
    <2> QED
      BY <2>1, <2>2
  <1>6. CASE WriteFails \/ Interrupted("write:loop", "write:abandon")
    <2>1. Proper /\ UNCHANGED kernel
      BY <1>6, KernelUntouched, ExplorerAssumption
         DEF WriteFails, Interrupted, Retry, Fails, Fault, Goto, Proper, DiskInv, FrameType, Around
    <2>2. /\ pc = "write:loop" /\ pc' \in {"write:loop", "write:abandon"}
          /\ frame'.fd = frame.fd
      BY <1>6 DEF WriteFails, Interrupted, Retry, Goto, DiskInv, FrameType
    <2> QED
      BY <1>1, <2>1, <2>2 DEF WritePoints
  <1>7. CASE WriteNewline
    <2>1. CASE /\ UNCHANGED kernel /\ Goto("write:abandon")
               /\ Fails(Fits(frame.fd, 1))
               /\ \E e \in {"EIO", "EINTR"} : frame' = [frame EXCEPT !.errno = e]
      <3>1. Proper /\ pc = "write:newline" /\ pc' = "write:abandon"
        BY <1>7, <2>1, KernelUntouched, ExplorerAssumption
           DEF WriteNewline, Fails, Fault, Goto, Proper, DiskInv, FrameType, Around
      <3> QED
        BY <1>1, <2>1, <3>1 DEF WritePoints
    <2>2. CASE /\ Fits(frame.fd, 1) /\ WriteTo(frame.fd, <<"newline">>)
               /\ Works /\ Goto("write:close") /\ UNCHANGED frame
      <3>1. pc = "write:newline" /\ pc' = "write:close"
        BY <1>7, <2>2 DEF WriteNewline, Goto
      <3>2. frame.fd \in Descriptors /\ IsOpen(frame.fd) /\ fds[frame.fd].append
        BY <3>1, HeldIsOpen DEF HoldsOne, DiskInv, Writing
      <3>3. <<"newline">> \in Seq(Byte) /\ Len(<<"newline">>) = 1
        BY DEF Byte
      <3>4. KernelType' /\ \A i \in Inodes : IsPrefix(content[i], content'[i])
        BY <2>2, <3>2, <3>3, WriteKeeps DEF DiskInv
      <3>5. FrameType' /\ Around' /\ frame'.op = frame.op
        BY <2>2 DEF Works, Goto, DiskInv, FrameType, Around
      <3> QED
        BY <3>1, <3>4, <3>5
           DEF Good, DiskInv, Writing, WritePoints, Appends
    <2> QED
      BY <1>7, <2>1, <2>2 DEF WriteNewline
  <1>8. CASE Abandon("write:abandon") \/ CloseLast("write:close")
    BY <1>1, <1>8, CloseTypes DEF WritePoints
  <1> QED
    BY <1>2, <1>3, <1>4, <1>5, <1>6, <1>7, <1>8 DEF WriteFile

LEMMA LseekTypes == HeldInv /\ DiskInv /\ LseekDemo => Good
  <1> SUFFICES ASSUME HeldInv, DiskInv, LseekDemo PROVE Good
    OBVIOUS
  <1> USE DEF Proper, WritePoints
  <1>1. CASE AskName("lseek", "path", {}, "lseek:open")
    <2>1. Proper /\ pc = "lseek" /\ pc' \in {"lseek:open", "return"}
      BY <1>1, PromptTypes
    <2> QED
      BY <2>1, ElsewhereGood DEF WritePoints
  <1>2. CASE OpenToRead("lseek:open", "fd", "lseek:ask", Return("error"))
    BY <1>2, OpenTypes, ElsewhereGood
  <1>3. CASE AskOffset
    <2>1. FrameType' /\ Around' /\ frame'.op = frame.op
      BY <1>3, ExplorerAssumption
         DEF AskOffset, ValidOffsets, Goto, DiskInv, FrameType, Around
    <2>2. /\ UNCHANGED kernel
          /\ pc = "lseek:ask" /\ pc' \in {"lseek:cancel", "lseek:abandon", "lseek:seek"}
      BY <1>3 DEF AskOffset, Goto
    <2> QED
      BY <2>1, <2>2, KernelUntouched, ElsewhereGood DEF DiskInv
  <1>4. CASE LseekCancel
    <2>1. FrameType' /\ Around' /\ frame'.op = frame.op /\ KernelType'
      BY <1>4, CloseKeeps, ExplorerAssumption
         DEF LseekCancel, Return, Works, DiskInv, FrameType, Around, Messages
    <2> QED
      BY <1>4, <2>1, ElsewhereGood DEF LseekCancel, Return
  <1>5. CASE LseekMove
    <2>1. pc = "lseek:seek" /\ pc' \in {"lseek:read", "lseek:abandon"} /\ UNCHANGED frame
      BY <1>5 DEF LseekMove, Goto
    <2>2. frame.n \in Nat
      <3>1. frame.n \in (0 .. MaxSize) \cup Offsets
        BY DEF DiskInv, FrameType
      <3>2. MaxSize \in Nat /\ Offsets \subseteq Nat
        BY ExplorerAssumption, KernelAssumption
      <3>3. frame.n \in 0 .. MaxSize => frame.n \in Nat
        BY <3>2
      <3> QED
        BY <3>1, <3>2, <3>3
    <2>3. KernelType'
      BY <1>5, <2>2, MoveKeeps, KernelUntouched DEF LseekMove, DiskInv
    <2>4. FrameType' /\ Around'
      BY <1>5, <2>1, ExplorerAssumption
         DEF LseekMove, Goto, Fails, Fault, Works, DiskInv, FrameType, Around
    <2> QED
      BY <2>1, <2>3, <2>4, ElsewhereGood
  <1>6. CASE LseekRead
    <2>1. pc = "lseek:read" /\ pc' \in {"lseek:close", "lseek:abandon"}
      BY <1>6 DEF LseekRead, Goto
    <2>2. frame.fd \in Descriptors /\ IsOpen(frame.fd)
      BY <2>1, HeldIsOpen DEF HoldsOne
    <2>3. \/ UNCHANGED kernel
          \/ \E k \in 1 .. Len(Unread(frame.fd)) : SkipOver(frame.fd, k)
      BY <1>6 DEF LseekRead
    <2>4. KernelType'
      <3>1. CASE UNCHANGED kernel
        BY <3>1, KernelUntouched DEF DiskInv
      <3>2. CASE \E k \in 1 .. Len(Unread(frame.fd)) : SkipOver(frame.fd, k)
        <4>1. PICK k \in 1 .. Len(Unread(frame.fd)) : MoveTo(frame.fd, fds[frame.fd].pos + k)
          BY <3>2 DEF SkipOver
        <4>2. fds[frame.fd].pos + k \in Nat
          BY <2>2, <4>1 DEF DiskInv, KernelType, FdsType, Descriptor
        <4> QED
          BY <4>1, <4>2, MoveKeeps DEF DiskInv
      <3> QED
        BY <2>3, <3>1, <3>2
    <2>5. \E x : \/ frame' = [frame EXCEPT !.result = "notice"]
                 \/ frame' = [frame EXCEPT !.shown = x]
                 \/ frame' = [frame EXCEPT !.errno = x]
      BY <1>6 DEF LseekRead
    <2>6. FrameType' /\ frame'.op = frame.op
      BY <2>5 DEF DiskInv, FrameType, Messages
    <2>7. Around'
      BY <1>6, ExplorerAssumption
         DEF LseekRead, Goto, Fails, Fault, Works, DiskInv, Around
    <2> QED
      BY <2>1, <2>4, <2>6, <2>7, ElsewhereGood
  <1>7. CASE Abandon("lseek:abandon") \/ CloseLast("lseek:close")
    BY <1>7, CloseTypes, ElsewhereGood
  <1> QED
    BY <1>1, <1>2, <1>3, <1>4, <1>5, <1>6, <1>7 DEF LseekDemo

\* The copy: what it reads and writes, and its calls made again.
LEMMA CopyTypes == HeldInv /\ DiskInv /\ (CopyOp \/ CopyFile) => Good
  <1> SUFFICES ASSUME HeldInv, DiskInv, CopyOp \/ CopyFile PROVE Good
    OBVIOUS
  <1> USE DEF WritePoints
  <1>1. CASE CopyOp
    <2>1. \/ AskName("copy", "path", {}, "copy:dst")
          \/ AskName("copy:dst", "path2", {frame.path}, "copy:open")
      BY <1>1 DEF CopyOp, AskTwoNames
    <2>2. Proper /\ pc \in {"copy", "copy:dst"} /\ pc' \in {"copy:dst", "copy:open", "return"}
      BY <2>1, PromptTypes
    <2> QED
      BY <2>2, ElsewhereGood
  <1>2. CASE OpenToRead("copy:open", "fd", "copy:fstat", Return("error"))
    BY <1>2, OpenTypes, ElsewhereGood
  <1>3. CASE CopyFstat
    <2>1. /\ pc = "copy:fstat" /\ pc' \in {"copy:create", "copy:abandon"}
          /\ UNCHANGED kernel
      BY <1>3 DEF CopyFstat, Goto
    <2>2. CanRead(frame.fd) => FstatSize \in 0 .. MaxSize
      BY DEF CanRead, FstatSize, Is, DiskInv, KernelType, DiskType
    <2>3. FrameType' /\ frame'.op = frame.op
      BY <1>3, <2>2 DEF CopyFstat, DiskInv, FrameType
    <2>4. Around'
      BY <1>3, ExplorerAssumption
         DEF CopyFstat, Goto, Fails, Fault, Works, DiskInv, Around
    <2> QED
      BY <2>1, <2>3, <2>4, KernelUntouched, ElsewhereGood DEF DiskInv, Proper
  <1>4. CASE Abandon("copy:abandon")
    BY <1>4, CloseTypes, ElsewhereGood
  <1>5. CASE CopyCreate
    <2>1. pc = "copy:create" /\ pc' \in {"copy:read", "copy:abandon"}
      BY <1>5 DEF CopyCreate, Goto
    <2>2. ASSUME UNCHANGED <<kernel, frame>>, Goto("copy:abandon"),
                 Fails(CanOpenWriting(frame.path2) /\ FreeFd)
          PROVE  Proper
      BY <2>2, KernelUntouched, ExplorerAssumption
         DEF Goto, Fails, Fault, Proper, DiskInv, FrameType, Around
    <2>3. ASSUME CanOpenWriting(frame.path2), Works, Goto("copy:read"),
                 \E f \in Descriptors : /\ OpenWriting(frame.path2, f, TRUE)
                                        /\ frame' = [frame EXCEPT !.fd2 = f]
          PROVE  Proper
      <3>1. PICK f \in Descriptors : /\ OpenWriting(frame.path2, f, TRUE)
                                     /\ frame' = [frame EXCEPT !.fd2 = f]
        BY <2>3
      <3> QED
        BY <2>3, <3>1, OpenWritingTypes DEF Goto
    <2>4. Proper
      BY <1>5, <2>2, <2>3 DEF CopyCreate
    <2> QED
      BY <2>1, <2>4, ElsewhereGood
  <1>6. CASE CopyRead
    <2>1. pc = "copy:read" /\ pc' \in {"copy:closesrc", "copy:write"}
      BY <1>6 DEF CopyRead, Goto
    <2>2. frame.fd \in Descriptors /\ IsOpen(frame.fd)
      BY <2>1, HeldIsOpen DEF HoldsTwo
    <2>3. Unread(frame.fd) \in Seq(Byte)
      BY <2>2, UnreadType DEF DiskInv
    <2>4. Around'
      BY <1>6 DEF CopyRead, Goto, Works, DiskInv, Around
    <2>5. CASE UNCHANGED <<kernel, frame>>
      BY ElsewhereGood, <2>1, <2>4, <2>5, KernelUntouched DEF Proper, DiskInv, FrameType
    <2>6. CASE \E k \in 1 .. Len(Unread(frame.fd)) :
                  /\ SkipOver(frame.fd, k)
                  /\ frame' = [frame EXCEPT !.buf = SubSeq(Unread(frame.fd), 1, k)]
      <3>1. PICK k \in 1 .. Len(Unread(frame.fd)) :
                /\ MoveTo(frame.fd, fds[frame.fd].pos + k)
                /\ frame' = [frame EXCEPT !.buf = SubSeq(Unread(frame.fd), 1, k)]
        BY <2>6 DEF SkipOver
      <3>2. fds[frame.fd].pos + k \in Nat
        BY <2>2, <3>1 DEF DiskInv, KernelType, FdsType, Descriptor
      <3>3. SubSeq(Unread(frame.fd), 1, k) \in Seq(Byte)
        BY <2>3, <3>1, PieceType
      <3>4. KernelType'
        BY <3>1, <3>2, MoveKeeps DEF DiskInv
      <3>5. FrameType' /\ frame'.op = frame.op
        BY <3>1, <3>3 DEF DiskInv, FrameType
      <3> QED
        BY ElsewhereGood, <2>1, <2>4, <3>4, <3>5 DEF Proper
    <2> QED
      BY <1>6, <2>5, <2>6 DEF CopyRead
  <1>7. CASE CopyWrite
    <2>1. PICK k \in 1 .. Len(frame.buf) :
              /\ Fits(frame.fd2, k)
              /\ WriteTo(frame.fd2, SubSeq(frame.buf, 1, k))
              /\ frame' = [frame EXCEPT !.buf = Advance(k)]
      BY <1>7 DEF CopyWrite
    <2>2. /\ pc = "copy:write" /\ pc' \in {"copy:read", "copy:write"}
          /\ Works /\ UNCHANGED <<told, eof, others>>
      BY <1>7 DEF CopyWrite, Goto
    <2>3. frame.fd2 \in Descriptors /\ IsOpen(frame.fd2)
      BY <2>2, HeldIsOpen DEF HoldsTwo
    <2>4. Proper
      BY <2>1, <2>2, <2>3, WriteTypes
    <2> QED
      BY ElsewhereGood, <2>2, <2>4
  <1>8. CASE \/ Interrupted("copy:read", "copy:cleanup")
             \/ Interrupted("copy:write", "copy:cleanup")
             \/ CopyFails
    <2>1. Proper
      BY <1>8, KernelUntouched, ExplorerAssumption
         DEF CopyFails, Interrupted, Retry, Fails, Fault, Goto, Proper, DiskInv, FrameType, Around
    <2>2. /\ pc \in {"copy:read", "copy:write"}
          /\ pc' \in {pc, "copy:cleanup"}
      <3>1. CASE Interrupted("copy:read", "copy:cleanup")
        BY <3>1 DEF Interrupted, Retry, Goto
      <3>2. CASE Interrupted("copy:write", "copy:cleanup")
        BY <3>2 DEF Interrupted, Retry, Goto
      <3>3. CASE CopyFails
        BY <3>3 DEF CopyFails, Goto
      <3> QED
        BY <1>8, <3>1, <3>2, <3>3
    <2> QED
      BY ElsewhereGood, <2>1, <2>2
  <1>9. CASE CopyCleanup \/ CopyCloseSource \/ CopyCloseDestination
    <2>1. /\ pc \in {"copy:cleanup", "copy:closesrc", "copy:closedst"}
          /\ pc' \in {"return", "copy:closedst"}
      BY <1>9 DEF CopyCleanup, CopyCloseSource, CopyCloseDestination, Goto, Return
    <2>2. FrameType' /\ frame'.op = frame.op
      BY <1>9 DEF CopyCleanup, CopyCloseSource, CopyCloseDestination, DiskInv, FrameType
    <2>3. Around'
      BY <1>9, ExplorerAssumption
         DEF CopyCleanup, CopyCloseSource, CopyCloseDestination, Goto, Return, Works, Fault,
             DiskInv, Around, Messages
    <2>4. CASE CopyCleanup
      <3>1. FdsType'
        BY <2>4 DEF CopyCleanup, DiskInv, KernelType, FdsType, Descriptor
      <3>2. DiskType'
        BY <2>4 DEF CopyCleanup, DiskInv, KernelType, DiskType
      <3> QED
        BY <2>1, <2>2, <2>3, <3>1, <3>2, ElsewhereGood DEF KernelType, Proper
    <2>5. CASE CopyCloseSource \/ CopyCloseDestination
      <3>1. KernelType'
        BY <2>5, CloseKeeps DEF CopyCloseSource, CopyCloseDestination, DiskInv
      <3> QED
        BY <2>1, <2>2, <2>3, <3>1, ElsewhereGood DEF Proper
    <2> QED
      BY <1>9, <2>4, <2>5
  <1> QED
    BY <1>1, <1>2, <1>3, <1>4, <1>5, <1>6, <1>7, <1>8, <1>9 DEF CopyFile

LEMMA RenameTypes == HeldInv /\ DiskInv /\ RenameFile => Good
  <1> SUFFICES ASSUME HeldInv, DiskInv, RenameFile PROVE Good
    OBVIOUS
  <1> USE DEF WritePoints
  <1>1. CASE AskTwoNames("rename", "rename:new", "rename:call")
    <2>1. \/ AskName("rename", "path", {}, "rename:new")
          \/ AskName("rename:new", "path2", {frame.path}, "rename:call")
      BY <1>1 DEF AskTwoNames
    <2>2. Proper /\ pc \in {"rename", "rename:new"} /\ pc' \in {"rename:new", "rename:call", "return"}
      BY <2>1, PromptTypes
    <2> QED
      BY <2>2, ElsewhereGood
  <1>2. CASE CallAndReturn("rename:call", CanRename(frame.path, frame.path2),
                           Rename(frame.path, frame.path2))
    <2>1. KernelType'
      BY <1>2, RenameKeeps, KernelUntouched DEF CallAndReturn, DiskInv
    <2>2. FrameType' /\ Around' /\ frame'.op = frame.op
      BY <1>2, ExplorerAssumption
         DEF CallAndReturn, Fails, Fault, Works, Return, DiskInv, FrameType, Around, Messages
    <2> QED
      BY <1>2, <2>1, <2>2, ElsewhereGood DEF CallAndReturn, Return, Proper
  <1> QED
    BY <1>1, <1>2 DEF RenameFile

LEMMA ListTypes == HeldInv /\ DiskInv /\ ListDirectory => Good
  <1> SUFFICES ASSUME HeldInv, DiskInv, ListDirectory PROVE Good
    OBVIOUS
  <1> USE DEF WritePoints
  <1>1. CASE ListAsk
    <2>1. FrameType' /\ frame'.op = frame.op
      BY <1>1 DEF ListAsk, EndOfInput, DiskInv, FrameType
    <2>2. /\ UNCHANGED told \/ told' \in Messages
          /\ UNCHANGED eof \/ eof' = TRUE
          /\ UNCHANGED others
          /\ UNCHANGED faults \/ (faults < MaxFaults /\ faults' = faults + 1)
      BY <1>1 DEF ListAsk, EndOfInput, Goto, Return, Fails, Fault, Works, Messages
    <2>4. Around'
      <3>1. told \in Messages /\ eof \in BOOLEAN
            /\ faults \in 0 .. MaxFaults /\ others \in 0 .. MaxOtherActs
        BY DEF DiskInv, Around
      <3>2. faults' \in 0 .. MaxFaults
        BY <2>2, <3>1, ExplorerAssumption
      <3> QED
        BY <2>2, <3>1, <3>2 DEF Around
    <2>3. /\ UNCHANGED kernel
          /\ pc \in {"list", "list:getcwd"} /\ pc' \in {"list:getcwd", "list:open", "return"}
      BY <1>1 DEF ListAsk, EndOfInput, Goto, Return
    <2> QED
      BY <2>1, <2>3, <2>4, KernelUntouched, ElsewhereGood DEF DiskInv, Proper
  <1>2. CASE ListOpen
    <2>1. pc = "list:open" /\ pc' \in {"list:read", "return"}
      BY <1>2 DEF ListOpen, Goto, Return
    <2>2. ASSUME UNCHANGED <<kernel, frame>>, Return("error"),
                 Fails(CanOpendir(frame.path) /\ FreeFd)
          PROVE  Proper
      BY <2>2, KernelUntouched, ExplorerAssumption
         DEF Return, Fails, Fault, Proper, DiskInv, FrameType, Around, Messages
    <2>3. ASSUME CanOpendir(frame.path), Works, Goto("list:read"),
                 \E f \in Descriptors : /\ Opendir(frame.path, f)
                                        /\ frame' = [frame EXCEPT !.fd = f, !.errno = "0"]
          PROVE  Proper
      <3>1. PICK f \in Descriptors : /\ Opendir(frame.path, f)
                                     /\ frame' = [frame EXCEPT !.fd = f, !.errno = "0"]
        BY <2>3
      <3>2. KernelType'
        BY <2>3, <3>1, OpendirKeeps DEF DiskInv
      <3> QED
        BY <2>3, <3>1, <3>2 DEF Goto, Works, Proper, DiskInv, FrameType, Around
    <2>4. Proper
      BY <1>2, <2>2, <2>3 DEF ListOpen
    <2> QED
      BY <2>1, <2>4, ElsewhereGood
  <1>3. CASE ListRead
    <2>1. pc = "list:read" /\ pc' \in {"list:read", "list:lstat", "list:close", "list:abandon"}
      BY <1>3 DEF ListRead, Goto
    <2>2. UNCHANGED kernel \/ \E n \in Names : Readdir(frame.fd, n)
      BY <1>3 DEF ListRead
    <2>3. KernelType'
      BY <2>2, KernelUntouched, ReaddirKeeps DEF DiskInv
    <2>4. FrameType' /\ frame'.op = frame.op
      BY <1>3 DEF ListRead, DiskInv, FrameType
    <2>5. Around'
      BY <1>3, ExplorerAssumption DEF ListRead, Goto, Fault, Works, DiskInv, Around
    <2> QED
      BY <2>1, <2>3, <2>4, <2>5, ElsewhereGood DEF Proper
  <1>4. CASE ListLstat
    <2>1. FrameType' /\ frame'.op = frame.op
      BY <1>4 DEF ListLstat, DiskInv, FrameType
    <2>2. Around'
      BY <1>4, ExplorerAssumption DEF ListLstat, Goto, Fails, Fault, Works, DiskInv, Around
    <2>3. UNCHANGED kernel /\ pc = "list:lstat" /\ pc' = "list:read"
      BY <1>4 DEF ListLstat, Goto
    <2> QED
      BY <2>1, <2>2, <2>3, KernelUntouched, ElsewhereGood DEF DiskInv, Proper
  <1>5. CASE Abandon("list:abandon") \/ CloseLast("list:close")
    BY <1>5, CloseTypes, ElsewhereGood
  <1> QED
    BY <1>1, <1>2, <1>3, <1>4, <1>5 DEF ListDirectory

LEMMA DirectoryTypes ==
    HeldInv /\ DiskInv
    /\ (CreateDirectory \/ RemoveDirectory \/ ShowCwd \/ ChangeDir \/ FileInfo) => Good
  <1> SUFFICES ASSUME DiskInv,
                      CreateDirectory \/ RemoveDirectory \/ ShowCwd \/ ChangeDir \/ FileInfo
               PROVE  Good
    OBVIOUS
  <1> USE DEF WritePoints
  <1>1. CASE CreateDirectory
    <2>1. CASE AskName("mkdir", "path", {}, "mkdir:call")
      <3>1. Proper /\ pc = "mkdir" /\ pc' \in {"mkdir:call", "return"}
        BY <2>1, PromptTypes
      <3> QED
        BY <3>1, ElsewhereGood DEF WritePoints
    <2>2. CASE CallAndReturn("mkdir:call", CanMkdir(frame.path), Mkdir(frame.path))
      <3>1. KernelType'
        BY <2>2, MkdirKeeps, KernelUntouched DEF CallAndReturn, DiskInv
      <3>2. FrameType' /\ Around' /\ frame'.op = frame.op
        BY <2>2, ExplorerAssumption
           DEF CallAndReturn, Fails, Fault, Works, Return, DiskInv, FrameType, Around, Messages
      <3> QED
        BY <2>2, <3>1, <3>2, ElsewhereGood DEF CallAndReturn, Return, Proper
    <2> QED
      BY <1>1, <2>1, <2>2 DEF CreateDirectory
  <1>2. CASE RemoveDirectory
    <2>1. CASE AskName("rmdir", "path", RefusedNames, "rmdir:call")
      <3>1. Proper /\ pc = "rmdir" /\ pc' \in {"rmdir:call", "return"}
        BY <2>1, PromptTypes
      <3> QED
        BY <3>1, ElsewhereGood DEF WritePoints
    <2>2. CASE CallAndReturn("rmdir:call", RmdirWorks(frame.path), Unlink(frame.path))
      <3>1. KernelType'
        BY <2>2, UnlinkKeeps, KernelUntouched DEF CallAndReturn, DiskInv
      <3>2. FrameType' /\ Around' /\ frame'.op = frame.op
        BY <2>2, ExplorerAssumption
           DEF CallAndReturn, Fails, Fault, Works, Return, DiskInv, FrameType, Around, Messages
      <3> QED
        BY <2>2, <3>1, <3>2, ElsewhereGood DEF CallAndReturn, Return, Proper
    <2> QED
      BY <1>2, <2>1, <2>2 DEF RemoveDirectory
  <1>3. ASSUME NEW here \in {"cwd", "chdir:getcwd"}, ShowGetcwd(here)
        PROVE  Good
    <2>1. FrameType' /\ frame'.op = frame.op
      BY <1>3 DEF ShowGetcwd, DiskInv, FrameType
    <2>2. Around'
      BY <1>3, ExplorerAssumption
         DEF ShowGetcwd, Return, Fails, Fault, Works, DiskInv, Around, Messages
    <2>3. UNCHANGED kernel /\ pc = here /\ pc' = "return"
      BY <1>3 DEF ShowGetcwd, Return
    <2> QED
      BY <2>1, <2>2, <2>3, KernelUntouched, ElsewhereGood DEF DiskInv, Proper
  <1>4. CASE ChangeDir
    <2>1. CASE AskName("chdir", "path", {}, "chdir:call")
      <3>1. Proper /\ pc = "chdir" /\ pc' \in {"chdir:call", "return"}
        BY <2>1, PromptTypes
      <3> QED
        BY <3>1, ElsewhereGood DEF WritePoints
    <2>2. ASSUME pc = "chdir:call", UNCHANGED frame,
                 \/ CanChdir(frame.path) /\ Chdir(frame.path) /\ Works /\ Goto("chdir:getcwd")
                 \/ Fails(CanChdir(frame.path)) /\ UNCHANGED kernel /\ Return("error")
          PROVE  Good
      <3>1. KernelType'
        BY <2>2, ChdirKeeps, KernelUntouched DEF DiskInv
      <3>2. FrameType' /\ Around'
        BY <2>2, ExplorerAssumption
           DEF Fails, Fault, Works, Goto, Return, DiskInv, FrameType, Around, Messages
      <3>3. pc' \in {"chdir:getcwd", "return"}
        BY <2>2 DEF Goto, Return
      <3> QED
        BY <2>2, <3>1, <3>2, <3>3, ElsewhereGood DEF Proper
    <2> QED
      BY <1>3, <1>4, <2>1, <2>2 DEF ChangeDir
  <1>5. CASE FileInfo
    <2>1. CASE AskName("info", "path", {}, "info:lstat")
      <3>1. Proper /\ pc = "info" /\ pc' \in {"info:lstat", "return"}
        BY <2>1, PromptTypes
      <3> QED
        BY <3>1, ElsewhereGood DEF WritePoints
    <2>2. CASE InfoLstat \/ InfoReadlink
      <3>1. FrameType' /\ frame'.op = frame.op
        BY <2>2 DEF InfoLstat, InfoReadlink, DiskInv, FrameType
      <3>2. Around'
        BY <2>2, ExplorerAssumption
           DEF InfoLstat, InfoReadlink, Goto, Return, Fails, Fault, Works, DiskInv, Around,
               Messages
      <3>3. /\ UNCHANGED kernel /\ pc \in {"info:lstat", "info:readlink"}
            /\ pc' \in {"info:readlink", "return"}
        BY <2>2 DEF InfoLstat, InfoReadlink, Goto, Return
      <3> QED
        BY <3>1, <3>2, <3>3, KernelUntouched, ElsewhereGood DEF DiskInv, Proper
    <2> QED
      BY <1>5, <2>1, <2>2 DEF FileInfo
  <1> QED
    BY <1>1, <1>2, <1>3, <1>4, <1>5 DEF ShowCwd

LEMMA MainTypes == HeldInv /\ DiskInv /\ Main => Good
  <1> SUFFICES ASSUME HeldInv, DiskInv, Main PROVE Good
    OBVIOUS
  <1>1. /\ UNCHANGED <<kernel, faults, others>>
        /\ pc \in {"menu", "choice", "return", "exit"}
        /\ pc' \notin {"write:loop", "write:newline"}
        /\ eof' \in BOOLEAN /\ told' \in {told, "none"}
    BY ExplorerAssumption
       DEF Main, ShowMenu, Choose, AtEof, BackToMenu, Exit, Goto, DiskInv, Around
  <1>2. Around'
    BY <1>1 DEF DiskInv, Around, Messages
  <1>3. 0 \in 0 .. MaxSize /\ <<>> \in Seq(Byte)
    BY KernelAssumption
  <1>4. \/ \E x : frame' = [frame EXCEPT !.shown = x]
        \/ frame' = frame
        \/ frame' = Empty
        \/ frame' = [Empty EXCEPT !.op = pc']
    BY DEF Main, ShowMenu, Choose, BackToMenu, Exit, Goto
  <1>5. FrameType'
    <2>1. CASE \E x : frame' = [frame EXCEPT !.shown = x]
      BY <2>1 DEF DiskInv, FrameType
    <2>2. CASE frame' = frame
      BY <2>2 DEF DiskInv, FrameType
    <2>3. CASE frame' = Empty \/ frame' = [Empty EXCEPT !.op = pc']
      <3>1. /\ {"op", "fd", "fd2", "buf", "n", "errno", "result"} \subseteq DOMAIN frame'
            /\ frame'.fd = NoFd /\ frame'.fd2 = NoFd /\ frame'.buf = <<>>
            /\ frame'.n = 0 /\ frame'.result = "success"
        BY <2>3 DEF Empty
      <3> QED
        BY <1>3, <3>1 DEF FrameType, Messages
    <2> QED
      BY <1>4, <2>1, <2>2, <2>3
  <1>6. frame'.op = "write" => pc' \in WritePoints
    <2>1. CASE ShowMenu \/ Exit
      BY <2>1 DEF ShowMenu, Exit, Goto, DiskInv, Writing, WritePoints, FrameType
    <2>2. CASE BackToMenu
      BY <2>2 DEF BackToMenu, Empty
    <2>3. CASE Choose
      BY <2>3 DEF Choose, AtEof, Goto, Empty, DiskInv, Writing, WritePoints
    <2> QED
      BY <2>1, <2>2, <2>3 DEF Main
  <1>7. KernelType' /\ Appends
    BY <1>1, KernelUntouched, SameContent DEF DiskInv
  <1> QED
    BY <1>1, <1>2, <1>5, <1>6, <1>7 DEF Good, DiskInv, Writing

\* Another process may append to a file and make a new one, and that too
\* leaves what is there in front.
LEMMA OthersTypes == HeldInv /\ DiskInv /\ OtherProcess => Good
  <1> SUFFICES ASSUME HeldInv, DiskInv, OtherProcess PROVE Good
    OBVIOUS
  <1>1. /\ UNCHANGED <<process, faults>>
        /\ others < MaxOtherActs /\ others' = others + 1
    BY DEF OtherProcess, AnotherAppends, AnotherCreates, AnotherLinks, AnotherUnlinks,
           AnotherRemovesDirectory, Act
  <1>2. FrameType' /\ Around'
    BY <1>1, ExplorerAssumption DEF DiskInv, FrameType, Around
  <1>3. ASSUME KernelType', \A f \in Descriptors : fds'[f].append = fds[f].append,
               \A i \in Inodes : Alive(i) => IsPrefix(content[i], content'[i])
        PROVE  Good
    <2>1. pc' \in {"write:loop", "write:newline"} => frame.fd \in Descriptors
      BY <1>1, HeldIsOpen DEF HoldsOne
    <2>2. Writing'
      BY <1>1, <1>3, <2>1 DEF DiskInv, Writing
    <2> QED
      BY <1>2, <1>3, <2>2 DEF Good, DiskInv, Appends
  <1>4. \A i \in Inodes : IsPrefix(content[i], content[i])
    BY DEF IsPrefix, DiskInv, KernelType, DiskType
  <1>5. CASE AnotherAppends
    <2>1. PICK i \in Inodes : /\ Len(content[i]) < MaxSize
                              /\ content' = [content EXCEPT ![i] = Append(content[i], "o")]
      BY <1>5 DEF AnotherAppends
    <2>2. content[i] \in Seq(Byte) /\ "o" \in Byte
      BY DEF DiskInv, KernelType, DiskType, Byte
    <2>3. /\ Append(content[i], "o") \in Seq(Byte)
          /\ Len(Append(content[i], "o")) = Len(content[i]) + 1
          /\ \A j \in 1 .. Len(content[i]) : Append(content[i], "o")[j] = content[i][j]
      BY <2>2
    <2>4. IsPrefix(content[i], Append(content[i], "o"))
      <3>1. SubSeq(content[i], 1, Len(content[i]))
                = SubSeq(Append(content[i], "o"), 1, Len(content[i]))
        BY <2>2, <2>3
      <3> QED
        BY <2>2, <2>3, <3>1 DEF IsPrefix
    <2>5. /\ DOMAIN content' = Inodes
          /\ \A j \in Inodes : content'[j] = IF j = i THEN Append(content[i], "o")
                                             ELSE content[j]
      BY <2>1 DEF DiskInv, KernelType, DiskType
    <2>6. Len(content[i]) + 1 <= MaxSize
      BY <2>1, <2>2, KernelAssumption
    <2>7. KernelType'
      BY <1>5, <2>3, <2>5, <2>6 DEF AnotherAppends, DiskInv, KernelType, DiskType, FdsType
    <2> QED
      BY <1>3, <1>4, <1>5, <2>4, <2>5, <2>7 DEF AnotherAppends
  <1>6. CASE AnotherCreates
    <2>1. PICK n \in Names, k \in {"file", "dir", "link"} :
              /\ entry' = [entry EXCEPT ![Root][n] = NewInode]
              /\ kind' = [kind EXCEPT ![NewInode] = k]
      BY <1>6 DEF AnotherCreates
    <2>2. NewInode \in Inodes /\ ~Alive(NewInode) /\ Root \in Inodes
      BY <1>6, NewInodeIsFree, KernelAssumption DEF AnotherCreates, Inodes, Root
    <2>3. <<>> \in Seq(Byte) /\ Len(<<>>) = 0 /\ 0 <= MaxSize
      BY KernelAssumption
    <2>4. entry' \in [Inodes -> [Names -> Inodes \cup {Nothing}]]
      BY <2>1, <2>2 DEF DiskInv, KernelType, DiskType
    <2>5. /\ DOMAIN content' = Inodes
          /\ \A j \in Inodes : content'[j] = IF j = NewInode THEN <<>> ELSE content[j]
      BY <1>6 DEF AnotherCreates, DiskInv, KernelType, DiskType
    <2>6. /\ kind' \in [Inodes -> {"file", "dir", "link"}] /\ up' \in [Inodes -> Inodes]
          /\ UNCHANGED <<cwd, fds>>
      BY <1>6, <2>1, <2>2 DEF AnotherCreates, DiskInv, KernelType, DiskType
    <2>7. KernelType'
      BY <2>3, <2>4, <2>5, <2>6 DEF DiskInv, KernelType, DiskType, FdsType
    <2> QED
      BY <1>3, <1>4, <2>2, <2>5, <2>6, <2>7
  <1>7. CASE AnotherLinks
    <2>1. PICK n \in Names, m \in Names :
              /\ Is(entry[Root][m], "file")
              /\ entry' = [entry EXCEPT ![Root][n] = entry[Root][m]]
      BY <1>7 DEF AnotherLinks
    <2>2. entry' \in [Inodes -> [Names -> Inodes \cup {Nothing}]]
      BY <2>1 DEF Is, DiskInv, KernelType, DiskType
    <2>3. KernelType'
      BY <1>7, <2>2 DEF AnotherLinks, DiskInv, KernelType, DiskType, FdsType
    <2> QED
      BY <1>3, <1>4, <1>7, <2>3 DEF AnotherLinks
  <1>8. CASE AnotherUnlinks \/ AnotherRemovesDirectory
    <2>1. PICK n \in Names : Unlink(Absolute(<<n>>))
      BY <1>8 DEF AnotherUnlinks, AnotherRemovesDirectory
    <2>2. KernelType'
      BY <2>1, UnlinkKeeps DEF DiskInv
    <2>3. \A f \in Descriptors : fds'[f].append = fds[f].append
      BY <2>1 DEF Unlink, DiskInv, KernelType, FdsType, Descriptor
    <2> QED
      BY <1>3, <1>4, <2>1, <2>2, <2>3 DEF Unlink
  <1> QED
    BY <1>5, <1>6, <1>7, <1>8 DEF OtherProcess

LEMMA StepTypes == HeldInv /\ DiskInv /\ [Next]_vars => DiskInv' /\ [Appends]_vars
  <1> SUFFICES ASSUME HeldInv, DiskInv, [Next]_vars
               PROVE  DiskInv' /\ [Appends]_vars
    OBVIOUS
  <1>1. CASE UNCHANGED vars
    BY <1>1 DEF vars, DiskInv, KernelType, DiskType, FdsType, FrameType, Around, Writing
  <1>2. CASE Process \/ OtherProcess
    <2>1. ASSUME FileOperation PROVE Good
      BY <2>1, CreateTypes, ReadTypes, WriteGood, LseekTypes, CopyTypes, RenameTypes
         DEF FileOperation
    <2>2. ASSUME DirectoryOperation PROVE Good
      BY <2>2, ListTypes, DirectoryTypes DEF DirectoryOperation
    <2>3. Good
      BY <1>2, <2>1, <2>2, MainTypes, OthersTypes DEF Process
    <2> QED
      BY <2>3 DEF Good
  <1> QED
    BY <1>1, <1>2 DEF Next, Ended

LEMMA InitTypes == Init => DiskInv
  <1> SUFFICES ASSUME Init PROVE DiskInv
    OBVIOUS
  <1>1. /\ 0 \in Inodes /\ 0 <= MaxSize /\ 0 \in 0 .. MaxSize
        /\ 0 \in 0 .. MaxFaults /\ 0 \in 0 .. MaxOtherActs
    BY KernelAssumption, ExplorerAssumption DEF Inodes
  <1>2. \A c \in InitContents \cup {<<>>} : c \in Seq(Byte) /\ Len(c) <= MaxSize
    <2>1. ASSUME NEW c \in Seq({"x", "y"}) PROVE c \in Seq(Byte)
      BY DEF Byte
    <2>2. ASSUME NEW c \in InitContents PROVE c \in Seq({"x", "y"}) /\ Len(c) <= MaxSize
      BY KernelAssumption
    <2>3. <<>> \in Seq(Byte) /\ Len(<<>>) = 0
      OBVIOUS
    <2> QED
      BY <1>1, <2>1, <2>2, <2>3
  <1>3. DiskType
    <2>1. kind \in [Inodes -> {"file", "dir", "link"}]
      BY KernelAssumption DEF Init, FileSystemInit
    <2>2. entry \in [Inodes -> [Names -> Inodes \cup {Nothing}]]
      BY DEF Init, FileSystemInit
    <2> QED
      BY <1>1, <1>2, <2>1, <2>2 DEF Init, FileSystemInit, Root, DiskType
  <1>4. FdsType
    BY DEF Init, FileSystemInit, FdsType, Descriptor
  <1>5. FrameType /\ Around /\ Writing
    <2>1. <<>> \in Seq(Byte)
      OBVIOUS
    <2>2. frame = Empty /\ pc = "menu"
      BY DEF Init
    <2>3. FrameType
      BY <1>1, <2>1, <2>2 DEF FrameType, Empty, Messages
    <2>4. Around
      BY <1>1 DEF Init, Around, Messages
    <2> QED
      BY <2>2, <2>3, <2>4 DEF Writing, Empty
  <1> QED
    BY <1>3, <1>4, <1>5 DEF DiskInv, KernelType

(*************************** Theorems **************************************)

LEMMA Inductive == Spec => [](HeldInv /\ DiskInv) /\ [][Appends]_vars
  <1>1. Init => HeldInv /\ DiskInv
    BY InitHeld, InitTypes
  <1>2. HeldInv /\ DiskInv /\ [Next]_vars
            => HeldInv' /\ DiskInv' /\ [Appends]_vars
    BY StepHeld, StepTypes
  <1> QED
    BY <1>1, <1>2, PTL DEF Spec

\* The disk is a disk and the descriptors and locals are what the code takes
\* them to be: offsets and counts are no negative numbers, a descriptor that is
\* open has a file, and no file outgrows the disk.
THEOREM ExplorerTypes == Spec => []TypeOK
  <1>1. DiskInv => TypeOK
    BY DEF DiskInv, KernelType, DiskType, FdsType, Descriptor, FrameType, Around, Messages,
           TypeOK
  <1> QED
    BY <1>1, Inductive, PTL

\* However many pieces a line is written in, and whatever other processes do
\* to the file between them, no byte that was in a file is written over
\* (file_operations.c:206).
THEOREM AppendingIsSafe == Spec => AppendsOnly
  <1>1. [Appends]_vars
            => [frame.op = "write" =>
                    \A i \in Inodes : Alive(i) => IsPrefix(content[i], content'[i])]_vars
    BY DEF Appends
  <1> QED
    BY <1>1, Inductive, PTL DEF AppendsOnly

(*************************** Signals ***************************************)

ReadingPoints == {"read", "read:open", "read:loop", "read:abandon", "read:close", "lseek",
                  "lseek:open", "lseek:ask", "lseek:cancel", "lseek:seek", "lseek:read",
                  "lseek:abandon", "lseek:close"}
LinePoints == WritePoints \ {"return"}

\* Where the last failure may have been a signal and the operation goes on, and
\* where one that reads gives up.
GoesOn == {"write:loop", "write:newline", "write:close", "copy:read", "copy:write",
           "copy:closesrc", "copy:closedst"}
GivesUp == {"read:abandon", "lseek:abandon"}

Reading == frame.op \in {"read", "lseek"}
NewlineFailed == frame.op = "write" /\ frame.buf = <<>>

SignalInv ==
    /\ pc \in ReadingPoints => Reading
    /\ pc \in LinePoints => frame.op = "write"
    /\ pc = "write:newline" => frame.buf = <<>>
    /\ frame.result # "error"
    /\ frame.errno = "EINTR" =>
           \/ pc \in GoesOn \cup GivesUp
           \/ pc = "write:abandon" /\ frame.buf = <<>>
           \/ pc = "return" /\ (told = "error" => Reading \/ NewlineFailed)

\* The last failure was no signal, and is not now.
LEMMA StaysCalm ==
    ASSUME SignalInv, pc \notin GoesOn \cup GivesUp \cup {"write:abandon", "return"},
           frame'.op = frame.op, frame'.result \in {frame.result, "notice", "success"},
           frame'.errno = frame.errno \/ frame'.errno # "EINTR",
           pc' \in ReadingPoints => pc \in ReadingPoints,
           pc' \in LinePoints => pc \in LinePoints, pc' # "write:newline"
    PROVE  SignalInv'
  BY DEF SignalInv, Reading, NewlineFailed

LEMMA PromptSignals ==
    ASSUME FrameType, SignalInv, NEW here, NEW field \in {"path", "path2"}, NEW refused,
           NEW next, AskName(here, field, refused, next),
           here \notin GoesOn \cup GivesUp \cup {"write:abandon", "return"},
           next \in ReadingPoints => here \in ReadingPoints,
           next \in LinePoints => here \in LinePoints, next # "write:newline"
    PROVE  SignalInv'
  <1>1. /\ frame'.op = frame.op /\ frame'.result = frame.result
        /\ frame'.errno = frame.errno
    BY DEF AskName, EndOfInput, FrameType
  <1>2. pc = here /\ pc' \in {next, "return"}
    BY DEF AskName, EndOfInput, Return, Goto
  <1> QED
    BY <1>1, <1>2, StaysCalm DEF ReadingPoints, LinePoints, WritePoints

LEMMA OpenSignals ==
    ASSUME FrameType, SignalInv, NEW here \in {"read:open", "lseek:open", "copy:open"},
           NEW next \in {"read:loop", "lseek:ask", "copy:fstat"},
           next \in ReadingPoints => here \in ReadingPoints,
           OpenToRead(here, "fd", next, Return("error"))
    PROVE  SignalInv'
  <1>1. /\ frame'.op = frame.op /\ frame'.result = frame.result
        /\ frame'.errno = frame.errno
    BY DEF OpenToRead, FrameType
  <1>2. pc = here /\ pc' \in {next, "return"}
    BY DEF OpenToRead, Return, Goto
  <1> QED
    BY <1>1, <1>2, StaysCalm
       DEF ReadingPoints, LinePoints, WritePoints, GoesOn, GivesUp

LEMMA CloseSignals ==
    ASSUME FrameType, SignalInv, NEW here,
           \/ CloseLast(here)
           \/ Abandon(here) /\ here \notin GoesOn \cup {"return"}
    PROVE  SignalInv'
  <1>1. /\ frame'.op = frame.op /\ frame'.result = frame.result
        /\ frame'.errno = frame.errno /\ frame'.buf = frame.buf
    BY DEF CloseLast, Abandon, FrameType
  <1>2. pc = here /\ pc' = "return"
    BY DEF CloseLast, Abandon, Return
  <1>3. told' # "error" \/ here \notin GoesOn \cup {"return"}
    BY DEF CloseLast, Abandon, Return, SignalInv
  <1>4. ASSUME frame.errno = "EINTR", here \notin GoesOn \cup {"return"}
        PROVE  Reading \/ NewlineFailed
    BY <1>2, <1>4
       DEF SignalInv, NewlineFailed, GivesUp, ReadingPoints, LinePoints, WritePoints
  <1>5. (Reading => Reading') /\ (NewlineFailed => NewlineFailed')
    BY <1>1 DEF Reading, NewlineFailed
  <1> QED
    BY <1>1, <1>2, <1>3, <1>4, <1>5
       DEF SignalInv, ReadingPoints, LinePoints, WritePoints

LEMMA ReadSignals == FrameType /\ SignalInv /\ (ReadFile \/ LseekDemo) => SignalInv'
  <1> SUFFICES ASSUME FrameType, SignalInv, ReadFile \/ LseekDemo PROVE SignalInv'
    OBVIOUS
  <1> USE DEF ReadingPoints, LinePoints, WritePoints, GoesOn, GivesUp
  <1>1. CASE \/ AskName("read", "path", {}, "read:open")
             \/ AskName("lseek", "path", {}, "lseek:open")
    BY <1>1, PromptSignals
  <1>2. CASE \/ OpenToRead("read:open", "fd", "read:loop", Return("error"))
             \/ OpenToRead("lseek:open", "fd", "lseek:ask", Return("error"))
    BY <1>2, OpenSignals
  <1>3. CASE \/ Abandon("read:abandon") \/ CloseLast("read:close")
             \/ Abandon("lseek:abandon") \/ CloseLast("lseek:close")
    BY <1>3, CloseSignals
  <1>4. CASE ReadSome
    <2>1. pc = "read:loop" /\ pc' \in {"read:loop", "read:abandon", "read:close"}
      BY <1>4 DEF ReadSome, Goto
    <2>2. /\ frame'.op = frame.op /\ frame'.errno = frame.errno
          /\ frame'.result \in {frame.result, "notice", "success"}
      BY <1>4 DEF ReadSome, FrameType
    <2> QED
      BY <2>1, <2>2, StaysCalm
  <1>5. CASE ReadFails \/ LseekRead
    <2>1. \/ pc = "read:loop" /\ pc' = "read:abandon"
          \/ pc = "lseek:read" /\ pc' = "lseek:abandon"
          \/ pc = "lseek:read" /\ pc' = "lseek:close" /\ frame'.errno = frame.errno
      BY <1>5 DEF ReadFails, LseekRead, Goto, FrameType
    <2>2. frame'.op = frame.op /\ frame'.result \in {frame.result, "notice"}
      BY <1>5 DEF ReadFails, LseekRead, FrameType
    <2> QED
      BY <2>1, <2>2 DEF SignalInv, Reading
  <1>6. CASE AskOffset \/ LseekCancel \/ LseekMove
    <2>1. /\ frame'.op = frame.op /\ frame'.errno = frame.errno
          /\ frame'.result = frame.result
      BY <1>6 DEF AskOffset, LseekCancel, LseekMove, FrameType
    <2>2. /\ pc \in {"lseek:ask", "lseek:cancel", "lseek:seek"}
          /\ pc' \in {"lseek:cancel", "lseek:abandon", "lseek:seek", "lseek:read", "return"}
      BY <1>6 DEF AskOffset, LseekCancel, LseekMove, Goto, Return
    <2> QED
      BY <2>1, <2>2, StaysCalm
  <1> QED
    BY <1>1, <1>2, <1>3, <1>4, <1>5, <1>6 DEF ReadFile, LseekDemo

\* An interrupted write goes back to the loop; only the newline's does not.
LEMMA WriteSignals == FrameType /\ SignalInv /\ WriteFile => SignalInv'
  <1> SUFFICES ASSUME FrameType, SignalInv, WriteFile PROVE SignalInv'
    OBVIOUS
  <1> USE DEF ReadingPoints, LinePoints, WritePoints, GoesOn, GivesUp
  <1>1. CASE AskName("write", "path", {}, "write:text")
    BY <1>1, PromptSignals
  <1>2. CASE AskText \/ WriteOpen
    <2>1. /\ frame'.op = frame.op /\ frame'.errno = frame.errno
          /\ frame'.result = frame.result
      BY <1>2 DEF AskText, EndOfInput, WriteOpen, FrameType
    <2>2. /\ pc \in {"write:text", "write:open"}
          /\ pc' \in {"write:open", "write:loop", "return"}
      BY <1>2 DEF AskText, EndOfInput, WriteOpen, Goto, Return
    <2> QED
      BY <2>1, <2>2, StaysCalm
  <1>3. CASE WriteSome
    <2>1. /\ frame'.op = frame.op /\ frame'.result = frame.result
          /\ frame'.errno = frame.errno
      BY <1>3 DEF WriteSome, FrameType
    <2>2. /\ pc = "write:loop"
          /\ \/ pc' = "write:loop"
             \/ pc' = "write:newline" /\ frame'.buf = <<>>
      BY <1>3 DEF WriteSome, Goto
    <2> QED
      BY <2>1, <2>2 DEF SignalInv
  <1>4. CASE WriteFails \/ Interrupted("write:loop", "write:abandon")
    <2>1. frame'.op = frame.op /\ frame'.result = frame.result
      BY <1>4 DEF WriteFails, Interrupted, FrameType
    <2>2. /\ pc = "write:loop"
          /\ \/ pc' = "write:loop"
             \/ pc' = "write:abandon" /\ frame'.errno # "EINTR"
      BY <1>4 DEF WriteFails, Interrupted, Retry, Goto, FrameType
    <2> QED
      BY <2>1, <2>2 DEF SignalInv
  <1>5. CASE WriteNewline
    <2>1. /\ frame'.op = frame.op /\ frame'.result = frame.result
          /\ frame'.buf = frame.buf
      BY <1>5 DEF WriteNewline, FrameType
    <2>2. pc = "write:newline" /\ pc' \in {"write:close", "write:abandon"}
      BY <1>5 DEF WriteNewline, Goto
    <2> QED
      BY <2>1, <2>2 DEF SignalInv
  <1>6. CASE Abandon("write:abandon") \/ CloseLast("write:close")
    BY <1>6, CloseSignals
  <1> QED
    BY <1>1, <1>2, <1>3, <1>4, <1>5, <1>6 DEF WriteFile

\* The copy gives up for no signal at all.
LEMMA CopySignals == FrameType /\ SignalInv /\ (CopyOp \/ CopyFile) => SignalInv'
  <1> SUFFICES ASSUME FrameType, SignalInv, CopyOp \/ CopyFile PROVE SignalInv'
    OBVIOUS
  <1> USE DEF ReadingPoints, LinePoints, WritePoints, GoesOn, GivesUp
  <1>1. CASE CopyOp
    BY <1>1, PromptSignals DEF CopyOp, AskTwoNames
  <1>2. CASE OpenToRead("copy:open", "fd", "copy:fstat", Return("error"))
    BY <1>2, OpenSignals
  <1>3. CASE Abandon("copy:abandon")
    BY <1>3, CloseSignals
  <1>4. CASE CopyFstat \/ CopyCreate \/ CopyCleanup
    <2>1. /\ frame'.op = frame.op /\ frame'.errno = frame.errno
          /\ frame'.result = frame.result
      BY <1>4 DEF CopyFstat, CopyCreate, CopyCleanup, FrameType
    <2>2. /\ pc \in {"copy:fstat", "copy:create", "copy:cleanup"}
          /\ pc' \in {"copy:create", "copy:abandon", "copy:read", "return"}
      BY <1>4 DEF CopyFstat, CopyCreate, CopyCleanup, Goto, Return
    <2> QED
      BY <2>1, <2>2, StaysCalm
  <1>5. CASE CopyRead \/ CopyWrite \/ CopyCloseSource
    <2>1. frame'.op = frame.op /\ frame'.result = frame.result
      BY <1>5 DEF CopyRead, CopyWrite, CopyCloseSource, FrameType
    <2>2. /\ pc \in {"copy:read", "copy:write", "copy:closesrc"}
          /\ pc' \in {"copy:read", "copy:write", "copy:closesrc", "copy:closedst"}
      BY <1>5 DEF CopyRead, CopyWrite, CopyCloseSource, Goto
    <2> QED
      BY <2>1, <2>2 DEF SignalInv
  <1>6. CASE \/ Interrupted("copy:read", "copy:cleanup")
             \/ Interrupted("copy:write", "copy:cleanup")
             \/ CopyFails
    <2>1. frame'.op = frame.op /\ frame'.result = frame.result
      BY <1>6 DEF CopyFails, Interrupted, FrameType
    <2>2. /\ pc \in {"copy:read", "copy:write"}
          /\ \/ pc' \in {"copy:read", "copy:write"}
             \/ pc' = "copy:cleanup" /\ frame'.errno # "EINTR"
      BY <1>6 DEF CopyFails, Interrupted, Retry, Goto, FrameType
    <2> QED
      BY <2>1, <2>2 DEF SignalInv
  <1>7. CASE CopyCloseDestination
    <2>1. frame'.op = frame.op /\ frame'.result = frame.result
      BY <1>7 DEF CopyCloseDestination, FrameType
    <2>2. /\ pc = "copy:closedst" /\ pc' = "return"
          /\ told' = "success" \/ frame'.errno # "EINTR"
      BY <1>7 DEF CopyCloseDestination, Return, FrameType
    <2> QED
      BY <2>1, <2>2 DEF SignalInv
  <1> QED
    BY <1>1, <1>2, <1>3, <1>4, <1>5, <1>6, <1>7 DEF CopyFile

\* The operations whose calls nothing interrupts.
LEMMA OtherSignals ==
    FrameType /\ SignalInv /\ (CreateFile \/ RenameFile \/ DirectoryOperation) => SignalInv'
  <1> SUFFICES ASSUME FrameType, SignalInv, CreateFile \/ RenameFile \/ DirectoryOperation
               PROVE  SignalInv'
    OBVIOUS
  <1> USE DEF ReadingPoints, LinePoints, WritePoints, GoesOn, GivesUp
  <1>1. ASSUME NEW here \in {"create", "rename", "rename:new", "mkdir", "rmdir", "chdir", "info"},
               NEW field \in {"path", "path2"}, NEW refused,
               NEW next \in {"create:open", "rename:new", "rename:call", "mkdir:call",
                             "rmdir:call", "chdir:call", "info:lstat"},
               AskName(here, field, refused, next)
        PROVE  SignalInv'
    BY <1>1, PromptSignals
  <1>2. ASSUME NEW here \in {"rename:call", "mkdir:call", "rmdir:call"}, NEW can, NEW effect,
               CallAndReturn(here, can, effect)
        PROVE  SignalInv'
    <2>1. UNCHANGED frame /\ pc = here /\ pc' = "return"
      BY <1>2 DEF CallAndReturn, Return
    <2> QED
      BY <2>1, StaysCalm
  <1>3. CASE CreateFile
    <2>1. CASE CreateOpen
      <3>1. /\ frame'.op = frame.op /\ frame'.errno = frame.errno
            /\ frame'.result = frame.result
        BY <2>1 DEF CreateOpen, FrameType
      <3>2. pc = "create:open" /\ pc' \in {"create:close", "return"}
        BY <2>1 DEF CreateOpen, Goto, Return
      <3> QED
        BY <3>1, <3>2, StaysCalm
    <2> QED
      BY <1>1, <1>3, <2>1, CloseSignals DEF CreateFile
  <1>4. CASE RenameFile
    BY <1>1, <1>2, <1>4 DEF RenameFile, AskTwoNames
  <1>5. CASE ListDirectory
    <2>1. CASE ListAsk \/ ListOpen \/ ListRead \/ ListLstat
      <3>1. /\ frame'.op = frame.op /\ frame'.result = frame.result
            /\ frame'.errno = frame.errno \/ frame'.errno # "EINTR"
        BY <2>1 DEF ListAsk, EndOfInput, ListOpen, ListRead, ListLstat, FrameType
      <3>2. /\ pc \in {"list", "list:getcwd", "list:open", "list:read", "list:lstat"}
            /\ pc' \in {"list:getcwd", "list:open", "list:read", "list:lstat", "list:close",
                        "list:abandon", "return"}
        BY <2>1 DEF ListAsk, EndOfInput, ListOpen, ListRead, ListLstat, Goto, Return
      <3> QED
        BY <3>1, <3>2, StaysCalm
    <2> QED
      BY <1>5, <2>1, CloseSignals DEF ListDirectory
  <1>6. CASE CreateDirectory \/ RemoveDirectory
    BY <1>1, <1>2, <1>6 DEF CreateDirectory, RemoveDirectory
  <1>7. CASE ShowCwd \/ ChangeDir \/ FileInfo
    <2>1. CASE \/ AskName("chdir", "path", {}, "chdir:call")
               \/ AskName("info", "path", {}, "info:lstat")
      BY <1>1, <2>1
    <2>2. CASE ~ \/ AskName("chdir", "path", {}, "chdir:call")
                 \/ AskName("info", "path", {}, "info:lstat")
      <3>1. /\ frame'.op = frame.op /\ frame'.result = frame.result
            /\ frame'.errno = frame.errno
        BY <1>7, <2>2
           DEF ShowCwd, ShowGetcwd, ChangeDir, FileInfo, InfoLstat, InfoReadlink, FrameType
      <3>2. /\ pc \in {"cwd", "chdir:call", "chdir:getcwd", "info:lstat", "info:readlink"}
            /\ pc' \in {"chdir:getcwd", "info:readlink", "return"}
        BY <1>7, <2>2
           DEF ShowCwd, ShowGetcwd, ChangeDir, FileInfo, InfoLstat, InfoReadlink, Goto, Return
      <3> QED
        BY <3>1, <3>2, StaysCalm
    <2> QED
      BY <2>1, <2>2
  <1> QED
    BY <1>3, <1>4, <1>5, <1>6, <1>7 DEF DirectoryOperation

LEMMA MainSignals == FrameType /\ SignalInv /\ Main => SignalInv'
  <1> SUFFICES ASSUME FrameType, SignalInv, Main PROVE SignalInv'
    OBVIOUS
  <1> USE DEF ReadingPoints, LinePoints, WritePoints, GoesOn, GivesUp
  <1>1. CASE ShowMenu \/ Exit
    <2>1. /\ frame'.op = frame.op /\ frame'.errno = frame.errno
          /\ frame'.result = frame.result
      BY <1>1 DEF ShowMenu, Exit, FrameType
    <2>2. pc \in {"menu", "exit"} /\ pc' \in {"choice", "ended"}
      BY <1>1 DEF ShowMenu, Exit, Goto
    <2> QED
      BY <2>1, <2>2, StaysCalm
  <1>2. CASE BackToMenu
    BY <1>2 DEF BackToMenu, Empty, SignalInv
  <1>3. CASE Choose
    <2>1. CASE UNCHANGED frame /\ pc' = "exit"
      BY <1>3, <2>1, StaysCalm DEF Choose
    <2>2. CASE frame' = Empty /\ pc' = "menu"
      BY <2>2 DEF Empty, SignalInv
    <2>3. CASE \E c \in MenuChoices : pc' = c /\ frame' = [Empty EXCEPT !.op = c]
      <3>1. pc' \in {"cwd", "list", "chdir", "create", "read", "write", "mkdir", "rmdir",
                     "info", "lseek", "copy", "rename"}
        BY <2>3, ExplorerAssumption
      <3>2. frame'.op = pc' /\ frame'.errno = "0" /\ frame'.result = "success"
        BY <2>3 DEF Empty
      <3> QED
        BY <3>1, <3>2 DEF SignalInv, Reading
    <2> QED
      BY <1>3, <2>1, <2>2, <2>3 DEF Choose, AtEof, Goto
  <1> QED
    BY <1>1, <1>2, <1>3 DEF Main

LEMMA StepSignals == FrameType /\ SignalInv /\ [Next]_vars => SignalInv'
  <1> SUFFICES ASSUME FrameType, SignalInv, [Next]_vars PROVE SignalInv'
    OBVIOUS
  <1>1. CASE FileOperation
    BY <1>1, ReadSignals, WriteSignals, CopySignals, OtherSignals DEF FileOperation
  <1>2. CASE DirectoryOperation \/ Main
    BY <1>2, OtherSignals, MainSignals
  <1>3. CASE UNCHANGED <<pc, frame, told>>
    BY <1>3 DEF SignalInv, Reading, NewlineFailed
  <1>4. OtherProcess => UNCHANGED <<pc, frame, told>>
    BY DEF OtherProcess, AnotherAppends, AnotherCreates, AnotherLinks, AnotherUnlinks,
           AnotherRemovesDirectory, Act, process
  <1> QED
    BY <1>1, <1>2, <1>3, <1>4 DEF Next, Process, Ended, vars, process

\* However often signals interrupt the calls of the loops that write and copy,
\* neither operation fails for that, the newline's own write apart
\* (file_operations.c:221, 231, 469, 487).
THEOREM SignalsAreRetried == Spec => []InterruptsAreRetried
  <1>1. Init => SignalInv
    BY DEF Init, Empty, SignalInv, ReadingPoints, LinePoints, WritePoints
  <1>2. DiskInv /\ SignalInv /\ [Next]_vars => SignalInv'
    BY StepSignals DEF DiskInv
  <1>3. SignalInv => InterruptsAreRetried
    BY DEF SignalInv, InterruptsAreRetried, Reading, NewlineFailed, GoesOn, GivesUp
  <1> QED
    BY <1>1, <1>2, <1>3, Inductive, PTL DEF Spec
=============================================================================
