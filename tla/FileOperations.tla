--------------------------- MODULE FileOperations ---------------------------
(***************************************************************************)
(* LinuxFileSystemExplorer/src/file_operations.c, one action per system     *)
(* call.  "name" is where an operation starts, "name:call" where it makes   *)
(* the call.                                                               *)
(***************************************************************************)
EXTENDS ExplorerContext

(*************************** Slips *****************************************)
(* Plausible mistakes in the code below, each of which a run must notice.   *)
(***************************************************************************)
GiveUpWhenInterrupted(here, next) == Goto(next)
OpenToReplace(f) == OpenWriting(frame.path, f, TRUE)
StartOverUnlessDone(k) == IF k = Len(frame.buf) THEN <<>> ELSE frame.buf
CleanUpSourceOnly == {frame.fd}
NegativeToo == Offsets \cup {-1}
RetryAnyWriteError ==
    pc = "write:loop" /\ frame.buf # <<>> /\ Goto(pc) /\ UNCHANGED <<kernel, frame, faults>>
(***************************************************************************)

\* errno is EINTR: the loops that retry go back to the call.  A signal is no
\* fault, and any number may come.
Retry(here, next) == Goto(here)
Interrupted(here, next) ==
    /\ pc = here
    /\ Retry(here, next)
    /\ frame' = [frame EXCEPT !.errno = "EINTR"]
    /\ UNCHANGED <<kernel, faults>>

\* open in a mode, the descriptor kept in a local.
OpenToRead(here, field, next, otherwise) ==
    /\ pc = here
    /\ LET can == CanOpen(frame.path) /\ FreeFd IN
       \/ /\ can /\ Works /\ Goto(next)
          /\ \E f \in Descriptors : /\ OpenReading(frame.path, f)
                                    /\ frame' = [frame EXCEPT ![field] = f]
       \/ /\ Fails(can) /\ otherwise
          /\ UNCHANGED <<kernel, frame>>

(*************************** create_file_action ****************************)

CreateOpen ==
    /\ pc = "create:open"
    /\ LET can == CanOpenWriting(frame.path) /\ FreeFd IN
       \/ /\ can /\ Works /\ Goto("create:close")
          /\ \E f \in Descriptors : /\ OpenWriting(frame.path, f, TRUE)
                                    /\ frame' = [frame EXCEPT !.fd = f]
       \/ Fails(can) /\ UNCHANGED <<kernel, frame>> /\ Return("error")

CreateFile ==
    \/ AskName("create", "path", {}, "create:open")
    \/ CreateOpen
    \/ CloseLast("create:close")

(*************************** read_file_action ******************************)

ReadSome ==
    /\ pc = "read:loop"
    /\ CanRead(frame.fd)
    /\ LET rest == Unread(frame.fd) IN
       \/ /\ rest = <<>> /\ Goto("read:close")
          /\ frame' = [frame EXCEPT
                 !.result = IF frame.shown = <<>> THEN "notice" ELSE "success"]
          /\ UNCHANGED kernel
       \/ \E k \in 1 .. Len(rest) :
             /\ k <= IO_BUF_SIZE
             /\ SkipOver(frame.fd, k)
             /\ frame' = [frame EXCEPT !.shown = @ \o SubSeq(rest, 1, k)]
             /\ pc' \in {"read:loop", "read:abandon"}    \* fwrite falls short
             /\ UNCHANGED <<told, eof, others>>
    /\ IF pc' = "read:abandon" THEN Fault ELSE Works

\* Any error ends the loop, EINTR too.
ReadFails ==
    /\ pc = "read:loop"
    /\ Fails(CanRead(frame.fd))
    /\ \E e \in {"EIO", "EINTR"} : frame' = [frame EXCEPT !.errno = e]
    /\ Goto("read:abandon")
    /\ UNCHANGED kernel

ReadFile ==
    \/ AskName("read", "path", {}, "read:open")
    \/ OpenToRead("read:open", "fd", "read:loop", Return("error"))
    \/ ReadSome \/ ReadFails
    \/ Abandon("read:abandon")
    \/ CloseLast("read:close")

(*************************** write_file_action *****************************)

AskText ==
    /\ pc = "write:text"
    /\ \/ EndOfInput
       \/ /\ ~eof
          /\ \E t \in Texts : frame' = [frame EXCEPT !.buf = t]
          /\ Goto("write:open")
          /\ UNCHANGED <<kernel, faults>>

OpenToAppend(f) == OpenWriting(frame.path, f, FALSE)
WriteOpen ==
    /\ pc = "write:open"
    /\ LET can == CanOpenWriting(frame.path) /\ FreeFd IN
       \/ /\ can /\ Works /\ Goto("write:loop")
          /\ \E f \in Descriptors : /\ OpenToAppend(f)
                                    /\ frame' = [frame EXCEPT !.fd = f]
       \/ Fails(can) /\ UNCHANGED <<kernel, frame>> /\ Return("error")

\* What is left of a buffer after a write of k bytes: p += k, left -= k.
Advance(k) == SubSeq(frame.buf, k + 1, Len(frame.buf))

WriteSome ==
    /\ pc = "write:loop"
    /\ IF frame.buf = <<>> THEN Goto("write:newline") /\ UNCHANGED <<kernel, frame>>
       ELSE \E k \in 1 .. Len(frame.buf) :
               /\ Fits(frame.fd, k)
               /\ WriteTo(frame.fd, SubSeq(frame.buf, 1, k))
               /\ frame' = [frame EXCEPT !.buf = Advance(k)]
               /\ Goto("write:loop")
    /\ Works

\* write returns -1, or 0, which the code does not expect.
WriteFails ==
    /\ pc = "write:loop" /\ frame.buf # <<>>
    /\ Fails(Fits(frame.fd, 1))
    /\ Goto("write:abandon")
    /\ frame' = [frame EXCEPT !.errno = "EIO"]
    /\ UNCHANGED kernel

\* One write and no retry: here EINTR is an error.
WriteNewline ==
    /\ pc = "write:newline"
    /\ \/ /\ Fits(frame.fd, 1)
          /\ WriteTo(frame.fd, <<"newline">>)
          /\ Works /\ Goto("write:close")
          /\ UNCHANGED frame
       \/ /\ Fails(Fits(frame.fd, 1)) /\ UNCHANGED kernel /\ Goto("write:abandon")
          /\ \E e \in {"EIO", "EINTR"} : frame' = [frame EXCEPT !.errno = e]

WriteFile ==
    \/ AskName("write", "path", {}, "write:text")
    \/ AskText
    \/ WriteOpen
    \/ WriteSome \/ WriteFails
    \/ Interrupted("write:loop", "write:abandon") /\ frame.buf # <<>>
    \/ WriteNewline
    \/ Abandon("write:abandon")
    \/ CloseLast("write:close")

(*************************** op_lseek_demo *********************************)

\* parse_int and the sign are checked here, before lseek; the descriptor is
\* already open.
ValidOffsets == Offsets
AskOffset ==
    /\ pc = "lseek:ask"
    /\ \/ eof' = TRUE /\ pc' = "lseek:cancel" /\ UNCHANGED <<frame, told, others>>
       \/ ~eof /\ Goto("lseek:abandon") /\ UNCHANGED frame
       \/ /\ ~eof /\ Goto("lseek:seek")
          /\ \E o \in ValidOffsets : frame' = [frame EXCEPT !.n = o]
    /\ UNCHANGED <<kernel, faults>>

LseekCancel ==
    /\ pc = "lseek:cancel"
    /\ CloseFd(frame.fd)
    /\ frame' = [frame EXCEPT !.fd = NoFd]
    /\ Works /\ Return("notice")

LseekMove ==
    /\ pc = "lseek:seek"
    /\ \/ /\ CanSeek(frame.n) /\ MoveTo(frame.fd, frame.n)
          /\ Works /\ Goto("lseek:read")
       \/ Fails(CanSeek(frame.n)) /\ UNCHANGED kernel /\ Goto("lseek:abandon")
    /\ UNCHANGED frame

\* One read; EINTR and a directory end the operation.
LseekRead ==
    /\ pc = "lseek:read"
    /\ LET rest == Unread(frame.fd) IN
       \/ /\ CanRead(frame.fd) /\ rest = <<>>
          /\ frame' = [frame EXCEPT !.result = "notice"]
          /\ Works /\ UNCHANGED kernel /\ Goto("lseek:close")
       \/ /\ CanRead(frame.fd)
          /\ \E k \in 1 .. Len(rest) :
                /\ k <= LseekBytes
                /\ SkipOver(frame.fd, k)
                /\ frame' = [frame EXCEPT !.shown = SubSeq(rest, 1, k)]
          /\ Works /\ Goto("lseek:close")
       \/ /\ Fails(CanRead(frame.fd))
          /\ \E e \in {"EIO", "EINTR"} : frame' = [frame EXCEPT !.errno = e]
          /\ UNCHANGED kernel /\ Goto("lseek:abandon")

LseekDemo ==
    \/ AskName("lseek", "path", {}, "lseek:open")
    \/ OpenToRead("lseek:open", "fd", "lseek:ask", Return("error"))
    \/ AskOffset \/ LseekCancel
    \/ LseekMove
    \/ LseekRead
    \/ Abandon("lseek:abandon")
    \/ CloseLast("lseek:close")

(*************************** copy_file *************************************)

\* The source's size, as it was when fstat was called, is kept to be printed.
FstatSize == Len(content[fds[frame.fd].ino])
CopyFstat ==
    /\ pc = "copy:fstat"
    /\ \/ /\ CanRead(frame.fd) /\ Works /\ Goto("copy:create")
          /\ frame' = [frame EXCEPT !.n = FstatSize]
       \/ /\ Fails(CanRead(frame.fd)) /\ Goto("copy:abandon")
          /\ UNCHANGED frame
    /\ UNCHANGED kernel

CopyCreate ==
    /\ pc = "copy:create"
    /\ LET can == CanOpenWriting(frame.path2) /\ FreeFd IN
       \/ /\ can /\ Works /\ Goto("copy:read")
          /\ \E f \in Descriptors : /\ OpenWriting(frame.path2, f, TRUE)
                                    /\ frame' = [frame EXCEPT !.fd2 = f]
       \/ Fails(can) /\ UNCHANGED <<kernel, frame>> /\ Goto("copy:abandon")

CopyRead ==
    /\ pc = "copy:read"
    /\ LET rest == Unread(frame.fd) IN
       \/ rest = <<>> /\ Goto("copy:closesrc") /\ UNCHANGED <<kernel, frame>>
       \/ \E k \in 1 .. Len(rest) :
             /\ k <= IO_BUF_SIZE
             /\ SkipOver(frame.fd, k)
             /\ frame' = [frame EXCEPT !.buf = SubSeq(rest, 1, k)]
             /\ Goto("copy:write")
    /\ Works

CopyWrite ==
    /\ pc = "copy:write"
    /\ \E k \in 1 .. Len(frame.buf) :
          /\ Fits(frame.fd2, k)
          /\ WriteTo(frame.fd2, SubSeq(frame.buf, 1, k))
          /\ frame' = [frame EXCEPT !.buf = Advance(k)]
          /\ Goto(IF k = Len(frame.buf) THEN "copy:read" ELSE "copy:write")
    /\ Works

CopyFails ==
    /\ \/ pc = "copy:read" /\ Fault
       \/ pc = "copy:write" /\ Fails(Fits(frame.fd2, 1))
    /\ Goto("copy:cleanup")
    /\ frame' = [frame EXCEPT !.errno = "EIO"]
    /\ UNCHANGED kernel

\* copy_cleanup: both are closed, whatever close says of the first.
ClosedByCleanup == {frame.fd, frame.fd2}
CopyCleanup ==
    /\ pc = "copy:cleanup"
    /\ fds' = [f \in Descriptors |-> 
                 IF f \in ClosedByCleanup THEN Closed ELSE fds[f]]
    /\ frame' = [frame EXCEPT !.fd = NoFd, !.fd2 = NoFd]
    /\ Works /\ Return("error")
    /\ UNCHANGED <<disk, cwd>>

\* A close of the source that fails is a warning; of the destination, a failure.
CopyCloseSource ==
    /\ pc = "copy:closesrc"
    /\ CloseFd(frame.fd)
    /\ frame' = [frame EXCEPT !.fd = NoFd]
    /\ Works \/ Fault
    /\ Goto("copy:closedst")

CopyCloseDestination ==
    /\ pc = "copy:closedst"
    /\ CloseFd(frame.fd2)
    /\ \/ /\ Works /\ Return("success")
          /\ frame' = [frame EXCEPT !.fd2 = NoFd]
       \/ /\ Fault /\ Return("error")
          /\ frame' = [frame EXCEPT !.fd2 = NoFd, !.errno = "EIO"]

CopyFile ==
    \/ OpenToRead("copy:open", "fd", "copy:fstat", Return("error"))
    \/ CopyFstat \/ Abandon("copy:abandon")
    \/ CopyCreate
    \/ CopyRead \/ CopyWrite
    \/ Interrupted("copy:read", "copy:cleanup")
    \/ Interrupted("copy:write", "copy:cleanup")
    \/ CopyFails \/ CopyCleanup
    \/ CopyCloseSource \/ CopyCloseDestination

\* Two paths that are the same string are refused; the files are not compared.
AskTwoNames(first, second, next) ==
    \/ AskName(first, "path", {}, second)
    \/ AskName(second, "path2", {frame.path}, next)

CopyOp == AskTwoNames("copy", "copy:dst", "copy:open")

(*************************** op_rename_file ********************************)

RenameFile ==
    \/ AskTwoNames("rename", "rename:new", "rename:call")
    \/ CallAndReturn("rename:call", CanRename(frame.path, frame.path2),
                     Rename(frame.path, frame.path2))

FileOperation == \/ CreateFile \/ ReadFile \/ WriteFile \/ LseekDemo
                 \/ CopyOp \/ CopyFile \/ RenameFile
=============================================================================
