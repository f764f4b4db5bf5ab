--------------------------- MODULE ExplorerContext ---------------------------
(***************************************************************************)
(* What the operations of LinuxFileSystemExplorer share: the process's      *)
(* place in its code, the local variables of the operation that runs, the   *)
(* prompts of utils.c, and calls that fail.                                 *)
(***************************************************************************)
EXTENDS FileSystem

CONSTANTS Paths,        \* the paths the user may type
          Texts,        \* the lines the user may type as content
          Offsets,      \* the offsets the user may type, 0 or more
          IO_BUF_SIZE,  \* the most one read returns
          LseekBytes,   \* the 200 bytes the offset demonstration reads
          MaxFaults,    \* calls that fail though they could succeed
          OtherActs,    \* what other processes may do to the disk
          MaxOtherActs, \* and how often
          MenuChoices   \* the menu choices the user makes

VARIABLES pc,       \* the call the process makes next
          frame,    \* the locals of the operation that runs
          told,     \* the last message of the operation that runs
          eof,      \* whether standard input has ended
          faults,   \* calls that have failed for no reason of ours
          others    \* what other processes have done

process == <<pc, frame, told, eof>>
vars == <<kernel, process, faults, others>>

NoFd == "none"

ASSUME ExplorerAssumption ==
    /\ NoFd \notin Descriptors
    /\ Paths \subseteq [abs : BOOLEAN, names : Seq(Names \cup {".", ".."})]
    /\ Texts \subseteq Seq({"t"})
    /\ Offsets \subseteq Nat
    /\ IO_BUF_SIZE \in Nat \ {0} /\ LseekBytes \in Nat \ {0}
    /\ MaxFaults \in Nat /\ MaxOtherActs \in Nat
    /\ OtherActs \subseteq {"append", "create", "link", "unlink", "rmdir"}
    /\ MenuChoices \subseteq {"cwd", "list", "chdir", "create", "read", "write",
                          "mkdir", "rmdir", "info", "lseek", "copy", "rename"}

\* fd and fd2 are the descriptors (src_fd and dst_fd in a copy), buf the
\* bytes read or the text left to write, n the count the operation keeps,
\* shown what it has put on the screen, errno what the calls of its loop last
\* failed with ("EIO" for all that is no signal), and result the message that
\* waits for the last close.
Empty == [op |-> "none", path |-> Relative(<<>>), path2 |-> Relative(<<>>),
          fd |-> NoFd, fd2 |-> NoFd, buf |-> <<>>, n |-> 0,
          shown |-> <<>>, errno |-> "0", result |-> "success"]

Goto(l) == pc' = l /\ UNCHANGED <<told, eof, others>>
Return(message) ==
    /\ pc' = "return"
    /\ told' = message
    /\ UNCHANGED <<eof, others>>

FreeFd == \E f \in Descriptors : ~IsOpen(f)

\* A call that can succeed fails only by a fault, and a bounded number do.
Fault == faults < MaxFaults /\ faults' = faults + 1
Works == UNCHANGED faults
Fails(can) == IF can THEN Fault ELSE UNCHANGED faults

\* A slip: ask again at the end of input.
AskAgain == eof' = TRUE /\ UNCHANGED <<kernel, pc, frame, told, faults, others>>

\* prompt_line: the end of input cancels the operation.
EndOfInput ==
    /\ eof' = TRUE
    /\ pc' = "return" /\ told' = "notice"
    /\ UNCHANGED <<kernel, frame, faults, others>>

\* A prompt for a name; an empty one and the refused ones end the operation.
AskName(here, field, refused, next) ==
    /\ pc = here
    /\ \/ EndOfInput
       \/ /\ ~eof
          /\ Return("error")
          /\ UNCHANGED <<kernel, frame, faults>>
       \/ /\ ~eof
          /\ \E p \in Paths \ refused : frame' = [frame EXCEPT ![field] = p]
          /\ Goto(next)
          /\ UNCHANGED <<kernel, faults>>

\* A call on a path that changes the disk at once, or fails.
CallAndReturn(here, can, Effect) ==
    /\ pc = here
    /\ \/ can /\ Effect /\ Works /\ Return("success")
       \/ Fails(can) /\ UNCHANGED kernel /\ Return("error")
    /\ UNCHANGED frame

\* close always lets go of the descriptor, whatever it returns.
CloseLast(here) ==
    /\ pc = here
    /\ CloseFd(frame.fd)
    /\ frame' = [frame EXCEPT !.fd = NoFd]
    /\ \/ Works /\ Return(frame.result)
       \/ Fault /\ Return("warning")

\* After an error: close the descriptor and give up.
Abandon(here) ==
    /\ pc = here
    /\ CloseFd(frame.fd)
    /\ frame' = [frame EXCEPT !.fd = NoFd]
    /\ Works /\ Return("error")
=============================================================================
