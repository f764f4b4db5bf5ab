------------------------------ MODULE Explorer ------------------------------
(***************************************************************************)
(* The explorer: the menu loop of LinuxFileSystemExplorer/src/main.c, the   *)
(* operations it calls, and the other processes that use the same disk.     *)
(***************************************************************************)
EXTENDS FileOperations, DirectoryOperations

Init ==
    /\ FileSystemInit
    /\ pc = "menu" /\ frame = Empty /\ told = "none" /\ eof = FALSE
    /\ faults = 0 /\ others = 0

(*************************** main ******************************************)

\* The menu shows the current directory, or that there is none.
CurrentDirOrFallback == IF CanGetcwd THEN CwdPath.names ELSE <<"(unavailable)">>

ShowMenu ==
    /\ pc = "menu"
    /\ frame' = [frame EXCEPT !.shown = CurrentDirOrFallback]
    /\ Goto("choice")
    /\ UNCHANGED <<kernel, faults>>

\* A slip: show the menu again at the end of input.
ContinueAtEof == "menu"

\* read_line, then a number from 1 to 13: a wrong one shows the menu again.
AtEof == "exit"
Choose ==
    /\ pc = "choice"
    /\ \/ eof' = TRUE /\ pc' = AtEof /\ UNCHANGED <<told, others, frame>>
       \/ ~eof /\ Goto("menu") /\ frame' = Empty
       \/ ~eof /\ Goto("exit") /\ UNCHANGED frame
       \/ /\ ~eof
          /\ \E c \in MenuChoices : Goto(c) /\ frame' = [Empty EXCEPT !.op = c]
    /\ UNCHANGED <<kernel, faults>>

\* The operation returns to the loop, its locals gone.
BackToMenu ==
    /\ pc = "return"
    /\ pc' = "menu" /\ told' = "none" /\ frame' = Empty
    /\ UNCHANGED <<kernel, eof, faults, others>>

Exit ==
    /\ pc = "exit"
    /\ Goto("ended")
    /\ UNCHANGED <<kernel, frame, faults>>

Main == ShowMenu \/ Choose \/ BackToMenu \/ Exit

(*************************** Other processes *******************************)

Act(act) == /\ act \in OtherActs
            /\ others < MaxOtherActs /\ others' = others + 1
            /\ UNCHANGED <<process, faults>>

AnotherAppends ==
    /\ Act("append")
    /\ \E i \in Inodes : /\ Is(i, "file") /\ Alive(i)
                         /\ Len(content[i]) < MaxSize
                         /\ content' = [content EXCEPT ![i] = Append(@, "o")]
    /\ UNCHANGED <<entry, kind, up, cwd, fds>>

AnotherCreates ==
    /\ Act("create") /\ FreeInodes # {}
    /\ \E n \in Names, k \in {"file", "dir", "link"} :
          /\ entry[Root][n] = Nothing
          /\ entry' = [entry EXCEPT ![Root][n] = NewInode]
          /\ kind' = [kind EXCEPT ![NewInode] = k]
    /\ content' = [content EXCEPT ![NewInode] = <<>>]
    /\ up' = [up EXCEPT ![NewInode] = Root]
    /\ UNCHANGED <<cwd, fds>>

AnotherLinks ==
    /\ Act("link")
    /\ \E n, m \in Names :
          /\ entry[Root][n] = Nothing
          /\ Is(entry[Root][m], "file")
          /\ entry' = [entry EXCEPT ![Root][n] = entry[Root][m]]
    /\ UNCHANGED <<kind, content, up, cwd, fds>>

AnotherUnlinks ==
    /\ Act("unlink")
    /\ \E n \in Names : /\ entry[Root][n] # Nothing
                        /\ ~Is(entry[Root][n], "dir")
                        /\ Unlink(Absolute(<<n>>))

AnotherRemovesDirectory ==
    /\ Act("rmdir")
    /\ \E n \in Names : CanRmdir(Absolute(<<n>>)) /\ Unlink(Absolute(<<n>>))

OtherProcess == \/ AnotherAppends \/ AnotherCreates \/ AnotherLinks
                \/ AnotherUnlinks \/ AnotherRemovesDirectory

(***************************************************************************)

Process == Main \/ FileOperation \/ DirectoryOperation
Ended == pc = "ended" /\ UNCHANGED vars
Next == Process \/ OtherProcess \/ Ended

Spec == Init /\ [][Next]_vars

\* The process goes on while it is scheduled.  That takes a user who answers
\* each prompt, with a line or with the end of the input, and a call that is
\* not interrupted for ever: a signal after another changes nothing.
FairSpec == Spec /\ WF_vars(Process)
=============================================================================
