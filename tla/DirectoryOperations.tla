------------------------- MODULE DirectoryOperations -------------------------
(***************************************************************************)
(* LinuxFileSystemExplorer/src/directory_operations.c, navigation.c and     *)
(* metadata.c, one action per system call, in the form of FileOperations.   *)
(***************************************************************************)
EXTENDS ExplorerContext

(*************************** Slips *****************************************)
(* Plausible mistakes in the code below, each of which a run must notice.   *)
(***************************************************************************)
SkipWhatLstatRefuses(p, tag) ==
    IF tag = "?" THEN frame.shown ELSE Append(frame.shown, <<NameOf(p), tag>>)
CanRemove(p) == CanUnlink(p) /\ (Is(Lookup(p), "dir") => CanRmdir(p))
(***************************************************************************)

(*************************** metadata.c ************************************)

Tag(k) == CASE k = "file" -> "FILE"
            [] k = "dir" -> "DIRECTORY"
            [] k = "link" -> "SYMLINK"

\* lstat: of the link itself.
CanLstat(p) == Lookup(p) # Nothing

InfoLstat ==
    /\ pc = "info:lstat"
    /\ LET can == CanLstat(frame.path) IN
       \/ /\ can /\ Works
          /\ frame' = [frame EXCEPT !.shown = <<kind[Lookup(frame.path)]>>]
          /\ IF Is(Lookup(frame.path), "link") THEN Goto("info:readlink")
             ELSE Return("success")
       \/ Fails(can) /\ UNCHANGED frame /\ Return("error")
    /\ UNCHANGED kernel

\* The path is looked up again: it may be no link by now.  A link that cannot
\* be read is reported and the operation goes on to its success message.
InfoReadlink ==
    /\ pc = "info:readlink"
    /\ \/ /\ Is(Lookup(frame.path), "link") /\ Works
          /\ frame' = [frame EXCEPT !.shown = Append(@, LinkTo)]
       \/ Fails(Is(Lookup(frame.path), "link")) /\ UNCHANGED frame
    /\ Return("success")
    /\ UNCHANGED kernel

FileInfo ==
    \/ AskName("info", "path", {}, "info:lstat")
    \/ InfoLstat \/ InfoReadlink

(*************************** op_list_directory *****************************)

\* An empty line means the current directory, by its path.
ListAsk ==
    \/ /\ pc = "list"
       /\ \/ EndOfInput
          \/ /\ ~eof
             /\ \/ Goto("list:getcwd") /\ UNCHANGED frame
                \/ /\ Goto("list:open")
                   /\ \E p \in Paths : frame' = [frame EXCEPT !.path = p]
             /\ UNCHANGED <<kernel, faults>>
    \/ /\ pc = "list:getcwd"
       /\ \/ /\ CanGetcwd /\ Works /\ Goto("list:open")
             /\ frame' = [frame EXCEPT !.path = CwdPath]
          \/ Fails(CanGetcwd) /\ UNCHANGED frame /\ Return("error")
       /\ UNCHANGED kernel

\* errno is set to 0 here, and not before each readdir.
ListOpen ==
    /\ pc = "list:open"
    /\ LET can == CanOpendir(frame.path) /\ FreeFd IN
       \/ /\ can /\ Works /\ Goto("list:read")
          /\ \E f \in Descriptors :
                /\ Opendir(frame.path, f)
                /\ frame' = [frame EXCEPT !.fd = f, !.errno = "0"]
       \/ Fails(can) /\ UNCHANGED <<kernel, frame>> /\ Return("error")

\* The path of an entry may not fit the buffer; the entry is skipped then.
TooLong(p) == Len(p.names) > MaxPath

ListRead ==
    /\ pc = "list:read"
    /\ \/ \E n \in Names :
             /\ Readdir(frame.fd, n) /\ Works
             /\ frame' = [frame EXCEPT !.path2 = Within(frame.path, n)]
             /\ Goto(IF TooLong(frame'.path2) THEN "list:read" ELSE "list:lstat")
       \/ /\ fds[frame.fd].due = {} /\ Works
          /\ UNCHANGED <<kernel, frame>>
          /\ Goto(IF frame.errno = "0" THEN "list:close" ELSE "list:abandon")
       \/ /\ Fault
          /\ frame' = [frame EXCEPT !.errno = "EIO"]
          /\ UNCHANGED kernel /\ Goto("list:abandon")

\* lstat_and_type: an entry it fails on is shown as "?".
Row(p, tag) == Append(frame.shown, <<NameOf(p), tag>>)
ListLstat ==
    /\ pc = "list:lstat"
    /\ LET p == frame.path2 IN
       \/ /\ CanLstat(p) /\ Works
          /\ frame' = [frame EXCEPT !.shown = Row(p, Tag(kind[Lookup(p)]))]
       \/ /\ Fails(CanLstat(p))
          /\ frame' = [frame EXCEPT !.shown = Row(p, "?"), !.errno = "ENOENT"]
    /\ Goto("list:read")
    /\ UNCHANGED kernel

ListDirectory ==
    \/ ListAsk \/ ListOpen
    \/ ListRead \/ ListLstat
    \/ Abandon("list:abandon")
    \/ CloseLast("list:close")

(*************************** mkdir, rmdir **********************************)

CreateDirectory ==
    \/ AskName("mkdir", "path", {}, "mkdir:call")
    \/ CallAndReturn("mkdir:call", CanMkdir(frame.path), Mkdir(frame.path))

RefusedNames == {Absolute(<<>>), Relative(<<".">>), Relative(<<"..">>)}
RmdirWorks(p) == CanRmdir(p)
RemoveDirectory ==
    \/ AskName("rmdir", "path", RefusedNames, "rmdir:call")
    \/ CallAndReturn("rmdir:call", RmdirWorks(frame.path), Unlink(frame.path))

(*************************** navigation.c **********************************)

ShowGetcwd(here) ==
    /\ pc = here
    /\ \/ /\ CanGetcwd /\ Works /\ Return("success")
          /\ frame' = [frame EXCEPT !.shown = CwdPath.names]
       \/ Fails(CanGetcwd) /\ Return("error") /\ UNCHANGED frame
    /\ UNCHANGED kernel

ShowCwd == ShowGetcwd("cwd")

ChangeDir ==
    \/ AskName("chdir", "path", {}, "chdir:call")
    \/ /\ pc = "chdir:call"
       /\ \/ CanChdir(frame.path) /\ Chdir(frame.path) /\ Works /\ Goto("chdir:getcwd")
          \/ Fails(CanChdir(frame.path)) /\ UNCHANGED kernel /\ Return("error")
       /\ UNCHANGED frame
    \/ ShowGetcwd("chdir:getcwd")

DirectoryOperation == \/ ListDirectory \/ CreateDirectory \/ RemoveDirectory
                      \/ ShowCwd \/ ChangeDir \/ FileInfo
=============================================================================
