----------------------------- MODULE NamesProofs ----------------------------
(***************************************************************************)
(* Theorems about the names on the disk: a listing shows every entry that   *)
(* stays, once, and no operation takes away a file it was not asked for.    *)
(***************************************************************************)
EXTENDS ExplorerProofs, FiniteSetTheorems

USE DEF IsOpen, Closed, Opened, kernel, disk, process, NoFd

(*************************** Looking up a path *****************************)

Path == [abs : BOOLEAN, names : Seq(Names \cup {".", ".."})]

\* g says where the first k names of p lead, for each k up to n.
Along(p, n, g) ==
    g = [k \in 0 .. n |-> IF k = 0 THEN Start(p) ELSE Walk(g[k - 1], p.names[k])]

LEMMA AlongStep ==
    ASSUME NEW p, NEW n \in Nat, NEW g, Along(p, n, g)
    PROVE  /\ g[0] = Start(p)
           /\ \A k \in 1 .. n : g[k] = Walk(g[k - 1], p.names[k])
  <1>1. \A k \in 0 .. n : g[k] = IF k = 0 THEN Start(p) ELSE Walk(g[k - 1], p.names[k])
    BY DEF Along
  <1>2. g[0] = Start(p)
    BY <1>1
  <1>3. ASSUME NEW k \in 1 .. n PROVE g[k] = Walk(g[k - 1], p.names[k])
    <2>1. k \in 0 .. n /\ k # 0
      OBVIOUS
    <2>2. g[k] = IF k = 0 THEN Start(p) ELSE Walk(g[k - 1], p.names[k])
      BY <1>1, <2>1, Zenon
    <2> QED
      BY <2>1, <2>2, Zenon
  <1> QED
    BY <1>2, <1>3, Zenon

LEMMA AlongExists ==
    ASSUME NEW p, NEW n \in Nat
    PROVE  \E g : Along(p, n, g)
  <1> DEFINE S == {m \in 0 .. n : ~\E g : Along(p, m, g)}
  <1>1. CASE S = {}
    BY <1>1
  <1>2. CASE S # {}
    <2>1. PICK x \in S : \A y \in S : x <= y
      <3>1. S \in SUBSET Nat
        OBVIOUS
      <3> QED
        BY <1>2, <3>1, LeastInode
    <2>2. CASE x = 0
      <3> DEFINE g == [k \in 0 .. 0 |-> Start(p)]
      <3>1. Along(p, 0, g)
        BY DEF Along
      <3> QED
        BY <2>1, <2>2, <3>1
    <2>3. CASE x # 0
      <3>1. x - 1 \in 0 .. n /\ x - 1 \notin S
        BY <2>1, <2>3
      <3>2. PICK g : Along(p, x - 1, g)
        BY <3>1
      <3> DEFINE h == [k \in 0 .. x |-> IF k = 0 THEN Start(p)
                                        ELSE Walk(g[k - 1], p.names[k])]
      <3>3. \A k \in 0 .. x - 1 :
                g[k] = IF k = 0 THEN Start(p) ELSE Walk(g[k - 1], p.names[k])
        BY <3>2 DEF Along
      <3>4. \A k \in 0 .. x - 1 : h[k] = g[k]
        BY <3>3, <2>1
      <3>5. ASSUME NEW k \in 0 .. x, k # 0 PROVE h[k - 1] = g[k - 1]
        <4>1. k - 1 \in 0 .. x - 1
          BY <2>1, <3>5
        <4> HIDE DEF h
        <4> QED
          BY <3>4, <4>1
      <3>6. h = [k \in 0 .. x |-> IF k = 0 THEN Start(p) ELSE Walk(h[k - 1], p.names[k])]
        <4>1. ASSUME NEW k \in 0 .. x
              PROVE  (IF k = 0 THEN Start(p) ELSE Walk(g[k - 1], p.names[k]))
                         = (IF k = 0 THEN Start(p) ELSE Walk(h[k - 1], p.names[k]))
          <5>1. CASE k = 0
            BY <5>1
          <5>2. CASE k # 0
            <6>1. h[k - 1] = g[k - 1]
              BY <3>5, <5>2
            <6> HIDE DEF h
            <6> QED
              BY <5>2, <6>1
          <5> QED
            BY <5>1, <5>2
        <4> QED
          BY <4>1, Zenon
      <3>7. Along(p, x, h)
        BY <3>6 DEF Along
      <3> QED
        BY <2>1, <3>7
    <2> QED
      BY <2>2, <2>3
  <1> QED
    BY <1>1, <1>2

\* Two paths with the same beginning lead along the same way.
LEMMA AlongSame ==
    ASSUME NEW p, NEW q, NEW n \in Nat, NEW m \in Nat, n <= m, NEW g, NEW h,
           Along(p, n, g), Along(q, m, h), Start(p) = Start(q),
           \A k \in 1 .. n : p.names[k] = q.names[k]
    PROVE  \A k \in 0 .. n : g[k] = h[k]
  <1> SUFFICES ASSUME NEW z \in 0 .. n, g[z] # h[z] PROVE FALSE
    OBVIOUS
  <1> DEFINE S == {k \in 0 .. n : g[k] # h[k]}
  <1>1. PICK x \in S : \A y \in S : x <= y
    <2>1. S # {} /\ S \in SUBSET Nat
      OBVIOUS
    <2> QED
      BY <2>1, LeastInode
  <1>2. x # 0
    BY <1>1, AlongStep
  <1>3. x \in 1 .. n /\ x \in 1 .. m /\ g[x] # h[x]
    BY <1>1, <1>2
  <1>4. x - 1 \in 0 .. n /\ x - 1 \notin S
    BY <1>1, <1>3
  <1>5. g[x - 1] = h[x - 1]
    BY <1>4
  <1>6. g[x] = Walk(g[x - 1], p.names[x]) /\ h[x] = Walk(h[x - 1], q.names[x])
    BY <1>3, AlongStep
  <1> QED
    BY <1>3, <1>5, <1>6

LEMMA LookupAlong ==
    ASSUME NEW p, Len(p.names) \in Nat
    PROVE  \E g : Along(p, Len(p.names), g) /\ Lookup(p) = g[Len(p.names)]
  <1> DEFINE g == CHOOSE g : Along(p, Len(p.names), g)
  <1>1. Along(p, Len(p.names), g)
    BY AlongExists
  <1>2. Lookup(p) = g[Len(p.names)]
    BY DEF Lookup, Along
  <1> QED
    BY <1>1, <1>2

\* The last name of a path is looked up where the names before it lead.
LEMMA LookupLast ==
    ASSUME NEW p \in Path, p.names # <<>>
    PROVE  Lookup(p) = Walk(Lookup([p EXCEPT !.names = Front(@)]), Last(p.names))
  <1> DEFINE n == Len(p.names)
             q == [p EXCEPT !.names = Front(@)]
  <1>1. n \in Nat \ {0} /\ Front(p.names) \in Seq(Names \cup {".", ".."})
        /\ Len(Front(p.names)) = n - 1
        /\ \A k \in 1 .. n - 1 : Front(p.names)[k] = p.names[k]
    <2>1. p.names \in Seq(Names \cup {".", ".."}) /\ n \in Nat /\ n # 0
      BY DEF Path
    <2>2. \A k \in 1 .. n - 1 : p.names[k] \in Names \cup {".", ".."}
      BY <2>1
    <2>3. CASE n = 1
      BY <2>1, <2>3, SubSeqEmpty DEF Front
    <2>4. CASE n > 1
      BY <2>1, <2>2, <2>4, SubSeqProperties DEF Front
    <2> HIDE DEF n
    <2>5. n = 1 \/ n > 1
      BY <2>1
    <2> QED
      BY <2>1, <2>3, <2>4, <2>5
  <1>2. q.names = Front(p.names) /\ q.abs = p.abs
    BY DEF Path
  <1>3. PICK g : Along(p, n, g) /\ Lookup(p) = g[n]
    BY <1>1, LookupAlong
  <1>4. PICK h : Along(q, n - 1, h) /\ Lookup(q) = h[n - 1]
    <2>1. Len(q.names) = n - 1 /\ n - 1 \in Nat
      BY <1>1, <1>2
    <2> HIDE DEF q, n
    <2> QED
      BY <2>1, LookupAlong
  <1>5. h[n - 1] = g[n - 1]
    <2>1. Start(q) = Start(p)
      BY <1>2 DEF Start
    <2>2. n - 1 \in Nat /\ n - 1 <= n /\ n - 1 \in 0 .. n - 1
      BY <1>1
    <2> HIDE DEF n, q
    <2> QED
      BY <1>1, <1>2, <1>3, <1>4, <2>1, <2>2, AlongSame
  <1>6. g[n] = Walk(g[n - 1], p.names[n])
    <2>1. n \in Nat /\ n \in 1 .. n
      BY <1>1
    <2> HIDE DEF n
    <2> QED
      BY <1>3, <2>1, AlongStep, Zenon
  <1> QED
    BY <1>3, <1>4, <1>5, <1>6 DEF Last

LEMMA WalkType ==
    ASSUME KernelType, NEW i \in Inodes \cup {Nothing}, NEW c \in Names \cup {".", ".."}
    PROVE  Walk(i, c) \in Inodes \cup {Nothing}
  <1>1. Root \in Inodes /\ LinkTo \in Names
    BY KernelAssumption DEF Root, Inodes
  <1>2. Follow(i) \in Inodes \cup {Nothing}
    <2>1. entry[Root][LinkTo] \in Inodes \cup {Nothing}
      BY <1>1 DEF KernelType, DiskType
    <2> HIDE DEF Is
    <2> QED
      BY <2>1 DEF Follow
  <1> HIDE DEF Follow
  <1>3. CASE Is(Follow(i), "dir")
    <2>1. Follow(i) \in Inodes
      BY <1>3 DEF Is
    <2> QED
      BY <1>3, <2>1 DEF Walk, KernelType, DiskType
  <1>4. CASE ~Is(Follow(i), "dir")
    <2>1. Walk(i, c) = Nothing
      BY <1>4 DEF Walk
    <2> QED
      BY <2>1
  <1> QED
    BY <1>3, <1>4

\* A path leads to an inode or nowhere.
LEMMA LookupType ==
    ASSUME KernelType, NEW p \in Path
    PROVE  Lookup(p) \in Inodes \cup {Nothing}
  <1> DEFINE n == Len(p.names)
  <1>1. n \in Nat /\ \A k \in 1 .. n : p.names[k] \in Names \cup {".", ".."}
    BY DEF Path
  <1>2. PICK g : Along(p, n, g) /\ Lookup(p) = g[n]
    BY <1>1, LookupAlong
  <1>3. \A k \in 0 .. n : g[k] \in Inodes \cup {Nothing}
    <2> SUFFICES ASSUME NEW z \in 0 .. n, g[z] \notin Inodes \cup {Nothing} PROVE FALSE
      OBVIOUS
    <2> DEFINE S == {k \in 0 .. n : g[k] \notin Inodes \cup {Nothing}}
    <2>1. PICK x \in S : \A y \in S : x <= y
      <3>1. S # {} /\ S \in SUBSET Nat
        BY <1>1
      <3> QED
        BY <3>1, LeastInode
    <2>2. Start(p) \in Inodes
      BY KernelAssumption DEF Start, Root, Inodes, KernelType, DiskType
    <2>3. x # 0
      BY <1>1, <1>2, <2>1, <2>2, AlongStep
    <2>4. x \in 1 .. n /\ x - 1 \in 0 .. n /\ x - 1 \notin S
      BY <1>1, <2>1, <2>3
    <2>5. g[x - 1] \in Inodes \cup {Nothing} /\ p.names[x] \in Names \cup {".", ".."}
      BY <1>1, <2>4
    <2>6. g[x] = Walk(g[x - 1], p.names[x])
      <3>1. n \in Nat /\ x \in 1 .. n /\ Along(p, n, g)
        BY <1>1, <1>2, <2>4
      <3> HIDE DEF n, S
      <3> QED
        BY <3>1, AlongStep, Zenon
    <2> QED
      BY <2>1, <2>5, <2>6, WalkType
  <1> QED
    BY <1>1, <1>2, <1>3

(*************************** The paths an operation holds ******************)

PathInv == /\ {"path", "path2", "shown"} \subseteq DOMAIN frame
           /\ frame.path \in Path /\ frame.path2 \in Path

ListPoints == {"list", "list:getcwd", "list:open", "list:read", "list:lstat",
               "list:close", "list:abandon"}

\* What the operations other than the listing do to it.
NotListing == PathInv' /\ pc' \notin ListPoints

LEMMA CwdPathType == CanGetcwd => CwdPath \in Path
  <1> SUFFICES ASSUME CanGetcwd PROVE CwdPath \in Path
    OBVIOUS
  <1>1. CwdPath \in CwdPaths
    BY DEF CanGetcwd, CwdPath
  <1>2. PICK s \in BoundedSeq(Names, MaxPath) : CwdPath = Absolute(s)
    BY <1>1 DEF CwdPaths
  <1>3. s \in Seq(Names \cup {".", ".."})
    BY <1>2, KernelAssumption DEF BoundedSeq, SeqOf
  <1> QED
    BY <1>2, <1>3 DEF Absolute, Path

LEMMA WithinType ==
    ASSUME NEW p \in Path, NEW n \in Names
    PROVE  Within(p, n) \in Path /\ NameOf(Within(p, n)) = n
  <1>1. Append(p.names, n) \in Seq(Names \cup {".", ".."})
        /\ Append(p.names, n)[Len(Append(p.names, n))] = n
    BY DEF Path
  <1>2. Within(p, n) = [abs |-> p.abs, names |-> Append(p.names, n)]
    BY DEF Within, Path
  <1> QED
    BY <1>1, <1>2 DEF Path, NameOf, Last

LEMMA PromptPaths ==
    ASSUME PathInv, NEW here, NEW field \in {"path", "path2"}, NEW refused, NEW next,
           AskName(here, field, refused, next)
    PROVE  PathInv' /\ pc' \in {next, "return"}
  BY ExplorerAssumption DEF AskName, EndOfInput, Return, Goto, PathInv, Path

LEMMA CreatePaths == PathInv /\ CreateFile => NotListing
  <1> SUFFICES ASSUME PathInv, CreateFile PROVE NotListing
    OBVIOUS
  <1>1. CASE AskName("create", "path", {}, "create:open")
    BY <1>1, PromptPaths DEF NotListing, ListPoints
  <1>2. CASE CreateOpen \/ CloseLast("create:close")
    BY <1>2 DEF CreateOpen, CloseLast, Goto, Return, PathInv, NotListing, ListPoints
  <1> QED
    BY <1>1, <1>2 DEF CreateFile

LEMMA ReadPaths == PathInv /\ ReadFile => NotListing
  <1> SUFFICES ASSUME PathInv, ReadFile PROVE NotListing
    OBVIOUS
  <1>1. CASE AskName("read", "path", {}, "read:open")
    BY <1>1, PromptPaths DEF NotListing, ListPoints
  <1>2. CASE \/ OpenToRead("read:open", "fd", "read:loop", Return("error"))
             \/ Abandon("read:abandon") \/ CloseLast("read:close")
    BY <1>2 DEF OpenToRead, Abandon, CloseLast, Goto, Return, PathInv, NotListing,
                ListPoints
  <1>3. CASE ReadSome \/ ReadFails
    BY <1>3 DEF ReadSome, ReadFails, Goto, PathInv, NotListing, ListPoints
  <1> QED
    BY <1>1, <1>2, <1>3 DEF ReadFile

LEMMA WritePaths == PathInv /\ WriteFile => NotListing
  <1> SUFFICES ASSUME PathInv, WriteFile PROVE NotListing
    OBVIOUS
  <1>1. CASE AskName("write", "path", {}, "write:text")
    BY <1>1, PromptPaths DEF NotListing, ListPoints
  <1>2. CASE AskText \/ WriteOpen \/ Abandon("write:abandon") \/ CloseLast("write:close")
    BY <1>2 DEF AskText, EndOfInput, WriteOpen, Abandon, CloseLast, Goto, Return, PathInv,
                NotListing, ListPoints
  <1>3. CASE WriteSome \/ WriteFails \/ Interrupted("write:loop", "write:abandon")
             \/ WriteNewline
    BY <1>3 DEF WriteSome, WriteFails, Interrupted, Retry, WriteNewline, Goto, PathInv,
                NotListing, ListPoints
  <1> QED
    BY <1>1, <1>2, <1>3 DEF WriteFile

LEMMA LseekPaths == PathInv /\ LseekDemo => NotListing
  <1> SUFFICES ASSUME PathInv, LseekDemo PROVE NotListing
    OBVIOUS
  <1>1. CASE AskName("lseek", "path", {}, "lseek:open")
    BY <1>1, PromptPaths DEF NotListing, ListPoints
  <1>2. CASE \/ OpenToRead("lseek:open", "fd", "lseek:ask", Return("error"))
             \/ Abandon("lseek:abandon") \/ CloseLast("lseek:close")
    BY <1>2 DEF OpenToRead, Abandon, CloseLast, Goto, Return, PathInv, NotListing,
                ListPoints
  <1>3. CASE AskOffset \/ LseekCancel \/ LseekMove \/ LseekRead
    BY <1>3 DEF AskOffset, LseekCancel, LseekMove, LseekRead, Goto, Return, PathInv,
                NotListing, ListPoints
  <1> QED
    BY <1>1, <1>2, <1>3 DEF LseekDemo

LEMMA CopyPaths == PathInv /\ (CopyOp \/ CopyFile) => NotListing
  <1> SUFFICES ASSUME PathInv, CopyOp \/ CopyFile PROVE NotListing
    OBVIOUS
  <1>1. CASE CopyOp
    BY <1>1, PromptPaths DEF CopyOp, AskTwoNames, NotListing, ListPoints
  <1>2. CASE \/ OpenToRead("copy:open", "fd", "copy:fstat", Return("error"))
             \/ CopyFstat \/ Abandon("copy:abandon") \/ CopyCreate
    BY <1>2 DEF OpenToRead, CopyFstat, Abandon, CopyCreate, Goto, Return, PathInv,
                NotListing, ListPoints
  <1>3. CASE CopyRead \/ CopyWrite \/ CopyFails \/ Interrupted("copy:read", "copy:cleanup")
             \/ Interrupted("copy:write", "copy:cleanup")
    BY <1>3 DEF CopyRead, CopyWrite, CopyFails, Interrupted, Retry, Goto, PathInv,
                NotListing, ListPoints
  <1>4. CASE CopyCleanup \/ CopyCloseSource \/ CopyCloseDestination
    BY <1>4 DEF CopyCleanup, CopyCloseSource, CopyCloseDestination, Goto, Return, PathInv,
                NotListing, ListPoints
  <1> QED
    BY <1>1, <1>2, <1>3, <1>4 DEF CopyFile

LEMMA RenamePaths == PathInv /\ RenameFile => NotListing
  <1> SUFFICES ASSUME PathInv, RenameFile PROVE NotListing
    OBVIOUS
  <1>1. CASE AskTwoNames("rename", "rename:new", "rename:call")
    BY <1>1, PromptPaths DEF AskTwoNames, NotListing, ListPoints
  <1>2. CASE CallAndReturn("rename:call", CanRename(frame.path, frame.path2),
                           Rename(frame.path, frame.path2))
    BY <1>2 DEF CallAndReturn, Return, PathInv, NotListing, ListPoints
  <1> QED
    BY <1>1, <1>2 DEF RenameFile

LEMMA DirectoryPaths ==
    PathInv /\ (CreateDirectory \/ RemoveDirectory \/ ShowCwd \/ ChangeDir \/ FileInfo)
        => NotListing
  <1> SUFFICES ASSUME PathInv,
                      CreateDirectory \/ RemoveDirectory \/ ShowCwd \/ ChangeDir \/ FileInfo
               PROVE  NotListing
    OBVIOUS
  <1>1. CASE \/ AskName("mkdir", "path", {}, "mkdir:call")
             \/ AskName("rmdir", "path", RefusedNames, "rmdir:call")
             \/ AskName("chdir", "path", {}, "chdir:call")
             \/ AskName("info", "path", {}, "info:lstat")
    BY <1>1, PromptPaths DEF NotListing, ListPoints
  <1>2. CASE \/ CallAndReturn("mkdir:call", CanMkdir(frame.path), Mkdir(frame.path))
             \/ CallAndReturn("rmdir:call", RmdirWorks(frame.path), Unlink(frame.path))
    BY <1>2 DEF CallAndReturn, Return, PathInv, NotListing, ListPoints
  <1>3. CASE ShowGetcwd("cwd") \/ ShowGetcwd("chdir:getcwd")
    BY <1>3 DEF ShowGetcwd, Return, PathInv, NotListing, ListPoints
  <1>4. CASE InfoLstat \/ InfoReadlink
    BY <1>4 DEF InfoLstat, InfoReadlink, Goto, Return, PathInv, NotListing, ListPoints
  <1>5. CASE UNCHANGED frame /\ pc' \in {"chdir:getcwd", "return"}
    BY <1>5 DEF PathInv, NotListing, ListPoints
  <1> QED
    BY <1>1, <1>2, <1>3, <1>4, <1>5
       DEF CreateDirectory, RemoveDirectory, ShowCwd, ChangeDir, FileInfo, Goto, Return

LEMMA MainPaths ==
    ASSUME PathInv, Main
    PROVE  PathInv' /\ (pc' \in ListPoints => pc' = "list" /\ frame'.shown = <<>>)
  <1>1. <<>> \in Seq(Names \cup {".", ".."})
    OBVIOUS
  <1>2. \/ \E x : frame' = [frame EXCEPT !.shown = x]
        \/ frame' = frame
        \/ frame' = Empty
        \/ frame' = [Empty EXCEPT !.op = pc']
    BY DEF Main, ShowMenu, Choose, BackToMenu, Exit, Goto
  <1>3. PathInv'
    <2>1. CASE frame' = Empty \/ frame' = [Empty EXCEPT !.op = pc']
      <3>1. /\ {"path", "path2", "shown"} \subseteq DOMAIN frame'
            /\ frame'.path = Relative(<<>>) /\ frame'.path2 = Relative(<<>>)
        BY <2>1 DEF Empty
      <3>2. Relative(<<>>) \in Path
        BY <1>1 DEF Relative, Path
      <3> QED
        BY <3>1, <3>2 DEF PathInv
    <2> QED
      BY <1>2, <2>1 DEF PathInv
  <1>4. pc' \in ListPoints => pc' = "list" /\ frame'.shown = <<>>
    BY ExplorerAssumption
       DEF Main, ShowMenu, Choose, AtEof, BackToMenu, Exit, Goto, Empty, ListPoints
  <1> QED
    BY <1>3, <1>4

(*************************** The listing ***********************************)

Stream == fds[frame.fd]
BeforeStream == {"list", "list:getcwd", "list:open"}
Tags == {"FILE", "DIRECTORY", "SYMLINK", "?"}
ShownAs(j) == frame.shown[j][1]
RowsDone == 1 .. Len(frame.shown)

\* What has been shown and what is still to come, while the directory is open.
\* A name that readdir has returned has a row, or a path that is too long, or
\* is the one whose type is asked for now.
RowsInv ==
    /\ frame.shown \in Seq(Names \X Tags)
    /\ \A j \in RowsDone : ShownAs(j) \in Stream.listed
    /\ \A j, k \in RowsDone : ShownAs(j) = ShownAs(k) => j = k
    /\ pc = "list:lstat" =>
           /\ NameOf(frame.path2) \in Stream.listed
           /\ \A j \in RowsDone : ShownAs(j) # NameOf(frame.path2)
    /\ \A n \in Stream.listed :
           \/ \E j \in RowsDone : ShownAs(j) = n
           \/ TooLong(Within(frame.path, n))
           \/ pc = "list:lstat" /\ NameOf(frame.path2) = n

\* An entry that has stayed is still to come or has been returned.
StaysInv ==
    /\ there \subseteq Stream.due \cup Stream.listed
    /\ pc \in {"list:close", "list:abandon"} /\ frame.errno # "EIO" => Stream.due = {}

ListInv == /\ pc \in BeforeStream => frame.shown = <<>>
           /\ Streaming => RowsInv /\ StaysInv

LEMMA ListAskKeeps ==
    ASSUME PathInv, ListInv, ListAsk
    PROVE  PathInv' /\ ListInv'
  <1>1. \/ UNCHANGED frame
        \/ \E p \in Path : frame' = [frame EXCEPT !.path = p]
    <2>1. Paths \subseteq Path
      BY ExplorerAssumption DEF Path
    <2> QED
      BY <2>1, CwdPathType DEF ListAsk, EndOfInput
  <1>2. pc \in BeforeStream /\ pc' \in {"list:getcwd", "list:open", "return"}
    BY DEF ListAsk, EndOfInput, Goto, Return, BeforeStream
  <1>3. PathInv' /\ frame'.shown = frame.shown
    BY <1>1 DEF PathInv
  <1> QED
    BY <1>2, <1>3 DEF ListInv, Streaming, BeforeStream

LEMMA ListOpenKeeps ==
    ASSUME DiskInv, PathInv, ListInv, ListOpen, ThereNext
    PROVE  PathInv' /\ ListInv'
  <1>1. CASE pc' = "return"
    BY <1>1 DEF ListOpen, PathInv, ListInv, Streaming, BeforeStream
  <1>2. CASE pc' # "return"
    <2>1. /\ pc = "list:open" /\ pc' = "list:read" /\ frame.shown = <<>>
          /\ \E f \in Descriptors : /\ Opendir(frame.path, f)
                                    /\ frame' = [frame EXCEPT !.fd = f, !.errno = "0"]
      BY <1>2 DEF ListOpen, Goto, Return, ListInv, BeforeStream
    <2>2. PICK f \in Descriptors : /\ Opendir(frame.path, f)
                                   /\ frame' = [frame EXCEPT !.fd = f, !.errno = "0"]
      BY <2>1
    <2>3. /\ frame'.fd = f /\ frame'.shown = <<>> /\ PathInv'
      BY <2>1, <2>2 DEF DiskInv, FrameType, PathInv
    <2>4. /\ Stream'.due = Present(Stream'.ino) /\ Stream'.listed = {}
          /\ UNCHANGED entry
      BY <2>2, <2>3 DEF Opendir, Stream, DiskInv, KernelType, FdsType
    <2>5. there' = Present(Stream'.ino)
      BY <2>1 DEF ThereNext, Streaming, Into, Stream
    <2>6. frame'.shown \in Seq(Names \X Tags) /\ RowsDone' = {}
      BY <2>3 DEF RowsDone
    <2>7. RowsInv' /\ StaysInv'
      BY <2>1, <2>4, <2>5, <2>6 DEF RowsInv, StaysInv
    <2> QED
      BY <2>1, <2>3, <2>7 DEF ListInv, BeforeStream
  <1> QED
    BY <1>1, <1>2

LEMMA ListReadKeeps ==
    ASSUME HeldInv, DiskInv, PathInv, ListInv, ListRead, ThereNext
    PROVE  PathInv' /\ ListInv'
  <1>1. /\ pc = "list:read" /\ pc' \in {"list:read", "list:lstat", "list:close", "list:abandon"}
        /\ RowsInv /\ StaysInv
    BY DEF ListRead, Goto, ListInv, Streaming
  <1>2. frame.fd \in Descriptors /\ Stream \in Descriptor
    BY <1>1, HeldIsOpen DEF HoldsOne, Stream, DiskInv, KernelType, FdsType
  <1>3. there' \subseteq there
    BY <1>1 DEF ThereNext, Streaming
  <1>4. CASE \E n \in Names :
                /\ Readdir(frame.fd, n) /\ Works
                /\ frame' = [frame EXCEPT !.path2 = Within(frame.path, n)]
                /\ Goto(IF TooLong(frame'.path2) THEN "list:read" ELSE "list:lstat")
    <2>1. PICK n \in Names :
              /\ Readdir(frame.fd, n)
              /\ frame' = [frame EXCEPT !.path2 = Within(frame.path, n)]
              /\ pc' = IF TooLong(frame'.path2) THEN "list:read" ELSE "list:lstat"
      BY <1>4 DEF Goto
    <2>2. Within(frame.path, n) \in Path /\ NameOf(Within(frame.path, n)) = n
      BY WithinType DEF PathInv
    <2>3. /\ frame'.path2 = Within(frame.path, n)
          /\ frame'.fd = frame.fd /\ frame'.shown = frame.shown /\ frame'.path = frame.path
      BY <2>1 DEF PathInv, DiskInv, FrameType
    <2>4. /\ Stream'.listed = Stream.listed \cup {n} /\ n \notin Stream.listed
          /\ Stream'.due = Stream.due \ {n}
      BY <1>2, <2>1, <2>3 DEF Readdir, Returnable, Stream, Descriptor, DiskInv, KernelType,
                              FdsType
    <2>5. RowsInv'
      <3>1. frame'.shown \in Seq(Names \X Tags) /\ RowsDone' = RowsDone
            /\ \A j \in RowsDone : ShownAs(j)' = ShownAs(j)
        BY <1>1, <2>3 DEF RowsInv, RowsDone, ShownAs
      <3>2. \A j \in RowsDone : ShownAs(j)' \in Stream.listed
        BY <1>1, <3>1 DEF RowsInv
      <3>3. \/ pc' = "list:lstat" /\ NameOf(frame'.path2) = n
            \/ pc' = "list:read" /\ TooLong(Within(frame'.path, n))
        BY <2>1, <2>2, <2>3
      <3>4. \A m \in Stream.listed :
                \/ \E j \in RowsDone' : ShownAs(j)' = m
                \/ TooLong(Within(frame'.path, m))
        BY <1>1, <2>3, <3>1 DEF RowsInv
      <3>5. \A m \in Stream'.listed :
                \/ \E j \in RowsDone' : ShownAs(j)' = m
                \/ TooLong(Within(frame'.path, m))
                \/ pc' = "list:lstat" /\ NameOf(frame'.path2) = m
        BY <2>4, <3>3, <3>4
      <3>6. \A j, k \in RowsDone' : ShownAs(j)' = ShownAs(k)' => j = k
        BY <1>1, <3>1 DEF RowsInv
      <3> QED
        BY <2>4, <3>1, <3>2, <3>3, <3>5, <3>6 DEF RowsInv
    <2>6. StaysInv'
      BY <1>1, <1>3, <2>1, <2>4 DEF StaysInv
    <2>7. PathInv'
      BY <2>1, <2>2 DEF PathInv
    <2> QED
      BY <1>1, <2>5, <2>6, <2>7 DEF ListInv, BeforeStream
  <1>5. CASE fds[frame.fd].due = {} /\ UNCHANGED <<kernel, frame>>
             /\ pc' \in {"list:close", "list:abandon"}
    BY <1>1, <1>3, <1>5 DEF RowsInv, StaysInv, Stream, RowsDone, ShownAs, PathInv, ListInv,
                            BeforeStream
  <1>6. CASE frame' = [frame EXCEPT !.errno = "EIO"] /\ UNCHANGED kernel
             /\ pc' = "list:abandon"
    <2>1. /\ frame'.errno = "EIO" /\ frame'.fd = frame.fd /\ frame'.shown = frame.shown
          /\ frame'.path = frame.path /\ frame'.path2 = frame.path2
      BY <1>6 DEF PathInv, DiskInv, FrameType
    <2>2. PathInv'
      BY <1>6 DEF PathInv
    <2> QED
      BY <1>1, <1>3, <1>6, <2>1, <2>2
         DEF RowsInv, StaysInv, Stream, RowsDone, ShownAs, ListInv, BeforeStream
  <1> QED
    BY <1>4, <1>5, <1>6 DEF ListRead, Goto

LEMMA ListLstatKeeps ==
    ASSUME HeldInv, DiskInv, PathInv, ListInv, ListLstat, ThereNext
    PROVE  PathInv' /\ ListInv'
  <1> DEFINE p == frame.path2
  <1>1. /\ pc = "list:lstat" /\ pc' = "list:read" /\ UNCHANGED kernel
        /\ RowsInv /\ StaysInv
    BY DEF ListLstat, Goto, ListInv, Streaming
  <1>2. there' \subseteq there
    BY <1>1 DEF ThereNext, Streaming
  <1>3. frame.fd \in Descriptors /\ Stream \in Descriptor
    BY <1>1, HeldIsOpen DEF HoldsOne, Stream, DiskInv, KernelType, FdsType
  <1>4. NameOf(p) \in Names
    BY <1>1, <1>3 DEF RowsInv, Descriptor
  <1>5. PICK tag \in Tags : frame'.shown = Append(frame.shown, <<NameOf(p), tag>>)
    <2>1. CASE CanLstat(p)
                /\ frame' = [frame EXCEPT !.shown = Row(p, Tag(kind[Lookup(p)]))]
      <3>1. Lookup(p) \in Inodes
        BY <2>1, LookupType DEF CanLstat, PathInv, DiskInv
      <3>2. Tag(kind[Lookup(p)]) \in Tags
        BY <3>1 DEF Tag, Tags, DiskInv, KernelType, DiskType
      <3> QED
        BY <2>1, <3>2 DEF Row, PathInv
    <2>2. CASE frame' = [frame EXCEPT !.shown = Row(p, "?"), !.errno = "ENOENT"]
      BY <2>2 DEF Row, Tags, PathInv
    <2> QED
      BY <2>1, <2>2 DEF ListLstat
  <1>6. /\ frame'.fd = frame.fd /\ frame'.path = frame.path /\ frame'.path2 = frame.path2
        /\ PathInv'
    BY DEF ListLstat, PathInv, DiskInv, FrameType
  <1>7. RowsInv'
    <2>1. /\ frame'.shown \in Seq(Names \X Tags)
          /\ Len(frame'.shown) = Len(frame.shown) + 1 /\ Len(frame.shown) \in Nat
          /\ \A j \in RowsDone : frame'.shown[j] = frame.shown[j]
          /\ frame'.shown[Len(frame.shown) + 1] = <<NameOf(p), tag>>
      <3>1. frame.shown \in Seq(Names \X Tags) /\ <<NameOf(p), tag>> \in Names \X Tags
        BY <1>1, <1>4 DEF RowsInv
      <3> QED
        BY <1>5, <3>1 DEF RowsDone
    <2>2. PICK last \in Nat : last = Len(frame.shown) + 1
      BY <2>1
    <2>3. RowsDone' = RowsDone \cup {last} /\ last \notin RowsDone
      BY <2>1, <2>2 DEF RowsDone
    <2>4. /\ \A j \in RowsDone : ShownAs(j)' = ShownAs(j)
          /\ ShownAs(last)' = NameOf(p)
      BY <2>1, <2>2 DEF ShownAs
    <2>5. Stream' = Stream
      BY <1>1, <1>6 DEF Stream
    <2>6. \A j \in RowsDone' : ShownAs(j)' \in Stream.listed
      BY <1>1, <2>3, <2>4 DEF RowsInv
    <2>7. \A j, k \in RowsDone' : ShownAs(j)' = ShownAs(k)' => j = k
      BY <1>1, <2>3, <2>4 DEF RowsInv
    <2>8. \A n \in Stream.listed : \/ \E j \in RowsDone' : ShownAs(j)' = n
                                   \/ TooLong(Within(frame'.path, n))
      BY <1>1, <1>6, <2>3, <2>4 DEF RowsInv
    <2> QED
      BY <1>1, <2>1, <2>5, <2>6, <2>7, <2>8 DEF RowsInv
  <1>8. StaysInv'
    BY <1>1, <1>2, <1>6 DEF StaysInv, Stream
  <1> QED
    BY <1>1, <1>6, <1>7, <1>8 DEF ListInv, BeforeStream

LEMMA ListingKeeps ==
    ASSUME HeldInv, DiskInv, PathInv, ListInv, ListDirectory, ThereNext
    PROVE  PathInv' /\ ListInv'
  <1>1. CASE Abandon("list:abandon") \/ CloseLast("list:close")
    BY <1>1 DEF Abandon, CloseLast, Return, PathInv, ListInv, BeforeStream, Streaming
  <1> QED
    BY <1>1, ListAskKeeps, ListOpenKeeps, ListReadKeeps, ListLstatKeeps DEF ListDirectory

\* Another process takes a name from the directory that is read only when it
\* takes the entry too.
LEMMA OthersKeepListing ==
    ASSUME HeldInv, DiskInv, PathInv, ListInv, OtherProcess, ThereNext
    PROVE  PathInv' /\ ListInv'
  <1>1. UNCHANGED process
    BY DEF OtherProcess, AnotherAppends, AnotherCreates, AnotherLinks, AnotherUnlinks,
           AnotherRemovesDirectory, Act
  <1>2. CASE ~Streaming
    BY <1>1, <1>2 DEF PathInv, ListInv, Streaming
  <1>3. CASE Streaming
    <2>1. frame.fd \in Descriptors /\ Stream \in Descriptor /\ Stream.ino \in Inodes
      BY <1>3, HeldIsOpen DEF Streaming, HoldsOne, Stream, DiskInv, KernelType, FdsType
    <2>2. there' = there \cap Present(Stream.ino)'
      BY <1>1, <1>3 DEF ThereNext, Streaming, Stream
    <2>3. /\ Stream'.listed = Stream.listed /\ Stream'.ino = Stream.ino
          /\ Stream'.due \subseteq Stream.due
          /\ \A n \in Stream.due \ Stream'.due : n \notin Present(Stream.ino)'
      <3>1. CASE UNCHANGED fds
        BY <1>1, <3>1 DEF Stream
      <3>2. ASSUME NEW n \in Names, Unlink(Absolute(<<n>>)) PROVE <2>3
        <4> DEFINE q == Absolute(<<n>>)
        <4>1. fds'[frame.fd] = IF fds[frame.fd].ino = DirOf(q)
                               THEN [fds[frame.fd] EXCEPT !.due = @ \ {NameOf(q)}]
                               ELSE fds[frame.fd]
          BY <2>1, <3>2 DEF Unlink
        <4>2. Stream.ino = DirOf(q) /\ NameOf(q) \in Names
                  => entry'[Stream.ino][NameOf(q)] = Nothing
          BY <2>1, <3>2 DEF Unlink, DiskInv, KernelType, DiskType
        <4> HIDE DEF q
        <4> QED
          BY <1>1, <2>1, <4>1, <4>2 DEF Stream, Descriptor, Present
      <3> QED
        BY <3>1, <3>2
           DEF OtherProcess, AnotherAppends, AnotherCreates, AnotherLinks, AnotherUnlinks,
               AnotherRemovesDirectory
    <2>4. RowsInv'
      BY <1>1, <1>3, <2>3 DEF ListInv, RowsInv, RowsDone, ShownAs
    <2>5. StaysInv'
      BY <1>1, <1>3, <2>2, <2>3 DEF ListInv, StaysInv
    <2> QED
      BY <1>1, <1>3, <2>4, <2>5 DEF PathInv, ListInv, BeforeStream, Streaming
  <1> QED
    BY <1>2, <1>3
LEMMA StepListing ==
    ASSUME HeldInv, DiskInv, PathInv, ListInv, [HNext]_allVars
    PROVE  PathInv' /\ ListInv'
  <1>1. CASE NotListing
    BY <1>1 DEF NotListing, ListPoints, ListInv, BeforeStream, Streaming
  <1>2. CASE FileOperation
    BY <1>1, <1>2, CreatePaths, ReadPaths, WritePaths, LseekPaths, CopyPaths, RenamePaths
       DEF FileOperation
  <1>3. CASE DirectoryOperation /\ ThereNext
    BY <1>1, <1>3, ListingKeeps, DirectoryPaths DEF DirectoryOperation
  <1>4. CASE Main
    BY <1>4, MainPaths DEF ListPoints, ListInv, BeforeStream, Streaming
  <1>5. CASE OtherProcess /\ ThereNext
    BY <1>5, OthersKeepListing
  <1>6. CASE UNCHANGED vars /\ there' \subseteq there
    BY <1>6 DEF vars, PathInv, ListInv, BeforeStream, Streaming, RowsInv, RowsDone, ShownAs,
                StaysInv, Stream
  <1>7. CASE UNCHANGED allVars
    BY <1>6, <1>7 DEF allVars, historyVars
  <1>8. CASE Ended /\ ThereNext
    <2>1. pc = "ended" /\ UNCHANGED vars
      BY <1>8 DEF Ended
    <2>2. PathInv'
      BY <2>1 DEF vars, PathInv
    <2> QED
      BY <2>1, <2>2 DEF vars, ListInv, BeforeStream, Streaming
  <1> QED
    BY <1>2, <1>3, <1>4, <1>5, <1>7, <1>8 DEF HNext, History, Next, Process

LEMMA InitListing == HInit => PathInv /\ ListInv
  <1>1. <<>> \in Seq(Names \cup {".", ".."})
    OBVIOUS
  <1> QED
    BY <1>1 DEF HInit, Init, Empty, Relative, Path, PathInv, ListInv, BeforeStream,
                Streaming

LEMMA ListingInductive == HSpec => [](HeldInv /\ DiskInv /\ PathInv /\ ListInv)
  <1>1. HInit => HeldInv /\ DiskInv /\ PathInv /\ ListInv
    BY InitHeld, InitTypes, InitListing DEF HInit
  <1>2. HeldInv /\ DiskInv /\ PathInv /\ ListInv /\ [HNext]_allVars
            => HeldInv' /\ DiskInv' /\ PathInv' /\ ListInv'
    <2>1. [HNext]_allVars => [Next]_vars
      BY DEF HNext, allVars
    <2> QED
      BY <2>1, StepHeld, StepTypes, StepListing
  <1> QED
    BY <1>1, <1>2, PTL DEF HSpec

\* A listing shows no entry twice and, when readdir has come to the end, has
\* shown every entry that was in the directory all along, but those whose path
\* is too long, whatever other processes create and remove meanwhile and
\* whatever lstat says of them (directory_operations.c:79).
THEOREM ListingIsComplete == HSpec => []ListsEachOnce
  <1>1. ListInv => ListsEachOnce
    <2> SUFFICES ASSUME ListInv, Streaming
                 PROVE  /\ \A n \in Names : Cardinality(Rows(n)) <= 1
                        /\ pc \in {"list:close", "list:abandon"} /\ frame.errno # "EIO" =>
                              \A n \in there :
                                  Rows(n) # {} \/ TooLong(Within(frame.path, n))
      BY DEF ListsEachOnce
    <2>1. RowsInv /\ StaysInv
      BY DEF ListInv
    <2>2. ASSUME NEW n \in Names PROVE Cardinality(Rows(n)) <= 1
      <3>1. \A j, k \in Rows(n) : j = k
        BY <2>1 DEF Rows, RowsInv, RowsDone, ShownAs
      <3>2. CASE Rows(n) = {}
        BY <3>2, FS_EmptySet
      <3>3. CASE Rows(n) # {}
        <4>1. PICK j : Rows(n) = {j}
          BY <3>1, <3>3
        <4>2. Cardinality({j}) = 1
          BY FS_Singleton, Zenon
        <4> QED
          BY <4>1, <4>2
      <3> QED
        BY <3>2, <3>3
    <2>3. ASSUME pc \in {"list:close", "list:abandon"}, frame.errno # "EIO", NEW n \in there
          PROVE  Rows(n) # {} \/ TooLong(Within(frame.path, n))
      <3>1. n \in Stream.listed /\ pc # "list:lstat"
        BY <2>1, <2>3 DEF StaysInv
      <3> QED
        BY <2>1, <3>1 DEF RowsInv, RowsDone, ShownAs, Rows
    <2> QED
      BY <2>2, <2>3
  <1> QED
    BY <1>1, ListingInductive, PTL
(*************************** Files that stay *******************************)

\* The call acts on the entry that the whole path leads to.
LEMMA PlaceOf ==
    ASSUME NEW p \in Path, HasPlace(p), Is(DirOf(p), "dir") \/ Lookup(p) # Nothing
    PROVE  /\ Is(DirOf(p), "dir") /\ DirOf(p) \in Inodes /\ NameOf(p) \in Names
           /\ Lookup(p) = entry[DirOf(p)][NameOf(p)]
  <1>1. Lookup(p) = Walk(Lookup([p EXCEPT !.names = Front(@)]), Last(p.names))
    BY LookupLast DEF HasPlace
  <1>2. NameOf(p) \in Names /\ NameOf(p) # "." /\ NameOf(p) # ".."
    BY KernelAssumption DEF HasPlace, NameOf
  <1>3. Lookup(p) = IF ~Is(DirOf(p), "dir") THEN Nothing ELSE entry[DirOf(p)][NameOf(p)]
    BY <1>1, <1>2, Zenon DEF Walk, DirOf, NameOf
  <1>4. Is(DirOf(p), "dir")
    BY <1>3
  <1> QED
    BY <1>2, <1>3, <1>4 DEF Is

LEMMA OpenKeepsFiles ==
    ASSUME KernelType, NEW p, NEW f, NEW truncate,
           CanOpenWriting(p), OpenWriting(p, f, truncate)
    PROVE  \A i \in Inodes : Alive(i) => Alive(i)'
  <1> DEFINE d == CreatePlace(p)[1]
             c == CreatePlace(p)[2]
  <1>1. CASE UNCHANGED entry
    BY <1>1 DEF Alive, LinksTo
  <1>2. CASE entry' # entry
    <2>1. entry[d][c] = Nothing
      BY <1>2 DEF CanOpenWriting, OpenWriting
    <2>2. \E j : entry' = [entry EXCEPT ![d][c] = j]
      BY <1>2 DEF OpenWriting
    <2> HIDE DEF d, c
    <2>3. ASSUME NEW e \in Inodes, NEW n \in Names, entry[e][n] # Nothing
          PROVE  entry'[e][n] = entry[e][n]
      BY <2>1, <2>2, <2>3 DEF KernelType, DiskType
    <2> QED
      BY <2>3, KernelAssumption DEF Alive, LinksTo, Inodes, Nothing
  <1> QED
    BY <1>1, <1>2

LEMMA MkdirKeepsFiles ==
    ASSUME KernelType, NEW p \in Path, CanMkdir(p), Mkdir(p)
    PROVE  \A i \in Inodes : Alive(i) => Alive(i)'
  <1> DEFINE d == DirOf(p)
             c == NameOf(p)
  <1>1. entry[d][c] = Nothing
    BY PlaceOf DEF CanMkdir, InLiveDir
  <1>2. entry' = [entry EXCEPT ![d][c] = NewInode]
    BY DEF Mkdir
  <1> HIDE DEF d, c
  <1>3. ASSUME NEW e \in Inodes, NEW n \in Names, entry[e][n] # Nothing
        PROVE  entry'[e][n] = entry[e][n]
    BY <1>1, <1>2, <1>3 DEF KernelType, DiskType
  <1> QED
    BY <1>3, KernelAssumption DEF Alive, LinksTo, Inodes, Nothing

LEMMA UnlinkLosesOne ==
    ASSUME KernelType, NEW p \in Path, CanUnlink(p), Unlink(p)
    PROVE  \A i \in Inodes : Alive(i) => Alive(i)' \/ i = Lookup(p)
  <1> DEFINE d == DirOf(p)
             c == NameOf(p)
  <1>1. entry[d][c] = Lookup(p)
    BY PlaceOf DEF CanUnlink, InLiveDir
  <1>2. entry' = [entry EXCEPT ![d][c] = Nothing]
    BY DEF Unlink
  <1> HIDE DEF d, c
  <1>3. ASSUME NEW e \in Inodes, NEW n \in Names, entry[e][n] # Lookup(p)
        PROVE  entry'[e][n] = entry[e][n]
    BY <1>1, <1>2, <1>3 DEF KernelType, DiskType
  <1> HIDE DEF Unlink
  <1> QED
    BY <1>3 DEF Alive, LinksTo

LEMMA RenameLosesOne ==
    ASSUME KernelType, NEW p \in Path, NEW q \in Path, CanRename(p, q), Rename(p, q)
    PROVE  \A i \in Inodes : Alive(i) => Alive(i)' \/ i = Lookup(q)
  <1>1. PICK x : x = Lookup(p)
    OBVIOUS
  <1> DEFINE d == DirOf(p)
             c == NameOf(p)
             dd == DirOf(q)
             cc == NameOf(q)
  <1>2. CASE UNCHANGED entry
    BY <1>2 DEF Alive, LinksTo
  <1>3. CASE entry' # entry
    <2>1. x \in Inodes /\ entry[d][c] = x
      <3>1. x \in Inodes /\ HasPlace(p)
        BY <1>1 DEF CanRename
      <3>2. x # Nothing
        BY <3>1, KernelAssumption DEF Inodes, Nothing
      <3> QED
        BY <1>1, <3>1, <3>2, PlaceOf
    <2>2. entry[dd][cc] = Lookup(q) /\ dd \in Inodes /\ cc \in Names
      BY PlaceOf DEF CanRename, InLiveDir
    <2>3. entry' = [entry EXCEPT ![d][c] = Nothing, ![dd][cc] = x]
      BY <1>3, <1>1 DEF Rename
    <2> HIDE DEF d, c, dd, cc
    <2>4. entry'[dd][cc] = x
      BY <2>2, <2>3 DEF KernelType, DiskType
    <2>5. ASSUME NEW e \in Inodes, NEW n \in Names, entry[e][n] # x, entry[e][n] # Lookup(q)
          PROVE  entry'[e][n] = entry[e][n]
      BY <2>1, <2>2, <2>3, <2>5 DEF KernelType, DiskType
    <2>6. Alive(x)'
      <3>1. PICK a \in Inodes, b \in Names : a = dd /\ b = cc
        BY <2>2
      <3>2. <<a, b>> \in LinksTo(x)'
        BY <2>4, <3>1 DEF LinksTo
      <3> QED
        BY <3>2 DEF Alive
    <2>7. ASSUME NEW i \in Inodes, i # x, i # Lookup(q), Alive(i) PROVE Alive(i)'
      BY <2>5, <2>7 DEF Alive, LinksTo
    <2> QED
      BY <2>6, <2>7
  <1> QED
    BY <1>2, <1>3
\* No file or directory is lost.
Keeps == \A i \in Inodes : Alive(i) => Alive(i)'

LEMMA OpensKeep ==
    ASSUME KernelType, CreateOpen \/ WriteOpen \/ CopyCreate
    PROVE  Keeps
  <1>1. CASE UNCHANGED kernel
    BY <1>1 DEF Keeps, Alive, LinksTo
  <1>2. CASE kernel' # kernel
    <2>1. \E p, f, truncate : CanOpenWriting(p) /\ OpenWriting(p, f, truncate)
      BY <1>2 DEF CreateOpen, WriteOpen, OpenToAppend, CopyCreate
    <2> QED
      BY <2>1, OpenKeepsFiles DEF Keeps
  <1> QED
    BY <1>1, <1>2

LEMMA FileKeeps ==
    ASSUME KernelType, CreateFile \/ ReadFile \/ WriteFile \/ LseekDemo \/ CopyOp \/ CopyFile
    PROVE  Keeps
  <1>1. CASE UNCHANGED entry
    BY <1>1 DEF Keeps, Alive, LinksTo
  <1>2. ASSUME NEW here, NEW field, NEW refused, NEW next, AskName(here, field, refused, next)
        PROVE  UNCHANGED entry
    BY <1>2 DEF AskName, EndOfInput
  <1>3. ASSUME NEW here, CloseLast(here) \/ Abandon(here) PROVE UNCHANGED entry
    BY <1>3 DEF CloseLast, Abandon, CloseFd
  <1>4. ASSUME NEW here, NEW field, NEW next,
               OpenToRead(here, field, next, Return("error"))
        PROVE  UNCHANGED entry
    BY <1>4 DEF OpenToRead, OpenReading
  <1>5. ASSUME NEW here, NEW next, Interrupted(here, next) PROVE UNCHANGED entry
    BY <1>5 DEF Interrupted
  <1>6. CASE ReadSome \/ ReadFails
    BY <1>1, <1>6 DEF ReadSome, ReadFails, SkipOver, MoveTo
  <1>7. CASE AskText \/ WriteSome \/ WriteFails \/ WriteNewline
    BY <1>1, <1>7 DEF AskText, EndOfInput, WriteSome, WriteTo, WriteFails, WriteNewline
  <1>8. CASE AskOffset \/ LseekCancel \/ LseekMove \/ LseekRead
    BY <1>1, <1>8 DEF AskOffset, LseekCancel, LseekMove, LseekRead, CloseFd, SkipOver, MoveTo
  <1>9. CASE \/ CopyFstat \/ CopyRead \/ CopyWrite \/ CopyFails \/ CopyCleanup
             \/ CopyCloseSource \/ CopyCloseDestination
    BY <1>1, <1>9 DEF CopyFstat, CopyRead, CopyWrite, CopyFails, CopyCleanup,
                      CopyCloseSource, CopyCloseDestination, CloseFd, SkipOver, MoveTo, WriteTo
  <1>10. CASE CreateFile
    BY <1>1, <1>2, <1>3, <1>10, OpensKeep DEF CreateFile
  <1>11. CASE ReadFile
    BY <1>1, <1>2, <1>3, <1>4, <1>6, <1>11 DEF ReadFile
  <1>12. CASE WriteFile
    BY <1>1, <1>2, <1>3, <1>5, <1>7, <1>12, OpensKeep DEF WriteFile
  <1>13. CASE LseekDemo
    BY <1>1, <1>2, <1>3, <1>4, <1>8, <1>13 DEF LseekDemo
  <1>14. CASE CopyOp \/ CopyFile
    BY <1>1, <1>2, <1>3, <1>4, <1>5, <1>9, <1>14, OpensKeep DEF CopyOp, AskTwoNames, CopyFile
  <1> QED
    BY <1>10, <1>11, <1>12, <1>13, <1>14
\* What a step may take away.
Losses ==
    others' = others => \A i \in Inodes \ {Root} : Alive(i) /\ ~Alive(i)' =>
        \/ pc = "rename:call" /\ i = Lookup(frame.path2)
        \/ /\ pc = "rmdir:call" /\ i = Lookup(frame.path)
           /\ Is(i, "dir") /\ Present(i) = {}

LEMMA DirectoryLosses ==
    ASSUME KernelType, PathInv, DirectoryOperation
    PROVE  Losses
  <1>1. CASE UNCHANGED entry
    BY <1>1 DEF Losses, Alive, LinksTo
  <1>2. ASSUME NEW here, NEW field, NEW refused, NEW next, AskName(here, field, refused, next)
        PROVE  UNCHANGED entry
    BY <1>2 DEF AskName, EndOfInput
  <1>3. CASE ListDirectory
    BY <1>1, <1>3 DEF ListDirectory, ListAsk, EndOfInput, ListOpen, Opendir, ListRead, Readdir,
                      ListLstat, Abandon, CloseLast, CloseFd
  <1>4. CASE CreateDirectory
    <2>1. CASE CanMkdir(frame.path) /\ Mkdir(frame.path)
      BY <2>1, MkdirKeepsFiles DEF PathInv, Losses
    <2> QED
      BY <1>1, <1>2, <1>4, <2>1 DEF CreateDirectory, CallAndReturn
  <1>5. CASE RemoveDirectory
    <2>1. CASE pc = "rmdir:call" /\ CanRmdir(frame.path) /\ Unlink(frame.path)
      <3>1. \A i \in Inodes : Alive(i) => Alive(i)' \/ i = Lookup(frame.path)
        BY <2>1, UnlinkLosesOne DEF PathInv, CanRmdir
      <3>2. Is(Lookup(frame.path), "dir") /\ Present(Lookup(frame.path)) = {}
        BY <2>1 DEF CanRmdir
      <3> QED
        BY <2>1, <3>1, <3>2 DEF Losses
    <2> QED
      BY <1>1, <1>2, <1>5, <2>1 DEF RemoveDirectory, CallAndReturn, RmdirWorks
  <1>6. CASE ShowCwd \/ ChangeDir
    BY <1>1, <1>2, <1>6 DEF ShowCwd, ShowGetcwd, ChangeDir, Chdir
  <1>7. CASE FileInfo
    BY <1>1, <1>2, <1>7 DEF FileInfo, InfoLstat, InfoReadlink
  <1> QED
    BY <1>3, <1>4, <1>5, <1>6, <1>7 DEF DirectoryOperation

LEMMA RenameLosses ==
    ASSUME KernelType, PathInv, RenameFile
    PROVE  Losses
  <1>1. CASE UNCHANGED entry
    BY <1>1 DEF Losses, Alive, LinksTo
  <1>2. CASE /\ pc = "rename:call" /\ CanRename(frame.path, frame.path2)
             /\ Rename(frame.path, frame.path2)
    BY <1>2, RenameLosesOne DEF PathInv, Losses
  <1>3. CASE AskTwoNames("rename", "rename:new", "rename:call")
    BY <1>1, <1>3 DEF AskTwoNames, AskName, EndOfInput
  <1> QED
    BY <1>1, <1>2, <1>3 DEF RenameFile, CallAndReturn

LEMMA StepLosses == DiskInv /\ PathInv /\ [Next]_vars => [Losses]_vars
  <1> SUFFICES ASSUME DiskInv, PathInv, Next PROVE Losses
    OBVIOUS
  <1>1. KernelType
    BY DEF DiskInv
  <1>2. CASE FileOperation
    BY <1>1, <1>2, FileKeeps, RenameLosses DEF FileOperation, Keeps, Losses
  <1>3. CASE DirectoryOperation
    BY <1>1, <1>3, DirectoryLosses
  <1>4. CASE Main \/ Ended
    <2>1. UNCHANGED entry
      BY <1>4 DEF Main, ShowMenu, Choose, BackToMenu, Exit, Ended, vars
    <2> QED
      BY <2>1 DEF Losses, Alive, LinksTo
  <1>5. CASE OtherProcess
    <2>1. others' = others + 1 /\ others \in Nat
      BY <1>5, ExplorerAssumption
         DEF DiskInv, Around, OtherProcess, AnotherAppends, AnotherCreates, AnotherLinks,
             AnotherUnlinks, AnotherRemovesDirectory, Act
    <2> QED
      BY <2>1 DEF Losses
  <1> QED
    BY <1>2, <1>3, <1>4, <1>5 DEF Next, Process

\* No operation takes the last name of a file or a directory but of what a rename
\* replaces and of the empty directory rmdir is asked for, though what paths stand for
\* may have changed since they were typed: creating, writing, copying and mkdir
\* put an entry only where there is none, and a rename adds the new name of what
\* it takes the old name from.
THEOREM NothingIsLost == HSpec => LosesNoFile
  <1>1. DiskInv /\ PathInv /\ [HNext]_allVars => [Losses]_vars
    <2>1. [HNext]_allVars => [Next]_vars
      BY DEF HNext, allVars
    <2> QED
      BY <2>1, StepLosses
  <1>2. [Losses]_vars
            => [others' = others => \A i \in Inodes \ {Root} : Alive(i) /\ ~Alive(i)' =>
                   \/ pc = "rename:call" /\ i = Lookup(frame.path2)
                   \/ pc = "rmdir:call" /\ i = Lookup(frame.path)
                      /\ Is(i, "dir") /\ Present(i) = {}]_vars
    BY DEF Losses
  <1>3. HSpec => [][HNext]_allVars
    BY PTL DEF HSpec
  <1> QED
    BY <1>1, <1>2, <1>3, ListingInductive, PTL DEF LosesNoFile
=============================================================================
