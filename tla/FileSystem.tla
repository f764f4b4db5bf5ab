----------------------------- MODULE FileSystem -----------------------------
(***************************************************************************)
(* The part of the kernel the explorer is built on: names, inodes and open  *)
(* descriptors, and what each system call of LinuxFileSystemExplorer/src    *)
(* may do to them.  The code only calls it, so all of it is external.       *)
(*                                                                         *)
(* A path is the sequence of its components, from the root or from the      *)
(* current directory.  Symbolic links all point at /LinkTo.  A descriptor   *)
(* and a directory stream are both an entry of fds: its inode, its offset,  *)
(* whether it appends, and for a stream the names it met at opendir (had),  *)
(* those of them that have stayed and are still to come (due), and those it *)
(* has returned (listed).                                                   *)
(***************************************************************************)
EXTENDS Integers, SequencesExt

CONSTANTS Names,          \* the names a directory may hold
          LinkTo,         \* symbolic links point at /LinkTo
          MaxInode,       \* the inodes are 0 .. MaxInode, 0 the root
          MaxSize,        \* a file that is longer does not fit on the disk
          MaxPath,        \* PATH_BUF_SIZE, in components
          Descriptors,    \* the descriptors the process may hold
          InitKinds,      \* the kinds of the inodes there are at the start
          InitContents,   \* the contents of the files there are at the start
          Aliases         \* whether one file may have two names at the start

ASSUME KernelAssumption ==
    /\ LinkTo \in Names /\ {".", ".."} \cap Names = {}
    /\ MaxInode \in Nat \ {0}
    /\ MaxSize \in Nat
    /\ MaxPath \in Nat
    /\ InitKinds \subseteq {"file", "dir", "link"}
    /\ InitContents \subseteq Seq({"x", "y"})
    /\ \A c \in InitContents : Len(c) <= MaxSize
    /\ Aliases \in BOOLEAN

VARIABLES entry, kind, content, up,    \* directories, inodes
          cwd, fds                     \* this process

disk == <<entry, kind, content, up>>
kernel == <<disk, cwd, fds>>

Root == 0
Inodes == 0 .. MaxInode
Nothing == -1
Closed == [open |-> FALSE, ino |-> Nothing, pos |-> 0, append |-> FALSE,
           had |-> {}, due |-> {}, listed |-> {}]
Opened(i, app, names) == [open |-> TRUE, ino |-> i, pos |-> 0, append |-> app,
                          had |-> names, due |-> names, listed |-> {}]
IsOpen(f) == fds[f].open

Is(i, k) == i \in Inodes /\ kind[i] = k
Present(d) == {n \in Names : entry[d][n] # Nothing}
LinksTo(i) == {dn \in Inodes \X Names : entry[dn[1]][dn[2]] = i}
Alive(d) == d = Root \/ LinksTo(d) # {}
InUse(i) == Alive(i) \/ cwd = i \/ \E f \in Descriptors : fds[f].ino = i
FreeInodes == {i \in Inodes : ~InUse(i)}
NewInode == CHOOSE i \in FreeInodes : \A j \in FreeInodes : i <= j

(*************************** Paths *****************************************)

Absolute(s) == [abs |-> TRUE, names |-> s]
Relative(s) == [abs |-> FALSE, names |-> s]
Within(p, n) == [p EXCEPT !.names = Append(@, n)]

Follow(i) ==
    IF ~Is(i, "link") THEN i
    ELSE IF Is(entry[Root][LinkTo], "link") THEN Nothing ELSE entry[Root][LinkTo]

Walk(i, c) == LET d == Follow(i) IN
    IF ~Is(d, "dir") THEN Nothing
    ELSE CASE c = "."  -> d
           [] c = ".." -> up[d]
           [] OTHER    -> entry[d][c]

\* Where the first k names of the path lead, for each k.
Start(p) == IF p.abs THEN Root ELSE cwd
Lookup(p) ==
    LET reached[k \in 0 .. Len(p.names)] ==
            IF k = 0 THEN Start(p) ELSE Walk(reached[k - 1], p.names[k])
    IN reached[Len(p.names)]
Resolve(p) == Follow(Lookup(p))

\* The directory and the name a call that adds or removes an entry acts on.
HasPlace(p) == p.names # <<>> /\ Last(p.names) \in Names
DirOf(p) == Follow(Lookup([p EXCEPT !.names = Front(@)]))
NameOf(p) == Last(p.names)
InLiveDir(p) == HasPlace(p) /\ Is(DirOf(p), "dir") /\ Alive(DirOf(p))

\* Where open with O_CREAT makes the file: a dangling link makes its target.
CreatePlace(p) == IF Is(Lookup(p), "link") THEN <<Root, LinkTo>>
                  ELSE <<DirOf(p), NameOf(p)>>

(*************************** System calls **********************************)

CanOpen(p) == Resolve(p) \in Inodes
OpenReading(p, f) ==
    /\ ~IsOpen(f)
    /\ fds' = [fds EXCEPT ![f] = Opened(Resolve(p), FALSE, {})]
    /\ UNCHANGED <<disk, cwd>>

Missing(p) == Resolve(p) = Nothing
CanOpenWriting(p) ==
    IF ~Missing(p) THEN Is(Resolve(p), "file")
    ELSE /\ InLiveDir(p)
         /\ entry[CreatePlace(p)[1]][CreatePlace(p)[2]] = Nothing
         /\ FreeInodes # {}

\* open with O_WRONLY | O_CREAT and, when truncate, O_TRUNC; else O_APPEND.
OpenWriting(p, f, truncate) ==
    LET new == Missing(p)
        i == IF new THEN NewInode ELSE Resolve(p)
        at == CreatePlace(p)
    IN /\ ~IsOpen(f)
       /\ fds' = [fds EXCEPT ![f] = Opened(i, ~truncate, {})]
       /\ entry' = IF new THEN [entry EXCEPT ![at[1]][at[2]] = i] ELSE entry
       /\ kind' = [kind EXCEPT ![i] = "file"]
       /\ content' = IF new \/ truncate THEN [content EXCEPT ![i] = <<>>]
                     ELSE content
       /\ UNCHANGED <<up, cwd>>

CloseFd(f) == fds' = [fds EXCEPT ![f] = Closed] /\ UNCHANGED <<disk, cwd>>

\* What the descriptor has still to read, and the offset moving over it.
Unread(f) == LET c == content[fds[f].ino] IN SubSeq(c, fds[f].pos + 1, Len(c))
CanRead(f) == Is(fds[f].ino, "file")
MoveTo(f, offset) ==
    fds' = [fds EXCEPT ![f].pos = offset] /\ UNCHANGED <<disk, cwd>>
CanSeek(offset) == offset >= 0
SkipOver(f, k) == MoveTo(f, fds[f].pos + k)

Written(c, at, data) ==
    [j \in 1 .. IF at + Len(data) > Len(c) THEN at + Len(data) ELSE Len(c) |->
        IF j > at /\ j <= at + Len(data) THEN data[j - at]
        ELSE IF j <= Len(c) THEN c[j] ELSE "hole"]
WritesAt(f) == IF fds[f].append THEN Len(content[fds[f].ino]) ELSE fds[f].pos
Fits(f, k) == WritesAt(f) + k <= MaxSize
WriteTo(f, data) ==
    /\ content' = [content EXCEPT ![fds[f].ino] = Written(@, WritesAt(f), data)]
    /\ fds' = [fds EXCEPT ![f].pos = WritesAt(f) + Len(data)]
    /\ UNCHANGED <<entry, kind, up, cwd>>

\* d is i or a directory somewhere below it.
Below(d, i) ==
    LET above[k \in 0 .. MaxInode] == IF k = 0 THEN d ELSE up[above[k - 1]]
    IN \E k \in 0 .. MaxInode : above[k] = i

\* rename: two names of one file are left alone, and that is a success; no
\* directory goes into itself.
CanRename(p, q) ==
    LET i == Lookup(p)
        j == Lookup(q)
    IN /\ i \in Inodes /\ HasPlace(p) /\ InLiveDir(q)
       /\ \/ i = j
          \/ j = Nothing /\ ~Below(DirOf(q), i)
          \/ Is(i, "dir") /\ Is(j, "dir") /\ Present(j) = {} /\ ~Below(DirOf(q), i)
          \/ ~Is(i, "dir") /\ j # Nothing /\ ~Is(j, "dir")
Rename(p, q) ==
    LET i == Lookup(p) IN
    /\ entry' = IF i = Lookup(q) THEN entry
                ELSE [entry EXCEPT ![DirOf(p)][NameOf(p)] = Nothing,
                                   ![DirOf(q)][NameOf(q)] = i]
    /\ up' = IF Is(i, "dir") THEN [up EXCEPT ![i] = DirOf(q)] ELSE up
    /\ UNCHANGED <<kind, content, cwd, fds>>

CanMkdir(p) == InLiveDir(p) /\ Lookup(p) = Nothing /\ FreeInodes # {}
Mkdir(p) ==
    /\ entry' = [entry EXCEPT ![DirOf(p)][NameOf(p)] = NewInode]
    /\ kind' = [kind EXCEPT ![NewInode] = "dir"]
    /\ content' = [content EXCEPT ![NewInode] = <<>>]
    /\ up' = [up EXCEPT ![NewInode] = DirOf(p)]
    /\ UNCHANGED <<cwd, fds>>

CanUnlink(p) == InLiveDir(p) /\ Lookup(p) # Nothing
CanRmdir(p) == /\ CanUnlink(p)
               /\ Is(Lookup(p), "dir")
               /\ Present(Lookup(p)) = {}
Unlink(p) ==
    /\ entry' = [entry EXCEPT ![DirOf(p)][NameOf(p)] = Nothing]
    /\ fds' = [f \in Descriptors |->
                  IF fds[f].ino = DirOf(p)
                  THEN [fds[f] EXCEPT !.due = @ \ {NameOf(p)}] ELSE fds[f]]
    /\ UNCHANGED <<kind, content, up, cwd>>

CanChdir(p) == Is(Resolve(p), "dir")
Chdir(p) == cwd' = Resolve(p) /\ UNCHANGED <<disk, fds>>

\* getcwd fails when the current directory was removed, or is too deep.
CwdPaths == {p \in {Absolute(s) : s \in BoundedSeq(Names, MaxPath)} :
                Lookup(p) = cwd}
CanGetcwd == CwdPaths # {}
CwdPath == CHOOSE p \in CwdPaths : TRUE

CanOpendir(p) == Is(Resolve(p), "dir")
Opendir(p, f) ==
    /\ ~IsOpen(f)
    /\ fds' = [fds EXCEPT ![f] =
                   Opened(Resolve(p), FALSE, Present(Resolve(p)))]
    /\ UNCHANGED <<disk, cwd>>

\* readdir returns every name that is there all along, once; a name that
\* came or went since opendir, once or not at all.
Returnable(f) == (fds[f].had \cup Present(fds[f].ino)) \ fds[f].listed
Readdir(f, n) == /\ n \in Returnable(f)
                 /\ fds' = [fds EXCEPT ![f].listed = @ \cup {n},
                                        ![f].due = @ \ {n}]
                 /\ UNCHANGED <<disk, cwd>>

(*************************** The start *************************************)

FileSystemInit ==
    /\ kind \in {k \in [Inodes -> InitKinds \cup {"dir"}] : k[Root] = "dir"}
    /\ entry \in {[d \in Inodes |-> IF d = Root THEN e ELSE [n \in Names |-> Nothing]] :
                    e \in [Names -> (Inodes \cup {Nothing}) \ {Root}]}
    /\ \A n, m \in Names :
           n # m /\ entry[Root][n] = entry[Root][m] /\ entry[Root][n] # Nothing
               => Aliases /\ Is(entry[Root][n], "file")
    /\ content \in [Inodes -> InitContents \cup {<<>>}]
    /\ \A i \in Inodes :
           /\ content[i] # <<>> => Is(i, "file") /\ Alive(i)
           /\ Alive(i) \/ kind[i] = "dir"
    /\ up = [i \in Inodes |-> Root]
    /\ cwd \in {d \in Inodes : Is(d, "dir") /\ Alive(d)}
    /\ fds = [f \in Descriptors |-> Closed]
=============================================================================
