----------------------------- MODULE Namespace -----------------------------
(***************************************************************************)
(* internal/fsys: the guest's view of the filesystem.  namespace.go routes  *)
(* every name to the session's own Memory or to a mounted filesystem, and   *)
(* wasi.go turns the calls of a WASM command into calls on that namespace.  *)
(*                                                                          *)
(* The commands of a pipeline call concurrently and there is no lock here:  *)
(* each filesystem locks for the duration of one of its own calls, so a     *)
(* WASI call that makes several of them is several steps.                   *)
(*                                                                          *)
(* Two filesystems take part, each an instance of Memory: root, and data,   *)
(* mounted at MountPath.                                                    *)
(***************************************************************************)
EXTENDS Paths, FiniteSets

CONSTANTS
  Name, Path, BadPath, Node, Root, Byte, Zero, Perm, RootPerm, Stamp, Now, Limit,
  MaxEntries, MaxInt, Flag, Payload, ReadLen, Offset, Count,  \* as in Memory
  Proc,        \* the commands of a pipeline; each has at most one file open
  MountPath,   \* Mount.Path
  ReadOnly,    \* Mount.ReadOnly
  NullPath,    \* /dev/null
  Cwd,         \* WASI.Cwd
  SelfDir,     \* the component "."
  UpDir,       \* the component ".."
  Omit,        \* UTIME_OMIT
  NullTime,    \* the times of /dev/null
  Arg,         \* the names handed in
  Op,          \* the calls that commands make
  RootTree,    \* the directories New leaves in the root filesystem
  DataTree,    \* what the mounted filesystem holds when it is mounted:
  DataDirs,    \* names, which of them are directories, and the contents of
  DataBytes    \* the others

VARIABLES
  rNodes, rIsDir, rMeta, rData, rRefs, rLinked, rUsed, rFile,  \* Namespace.root
  dNodes, dIsDir, dMeta, dData, dRefs, dLinked, dUsed, dFile,  \* Mount.FS
  ret,   \* what the last filesystem call returned
  call,  \* the WASI call each command is in the middle of
  wasi,  \* the wasiFile each command holds
  done   \* the WASI call that was last answered

R == INSTANCE Memory WITH nodes <- rNodes, isDir <- rIsDir, meta <- rMeta,
       data <- rData, refs <- rRefs, linked <- rLinked, used <- rUsed, file <- rFile,
       Handle <- Proc

D == INSTANCE Memory WITH nodes <- dNodes, isDir <- dIsDir, meta <- dMeta,
       data <- dData, refs <- dRefs, linked <- dLinked, used <- dUsed, file <- dFile,
       Handle <- Proc

LOCAL INSTANCE SequencesExt

root == <<rNodes, rIsDir, rMeta, rData, rRefs, rLinked, rUsed, rFile>>
data == <<dNodes, dIsDir, dMeta, dData, dRefs, dLinked, dUsed, dFile>>
stores == <<root, data, ret>>
vars == <<root, data, ret, call, wasi, done>>

-----------------------------------------------------------------------------
(* Names *)

\* path.Clean of an absolute name.
Clean(comps) ==
  FoldLeft(LAMBDA p, c : IF c = SelfDir THEN p
                         ELSE IF c = UpDir THEN Dir(p) ELSE Append(p, c),
           <<>>, comps)

\* The guest's name: its clean path, whether it insists on a directory, and
\* whether it holds a NUL.
Resolve(x) ==
  LET path == Clean(IF x.abs THEN x.comps ELSE Cwd \o x.comps)
      directory == \/ x.slash
                   \/ x.comps = <<>>
                   \/ Last(x.comps) = SelfDir
  IN [path |-> path, slash |-> directory /\ path # <<>>, nul |-> x.nul]

Owner(n) == IF Under(n.path, MountPath) THEN "data" ELSE "root"

Rel(n) == IF Owner(n) = "data" THEN Rebase(n.path, MountPath, <<>>) ELSE n.path

Exists(n) == Rel(n) \in (IF Owner(n) = "data" THEN DOMAIN dNodes ELSE DOMAIN rNodes)

NodeAt(n) == IF Owner(n) = "data" THEN dNodes[Rel(n)] ELSE rNodes[Rel(n)]

IsDirAt(n) == IF Owner(n) = "data" THEN dIsDir[NodeAt(n)] ELSE rIsDir[NodeAt(n)]

MetaAt(n) == IF Owner(n) = "data" THEN dMeta[NodeAt(n)] ELSE rMeta[NodeAt(n)]

IsNull(n) == n.path = NullPath

\* Namespace.Stat, and Lstat, which is Stat for a filesystem without links.
StatErr(n) == IF IsNull(n) THEN (IF n.slash THEN "ENOTDIR" ELSE "OK")
              ELSE IF n.nul THEN "ErrInvalid"
              ELSE IF ~Exists(n) THEN "ErrNotExist"
              ELSE IF n.slash /\ ~IsDirAt(n) THEN "ENOTDIR"
              ELSE "OK"

StatIsDir(n) == ~IsNull(n) /\ IsDirAt(n)

\* Seeded fault: only the mount point itself is protected.
writable_Leaf(n) ==
  IF n.path = MountPath THEN "EBUSY"
  ELSE IF n.nul THEN "ErrInvalid"
  ELSE IF Owner(n) = "data" /\ ReadOnly THEN "EROFS"
  ELSE "OK"

\* Whether a name may be created, removed, renamed or given other metadata: a
\* mount point and the directories above it may not.
writable(n) ==
  IF Under(MountPath, n.path) THEN "EBUSY"
  ELSE IF n.nul THEN "ErrInvalid"
  ELSE IF Owner(n) = "data" /\ ReadOnly THEN "EROFS"
  ELSE "OK"

\* The paths are bounded, and so are the names handed in.
ASSUME NameAssumption ==
  /\ Path \subseteq Seq(Name) /\ MountPath \in Seq(Name)
  /\ \A x \in Arg : Rel(Resolve(x)) \in Path
  /\ Flag \subseteq R!AllFlags
  /\ ReadOnly \in BOOLEAN

\* Each filesystem holds distinct nodes, and New has made the directories that
\* lead to the mount.
ASSUME TreeAssumption ==
  /\ \A q \in DOMAIN RootTree : RootTree[q] \in Node /\ q \in Path
  /\ \A q, r \in DOMAIN RootTree : RootTree[q] = RootTree[r] => q = r
  /\ \A k \in 0..Len(MountPath) : SubSeq(MountPath, 1, k) \in DOMAIN RootTree
  /\ \A q \in DOMAIN DataTree : DataTree[q] \in Node
  /\ IsFiniteSet(DOMAIN DataTree) /\ DataBytes \in Seq(Byte)

-----------------------------------------------------------------------------
(* Calls *)

\* What errno() makes of an error.
errno == [OK |-> "0", EOF |-> "0", EROFS |-> "EROFS", ENOTDIR |-> "ENOTDIR",
          EISDIR |-> "EISDIR", ENOTEMPTY |-> "ENOTEMPTY", ENOSPC |-> "EIO",
          EBUSY |-> "EPERM", EXDEV |-> "ENOTSUP", ENOSYS |-> "ENOSYS",
          EBADF |-> "EBADF", ErrNotExist |-> "ENOENT", ErrExist |-> "EEXIST",
          ErrPermission |-> "EACCES", ErrClosed |-> "EBADF", ErrInvalid |-> "EINVAL"]

Idle == [pc |-> "idle"]

Ready(p, op) == call[p] = Idle /\ op \in Op

Goto(p, c) == call' = [call EXCEPT ![p] = c] /\ UNCHANGED done

\* The call returns to the command.
Return(p, op, err) ==
  /\ call' = [call EXCEPT ![p] = Idle]
  /\ done' = [op |-> op, errno |-> errno[err]]

\* It returns without having changed anything.
Refuse(p, op, err) == Return(p, op, err) /\ UNCHANGED <<stores, wasi>>

\* One call on the filesystem o, which answers it as A or as B.
On(o, A, B) == \/ o = "root" /\ A /\ UNCHANGED data
               \/ o = "data" /\ B /\ UNCHANGED root

-----------------------------------------------------------------------------
(* Calls that name a file *)

Mkdir(p, x, perm) ==
  LET n == Resolve(x) IN
  /\ Ready(p, "Mkdir")
  /\ IF writable(n) # "OK" THEN Refuse(p, "Mkdir", writable(n))
     ELSE /\ On(Owner(n), R!Mkdir(Rel(n), perm), D!Mkdir(Rel(n), perm))
          /\ Return(p, "Mkdir", ret'.err)
          /\ UNCHANGED wasi

Chmod(p, x, perm) ==
  LET n == Resolve(x) IN
  /\ Ready(p, "Chmod")
  /\ IF writable(n) # "OK" THEN Refuse(p, "Chmod", writable(n))
     ELSE /\ On(Owner(n), R!Chmod(Rel(n), perm), D!Chmod(Rel(n), perm))
          /\ Return(p, "Chmod", ret'.err)
          /\ UNCHANGED wasi

\* commandFS.Remove looks at the name to learn what it is about to remove.
CommandRemove(p, x) ==
  LET n == Resolve(x) IN
  /\ Ready(p, "CommandRemove")
  /\ IF StatErr(n) # "OK" THEN Refuse(p, "Remove", StatErr(n))
     ELSE /\ Goto(p, [pc |-> "lstat", name |-> n, dir |-> StatIsDir(n)])
          /\ UNCHANGED <<stores, wasi>>

RemoveErr(n, dir) == IF writable(n) # "OK" THEN writable(n)
                     ELSE IF StatErr(n) # "OK" THEN StatErr(n)
                     ELSE IF StatIsDir(n) = dir THEN "OK"
                     ELSE IF dir THEN "ENOTDIR" ELSE "EISDIR"

\* Namespace.Remove, first half: is the name what the caller takes it for?
RemoveLook(p, n, dir) ==
  IF RemoveErr(n, dir) # "OK" THEN Refuse(p, "Remove", RemoveErr(n, dir))
  ELSE /\ Goto(p, [pc |-> "remove", name |-> n, dir |-> dir])
       /\ UNCHANGED <<stores, wasi>>

\* WASI.Unlink and WASI.Rmdir.
Unlink(p, x) == Ready(p, "Unlink") /\ RemoveLook(p, Resolve(x), FALSE)
Rmdir(p, x) == Ready(p, "Rmdir") /\ RemoveLook(p, Resolve(x), TRUE)

CommandRemoveLook(p) ==
  /\ call[p].pc = "lstat"
  /\ RemoveLook(p, call[p].name, call[p].dir)

\* Second half: the name is removed, whatever it stands for by now.
RemoveNow(p) ==
  LET n == call[p].name IN
  /\ call[p].pc = "remove"
  /\ On(Owner(n), R!Remove(Rel(n)), D!Remove(Rel(n)))
  /\ Return(p, "Remove", ret'.err)
  /\ UNCHANGED wasi

\* Names with a trailing slash are looked at first, one after the other.
RenameStart(p, x, y) ==
  /\ Ready(p, "Rename")
  /\ Goto(p, [pc |-> "renameOld", name |-> Resolve(x), to |-> Resolve(y)])
  /\ UNCHANGED <<stores, wasi>>

RenameLook(p) ==
  LET c == call[p]
      n == IF c.pc = "renameOld" THEN c.name ELSE c.to
  IN /\ c.pc \in {"renameOld", "renameNew"}
     /\ IF n.slash /\ StatErr(n) # "OK" THEN Refuse(p, "Rename", StatErr(n))
        ELSE /\ Goto(p, [c EXCEPT !.pc = IF @ = "renameOld" THEN "renameNew" ELSE "rename"])
             /\ UNCHANGED <<stores, wasi>>

RenameErr(a, b) == IF writable(a) # "OK" THEN writable(a)
                   ELSE IF writable(b) # "OK" THEN writable(b)
                   ELSE IF Owner(a) # Owner(b) THEN "EXDEV"
                   ELSE "OK"

RenameNow(p) ==
  LET a == call[p].name
      b == call[p].to
  IN /\ call[p].pc = "rename"
     /\ IF RenameErr(a, b) # "OK" THEN Refuse(p, "Rename", RenameErr(a, b))
        ELSE /\ On(Owner(a), R!Rename(Rel(a), Rel(b)), D!Rename(Rel(a), Rel(b)))
             /\ Return(p, "Rename", ret'.err)
             /\ UNCHANGED wasi

\* timestamps: a time to be omitted is replaced by the one last read.
timestamps(m, at, mt) == [atime |-> IF at = Omit THEN m.atime ELSE at,
                          mtime |-> IF mt = Omit THEN m.mtime ELSE mt]

NullMeta == [atime |-> NullTime, mtime |-> NullTime]

Utimens(p, x, at, mt) ==
  LET n == Resolve(x) IN
  /\ Ready(p, "Utimens")
  /\ IF StatErr(n) # "OK" THEN Refuse(p, "Utimens", StatErr(n))
     ELSE /\ Goto(p, [pc |-> "chtimes", name |-> n,
                      times |-> timestamps(IF IsNull(n) THEN NullMeta ELSE MetaAt(n), at, mt)])
          /\ UNCHANGED <<stores, wasi>>

UtimensNow(p) ==
  LET n == call[p].name
      t == call[p].times
  IN /\ call[p].pc = "chtimes"
     /\ IF writable(n) # "OK" THEN Refuse(p, "Utimens", writable(n))
        ELSE /\ On(Owner(n), R!Chtimes(Rel(n), t.atime, t.mtime),
                             D!Chtimes(Rel(n), t.atime, t.mtime))
             /\ Return(p, "Utimens", ret'.err)
             /\ UNCHANGED wasi
-----------------------------------------------------------------------------
(* Opening *)

NoFile == [closed |-> TRUE, on |-> "null", name |-> Resolve([abs |-> TRUE,
             comps |-> <<>>, slash |-> FALSE, nul |-> FALSE]), readable |-> FALSE,
           writable |-> FALSE, metadataWritable |-> FALSE]

wasiFile(n, fl) ==
  [closed |-> FALSE, on |-> IF IsNull(n) THEN "null" ELSE Owner(n), name |-> n,
   readable |-> fl.read, writable |-> fl.write,
   metadataWritable |-> writable(n) = "OK"]

\* dir is O_DIRECTORY.
OpenStart(p, x, fl, dir) ==
  /\ Ready(p, "OpenFile")
  /\ wasi[p].closed
  /\ Goto(p, [pc |-> IF dir THEN "openDir" ELSE "openSlash",
              name |-> Resolve(x), flag |-> fl, dir |-> dir])
  /\ UNCHANGED <<stores, wasi>>

\* WASI.OpenFile looks whether the name is a directory when it has to be one.
OpenDir(p) ==
  LET n == call[p].name
      err == IF StatErr(n) # "OK" THEN StatErr(n)
             ELSE IF ~StatIsDir(n) THEN "ENOTDIR" ELSE "OK"
  IN /\ call[p].pc = "openDir"
     /\ IF err # "OK" THEN Refuse(p, "OpenFile", err)
        ELSE /\ Goto(p, [call[p] EXCEPT !.pc = "openSlash"])
             /\ UNCHANGED <<stores, wasi>>

\* Namespace.Open looks again when the name ends in a slash.
OpenSlash(p) ==
  LET n == call[p].name IN
  /\ call[p].pc = "openSlash"
  /\ IF n.slash /\ StatErr(n) # "OK" THEN Refuse(p, "OpenFile", StatErr(n))
     ELSE /\ Goto(p, [call[p] EXCEPT !.pc = "open"])
          /\ UNCHANGED <<stores, wasi>>

\* The flags that need a writable filesystem.
Mutates(fl) == fl.write \/ fl.create \/ fl.trunc \/ fl.append

OpenErr(n, fl) == IF n.nul THEN "ErrInvalid"
                  ELSE IF Mutates(fl) /\ Owner(n) = "data" /\ ReadOnly THEN "EROFS"
                  ELSE "OK"

\* The filesystem opens the file; without a flag that mutates it is Open.
OpenNow(p, perm) ==
  LET n == call[p].name
      fl == IF Mutates(call[p].flag) THEN call[p].flag
            ELSE [call[p].flag EXCEPT !.excl = FALSE]
  IN /\ call[p].pc = "open"
     /\ IF IsNull(n) THEN /\ Goto(p, [call[p] EXCEPT !.pc = "check"])
                          /\ UNCHANGED <<stores, wasi>>
        ELSE IF OpenErr(n, fl) # "OK" THEN Refuse(p, "OpenFile", OpenErr(n, fl))
        ELSE /\ On(Owner(n), R!OpenFile(p, Rel(n), fl, perm), D!OpenFile(p, Rel(n), fl, perm))
             /\ IF ret'.err = "OK" THEN Goto(p, [call[p] EXCEPT !.pc = "check"])
                ELSE Return(p, "OpenFile", ret'.err)
             /\ UNCHANGED wasi

\* The file that was opened is not the directory that was asked for.
WrongKind(p) ==
  LET n == call[p].name IN
  call[p].dir /\ (IsNull(n) \/ (IF Owner(n) = "data" THEN ~dIsDir[dFile[p].n]
                                ELSE ~rIsDir[rFile[p].n]))

\* Seeded fault: the file that was opened by mistake is not closed.
OpenCheck_Leak(p) ==
  /\ call[p].pc = "check"
  /\ IF WrongKind(p) THEN Refuse(p, "OpenFile", "ENOTDIR")
     ELSE /\ Return(p, "OpenFile", "OK")
          /\ wasi' = [wasi EXCEPT ![p] = wasiFile(call[p].name, call[p].flag)]
          /\ UNCHANGED stores

OpenCheck(p) ==
  LET n == call[p].name IN
  /\ call[p].pc = "check"
  /\ IF WrongKind(p)
     THEN /\ IF IsNull(n) THEN UNCHANGED stores
             ELSE On(Owner(n), R!Close(p), D!Close(p))
          /\ Return(p, "OpenFile", "ENOTDIR")
          /\ UNCHANGED wasi
     ELSE /\ Return(p, "OpenFile", "OK")
          /\ wasi' = [wasi EXCEPT ![p] = wasiFile(n, call[p].flag)]
          /\ UNCHANGED stores

-----------------------------------------------------------------------------
(* Calls on an open wasiFile *)

\* A call that is passed on to the file; null is what the null device, which
\* has none of the optional capabilities, makes of it.
PassOn(p, op, may, null, A, B) ==
  /\ Ready(p, op)
  /\ IF wasi[p].closed \/ ~may THEN Refuse(p, op, "EBADF")
     ELSE IF wasi[p].on = "null" THEN Refuse(p, op, null)
     ELSE /\ On(wasi[p].on, A, B)
          /\ Return(p, op, ret'.err)
          /\ UNCHANGED wasi

Read(p, len) ==
  PassOn(p, "Read", wasi[p].readable, "EOF", R!Read(p, len), D!Read(p, len))

Pread(p, len, off) ==
  PassOn(p, "Pread", wasi[p].readable, "ENOSYS", R!ReadAt(p, len, off), D!ReadAt(p, len, off))

Seek(p, off, whence) ==
  PassOn(p, "Seek", TRUE, "ENOSYS", R!Seek(p, off, whence), D!Seek(p, off, whence))

Write(p, b) ==
  PassOn(p, "Write", wasi[p].writable, "OK", R!Write(p, b), D!Write(p, b))

Pwrite(p, b, off) ==
  PassOn(p, "Pwrite", wasi[p].writable, "ENOSYS", R!WriteAt(p, b, off), D!WriteAt(p, b, off))

Truncate(p, size) ==
  PassOn(p, "Truncate", wasi[p].writable, "ENOSYS", R!Truncate(p, size), D!Truncate(p, size))

Readdir(p, k) ==
  PassOn(p, "Readdir", TRUE, "ENOTDIR", R!FileReadDir(p, k), D!FileReadDir(p, k))

FileMeta(p) == IF wasi[p].on = "data" THEN dMeta[dFile[p].n] ELSE rMeta[rFile[p].n]

\* Seeded fault: the mount's permission is not consulted.
FileUtimensErr_Any(p) == IF wasi[p].closed THEN "EBADF" ELSE "OK"

FileUtimensErr(p) == IF wasi[p].closed THEN "EBADF"
                     ELSE IF ~wasi[p].metadataWritable THEN "EROFS"
                     ELSE "OK"

FileUtimens(p, at, mt) ==
  /\ Ready(p, "FileUtimens")
  /\ IF FileUtimensErr(p) # "OK" THEN Refuse(p, "Utimens", FileUtimensErr(p))
     ELSE /\ Goto(p, [pc |-> "fileChtimes",
                      times |-> timestamps(IF wasi[p].on = "null" THEN NullMeta
                                           ELSE FileMeta(p), at, mt)])
          /\ UNCHANGED <<stores, wasi>>

\* Seeded fault: the times are set by the name the file was opened by.
FileUtimensNow_ByName(p) ==
  LET n == wasi[p].name
      t == call[p].times
  IN /\ call[p].pc = "fileChtimes"
     /\ On(Owner(n), R!Chtimes(Rel(n), t.atime, t.mtime), D!Chtimes(Rel(n), t.atime, t.mtime))
     /\ Return(p, "Utimens", ret'.err)
     /\ UNCHANGED wasi

FileUtimensNow(p) ==
  LET t == call[p].times IN
  /\ call[p].pc = "fileChtimes"
  /\ IF wasi[p].on = "null" THEN Refuse(p, "Utimens", "ENOSYS")
     ELSE /\ On(wasi[p].on, R!FileChtimes(p, t.atime, t.mtime),
                            D!FileChtimes(p, t.atime, t.mtime))
          /\ Return(p, "Utimens", ret'.err)
          /\ UNCHANGED wasi

Close(p) ==
  /\ Ready(p, "Close")
  /\ IF wasi[p].closed THEN Refuse(p, "Close", "EBADF")
     ELSE /\ IF wasi[p].on = "null" THEN UNCHANGED stores /\ Return(p, "Close", "OK")
             ELSE /\ On(wasi[p].on, R!Close(p), D!Close(p))
                  /\ Return(p, "Close", ret'.err)
          /\ wasi' = [wasi EXCEPT ![p] = NoFile]

-----------------------------------------------------------------------------

\* New has made the directories of the root filesystem, the mount point among
\* them.  The mounted filesystem comes with what the caller has put there.
Init ==
  /\ rNodes = RootTree
  /\ rIsDir = [n \in Node |-> \E q \in DOMAIN RootTree : RootTree[q] = n]
  /\ rMeta = [n \in Node |-> [perm |-> RootPerm, atime |-> Now, mtime |-> Now]]
  /\ rData = [n \in Node |-> <<>>]
  /\ rRefs = [n \in Node |-> 0]
  /\ rLinked = rIsDir
  /\ rUsed = 0
  /\ rFile = [p \in Proc |-> R!ClosedFile]
  /\ dNodes = DataTree
  /\ dIsDir = [n \in Node |-> \E q \in DataDirs : DataTree[q] = n]
  /\ dMeta = [n \in Node |-> [perm |-> RootPerm, atime |-> Now, mtime |-> Now]]
  /\ dData = [n \in Node |-> IF \E q \in DOMAIN DataTree \ DataDirs : DataTree[q] = n
                             THEN DataBytes ELSE <<>>]
  /\ dRefs = [n \in Node |-> 0]
  /\ dLinked = [n \in Node |-> \E q \in DOMAIN DataTree : DataTree[q] = n]
  /\ dUsed = Len(DataBytes) * Cardinality(DOMAIN DataTree \ DataDirs)
  /\ dFile = [p \in Proc |-> D!ClosedFile]
  /\ ret = R!Reply("OK")
  /\ call = [p \in Proc |-> Idle]
  /\ wasi = [p \in Proc |-> NoFile]
  /\ done = [op |-> "none", errno |-> "0"]

NameCall(p) ==
  \E x \in Arg :
    \/ \E perm \in Perm : Mkdir(p, x, perm) \/ Chmod(p, x, perm)
    \/ CommandRemove(p, x)
    \/ Unlink(p, x)
    \/ Rmdir(p, x)
    \/ \E y \in Arg : RenameStart(p, x, y)
    \/ \E at, mt \in Stamp \cup {Omit} : Utimens(p, x, at, mt)
    \/ \E fl \in Flag, dir \in BOOLEAN : OpenStart(p, x, fl, dir)

FileCall(p) ==
  \/ \E len \in ReadLen : Read(p, len) \/ \E off \in Offset : Pread(p, len, off)
  \/ \E off \in Offset, whence \in R!Whence : Seek(p, off, whence)
  \/ \E b \in Payload : Write(p, b) \/ \E off \in Offset : Pwrite(p, b, off)
  \/ \E size \in Offset : Truncate(p, size)
  \/ \E k \in Count : Readdir(p, k)
  \/ \E at, mt \in Stamp \cup {Omit} : FileUtimens(p, at, mt)
  \/ Close(p)

\* The next filesystem call of a WASI call that has begun.
Continue(p) ==
  \/ CommandRemoveLook(p)
  \/ RemoveNow(p)
  \/ RenameLook(p)
  \/ RenameNow(p)
  \/ UtimensNow(p)
  \/ OpenDir(p)
  \/ OpenSlash(p)
  \/ \E perm \in Perm : OpenNow(p, perm)
  \/ OpenCheck(p)
  \/ FileUtimensNow(p)

Next == \E p \in Proc : NameCall(p) \/ FileCall(p) \/ Continue(p)

Spec == Init /\ [][Next]_vars

-----------------------------------------------------------------------------
(* Properties *)

\* The directories a mount is reached by stay directories of the root
\* filesystem: no sequence of removals and renames, however interleaved,
\* makes the mount unreachable for path walks (the EBUSY rule of writable).
MountPointsStand ==
  \A k \in 0..Len(MountPath) :
    LET q == SubSeq(MountPath, 1, k) IN q \in DOMAIN rNodes /\ rIsDir[rNodes[q]]

\* Every file a filesystem holds open belongs to a wasiFile a command can still
\* close, or to a call about to hand it over; and a command's wasiFile is open
\* underneath.  A file that was opened by mistake does not stay open, where it
\* would keep its bytes charged.
NoFileLeaked ==
  \A p \in Proc :
    LET holder(o) == \/ ~wasi[p].closed /\ wasi[p].on = o
                     \/ /\ call[p].pc = "check"
                        /\ ~IsNull(call[p].name) /\ Owner(call[p].name) = o
    IN /\ ~rFile[p].closed <=> holder("root")
       /\ ~dFile[p].closed <=> holder("data")

\* Nothing a command does changes a filesystem that is mounted read-only:
\* neither its names nor the contents or metadata of its files.
ReadOnlyKept ==
  [][ReadOnly => UNCHANGED <<dNodes, dIsDir, dMeta, dData, dLinked, dUsed>>]_vars

\* Setting the times of an open file changes that very file, also when its
\* name has come to stand for another one meanwhile.
TimesFollowFile ==
  [][\A p \in Proc :
       call[p].pc = "fileChtimes" /\ call'[p].pc = "idle" =>
         /\ \A n \in Node : rMeta'[n] # rMeta[n] => wasi[p].on = "root" /\ n = rFile[p].n
         /\ \A n \in Node : dMeta'[n] # dMeta[n] => wasi[p].on = "data" /\ n = dFile[p].n]_vars

\* "O_DIRECTORY|O_TRUNC must never truncate a regular file and only then
\* discover that it is not a directory" (the comment in WASI.OpenFile).
DirectoryOpenKeepsFiles ==
  [][\A p \in Proc :
       call[p].pc = "open" /\ call[p].dir /\ call'[p].pc # "open" =>
         UNCHANGED <<rData, dData>>]_vars
=============================================================================
