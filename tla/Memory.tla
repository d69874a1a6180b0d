------------------------------- MODULE Memory -------------------------------
(***************************************************************************)
(* vfs/memory.go: the concurrent in-memory filesystem a shell session runs  *)
(* on.  Every exported operation holds Memory.mu from its first to its last *)
(* statement, so each one is a single action; the interleaving of pipeline  *)
(* stages is the interleaving of these actions.                             *)
(***************************************************************************)
EXTENDS Paths, FiniteSets

CONSTANTS
  Name,        \* path components, integers (their order is the sort order)
  Path,        \* the valid paths in play
  BadPath,     \* a name rejected by valid()
  Node,        \* identities of *node values
  Root,        \* the node NewMemory creates for "."
  Handle,      \* *memoryFile values
  Byte, Zero,  \* file contents, and the byte resize() fills with
  Perm,        \* permission bits
  RootPerm,    \* 0755, the permissions of "."
  Stamp, Now,  \* timestamps; Now is what time.Now() returns
  Limit,       \* Memory.limit
  MaxEntries,  \* 10000 in OpenFile and Mkdir
  MaxInt,      \* the largest int64
  Flag,        \* the open flags in play, a subset of AllFlags
  Payload,     \* the buffers handed to Write and WriteAt
  ReadLen,     \* the buffer lengths handed to Read and ReadAt
  Offset,      \* the offsets and sizes handed to the other operations
  Count        \* the page sizes handed to memoryFile.ReadDir

Int64 == (-MaxInt - 1)..MaxInt

AllFlags == [write: BOOLEAN, read: BOOLEAN, create: BOOLEAN, excl: BOOLEAN,
             trunc: BOOLEAN, append: BOOLEAN]

ASSUME PathAssumption ==
  /\ Name \subseteq Int
  /\ Path \subseteq Seq(Name)
  /\ <<>> \in Path
  /\ \A p \in Path : Dir(p) \in Path
  /\ BadPath \notin Path

ASSUME StoreAssumption ==
  /\ Root \in Node
  /\ IsFiniteSet(Handle)
  /\ Zero \in Byte
  /\ Now \in Stamp
  /\ RootPerm \in Perm
  /\ MaxInt \in Nat
  /\ Limit \in 1..MaxInt
  /\ MaxEntries \in Nat \ {0}

ASSUME ArgumentAssumption ==
  /\ Flag \subseteq AllFlags
  /\ \A fl \in Flag : fl.read \/ fl.write
  /\ Payload \subseteq Seq(Byte)
  /\ \A p \in Payload : Len(p) <= MaxInt
  /\ ReadLen \subseteq 0..MaxInt
  /\ Offset \subseteq Int64
  /\ Count \subseteq Int

VARIABLES
  nodes,   \* Memory.nodes: a partial function from Path to Node
  isDir,   \* node.mode.IsDir()
  meta,    \* node.mode.Perm(), node.atime, node.mtime
  data,    \* node.data
  refs,    \* node.refs
  linked,  \* node.linked
  used,    \* Memory.used
  file,    \* the open files
  ret      \* what the last call returned

store == <<nodes, isDir, meta, data, refs, linked, used>>
vars == <<nodes, isDir, meta, data, refs, linked, used, file, ret>>

Err == {"OK", "EOF", "ErrInvalid", "ErrNotExist", "ErrExist", "ErrPermission",
        "ErrClosed", "ENOTDIR", "EISDIR", "ENOTEMPTY", "ENOSPC"}

\* int64 arithmetic: exact in range, two's complement outside it.
Wrap(x) == IF x \in Int64 THEN x
           ELSE ((x + MaxInt + 1) % (2 * (MaxInt + 1))) - (MaxInt + 1)

Reply(err) == [err |-> err, n |-> 0, bytes |-> <<>>, names |-> {}]

Fail(err) == ret' = Reply(err) /\ UNCHANGED <<store, file>>

-----------------------------------------------------------------------------
(* Nodes and open files *)

\* A node is garbage once nothing names it and no handle holds it.  A garbage
\* identity stands for every node not yet allocated.
Live(n) == linked[n] \/ refs[n] > 0

\* A closed memoryFile answers every call with ErrClosed, so its other fields
\* are never read again; a closed slot also stands for one not yet opened.
\* listed says that entries is not nil.  The ghost field seen collects the
\* entries that the listing has handed out.
ClosedFile == [closed |-> TRUE, n |-> Root, name |-> <<>>, readable |-> FALSE,
               writable |-> FALSE, append |-> FALSE, pos |-> 0,
               listed |-> FALSE, entries |-> {}, dirPos |-> 0, seen |-> {}]

OpenedFile(n, name, fl) ==
  [closed |-> FALSE, n |-> n, name |-> name, readable |-> fl.read,
   writable |-> fl.write, append |-> fl.append, pos |-> 0,
   listed |-> FALSE, entries |-> {}, dirPos |-> 0, seen |-> {}]

IsOpen(h) == ~file[h].closed

LookupErr(name) == IF name = BadPath THEN "ErrInvalid"
                   ELSE IF name \notin DOMAIN nodes THEN "ErrNotExist"
                   ELSE "OK"

ParentErr(name) == IF LookupErr(Dir(name)) # "OK" THEN LookupErr(Dir(name))
                   ELSE IF ~isDir[nodes[Dir(name)]] THEN "ENOTDIR"
                   ELSE "OK"

HasChild(name) == \E p \in DOMAIN nodes : p # name /\ Dir(p) = name

ChildNames(name) == {Base(p) : p \in {q \in DOMAIN nodes : q # name /\ Dir(q) = name}}

Full == Cardinality(DOMAIN nodes) >= MaxEntries

newNode(n, dir, perm) ==
  /\ ~Live(n)
  /\ isDir' = [isDir EXCEPT ![n] = dir]
  /\ meta' = [meta EXCEPT ![n] = [perm |-> perm, atime |-> Now, mtime |-> Now]]
  /\ data' = [data EXCEPT ![n] = <<>>]
  /\ linked' = [linked EXCEPT ![n] = TRUE]

Bind(name, n) == nodes' = [p \in DOMAIN nodes \cup {name} |->
                             IF p = name THEN n ELSE nodes[p]]

Touched(n) == [meta EXCEPT ![n] = [perm |-> meta[n].perm, atime |-> meta[n].atime,
                                   mtime |-> Now]]

-----------------------------------------------------------------------------
(* Opening *)

OpenErr(name, fl) ==
  IF LookupErr(name) = "ErrInvalid" THEN "ErrInvalid"
  ELSE IF LookupErr(name) = "ErrNotExist"
       THEN IF ~fl.create THEN "ErrNotExist"
            ELSE IF ParentErr(name) # "OK" THEN ParentErr(name)
            ELSE IF Full THEN "ENOSPC"
            ELSE IF fl.trunc /\ ~fl.write THEN "ErrPermission"
            ELSE "OK"
  ELSE IF fl.create /\ fl.excl THEN "ErrExist"
  ELSE IF isDir[nodes[name]] /\ (fl.write \/ fl.trunc) THEN "EISDIR"
  ELSE IF fl.trunc /\ ~fl.write THEN "ErrPermission"
  ELSE "OK"

\* Seeded fault: the handle is not counted.
OpenExisting_Uncounted(h, name, fl) ==
  /\ LookupErr(name) = "OK"
  /\ OpenErr(name, fl) = "OK"
  /\ file' = [file EXCEPT ![h] = OpenedFile(nodes[name], name, fl)]
  /\ ret' = Reply("OK")
  /\ UNCHANGED store

\* The name exists, and the call succeeds.
OpenExisting(h, name, fl) ==
  LET n == nodes[name] IN
  /\ LookupErr(name) = "OK"
  /\ OpenErr(name, fl) = "OK"
  /\ data' = [data EXCEPT ![n] = IF fl.trunc THEN <<>> ELSE @]
  /\ used' = used - (IF fl.trunc THEN Len(data[n]) ELSE 0)
  /\ meta' = IF fl.trunc THEN Touched(n) ELSE meta
  /\ refs' = [refs EXCEPT ![n] = @ + 1]
  /\ file' = [file EXCEPT ![h] = OpenedFile(n, name, fl)]
  /\ ret' = Reply("OK")
  /\ UNCHANGED <<nodes, isDir, linked>>

\* The name is created.  O_CREATE|O_TRUNC without write access is refused only
\* after the new node has been entered in the map.
OpenCreating(h, name, fl, perm) ==
  /\ LookupErr(name) = "ErrNotExist"
  /\ OpenErr(name, fl) \in {"OK", "ErrPermission"}
  /\ \E n \in Node :
       /\ newNode(n, FALSE, perm)
       /\ Bind(name, n)
       /\ IF OpenErr(name, fl) = "OK"
          THEN /\ refs' = [refs EXCEPT ![n] = @ + 1]
               /\ file' = [file EXCEPT ![h] = OpenedFile(n, name, fl)]
          ELSE UNCHANGED <<refs, file>>
  /\ ret' = Reply(OpenErr(name, fl))
  /\ UNCHANGED used

OpenRefused(name, fl) ==
  /\ OpenErr(name, fl) # "OK"
  /\ ~(OpenErr(name, fl) = "ErrPermission" /\ LookupErr(name) = "ErrNotExist")
  /\ Fail(OpenErr(name, fl))

OpenFile(h, name, fl, perm) ==
  /\ file[h].closed
  /\ \/ OpenExisting(h, name, fl)
     \/ OpenCreating(h, name, fl, perm)
     \/ OpenRefused(name, fl)

-----------------------------------------------------------------------------
(* The namespace: Stat, ReadDir, Mkdir, Remove, Rename, Chmod, Chtimes *)

Stat(name) ==
  IF LookupErr(name) # "OK" THEN Fail(LookupErr(name))
  ELSE /\ ret' = [Reply("OK") EXCEPT !.n = Len(data[nodes[name]])]
       /\ UNCHANGED <<store, file>>

ReadDirErr(name) == IF LookupErr(name) # "OK" THEN LookupErr(name)
                    ELSE IF ~isDir[nodes[name]] THEN "ENOTDIR"
                    ELSE "OK"

ReadDir(name) ==
  IF ReadDirErr(name) # "OK" THEN Fail(ReadDirErr(name))
  ELSE /\ ret' = [Reply("OK") EXCEPT !.names = ChildNames(name)]
       /\ UNCHANGED <<store, file>>

MkdirErr(name) ==
  IF name = BadPath THEN "ErrInvalid"
  ELSE IF name \in DOMAIN nodes THEN "ErrExist"
  ELSE IF ParentErr(name) # "OK" THEN ParentErr(name)
  ELSE IF Full THEN "ENOSPC"
  ELSE "OK"

Mkdir(name, perm) ==
  IF MkdirErr(name) # "OK" THEN Fail(MkdirErr(name))
  ELSE /\ \E n \in Node : newNode(n, TRUE, perm) /\ Bind(name, n)
       /\ ret' = Reply("OK")
       /\ UNCHANGED <<refs, used, file>>

\* Seeded fault: the contents of an open file go with its name.
unlink_ReleaseNow(n) ==
  /\ linked' = [linked EXCEPT ![n] = FALSE]
  /\ used' = used - Len(data[n])
  /\ data' = [data EXCEPT ![n] = <<>>]

\* Seeded fault: the bytes of an open file are no longer charged.
unlink_Uncharge(n) ==
  /\ linked' = [linked EXCEPT ![n] = FALSE]
  /\ used' = used - Len(data[n])
  /\ data' = [data EXCEPT ![n] = IF refs[n] = 0 THEN <<>> ELSE @]

\* Seeded fault: the node is still marked as named.
unlink_StaysLinked(n) == UNCHANGED <<linked, used, data>>

\* A node loses its name; its bytes are released unless a handle holds it.
unlink(n) ==
  /\ linked' = [linked EXCEPT ![n] = FALSE]
  /\ used' = used - (IF refs[n] = 0 THEN Len(data[n]) ELSE 0)
  /\ data' = [data EXCEPT ![n] = IF refs[n] = 0 THEN <<>> ELSE @]

\* Seeded fault: a directory is removed with its entries still in the map.
RemoveErr_NotEmpty(name) ==
  IF LookupErr(name) # "OK" THEN LookupErr(name)
  ELSE IF name = <<>> THEN "ErrPermission"
  ELSE "OK"

RemoveErr(name) ==
  IF LookupErr(name) # "OK" THEN LookupErr(name)
  ELSE IF name = <<>> THEN "ErrPermission"
  ELSE IF isDir[nodes[name]] /\ HasChild(name) THEN "ENOTEMPTY"
  ELSE "OK"

Remove(name) ==
  IF RemoveErr(name) # "OK" THEN Fail(RemoveErr(name))
  ELSE /\ nodes' = [p \in DOMAIN nodes \ {name} |-> nodes[p]]
       /\ unlink(nodes[name])
       /\ ret' = Reply("OK")
       /\ UNCHANGED <<isDir, meta, refs, file>>

\* Seeded fault: a directory may be moved below itself, or replaced by a file.
RenameErr_IntoSelf(old, new) ==
  IF LookupErr(old) # "OK" THEN LookupErr(old)
  ELSE IF new = BadPath THEN "ErrInvalid"
  ELSE IF old = <<>> \/ new = <<>> THEN "ErrPermission"
  ELSE IF old = new THEN "OK"
  ELSE ParentErr(new)

RenameErr(old, new) ==
  IF LookupErr(old) # "OK" THEN LookupErr(old)
  ELSE IF new = BadPath THEN "ErrInvalid"
  ELSE IF old = <<>> \/ new = <<>> THEN "ErrPermission"
  ELSE IF old = new THEN "OK"
  ELSE IF Under(new, old) THEN "ErrInvalid"
  ELSE IF ParentErr(new) # "OK" THEN ParentErr(new)
  ELSE IF new \notin DOMAIN nodes THEN "OK"
  ELSE IF isDir[nodes[old]] /\ ~isDir[nodes[new]] THEN "ENOTDIR"
  ELSE IF ~isDir[nodes[old]] /\ isDir[nodes[new]] THEN "EISDIR"
  ELSE IF isDir[nodes[new]] /\ HasChild(new) THEN "ENOTEMPTY"
  ELSE "OK"

\* Seeded fault: only the renamed entry itself is moved.
Moved_Shallow(old) == {old}

\* The names Rename takes out of the map, and the ones it puts back.
Moved(old) == {p \in DOMAIN nodes : Under(p, old)}
MovedTo(old, new) == {Rebase(p, old, new) : p \in Moved(old)}

MoveNodes(old, new) ==
  nodes' = [q \in (DOMAIN nodes \ Moved(old)) \cup MovedTo(old, new) |->
              IF q \in MovedTo(old, new) THEN nodes[Rebase(q, new, old)]
              ELSE nodes[q]]

\* The model's paths are bounded; a rename that would lengthen one beyond the
\* bound is not considered.  With Path = Seq(Name) the guard is TRUE.
RenameInBounds(old, new) == MovedTo(old, new) \subseteq Path

Rename(old, new) ==
  \/ /\ RenameErr(old, new) # "OK"
     /\ Fail(RenameErr(old, new))
  \/ /\ RenameErr(old, new) = "OK"
     /\ old = new
     /\ Fail("OK")
  \/ /\ RenameErr(old, new) = "OK"
     /\ old # new
     /\ RenameInBounds(old, new)
     /\ IF new \in DOMAIN nodes THEN unlink(nodes[new])
        ELSE UNCHANGED <<linked, used, data>>
     /\ MoveNodes(old, new)
     /\ ret' = Reply("OK")
     /\ UNCHANGED <<isDir, meta, refs, file>>

SetMeta(n, m) ==
  /\ meta' = [meta EXCEPT ![n] = m]
  /\ ret' = Reply("OK")
  /\ UNCHANGED <<nodes, isDir, data, refs, linked, used, file>>

Chmod(name, perm) ==
  IF LookupErr(name) # "OK" THEN Fail(LookupErr(name))
  ELSE SetMeta(nodes[name], [meta[nodes[name]] EXCEPT !.perm = perm])

Chtimes(name, atime, mtime) ==
  IF LookupErr(name) # "OK" THEN Fail(LookupErr(name))
  ELSE SetMeta(nodes[name],
               [meta[nodes[name]] EXCEPT !.atime = atime, !.mtime = mtime])

-----------------------------------------------------------------------------
(* Open files: Stat, Close, Read, ReadAt, Write, WriteAt, Seek, Truncate,    *)
(* Chtimes, ReadDir                                                          *)

FileStat(h) ==
  IF ~IsOpen(h) THEN Fail("ErrClosed")
  ELSE /\ ret' = [Reply("OK") EXCEPT !.n = Len(data[file[h].n])]
       /\ UNCHANGED <<store, file>>

\* Seeded fault: a second Close is not noticed.
Close_Twice(h) ==
  /\ refs' = [refs EXCEPT ![file[h].n] = @ - 1]
  /\ file' = [file EXCEPT ![h] = ClosedFile]
  /\ ret' = Reply("OK")
  /\ UNCHANGED <<nodes, isDir, meta, data, linked, used>>

Close(h) ==
  LET n == file[h].n
      last == ~linked[n] /\ refs[n] = 1
  IN IF ~IsOpen(h) THEN Fail("ErrClosed")
     ELSE /\ refs' = [refs EXCEPT ![n] = @ - 1]
          /\ used' = used - (IF last THEN Len(data[n]) ELSE 0)
          /\ data' = [data EXCEPT ![n] = IF last THEN <<>> ELSE @]
          /\ file' = [file EXCEPT ![h] = ClosedFile]
          /\ ret' = Reply("OK")
          /\ UNCHANGED <<nodes, isDir, meta, linked>>

ReadErr(h, len, off) ==
  IF ~IsOpen(h) THEN "ErrClosed"
  ELSE IF ~file[h].readable THEN "ErrPermission"
  ELSE IF isDir[file[h].n] THEN "EISDIR"
  ELSE IF off < 0 THEN "ErrInvalid"
  ELSE IF len > 0 /\ off + len > Len(data[file[h].n]) THEN "EOF"
  ELSE "OK"

\* The bytes of d copied into a buffer of length len from offset off.
Slice(d, off, len) ==
  [i \in 1..(IF off >= Len(d) THEN 0
             ELSE IF len < Len(d) - off THEN len ELSE Len(d) - off) |-> d[off + i]]

readAt(h, len, off) ==
  LET err == ReadErr(h, len, off) IN
  [Reply(err) EXCEPT !.bytes = IF err \in {"OK", "EOF"}
                               THEN Slice(data[file[h].n], off, len) ELSE <<>>]

Read(h, len) ==
  LET r == readAt(h, len, file[h].pos) IN
  /\ ret' = r
  /\ file' = [file EXCEPT ![h].pos = Wrap(@ + Len(r.bytes))]
  /\ UNCHANGED store

ReadAt(h, len, off) ==
  /\ ret' = readAt(h, len, off)
  /\ UNCHANGED <<store, file>>

ResizeErr(n, size) ==
  IF size < 0 THEN "ErrInvalid"
  ELSE IF size > Limit THEN "ENOSPC"
  ELSE IF Wrap(size - Len(data[n])) > Wrap(Limit - used) THEN "ENOSPC"
  ELSE "OK"

Resized(d, size) == [i \in 1..size |-> IF i <= Len(d) THEN d[i] ELSE Zero]

Overwritten(d, p, off) ==
  [i \in 1..Len(d) |-> IF off < i /\ i <= off + Len(p) THEN p[i - off] ELSE d[i]]

WriteErr(h, p, off) ==
  LET n == file[h].n IN
  IF ~IsOpen(h) THEN "ErrClosed"
  ELSE IF ~file[h].writable THEN "ErrPermission"
  ELSE IF off < 0 THEN "ErrInvalid"
  ELSE IF off > Wrap(Limit - Len(p)) THEN "ENOSPC"
  ELSE IF Len(p) > 0 /\ Wrap(off + Len(p)) > Len(data[n])
       THEN ResizeErr(n, Wrap(off + Len(p)))
  ELSE "OK"

\* The effect on the store of a write that does not fail.
Store(n, p, off) ==
  LET end == Wrap(off + Len(p))
      grown == IF end > Len(data[n]) THEN Resized(data[n], end) ELSE data[n]
  IN IF Len(p) = 0 THEN UNCHANGED store
     ELSE /\ data' = [data EXCEPT ![n] = Overwritten(grown, p, off)]
          /\ used' = Wrap(used + (Len(grown) - Len(data[n])))
          /\ meta' = Touched(n)
          /\ UNCHANGED <<nodes, isDir, refs, linked>>

writeAt(h, p, off) ==
  LET err == WriteErr(h, p, off) IN
  /\ IF err = "OK" THEN Store(file[h].n, p, off) ELSE UNCHANGED store
  /\ ret' = [Reply(err) EXCEPT !.n = IF err = "OK" THEN Len(p) ELSE 0]

\* An append moves the position to the end before anything else is checked,
\* so a refused append leaves it there.
WritePos(h) == IF file[h].append THEN Len(data[file[h].n]) ELSE file[h].pos

Write(h, p) ==
  IF ~IsOpen(h) THEN Fail("ErrClosed")
  ELSE /\ writeAt(h, p, WritePos(h))
       /\ file' = [file EXCEPT ![h].pos = Wrap(WritePos(h) +
                     (IF WriteErr(h, p, WritePos(h)) = "OK" THEN Len(p) ELSE 0))]

WriteAt(h, p, off) ==
  IF ~IsOpen(h) THEN Fail("ErrClosed")
  ELSE IF file[h].append THEN Fail("ErrInvalid")
  ELSE writeAt(h, p, off) /\ UNCHANGED file

SeekBase(h, whence) == CASE whence = "start" -> 0
                         [] whence = "current" -> file[h].pos
                         [] whence = "end" -> Len(data[file[h].n])

Whence == {"start", "current", "end", "other"}

\* Seeded fault: the bound is checked on the sum, which may have wrapped.
SeekErr_Sum(h, off, whence) ==
  IF ~IsOpen(h) THEN "ErrClosed"
  ELSE IF whence = "other" THEN "ErrInvalid"
  ELSE IF Wrap(SeekBase(h, whence) + off) > Limit THEN "ErrInvalid"
  ELSE "OK"

SeekErr(h, off, whence) ==
  IF ~IsOpen(h) THEN "ErrClosed"
  ELSE IF whence = "other" THEN "ErrInvalid"
  ELSE IF \/ off < Wrap(-SeekBase(h, whence))
          \/ off > Wrap(Limit - SeekBase(h, whence)) THEN "ErrInvalid"
  ELSE "OK"

\* Reaching offset 0 drops the directory snapshot, so that a directory handle
\* (whose pos is always 0) is rewound by any seek that leaves it in place.
Seek(h, off, whence) ==
  LET pos == Wrap(SeekBase(h, whence) + off)
      moved == [file[h] EXCEPT !.pos = pos]
  IN IF SeekErr(h, off, whence) # "OK" THEN Fail(SeekErr(h, off, whence))
     ELSE /\ file' = [file EXCEPT ![h] =
                IF pos = 0
                THEN [moved EXCEPT !.listed = FALSE, !.entries = {},
                                     !.dirPos = 0, !.seen = {}]
                ELSE moved]
          /\ ret' = [Reply("OK") EXCEPT !.n = pos]
          /\ UNCHANGED store

TruncateErr(h, size) ==
  IF ~IsOpen(h) THEN "ErrClosed"
  ELSE IF ~file[h].writable THEN "ErrPermission"
  ELSE ResizeErr(file[h].n, size)

Truncate(h, size) ==
  LET n == file[h].n IN
  IF TruncateErr(h, size) # "OK" THEN Fail(TruncateErr(h, size))
  ELSE /\ data' = [data EXCEPT ![n] = Resized(@, size)]
       /\ used' = Wrap(used + Wrap(size - Len(data[n])))
       /\ meta' = Touched(n)
       /\ ret' = Reply("OK")
       /\ UNCHANGED <<nodes, isDir, refs, linked, file>>

FileChtimes(h, atime, mtime) ==
  IF ~IsOpen(h) THEN Fail("ErrClosed")
  ELSE SetMeta(file[h].n,
               [meta[file[h].n] EXCEPT !.atime = atime, !.mtime = mtime])

\* The index of an entry in the sorted listing.
Rank(entries, x) == Cardinality({y \in entries : y < x})

\* Seeded fault: the listing starts from the name the handle was opened by.
NameOf_Opened(h) == file[h].name

\* A listing starts from the name that now leads to the handle's node, which
\* need not be the name it was opened by.
NameOf(h) == CHOOSE p \in DOMAIN nodes : nodes[p] = file[h].n

FileReadDirErr(h) ==
  IF ~IsOpen(h) THEN "ErrClosed"
  ELSE IF file[h].listed THEN "OK"
  ELSE IF \A p \in DOMAIN nodes : nodes[p] # file[h].n THEN "ErrNotExist"
  ELSE ReadDirErr(NameOf(h))

Snapshot(h) == IF file[h].listed THEN file[h].entries ELSE ChildNames(NameOf(h))

\* Seeded fault: the page is not clamped to the listing.
PageEnd_Unclamped(dirPos, len, k) == IF k > 0 THEN dirPos + k ELSE len

\* The end of the page that starts at dirPos, of a listing with len entries.
PageEnd(dirPos, len, k) == IF k > 0 /\ k < len - dirPos THEN dirPos + k ELSE len

FileReadDir(h, k) ==
  LET f == file[h]
      entries == Snapshot(h)
      len == Cardinality(entries)
      end == PageEnd(f.dirPos, len, k)
      page == {x \in entries : Rank(entries, x) \in f.dirPos..(end - 1)}
      eof == f.dirPos = len /\ k > 0
  IN IF FileReadDirErr(h) # "OK" THEN Fail(FileReadDirErr(h))
     ELSE /\ file' = [file EXCEPT ![h] =
                [f EXCEPT !.listed = TRUE, !.entries = entries,
                          !.dirPos = IF eof THEN f.dirPos ELSE end,
                          !.seen = IF eof THEN f.seen ELSE f.seen \cup page]]
          /\ ret' = IF eof THEN Reply("EOF") ELSE [Reply("OK") EXCEPT !.names = page]
          /\ UNCHANGED store

-----------------------------------------------------------------------------

Init ==
  /\ nodes = [p \in {<<>>} |-> Root]
  /\ isDir = [n \in Node |-> n = Root]
  /\ meta = [n \in Node |-> [perm |-> RootPerm, atime |-> Now, mtime |-> Now]]
  /\ data = [n \in Node |-> <<>>]
  /\ refs = [n \in Node |-> 0]
  /\ linked = [n \in Node |-> n = Root]
  /\ used = 0
  /\ file = [h \in Handle |-> ClosedFile]
  /\ ret = Reply("OK")

PathArg == Path \cup {BadPath}

NameStep ==
  \E name \in PathArg :
    \/ Stat(name)
    \/ ReadDir(name)
    \/ Remove(name)
    \/ \E new \in PathArg : Rename(name, new)
    \/ \E perm \in Perm : Mkdir(name, perm) \/ Chmod(name, perm)
    \/ \E a, m \in Stamp : Chtimes(name, a, m)

FileStep ==
  \E h \in Handle :
    \/ \E name \in PathArg, fl \in Flag, perm \in Perm : OpenFile(h, name, fl, perm)
    \/ FileStat(h)
    \/ Close(h)
    \/ \E len \in ReadLen : Read(h, len) \/ \E off \in Offset : ReadAt(h, len, off)
    \/ \E p \in Payload : Write(h, p) \/ \E off \in Offset : WriteAt(h, p, off)
    \/ \E off \in Offset, whence \in Whence : Seek(h, off, whence)
    \/ \E size \in Offset : Truncate(h, size)
    \/ \E a, m \in Stamp : FileChtimes(h, a, m)
    \/ \E k \in Count : FileReadDir(h, k)

Next == NameStep \/ FileStep

Spec == Init /\ [][Next]_vars

-----------------------------------------------------------------------------
(* Properties *)

FileType == [closed: BOOLEAN, n: Node, name: Path, readable: BOOLEAN,
             writable: BOOLEAN, append: BOOLEAN, pos: Int, listed: BOOLEAN,
             entries: SUBSET Name, dirPos: Nat, seen: SUBSET Name]

\* The types of the state.  refs is a count: a second Close must not take it
\* below zero (memoryFile.Close returns ErrClosed first).
TypeOK ==
  /\ DOMAIN nodes \subseteq Path
  /\ \A p \in DOMAIN nodes : nodes[p] \in Node
  /\ isDir \in [Node -> BOOLEAN]
  /\ meta \in [Node -> [perm: Perm, atime: Stamp, mtime: Stamp]]
  /\ data \in [Node -> Seq(Byte)]
  /\ refs \in [Node -> Nat]
  /\ linked \in [Node -> BOOLEAN]
  /\ used \in Int
  /\ file \in [Handle -> FileType]
  /\ ret.err \in Err

\* The flat map of names is always a tree: "." is a directory, and the parent
\* of every name is in the map and is a directory, whatever sequence of
\* creations, removals and renames of subtrees led here.
TreeShape ==
  /\ <<>> \in DOMAIN nodes
  /\ isDir[nodes[<<>>]]
  /\ \A p \in DOMAIN nodes :
       Dir(p) \in DOMAIN nodes /\ isDir[nodes[Dir(p)]]

\* node.linked, which unlink and Close consult instead of searching the map,
\* agrees with the map, and no node has two names.
NamesExact ==
  /\ \A n \in Node : linked[n] <=> \E p \in DOMAIN nodes : nodes[p] = n
  /\ \A p, q \in DOMAIN nodes : nodes[p] = nodes[q] => p = q

HandlesOn(n) == {h \in Handle : IsOpen(h) /\ file[h].n = n}

\* node.refs is the number of open files on the node, so the last Close is
\* recognised exactly once.
RefsExact == \A n \in Node : refs[n] = Cardinality(HandlesOn(n))

\* The bytes that count against the budget: the contents of every file that
\* is still named or still open.
Charged == {c \in Node \X (1..Limit) : Live(c[1]) /\ c[2] <= Len(data[c[1]])}

\* The byte budget is exact: used is the number of bytes held by named files
\* and by unlinked files while they remain open (the comment on Memory), it
\* never exceeds the limit, and nothing is retained for any other node.
Quota ==
  /\ used = Cardinality(Charged)
  /\ used <= Limit
  /\ \A n \in Node : Len(data[n]) <= Limit
  /\ \A n \in Node : ~Live(n) => data[n] = <<>>

\* A file position stays within 0..limit, which is what keeps the int64
\* arithmetic of Seek and writeAt from overflowing.
PositionsInRange == \A h \in Handle : file[h].pos \in 0..Limit

\* Directory paging hands out every entry of the snapshot at most once and in
\* sorted order: dirPos counts exactly the entries delivered so far, and none
\* left over sorts before one already delivered.
PagingExact ==
  \A h \in Handle :
    LET f == file[h] IN
    /\ f.seen \subseteq f.entries
    /\ f.dirPos = Cardinality(f.seen)
    /\ \A x \in f.seen, y \in f.entries \ f.seen : x < y

\* One call takes at most one node out of the namespace, and never a
\* directory that still has entries: neither Remove nor a Rename over an
\* existing name loses a subtree.
NoSubtreeLost ==
  [][/\ \A p \in DOMAIN nodes : ~linked'[nodes[p]] => ~HasChild(p)
     /\ \A p, q \in DOMAIN nodes :
          ~linked'[nodes[p]] /\ ~linked'[nodes[q]] => p = q]_vars

\* A rename moves a subtree as a whole: whenever a node changes its name, all
\* that was below the old name is now at the same place below the new one.
AtomicMove ==
  [][\A p \in DOMAIN nodes, q \in DOMAIN nodes' :
       nodes'[q] = nodes[p] /\ q # p =>
         \A r \in DOMAIN nodes : Under(r, p) =>
           /\ Rebase(r, p, q) \in DOMAIN nodes'
           /\ nodes'[Rebase(r, p, q)] = nodes[r]]_vars

\* A listing is of the directory the handle was opened on, also when that
\* directory has been renamed and its name taken by another one.
ListsOwnNode ==
  [][\A h \in Handle : file'[h].listed /\ ~file[h].listed =>
       \E p \in DOMAIN nodes : /\ nodes[p] = file[h].n
                               /\ file'[h].entries = ChildNames(p)]_vars

\* The state of FileStore: the directories in use, what each handle is open on,
\* and the answer of the last call.
Dirs == {n \in Node : isDir[n] /\ (n \in {nodes[p] : p \in DOMAIN nodes} \/ HandlesOn(n) # {})}
Opens == [h \in Handle |-> [file |-> file[h].n, read |-> file[h].readable,
                            write |-> file[h].writable]]
Answer == [refused |-> ret.err \notin {"OK", "EOF"}, bytes |-> ret.bytes]

Abstract == INSTANCE FileStore WITH
  File <- Node, tree <- nodes, dirs <- Dirs, content <- data, open <- Opens, reply <- Answer

\* Memory implements FileStore: reference counts, the linked flag and the byte
\* counter are bookkeeping that no caller can tell from a store that looks at
\* all names and handles each time.  In particular the contents of an open
\* file change only through a writable handle on that very file, however its
\* name is removed, replaced or reused; bytes are released with the last name
\* and handle, neither earlier nor later; and a refused call changes nothing,
\* but for the file that O_CREATE|O_TRUNC without write access leaves behind.
ImplementsFileStore == Abstract!Spec
=============================================================================
