------------------------- MODULE MemoryStoreProofs -------------------------
(***************************************************************************)
(* What the calls of a handle return: directory listings are complete and   *)
(* of the handle's own directory, and Memory implements FileStore.          *)
(***************************************************************************)
EXTENDS MemoryQuotaProofs

-----------------------------------------------------------------------------
(* Ranks in a sorted listing *)

\* The first k entries of a sorted listing.
Before(entries, k) == {x \in entries : Rank(entries, x) < k}

\* Entries sort by their ranks, and ranks are indices.
LEMMA RankOrder ==
  ASSUME NEW S \in SUBSET Int, IsFiniteSet(S)
  PROVE  /\ \A x \in S : Rank(S, x) \in 0..(Cardinality(S) - 1)
         /\ \A x, y \in S : x < y <=> Rank(S, x) < Rank(S, y)
<1>1. ASSUME NEW x \in S
      PROVE  /\ IsFiniteSet({y \in S : y < x})
             /\ Rank(S, x) \in Nat
             /\ Rank(S, x) < Cardinality(S)
  <2> DEFINE T == {y \in S : y < x}
  <2>1. T \in SUBSET S /\ x \notin T
    OBVIOUS
  <2>2. IsFiniteSet(T) /\ Cardinality(T) <= Cardinality(S) /\ Cardinality(S) # Cardinality(T)
    BY <2>1, FS_Subset
  <2>3. Cardinality(T) \in Nat /\ Cardinality(S) \in Nat
    BY <2>2, FS_CardinalityType
  <2> QED
    BY <2>2, <2>3 DEF Rank
<1>2. ASSUME NEW x \in S, NEW y \in S, x < y
      PROVE  Rank(S, x) < Rank(S, y)
  <2> DEFINE T == {z \in S : z < x}
             U == {z \in S : z < y}
  <2>1. T \in SUBSET U /\ x \in U /\ x \notin T
    <3>1. x \in Int /\ y \in Int /\ \A z \in S : z \in Int
      OBVIOUS
    <3>2. \A z \in S : z < x => z < y
      BY <1>2, <3>1
    <3>3. ~(x < x)
      BY <3>1
    <3> HIDE <1>2
    <3>4. T \in SUBSET U
      BY <3>2
    <3> QED
      BY <1>2, <3>3, <3>4
  <2>2. IsFiniteSet(U)
    BY <1>1
  <2>3. Cardinality(T) <= Cardinality(U) /\ Cardinality(U) # Cardinality(T)
    BY <2>1, <2>2, FS_Subset
  <2>4. Cardinality(T) = Rank(S, x) /\ Cardinality(U) = Rank(S, y)
    BY DEF Rank
  <2> QED
    BY <1>1, <2>3, <2>4
<1>3. Cardinality(S) \in Nat
  BY FS_CardinalityType
<1>4. ASSUME NEW x \in S
      PROVE  Rank(S, x) \in 0..(Cardinality(S) - 1)
  <2>1. PICK r \in Nat, n \in Nat : r = Rank(S, x) /\ n = Cardinality(S) /\ r < n
    BY <1>1, <1>3
  <2> QED
    BY <2>1
<1>5. ASSUME NEW x \in S, NEW y \in S
      PROVE  x < y <=> Rank(S, x) < Rank(S, y)
  <2>1. PICK r \in Nat, s \in Nat : r = Rank(S, x) /\ s = Rank(S, y)
    BY <1>1
  <2>2. x \in Int /\ y \in Int
    OBVIOUS
  <2>3. (x < y => r < s) /\ (y < x => s < r) /\ (x = y => r = s)
    BY <1>2, <2>1
  <2> QED
    BY <2>1, <2>2, <2>3
<1> QED
  BY <1>4, <1>5

\* Every index is the rank of an entry, so the first k entries are k entries.
LEMMA BeforeCounts ==
  ASSUME NEW S \in SUBSET Int, IsFiniteSet(S), NEW k \in 0..Cardinality(S)
  PROVE  Cardinality(Before(S, k)) = k
<1>1. PICK n \in Nat : n = Cardinality(S)
  BY FS_CardinalityType
<1>2. /\ \A x \in S : x \in Int /\ Rank(S, x) \in 0..(n - 1)
      /\ \A x, y \in S : x < y <=> Rank(S, x) < Rank(S, y)
  BY <1>1, RankOrder
<1>3. ASSUME NEW x \in S, NEW y \in S, Rank(S, x) = Rank(S, y)
      PROVE  x = y
  <2>1. PICK r \in Int : r = Rank(S, x) /\ r = Rank(S, y)
    BY <1>2, <1>3
  <2>2. ~(r < r)
    OBVIOUS
  <2>3. ~(x < y) /\ ~(y < x)
    <3>1. (x < y <=> Rank(S, x) < Rank(S, y)) /\ (y < x <=> Rank(S, y) < Rank(S, x))
      BY <1>2
    <3> QED
      BY <2>1, <2>2, <3>1
  <2> QED
    BY <1>2, <2>3
<1> DEFINE f == [x \in S |-> Rank(S, x)]
           B == Before(S, k)
           g == [x \in B |-> Rank(S, x)]
<1>4. f \in Injection(S, 0..(n - 1))
  BY <1>2, <1>3 DEF Injection, IsInjective
<1>5. IsFiniteSet(0..(n - 1)) /\ Cardinality(0..(n - 1)) = n
  <2>1. 0 \in Int /\ n - 1 \in Int /\ (IF 0 > n - 1 THEN 0 ELSE (n - 1) - 0 + 1) = n
    OBVIOUS
  <2> QED
    BY <2>1, FS_Interval
<1>6. f \in Surjection(S, 0..(n - 1))
  BY <1>1, <1>4, <1>5, FS_Injection
<1>7. \A i \in 0..(n - 1) : \E x \in S : Rank(S, x) = i
  <2>1. \A i \in 0..(n - 1) : \E x \in S : f[x] = i
    BY <1>6 DEF Surjection
  <2> QED
    BY <2>1
<1>8. /\ B \subseteq S
      /\ \A x \in S : Rank(S, x) \in 0..(k - 1) <=> x \in B
  BY <1>1, <1>2 DEF Before
<1>9. g \in [B -> 0..(k - 1)] /\ \A x, y \in B : g[x] = g[y] => x = y
  BY <1>3, <1>8
<1>10. \A i \in 0..(k - 1) : \E x \in B : g[x] = i
  BY <1>1, <1>7, <1>8
<1>11. g \in Bijection(B, 0..(k - 1))
  BY <1>9, <1>10 DEF Bijection, Injection, Surjection, IsInjective
<1>12. IsFiniteSet(B)
  BY <1>8, FS_Subset
<1>13. Cardinality(0..(k - 1)) = Cardinality(B)
  BY <1>11, <1>12, FS_Bijection DEF ExistsBijection
<1>14. Cardinality(0..(k - 1)) = k
  BY <1>1, FS_Interval
<1> QED
  BY <1>13, <1>14

-----------------------------------------------------------------------------
(* What a step does to the handles *)

\* What every memoryFile satisfies: a closed one holds nothing, an open one
\* can be read or written, and the listing has handed out its first dirPos
\* entries.
HandleOK(f) ==
  /\ f.closed => f.n = Root /\ ~f.readable /\ ~f.writable
  /\ ~f.closed => f.readable \/ f.writable
  /\ ~f.listed => f.entries = {} /\ f.dirPos = 0
  /\ f.dirPos <= Cardinality(f.entries)
  /\ f.seen = Before(f.entries, f.dirPos)

HandleInv == \A h \in Handle : HandleOK(file[h])

\* Handle h becomes f.
Becomes(h, f) == file' = [file EXCEPT ![h] = f]

Opened(h, n, name, fl) == Becomes(h, OpenedFile(n, name, fl))
Repositioned(h, pos) == Becomes(h, [file[h] EXCEPT !.pos = pos])
Rewound(h) ==
  \E pos \in Int : Becomes(h, [file[h] EXCEPT !.pos = pos, !.listed = FALSE, !.entries = {},
                                              !.dirPos = 0, !.seen = {}])
Listed(h, k) == FileReadDirErr(h) = "OK" /\ FileReadDir(h, k)

LEMMA HandleCases ==
  ASSUME TypeInv, [Next]_vars
  PROVE  \/ UNCHANGED file
         \/ \E h \in Handle, n \in Node, name \in Path, fl \in Flag : Opened(h, n, name, fl)
         \/ \E h \in Handle : Becomes(h, ClosedFile)
         \/ \E h \in Handle, pos \in Int : Repositioned(h, pos)
         \/ \E h \in Handle : Rewound(h)
         \/ \E h \in Handle, k \in Count : Listed(h, k)
<1> DEFINE Goal ==
      \/ UNCHANGED file
      \/ \E h \in Handle, n \in Node, name \in Path, fl \in Flag : Opened(h, n, name, fl)
      \/ \E h \in Handle : Becomes(h, ClosedFile)
      \/ \E h \in Handle, pos \in Int : Repositioned(h, pos)
      \/ \E h \in Handle : Rewound(h)
      \/ \E h \in Handle, k \in Count : Listed(h, k)
<1>1. CASE UNCHANGED vars
  BY <1>1 DEF vars
<1>2. CASE NameStep
  BY <1>2 DEF NameStep, Stat, ReadDir, Remove, Rename, Mkdir, Chmod, Chtimes, SetMeta, Fail
<1>3. ASSUME NEW h \in Handle, NEW name \in PathArg, NEW fl \in Flag, NEW perm \in Perm,
             OpenFile(h, name, fl, perm)
      PROVE  Goal
  <2>1. CASE UNCHANGED file
    BY <2>1
  <2>2. CASE OpenExisting(h, name, fl)
    <3>1. name \in DOMAIN nodes
      BY <2>2 DEF OpenExisting, LookupErr
    <3>2. nodes[name] \in Node /\ name \in Path
      BY <3>1 DEF TypeInv, TypeOK
    <3>3. Opened(h, nodes[name], name, fl)
      BY <2>2 DEF OpenExisting, Opened, Becomes
    <3> QED
      BY <3>2, <3>3
  <2>3. CASE OpenCreating(h, name, fl, perm) /\ ~UNCHANGED file
    <3>1. name \in Path
      BY <2>3 DEF OpenCreating, LookupErr, PathArg
    <3>2. PICK n \in Node : Opened(h, n, name, fl)
      BY <2>3 DEF OpenCreating, Opened, Becomes
    <3> QED
      BY <3>1, <3>2
  <2> QED
    BY <1>3, <2>1, <2>2, <2>3 DEF OpenFile, OpenRefused, Fail
<1>4. ASSUME NEW h \in Handle,
             \/ FileStat(h) \/ Close(h)
             \/ \E len \in ReadLen, off \in Offset : ReadAt(h, len, off)
             \/ \E p \in Payload, off \in Offset : WriteAt(h, p, off)
             \/ \E size \in Offset : Truncate(h, size)
             \/ \E a, m \in Stamp : FileChtimes(h, a, m)
      PROVE  Goal
  BY <1>4 DEF FileStat, Close, ReadAt, WriteAt, Truncate, FileChtimes, SetMeta, Fail, Becomes
<1>5. ASSUME NEW h \in Handle, NEW len \in ReadLen, Read(h, len)
      PROVE  Goal
  <2>1. PICK bytes \in Seq(Byte) : Repositioned(h, Wrap(file[h].pos + Len(bytes)))
    <3>1. len \in Nat /\ file[h].pos \in Int
      BY ArgumentAssumption, StoreAssumption DEF TypeInv, TypeOK, FileType
    <3>2. readAt(h, len, file[h].pos).bytes \in Seq(Byte)
      BY <3>1, readAtType
    <3> QED
      BY <1>5, <3>2 DEF Read, Repositioned, Becomes
  <2>2. Wrap(file[h].pos + Len(bytes)) \in Int
    <3>1. file[h].pos + Len(bytes) \in Int
      BY LenProperties DEF TypeInv, TypeOK, FileType
    <3> QED
      BY <3>1, WrapType
  <2> QED
    BY <2>1, <2>2
<1>6. ASSUME NEW h \in Handle, NEW p \in Payload, Write(h, p)
      PROVE  Goal
  <2>1. CASE ~IsOpen(h)
    BY <1>6, <2>1 DEF Write, Fail
  <2>2. CASE IsOpen(h)
    <3>1. PICK n \in Int : Repositioned(h, Wrap(WritePos(h) + n))
      <4>1. Len(p) \in Int /\ 0 \in Int
        BY ArgumentAssumption, LenProperties
      <4>2. CASE WriteErr(h, p, WritePos(h)) = "OK"
        BY <1>6, <2>2, <4>1, <4>2 DEF Write, Repositioned, Becomes
      <4>3. CASE WriteErr(h, p, WritePos(h)) # "OK"
        BY <1>6, <2>2, <4>1, <4>3 DEF Write, Repositioned, Becomes
      <4> QED
        BY <4>2, <4>3
    <3>2. WritePos(h) \in Int
      BY LenProperties DEF WritePos, TypeInv, TypeOK, FileType
    <3>3. Wrap(WritePos(h) + n) \in Int
      <4>1. WritePos(h) + n \in Int
        BY <3>2
      <4> QED
        BY <4>1, WrapType
    <3> QED
      BY <3>1, <3>3
  <2> QED
    BY <2>1, <2>2
<1>7. ASSUME NEW h \in Handle, NEW off \in Offset, NEW whence \in Whence, Seek(h, off, whence)
      PROVE  Goal
  <2>1. CASE SeekErr(h, off, whence) # "OK"
    BY <1>7, <2>1 DEF Seek, Fail
  <2>2. CASE SeekErr(h, off, whence) = "OK"
    <3>1. PICK base \in Int : base = SeekBase(h, whence)
      <4>1. whence \in {"start", "current", "end"}
        BY <2>2 DEF SeekErr, Whence
      <4>2. file[h].pos \in Int /\ file[h].n \in Node /\ data[file[h].n] \in Seq(Byte)
        BY DEF TypeInv, TypeOK, FileType
      <4>3. Len(data[file[h].n]) \in Int /\ 0 \in Int
        BY <4>2, LenProperties
      <4> QED
        BY <4>1, <4>2, <4>3 DEF SeekBase
    <3>2. off \in Int
      BY ArgumentAssumption, StoreAssumption DEF Int64
    <3>3. PICK pos \in Int : pos = Wrap(base + off)
      <4>1. base + off \in Int
        BY <3>2
      <4> QED
        BY <4>1, WrapType
    <3>4. \/ Repositioned(h, pos)
          \/ Becomes(h, [[file[h] EXCEPT !.pos = pos] EXCEPT !.listed = FALSE, !.entries = {},
                           !.dirPos = 0, !.seen = {}])
      BY <1>7, <2>2, <3>1, <3>3 DEF Seek, Repositioned, Becomes
    <3>5. [[file[h] EXCEPT !.pos = pos] EXCEPT !.listed = FALSE, !.entries = {},
              !.dirPos = 0, !.seen = {}]
          = [file[h] EXCEPT !.pos = pos, !.listed = FALSE, !.entries = {}, !.dirPos = 0, !.seen = {}]
      <4>1. file[h] \in FileType
        BY DEF TypeInv, TypeOK
      <4> QED
        BY <4>1 DEF FileType
    <3> QED
      BY <3>4, <3>5 DEF Rewound
  <2> QED
    BY <2>1, <2>2
<1>8. ASSUME NEW h \in Handle, NEW k \in Count, FileReadDir(h, k)
      PROVE  Goal
  BY <1>8 DEF FileReadDir, Fail, Listed
<1>9. CASE FileStep
  BY <1>3, <1>4, <1>5, <1>6, <1>7, <1>8, <1>9 DEF FileStep
<1> QED
  BY <1>1, <1>2, <1>9 DEF Next

-----------------------------------------------------------------------------
(* Listings *)

LEMMA OneHandle ==
  ASSUME TypeInv, HandleInv, NEW h \in Handle, NEW f, Becomes(h, f), HandleOK(f)
  PROVE  HandleInv'
<1>1. \A g \in Handle : file'[g] = IF g = h THEN f ELSE file[g]
  BY DEF Becomes, TypeInv, TypeOK
<1> QED
  BY <1>1 DEF HandleInv

LEMMA NothingListed ==
  ASSUME NEW f, f.entries = {}, f.dirPos = 0, f.seen = {},
         f.closed => f.n = Root /\ ~f.readable /\ ~f.writable,
         ~f.closed => f.readable \/ f.writable
  PROVE  HandleOK(f)
<1>1. f.dirPos <= Cardinality(f.entries)
  BY FS_EmptySet
<1>2. f.seen = Before(f.entries, f.dirPos)
  BY DEF Before
<1> QED
  BY <1>1, <1>2 DEF HandleOK

\* A page starts where the last one ended.
LEMMA ListedHandle ==
  ASSUME TypeInv, HandleInv, NEW h \in Handle, NEW k \in Count, Listed(h, k)
  PROVE  /\ HandleInv'
         /\ \A g \in Handle \ {h} : file'[g] = file[g]
         /\ file'[h].entries = Snapshot(h)
<1>1. PICK f \in FileType : f = file[h]
  BY DEF TypeInv, TypeOK
<1>2. PICK entries \in SUBSET Name : entries = Snapshot(h) /\ IsFiniteSet(entries)
  BY SnapshotType
<1>3. PICK len \in Nat : len = Cardinality(entries)
  BY <1>2, FS_CardinalityType
<1>4. /\ f.dirPos \in 0..len /\ k \in Int
      /\ f.seen = Before(entries, f.dirPos)
  <2>1. HandleOK(f) /\ f.dirPos \in Nat /\ k \in Int
    BY <1>1, ArgumentAssumption DEF HandleInv, FileType
  <2>2. CASE f.listed
    <3>1. entries = f.entries
      BY <1>1, <1>2, <2>2 DEF Snapshot
    <3> QED
      BY <1>3, <2>1, <3>1 DEF HandleOK
  <2>3. CASE ~f.listed
    <3>1. f.dirPos = 0 /\ f.seen = {}
      BY <2>1, <2>3 DEF HandleOK, Before
    <3>2. \A x \in entries : Rank(entries, x) \in Nat
      BY <1>2, <1>3, RankOrder, PathAssumption
    <3>3. Before(entries, 0) = {}
      BY <3>2 DEF Before
    <3> QED
      BY <2>1, <3>1, <3>3
  <2> QED
    BY <2>2, <2>3
<1>5. PICK end \in f.dirPos..len : end = PageEnd(f.dirPos, len, k)
  BY <1>4 DEF PageEnd
<1> DEFINE page == {x \in entries : Rank(entries, x) \in f.dirPos..(end - 1)}
           eof == f.dirPos = len /\ k > 0
<1>6. PICK pos \in Nat : pos = IF eof THEN f.dirPos ELSE end
  BY <1>4, <1>5
<1>7. PICK seen \in SUBSET Name : seen = IF eof THEN f.seen ELSE f.seen \cup page
  BY <1>1 DEF FileType
<1>8. seen = Before(entries, pos)
  <2>1. CASE eof
    BY <1>4, <1>6, <1>7, <2>1
  <2>2. CASE ~eof
    <3>1. \A x \in entries : Rank(entries, x) \in Nat
      BY <1>2, <1>3, RankOrder, PathAssumption
    <3>2. f.seen \cup page = Before(entries, end)
      BY <1>4, <1>5, <3>1 DEF Before
    <3> QED
      BY <1>6, <1>7, <2>2, <3>2
  <2> QED
    BY <2>1, <2>2
<1> DEFINE new == [f EXCEPT !.listed = TRUE, !.entries = entries, !.dirPos = pos, !.seen = seen]
<1>9. Becomes(h, new)
  BY <1>1, <1>2, <1>3, <1>5, <1>6, <1>7 DEF Listed, FileReadDir, Becomes
<1>10. /\ new.listed = TRUE /\ new.entries = entries /\ new.dirPos = pos /\ new.seen = seen
       /\ new.closed = f.closed /\ new.n = f.n
       /\ new.readable = f.readable /\ new.writable = f.writable
  BY DEF FileType
<1> HIDE DEF new
<1>11. HandleOK(new)
  BY <1>1, <1>3, <1>4, <1>5, <1>6, <1>8, <1>10 DEF HandleOK, HandleInv
<1>12. file'[h] = new /\ \A g \in Handle \ {h} : file'[g] = file[g]
  BY <1>9 DEF Becomes, TypeInv, TypeOK
<1> QED
  BY <1>2, <1>9, <1>10, <1>11, <1>12, OneHandle

LEMMA HandleStep ==
  ASSUME TypeInv, HandleInv, [Next]_vars
  PROVE  HandleInv'
<1>1. CASE UNCHANGED file
  BY <1>1 DEF HandleInv
<1>2. ASSUME NEW h \in Handle, NEW n \in Node, NEW name \in Path, NEW fl \in Flag,
             Opened(h, n, name, fl)
      PROVE  HandleInv'
  <2>1. fl.read \/ fl.write
    BY ArgumentAssumption
  <2>2. PICK f : f = OpenedFile(n, name, fl)
    OBVIOUS
  <2>3. /\ f.entries = {} /\ f.dirPos = 0 /\ f.seen = {} /\ ~f.closed
        /\ f.readable \/ f.writable
    BY <2>1, <2>2 DEF OpenedFile
  <2> QED
    BY <1>2, <2>2, <2>3, OneHandle, NothingListed DEF Opened
<1>3. ASSUME NEW h \in Handle, Becomes(h, ClosedFile)
      PROVE  HandleInv'
  <2>1. PICK f : f = ClosedFile
    OBVIOUS
  <2>2. /\ f.entries = {} /\ f.dirPos = 0 /\ f.seen = {} /\ f.closed
        /\ f.n = Root /\ ~f.readable /\ ~f.writable
    BY <2>1 DEF ClosedFile
  <2> QED
    BY <1>3, <2>1, <2>2, OneHandle, NothingListed
<1>4. ASSUME NEW h \in Handle, NEW pos \in Int, Repositioned(h, pos)
      PROVE  HandleInv'
  <2>1. PICK f \in FileType : f = file[h]
    BY DEF TypeInv, TypeOK
  <2> DEFINE new == [f EXCEPT !.pos = pos]
  <2>2. Becomes(h, new)
    BY <1>4, <2>1 DEF Repositioned
  <2>3. /\ new.listed = f.listed /\ new.entries = f.entries /\ new.dirPos = f.dirPos
        /\ new.seen = f.seen /\ new.closed = f.closed /\ new.n = f.n
        /\ new.readable = f.readable /\ new.writable = f.writable
    BY DEF FileType
  <2> HIDE DEF new
  <2>4. HandleOK(new)
    BY <2>1, <2>3 DEF HandleOK, HandleInv
  <2> QED
    BY <2>2, <2>4, OneHandle
<1>5. ASSUME NEW h \in Handle, Rewound(h)
      PROVE  HandleInv'
  <2>1. PICK f \in FileType : f = file[h]
    BY DEF TypeInv, TypeOK
  <2>2. PICK pos \in Int : Becomes(h, [f EXCEPT !.pos = pos, !.listed = FALSE, !.entries = {},
                                                !.dirPos = 0, !.seen = {}])
    BY <1>5, <2>1 DEF Rewound
  <2> DEFINE new == [f EXCEPT !.pos = pos, !.listed = FALSE, !.entries = {}, !.dirPos = 0,
                              !.seen = {}]
  <2>3. /\ new.entries = {} /\ new.dirPos = 0 /\ new.seen = {}
        /\ new.closed = f.closed /\ new.n = f.n
        /\ new.readable = f.readable /\ new.writable = f.writable
    BY DEF FileType
  <2>4. Becomes(h, new)
    BY <2>2
  <2> HIDE DEF new
  <2>5. HandleOK(new)
    BY <2>1, <2>3, NothingListed DEF HandleOK, HandleInv
  <2> QED
    BY <2>4, <2>5, OneHandle
<1>6. ASSUME NEW h \in Handle, NEW k \in Count, Listed(h, k)
      PROVE  HandleInv'
  BY <1>6, ListedHandle
<1> QED
  BY <1>1, <1>2, <1>3, <1>4, <1>5, <1>6, HandleCases

StoreInv == QuotaInv /\ HandleInv

LEMMA StoreInit == Init => StoreInv
<1> SUFFICES ASSUME Init PROVE HandleInv
  BY QuotaInit DEF StoreInv
<1>1. PICK f : f = ClosedFile
  OBVIOUS
<1>2. /\ f.entries = {} /\ f.dirPos = 0 /\ f.seen = {} /\ f.closed
      /\ f.n = Root /\ ~f.readable /\ ~f.writable
  BY <1>1 DEF ClosedFile
<1>3. HandleOK(f)
  BY <1>2, NothingListed
<1> QED
  BY <1>1, <1>3 DEF Init, HandleInv

LEMMA StoreStep == StoreInv /\ [Next]_vars => StoreInv'
BY QuotaStep, HandleStep DEF StoreInv, QuotaInv, TreeInv

\* Pages of a directory listing follow each other without a gap or an overlap,
\* whatever sizes are asked for and however often the listing is rewound
\* (memoryFile.ReadDir and Seek).
THEOREM PagingCorrect == Spec => []PagingExact
<1>1. StoreInv => PagingExact
  <2> SUFFICES ASSUME StoreInv, NEW h \in Handle
               PROVE  /\ file[h].seen \subseteq file[h].entries
                      /\ file[h].dirPos = Cardinality(file[h].seen)
                      /\ \A x \in file[h].seen, y \in file[h].entries \ file[h].seen : x < y
    BY DEF PagingExact
  <2>1. PICK f \in FileType : f = file[h] /\ IsFiniteSet(f.entries)
    BY DEF StoreInv, QuotaInv, TreeInv, TypeInv, TypeOK, Finite
  <2>2. PICK S \in SUBSET Int : S = f.entries /\ IsFiniteSet(S)
    BY <2>1, PathAssumption DEF FileType
  <2>3. PICK n \in Nat : n = Cardinality(S)
    BY <2>2, FS_CardinalityType
  <2>4. f.dirPos \in 0..n /\ f.seen = Before(S, f.dirPos)
    BY <2>1, <2>2, <2>3 DEF StoreInv, HandleInv, HandleOK, FileType
  <2>5. f.dirPos = Cardinality(f.seen)
    BY <2>2, <2>3, <2>4, BeforeCounts
  <2>6. ASSUME NEW x \in f.seen, NEW y \in f.entries \ f.seen
        PROVE  x < y
    <3>1. x \in S /\ y \in S /\ Rank(S, x) < f.dirPos /\ ~(Rank(S, y) < f.dirPos)
      BY <2>2, <2>4, <2>6 DEF Before
    <3>2. PICK r \in Int, s \in Int : r = Rank(S, x) /\ s = Rank(S, y)
      BY <2>2, <2>3, <3>1, RankOrder
    <3>3. r < s
      BY <2>4, <3>1, <3>2
    <3> QED
      BY <2>2, <3>1, <3>2, <3>3, RankOrder
  <2>7. f.seen \subseteq f.entries
    BY <2>2, <2>4 DEF Before
  <2> QED
    BY <2>1, <2>5, <2>6, <2>7
<1> QED
  BY <1>1, StoreInit, StoreStep, PTL DEF Spec

LEMMA OwnListing ==
  ASSUME StoreInv, [Next]_vars, NEW h \in Handle, file'[h].listed, ~file[h].listed
  PROVE  \E p \in DOMAIN nodes : nodes[p] = file[h].n /\ file'[h].entries = ChildNames(p)
<1>1. TypeInv /\ HandleInv /\ file \in [Handle -> FileType]
  BY DEF StoreInv, QuotaInv, TreeInv, TypeInv, TypeOK
<1>2. ASSUME NEW g \in Handle, NEW f, Becomes(g, f), g = h => f.listed = file[h].listed \/ ~f.listed
      PROVE  FALSE
  BY <1>1, <1>2 DEF Becomes
<1>3. CASE UNCHANGED file
  BY <1>3
<1>4. ASSUME NEW g \in Handle, NEW n \in Node, NEW name \in Path, NEW fl \in Flag,
             Opened(g, n, name, fl)
      PROVE  FALSE
  <2>1. ~OpenedFile(n, name, fl).listed
    BY DEF OpenedFile
  <2> QED
    BY <1>2, <1>4, <2>1 DEF Opened
<1>5. ASSUME NEW g \in Handle, Becomes(g, ClosedFile)
      PROVE  FALSE
  <2>1. ~ClosedFile.listed
    BY DEF ClosedFile
  <2> QED
    BY <1>2, <1>5, <2>1
<1>6. ASSUME NEW g \in Handle, NEW pos \in Int, Repositioned(g, pos)
      PROVE  FALSE
  <2>1. [file[g] EXCEPT !.pos = pos].listed = file[g].listed
    BY <1>1 DEF FileType
  <2> QED
    BY <1>2, <1>6, <2>1 DEF Repositioned
<1>7. ASSUME NEW g \in Handle, Rewound(g)
      PROVE  FALSE
  <2>1. PICK pos \in Int : Becomes(g, [file[g] EXCEPT !.pos = pos, !.listed = FALSE,
                                        !.entries = {}, !.dirPos = 0, !.seen = {}])
    BY <1>7 DEF Rewound
  <2>2. ~[file[g] EXCEPT !.pos = pos, !.listed = FALSE, !.entries = {}, !.dirPos = 0,
                         !.seen = {}].listed
    BY <1>1 DEF FileType
  <2> QED
    BY <1>2, <2>1, <2>2
<1>8. ASSUME NEW g \in Handle, NEW k \in Count, Listed(g, k)
      PROVE  \E p \in DOMAIN nodes : nodes[p] = file[h].n /\ file'[h].entries = ChildNames(p)
  <2>1. g = h
    BY <1>1, <1>8, ListedHandle
  <2>2. file'[h].entries = ChildNames(NameOf(h))
    BY <1>1, <1>8, <2>1, ListedHandle DEF Snapshot
  <2>3. \E p \in DOMAIN nodes : nodes[p] = file[h].n
    BY <1>8, <2>1 DEF Listed, FileReadDirErr
  <2>4. NameOf(h) \in DOMAIN nodes /\ nodes[NameOf(h)] = file[h].n
    BY <2>3 DEF NameOf
  <2> QED
    BY <2>2, <2>4
<1> QED
  BY <1>1, <1>3, <1>4, <1>5, <1>6, <1>7, <1>8, HandleCases

\* A listing is taken from the directory that the handle holds, whatever has
\* become of the name it was opened by (memoryFile.ReadDir).
THEOREM ListsOwnNodeCorrect == Spec => ListsOwnNode
<1>1. StoreInv /\ [Next]_vars =>
        [\A h \in Handle : file'[h].listed /\ ~file[h].listed =>
           \E p \in DOMAIN nodes : /\ nodes[p] = file[h].n
                                   /\ file'[h].entries = ChildNames(p)]_vars
  BY OwnListing
<1> QED
  BY <1>1, StoreInit, StoreStep, PTL DEF Spec, ListsOwnNode

-----------------------------------------------------------------------------
(* The refinement mapping *)

\* FileStore counts as Memory does.
LEMMA MapCardinality == \A S : Abstract!Cardinality(S) = Cardinality(S)
BY DEF Abstract!Cardinality, Cardinality

\* A node is held in FileStore exactly when it is live here, and a handle is
\* open there exactly when it is open here.
MapOK ==
  /\ Abstract!Held(nodes, Opens) = {n \in Node : Live(n)}
  /\ Dirs = {n \in Node : isDir[n] /\ Live(n)}
  /\ \A h \in Handle : Opens[h] = Abstract!NotOpen <=> file[h].closed
  /\ \A n \in Node : ~Live(n) => data[n] = <<>>
  /\ data \in [Node -> Seq(Byte)]
  /\ \A p \in DOMAIN nodes : p \in Path /\ nodes[p] \in Node /\ linked[nodes[p]]
  /\ Cardinality(Abstract!Stored(data)) <= Limit

\* The bytes that FileStore holds are the bytes charged here.
LEMMA MapStored ==
  ASSUME StoreInv
  PROVE  Abstract!Stored(data) = Charged
<1>1. \A n \in Node : data[n] \in Seq(Byte) /\ Len(data[n]) \in 0..Limit /\ (~Live(n) => data[n] = <<>>)
  BY NodeFacts DEF StoreInv
<1>2. \A n \in Node : DOMAIN data[n] = 1..Len(data[n]) /\ (~Live(n) => DOMAIN data[n] = {})
  BY <1>1
<1>3. ASSUME NEW c \in Abstract!Stored(data)
      PROVE  c \in Charged
  <2>1. PICK n \in Node : c \in {n} \X DOMAIN data[n]
    BY DEF Abstract!Stored
  <2>2. PICK i \in DOMAIN data[n] : c = <<n, i>>
    BY <2>1
  <2>3. i \in 1..Len(data[n]) /\ Live(n)
    BY <1>2, <2>2
  <2>4. i \in 1..Limit /\ i <= Len(data[n])
    BY <1>1, <2>3, StoreAssumption
  <2> QED
    BY <2>2, <2>3, <2>4 DEF Charged
<1>4. ASSUME NEW c \in Charged
      PROVE  c \in Abstract!Stored(data)
  <2>1. PICK n \in Node, i \in 1..Limit : c = <<n, i>> /\ i <= Len(data[n])
    BY DEF Charged
  <2>2. i \in DOMAIN data[n]
    BY <1>1, <1>2, <2>1
  <2> QED
    BY <2>1, <2>2 DEF Abstract!Stored
<1> QED
  BY <1>3, <1>4

LEMMA MapHeld == StoreInv => MapOK
<1> SUFFICES ASSUME StoreInv PROVE MapOK
  OBVIOUS
<1>1. /\ \A n \in Node : linked[n] <=> \E p \in DOMAIN nodes : nodes[p] = n
      /\ \A p \in DOMAIN nodes : nodes[p] \in Node
      /\ \A h \in Handle : file[h] \in FileType /\ file[h].n \in Node
  BY DEF StoreInv, QuotaInv, TreeInv, TypeInv, TypeOK, NamesExact, FileType
<1>2. \A n \in Node : refs[n] > 0 <=> HandlesOn(n) # {}
  <2> SUFFICES ASSUME NEW n \in Node PROVE refs[n] > 0 <=> HandlesOn(n) # {}
    OBVIOUS
  <2>1. refs[n] = Cardinality(HandlesOn(n)) /\ refs[n] \in Nat
    BY DEF StoreInv, QuotaInv, TreeInv, TypeInv, TypeOK, RefsExact
  <2>2. refs[n] = 0 <=> HandlesOn(n) = {}
    BY <2>1, HandlesFinite, FS_EmptySet
  <2> QED
    BY <2>1, <2>2
<1>3. \A h \in Handle : Opens[h] = Abstract!NotOpen <=> file[h].closed
  <2> SUFFICES ASSUME NEW h \in Handle PROVE Opens[h] = Abstract!NotOpen <=> file[h].closed
    OBVIOUS
  <2>1. HandleOK(file[h])
    BY DEF StoreInv, HandleInv
  <2>2. /\ Opens[h] = [file |-> file[h].n, read |-> file[h].readable, write |-> file[h].writable]
        /\ Abstract!NotOpen = [file |-> Root, read |-> FALSE, write |-> FALSE]
    BY DEF Opens, Abstract!NotOpen
  <2>3. file[h].readable \in BOOLEAN /\ file[h].writable \in BOOLEAN /\ file[h].closed \in BOOLEAN
    BY <1>1 DEF FileType
  <2>4. CASE file[h].closed
    <3>1. file[h].n = Root /\ file[h].readable = FALSE /\ file[h].writable = FALSE
      BY <2>1, <2>3, <2>4 DEF HandleOK
    <3> QED
      BY <2>2, <2>4, <3>1
  <2>5. CASE ~file[h].closed
    <3>1. file[h].readable \/ file[h].writable
      BY <2>1, <2>5 DEF HandleOK
    <3>2. Opens[h].read \/ Opens[h].write
      BY <2>2, <3>1
    <3>3. ~Abstract!NotOpen.read /\ ~Abstract!NotOpen.write
      BY <2>2
    <3> QED
      BY <2>5, <3>2, <3>3
  <2> QED
    BY <2>4, <2>5
<1>4. \A h \in Handle : Opens[h].file = file[h].n
  BY DEF Opens
<1>5. Abstract!Held(nodes, Opens) = {n \in Node : Live(n)}
  BY <1>1, <1>2, <1>3, <1>4 DEF Abstract!Held, Live, HandlesOn, IsOpen
<1>6. Dirs = {n \in Node : isDir[n] /\ Live(n)}
  BY <1>1, <1>2 DEF Dirs, Live
<1>7. DOMAIN nodes \subseteq Path /\ data \in [Node -> Seq(Byte)]
  BY DEF StoreInv, QuotaInv, TreeInv, TypeInv, TypeOK
<1>8. Cardinality(Abstract!Stored(data)) <= Limit
  <2>1. used = Cardinality(Charged) /\ used <= Limit
    BY DEF StoreInv, QuotaInv, Quota
  <2> QED
    BY <2>1, MapStored
<1> QED
  BY <1>1, <1>3, <1>5, <1>6, <1>7, <1>8 DEF StoreInv, QuotaInv, Quota, MapOK

LEMMA MapHeldNext == StoreInv' => MapOK'
BY MapHeld, PTL

\* Nothing that FileStore knows of a handle changes.
SameHandles ==
  \A h \in Handle : /\ file'[h].n = file[h].n
                     /\ file'[h].readable = file[h].readable
                     /\ file'[h].writable = file[h].writable

LEMMA MapSame ==
  ASSUME MapOK, MapOK', UNCHANGED <<nodes, isDir, refs, linked>>, SameHandles
  PROVE  UNCHANGED <<Dirs, Opens>>
<1>1. Opens' = Opens
  BY DEF Opens, SameHandles
<1>2. Dirs' = Dirs
  BY DEF MapOK, Live
<1> QED
  BY <1>1, <1>2

LEMMA MapAnswer ==
  ASSUME ret'.bytes = <<>>
  PROVE  Answer' = IF ret'.err \in {"OK", "EOF"} THEN Abstract!Done ELSE Abstract!Refused
<1>1. CASE ret'.err \in {"OK", "EOF"}
  <2>1. (ret'.err \notin {"OK", "EOF"}) = FALSE
    BY <1>1
  <2>2. Answer' = [refused |-> FALSE, bytes |-> <<>>]
    BY <2>1 DEF Answer
  <2> QED
    BY <1>1, <2>2 DEF Abstract!Done
<1>2. CASE ret'.err \notin {"OK", "EOF"}
  <2>1. (ret'.err \notin {"OK", "EOF"}) = TRUE
    BY <1>2
  <2>2. Answer' = [refused |-> TRUE, bytes |-> <<>>]
    BY <2>1 DEF Answer
  <2> QED
    BY <1>2, <2>2 DEF Abstract!Refused
<1> QED
  BY <1>1, <1>2

\* A call that changes neither names nor contents looks, or is refused.
LEMMA Quiet ==
  ASSUME MapOK, MapOK', UNCHANGED <<nodes, isDir, data, refs, linked>>, SameHandles,
         ret'.bytes = <<>>
  PROVE  Abstract!Next
<1>1. UNCHANGED <<Dirs, Opens>>
  BY MapSame
<1>2. Abstract!Refuse \/ Abstract!Look
  BY <1>1, MapAnswer DEF Abstract!Refuse, Abstract!Look, Abstract!names
<1> QED
  BY <1>2 DEF Abstract!Next

LEMMA Fails ==
  ASSUME MapOK, MapOK', NEW err, Fail(err)
  PROVE  Abstract!Next
<1>1. UNCHANGED <<nodes, isDir, data, refs, linked>> /\ SameHandles /\ ret'.bytes = <<>>
  BY DEF Fail, Reply, store, SameHandles
<1> QED
  BY <1>1, Quiet

-----------------------------------------------------------------------------
(* One lemma per operation that changes the store *)

\* Bytes and directories go with the last name and handle.
LEMMA MapDrops ==
  ASSUME MapOK, MapOK', isDir' = isDir,
         \A n \in Node : Live(n)' => Live(n) /\ data'[n] = data[n]
  PROVE  Abstract!Contents(data) /\ Abstract!Directories(Dirs)
<1>1. \A n \in Node : data'[n] = IF n \in Abstract!Held(nodes', Opens') THEN data[n] ELSE <<>>
  BY DEF MapOK
<1>2. data' \in [Node -> Seq(Byte)]
  BY DEF MapOK
<1>3. Abstract!Contents(data)
  BY <1>1, <1>2 DEF Abstract!Contents
<1>4. Dirs' = Dirs \cap Abstract!Held(nodes', Opens')
  BY DEF MapOK
<1> QED
  BY <1>3, <1>4 DEF Abstract!Directories

\* FileStore's paths are Memory's.
LEMMA MapPaths ==
  /\ \A p : Abstract!Dir(p) = Dir(p)
  /\ \A p, a : Abstract!Under(p, a) <=> Under(p, a)
  /\ \A p, a, b : Abstract!Rebase(p, a, b) = Rebase(p, a, b)
BY DEF Abstract!Dir, Dir, Abstract!Under, Under, Abstract!Rebase, Rebase

\* No name is below p.
LEMMA MapEmpty ==
  ASSUME TreeInv, NEW p \in DOMAIN nodes, isDir[nodes[p]] => ~HasChild(p)
  PROVE  Abstract!IsEmptyDir(p)
BY TreeInvShape, MapPaths DEF TreeShape, HasChild, Abstract!IsEmptyDir

\* unlink frees the contents of a node that no handle holds.
LEMMA UnlinkDrops ==
  ASSUME TypeInv, NEW n \in Node, unlink(n), UNCHANGED refs
  PROVE  \A m \in Node : Live(m)' => Live(m) /\ data'[m] = data[m]
<1> SUFFICES ASSUME NEW m \in Node, Live(m)' PROVE Live(m) /\ data'[m] = data[m]
  OBVIOUS
<1>1. linked \in [Node -> BOOLEAN] /\ data \in [Node -> Seq(Byte)] /\ refs \in [Node -> Nat]
  BY DEF TypeInv, TypeOK
<1>2. CASE m = n
  <2>1. ~linked'[m] /\ refs[m] > 0
    BY <1>1, <1>2 DEF unlink, Live
  <2>2. refs[n] # 0
    BY <1>1, <1>2, <2>1
  <2>3. data'[n] = data[n]
    BY <1>1, <2>2 DEF unlink
  <2> QED
    BY <1>2, <2>1, <2>3 DEF Live
<1>3. CASE m # n
  BY <1>1, <1>3 DEF unlink, Live
<1> QED
  BY <1>2, <1>3

LEMMA RemoveMaps ==
  ASSUME StoreInv, StoreInv', NEW name \in PathArg, Remove(name)
  PROVE  Abstract!Next
<1>1. MapOK /\ MapOK' /\ TreeInv /\ TypeInv
  BY MapHeld, MapHeldNext DEF StoreInv, QuotaInv, TreeInv
<1>2. CASE RemoveErr(name) # "OK"
  BY <1>1, <1>2, Fails DEF Remove
<1>3. CASE RemoveErr(name) = "OK"
  <2>1. /\ name \in DOMAIN nodes \ {<<>>}
        /\ isDir[nodes[name]] => ~HasChild(name)
    BY <1>3 DEF RemoveErr, LookupErr
  <2>2. name \in Path /\ nodes[name] \in Node
    BY <1>1, <2>1 DEF MapOK
  <2>3. /\ nodes' = [p \in DOMAIN nodes \ {name} |-> nodes[p]]
        /\ unlink(nodes[name]) /\ UNCHANGED <<isDir, refs, file>>
        /\ ret'.bytes = <<>> /\ ret'.err = "OK"
    BY <1>3 DEF Remove, Reply
  <2>4. Abstract!IsEmptyDir(name)
    BY <1>1, <2>1, MapEmpty
  <2>5. Abstract!Contents(data) /\ Abstract!Directories(Dirs)
    BY <1>1, <2>2, <2>3, UnlinkDrops, MapDrops
  <2>6. Opens' = Opens
    BY <2>3 DEF Opens
  <2>7. Answer' = Abstract!Done
    BY <2>3, MapAnswer
  <2>8. Abstract!Remove(name)
    BY <2>1, <2>3, <2>4, <2>5, <2>6, <2>7 DEF Abstract!Remove
  <2> QED
    BY <2>2, <2>8 DEF Abstract!Next
<1> QED
  BY <1>2, <1>3

LEMMA RenameMaps ==
  ASSUME StoreInv, StoreInv', NEW old \in PathArg, NEW new \in PathArg, Rename(old, new)
  PROVE  Abstract!Next
<1>1. MapOK /\ MapOK' /\ TreeInv /\ TypeInv
  BY MapHeld, MapHeldNext DEF StoreInv, QuotaInv, TreeInv
<1>2. CASE RenameErr(old, new) # "OK" \/ old = new
  BY <1>1, <1>2, Fails DEF Rename
<1>3. CASE RenameErr(old, new) = "OK" /\ old # new
  <2>1. /\ old \in DOMAIN nodes \ {<<>>} /\ new # BadPath /\ new # <<>> /\ ~Under(new, old)
        /\ ParentErr(new) = "OK"
        /\ new \in DOMAIN nodes =>
             /\ isDir[nodes[old]] <=> isDir[nodes[new]]
             /\ isDir[nodes[new]] => ~HasChild(new)
    BY <1>3 DEF RenameErr, LookupErr
  <2>2. Dir(new) \in DOMAIN nodes /\ isDir[nodes[Dir(new)]]
    BY <2>1 DEF ParentErr, LookupErr
  <2>3. old \in Path /\ new \in Path
    BY <1>1, <2>1 DEF MapOK, PathArg
  <2>4. /\ IF new \in DOMAIN nodes THEN unlink(nodes[new]) ELSE UNCHANGED <<linked, used, data>>
        /\ MoveNodes(old, new) /\ UNCHANGED <<isDir, refs, file>>
        /\ ret'.bytes = <<>> /\ ret'.err = "OK"
    BY <1>3 DEF Rename, Reply
  <2>5. \A n \in Node : Live(n)' => Live(n) /\ data'[n] = data[n]
    <3>1. CASE new \in DOMAIN nodes
      <4>1. nodes[new] \in Node
        BY <1>1, <3>1 DEF MapOK
      <4> QED
        BY <1>1, <2>4, <3>1, <4>1, UnlinkDrops
    <3>2. CASE new \notin DOMAIN nodes
      BY <2>4, <3>2 DEF Live
    <3> QED
      BY <3>1, <3>2
  <2>6. Abstract!Contents(data) /\ Abstract!Directories(Dirs)
    BY <1>1, <2>4, <2>5, MapDrops
  <2>7. \A p \in DOMAIN nodes : nodes[p] \in Dirs <=> isDir[nodes[p]]
    BY <1>1 DEF MapOK, Live
  <2>8. new \in DOMAIN nodes => /\ nodes[old] \in Dirs <=> nodes[new] \in Dirs
                                /\ Abstract!IsEmptyDir(new)
    BY <1>1, <2>1, <2>7, MapEmpty
  <2>9. Opens' = Opens
    BY <2>4 DEF Opens
  <2>10. Answer' = Abstract!Done
    BY <2>4, MapAnswer
  <2>11. nodes[Dir(new)] \in Dirs
    BY <2>2, <2>7
  <2>12. nodes' = [r \in (DOMAIN nodes \ Moved(old)) \cup MovedTo(old, new) |->
                     IF r \in MovedTo(old, new) THEN nodes[Rebase(r, new, old)] ELSE nodes[r]]
    BY <2>4 DEF MoveNodes
  <2>13. /\ Moved(old) = {r \in DOMAIN nodes : Under(r, old)}
         /\ MovedTo(old, new) = {Rebase(r, old, new) : r \in {s \in DOMAIN nodes : Under(s, old)}}
    BY DEF Moved, MovedTo
  <2>14. /\ Moved(old) = {r \in DOMAIN nodes : Abstract!Under(r, old)}
         /\ MovedTo(old, new) = {Abstract!Rebase(r, old, new) :
                                   r \in {s \in DOMAIN nodes : Abstract!Under(s, old)}}
         /\ nodes' = [r \in (DOMAIN nodes \ Moved(old)) \cup MovedTo(old, new) |->
                        IF r \in MovedTo(old, new) THEN nodes[Abstract!Rebase(r, new, old)]
                        ELSE nodes[r]]
         /\ ~Abstract!Under(new, old) /\ Abstract!Dir(new) = Dir(new)
    BY <2>1, <2>12, <2>13, MapPaths
  <2>15. Abstract!Rename(old, new)
    BY <2>1, <2>2, <2>6, <2>8, <2>9, <2>10, <2>11, <2>14 DEF Abstract!Rename
  <2> QED
    BY <2>3, <2>15 DEF Abstract!Next
<1> QED
  BY <1>2, <1>3

LEMMA CloseMaps ==
  ASSUME StoreInv, StoreInv', NEW h \in Handle, Close(h)
  PROVE  Abstract!Next
<1>1. MapOK /\ MapOK' /\ TypeInv
  BY MapHeld, MapHeldNext DEF StoreInv, QuotaInv, TreeInv
<1>2. CASE ~IsOpen(h)
  BY <1>1, <1>2, Fails DEF Close
<1>3. CASE IsOpen(h)
  <2>1. PICK n \in Node : n = file[h].n /\ refs[n] > 0
    BY <1>1, <1>3, RefsPositive
  <2>2. /\ linked \in [Node -> BOOLEAN] /\ data \in [Node -> Seq(Byte)] /\ refs \in [Node -> Nat]
        /\ file \in [Handle -> FileType]
    BY <1>1 DEF TypeInv, TypeOK
  <2>3. /\ refs' = [refs EXCEPT ![n] = refs[n] - 1]
        /\ data' = [data EXCEPT ![n] = IF ~linked[n] /\ refs[n] = 1 THEN <<>> ELSE data[n]]
        /\ file' = [file EXCEPT ![h] = ClosedFile]
        /\ UNCHANGED <<nodes, isDir, linked>> /\ ret'.bytes = <<>> /\ ret'.err = "OK"
    BY <1>3, <2>1 DEF Close, Reply
  <2>4. ASSUME NEW m \in Node, Live(m)' PROVE Live(m) /\ data'[m] = data[m]
    <3>1. CASE m = n
      <4>1. linked[n] \/ refs[n] - 1 > 0
        BY <2>2, <2>3, <2>4, <3>1 DEF Live
      <4>2. ~(~linked[n] /\ refs[n] = 1)
        BY <2>2, <4>1
      <4>3. data'[n] = data[n]
        BY <2>2, <2>3, <4>2
      <4> QED
        BY <2>1, <3>1, <4>3 DEF Live
    <3>2. CASE m # n
      BY <2>2, <2>3, <2>4, <3>2 DEF Live
    <3> QED
      BY <3>1, <3>2
  <2>5. Abstract!Contents(data) /\ Abstract!Directories(Dirs)
    BY <1>1, <2>3, <2>4, MapDrops
  <2>6. Opens' = [Opens EXCEPT ![h] = Abstract!NotOpen]
    <3>1. Opens'[h] = Abstract!NotOpen
      BY <1>1, <2>2, <2>3 DEF MapOK, ClosedFile
    <3>2. \A g \in Handle \ {h} : file'[g] = file[g]
      BY <2>2, <2>3
    <3>3. \A g \in Handle \ {h} : Opens'[g] = Opens[g]
      BY <3>2 DEF Opens
    <3>4. DOMAIN Opens = Handle /\ DOMAIN Opens' = Handle /\ Opens' = [g \in Handle |-> Opens'[g]]
      BY DEF Opens
    <3> QED
      BY <3>1, <3>3, <3>4 DEF Opens
  <2>7. Opens[h] # Abstract!NotOpen
    BY <1>1, <1>3 DEF MapOK, IsOpen
  <2>8. Answer' = Abstract!Done
    BY <2>3, MapAnswer
  <2>9. Abstract!Close(h)
    BY <2>3, <2>5, <2>6, <2>7, <2>8 DEF Abstract!Close
  <2> QED
    BY <2>9 DEF Abstract!Next
<1> QED
  BY <1>2, <1>3

LEMMA MapEnters ==
  ASSUME StoreInv, StoreInv', NEW name \in Path \ DOMAIN nodes, ParentErr(name) = "OK", ~Full,
         NEW n \in Node, NEW dir \in BOOLEAN, NEW perm, newNode(n, dir, perm), Bind(name, n),
         \A m \in Node \ {n} : refs'[m] = refs[m]
  PROVE  Abstract!Enter(name, n, dir)
<1>1. MapOK /\ MapOK' /\ TypeInv
  BY MapHeld, MapHeldNext DEF StoreInv, QuotaInv, TreeInv
<1>2. /\ linked \in [Node -> BOOLEAN] /\ data \in [Node -> Seq(Byte)]
      /\ isDir \in [Node -> BOOLEAN] /\ IsFiniteSet(DOMAIN nodes)
  BY <1>1 DEF TypeInv, TypeOK, Finite
<1>3. /\ ~Live(n) /\ Live(n)' /\ isDir'[n] = dir /\ data'[n] = <<>>
      /\ \A m \in Node \ {n} : /\ Live(m)' <=> Live(m)
                               /\ isDir'[m] = isDir[m] /\ data'[m] = data[m]
  BY <1>2 DEF newNode, Live
<1>4. \A m \in Node : data'[m] = data[m] /\ (m \notin Abstract!Held(nodes', Opens') => data[m] = <<>>)
  BY <1>1, <1>3 DEF MapOK
<1>5. Abstract!Contents(data)
  BY <1>1, <1>4 DEF MapOK, Abstract!Contents
<1>6. Abstract!Directories(IF dir THEN Dirs \cup {n} ELSE Dirs)
  BY <1>1, <1>3 DEF MapOK, Abstract!Directories
<1>7. n \notin Abstract!Held(nodes, Opens)
  BY <1>1, <1>3 DEF MapOK
<1>8. Dir(name) \in DOMAIN nodes /\ isDir[nodes[Dir(name)]]
  BY DEF ParentErr, LookupErr
<1>9. nodes[Dir(name)] \in Dirs
  BY <1>1, <1>8 DEF MapOK, Live
<1>10. Abstract!Cardinality(DOMAIN nodes) < MaxEntries
  <2>1. PICK k \in Nat : k = Cardinality(DOMAIN nodes)
    BY <1>2, FS_CardinalityType
  <2>2. MaxEntries \in Nat /\ ~(k >= MaxEntries)
    BY <2>1, StoreAssumption DEF Full
  <2>3. k < MaxEntries
    BY <2>2
  <2> QED
    BY <2>1, <2>3, MapCardinality
<1>11. nodes' = [q \in DOMAIN nodes \cup {name} |-> IF q = name THEN n ELSE nodes[q]]
  BY DEF Bind
<1>12. Abstract!Dir(name) \in DOMAIN nodes /\ nodes[Abstract!Dir(name)] \in Dirs
  BY <1>8, <1>9, MapPaths
<1> QED
  BY <1>5, <1>6, <1>7, <1>10, <1>11, <1>12 DEF Abstract!Enter

LEMMA MkdirMaps ==
  ASSUME StoreInv, StoreInv', NEW name \in PathArg, NEW perm \in Perm, Mkdir(name, perm)
  PROVE  Abstract!Next
<1>1. MapOK /\ MapOK' /\ TypeInv
  BY MapHeld, MapHeldNext DEF StoreInv, QuotaInv, TreeInv
<1>2. CASE MkdirErr(name) # "OK"
  BY <1>1, <1>2, Fails DEF Mkdir
<1>3. CASE MkdirErr(name) = "OK"
  <2>1. name \in Path \ DOMAIN nodes /\ ParentErr(name) = "OK" /\ ~Full
    BY <1>3 DEF MkdirErr, PathArg
  <2>2. PICK n \in Node : newNode(n, TRUE, perm) /\ Bind(name, n)
    BY <1>3 DEF Mkdir
  <2>3. UNCHANGED <<refs, file>> /\ ret'.bytes = <<>> /\ ret'.err = "OK"
    BY <1>3 DEF Mkdir, Reply
  <2>4. Abstract!Enter(name, n, TRUE)
    BY <2>1, <2>2, <2>3, MapEnters
  <2>5. Opens' = Opens
    BY <2>3 DEF Opens
  <2>6. Answer' = Abstract!Done
    BY <2>3, MapAnswer
  <2>7. Abstract!Mkdir(name, n)
    BY <2>4, <2>5, <2>6 DEF Abstract!Mkdir
  <2> QED
    BY <2>1, <2>7 DEF Abstract!Next
<1> QED
  BY <1>2, <1>3

\* What FileStore sees of a handle that is opened.
LEMMA MapOpened ==
  ASSUME TypeInv, NEW h \in Handle, NEW n \in Node, NEW name \in Path, NEW fl \in Flag,
         Opened(h, n, name, fl)
  PROVE  /\ Opens' = [Opens EXCEPT ![h] = [file |-> n, read |-> Opens'[h].read,
                                           write |-> Opens'[h].write]]
         /\ Opens'[h].write = fl.write
<1>1. PICK f : f = OpenedFile(n, name, fl)
  OBVIOUS
<1>2. f.n = n /\ f.readable = fl.read /\ f.writable = fl.write
  BY <1>1 DEF OpenedFile
<1>3. file'[h] = f /\ \A g \in Handle \ {h} : file'[g] = file[g]
  BY <1>1 DEF Opened, Becomes, TypeInv, TypeOK
<1>4. Opens'[h] = [file |-> n, read |-> fl.read, write |-> fl.write]
  BY <1>2, <1>3 DEF Opens
<1>5. \A g \in Handle \ {h} : Opens'[g] = Opens[g]
  BY <1>3 DEF Opens
<1>6. DOMAIN Opens = Handle /\ DOMAIN Opens' = Handle /\ Opens' = [g \in Handle |-> Opens'[g]]
  BY DEF Opens
<1>7. Opens'[h].read = fl.read /\ Opens'[h].write = fl.write
  BY <1>4
<1>8. Opens'[h] = [file |-> n, read |-> Opens'[h].read, write |-> Opens'[h].write]
  BY <1>4, <1>7
<1> QED
  BY <1>5, <1>6, <1>7, <1>8

LEMMA OpenFileMaps ==
  ASSUME StoreInv, StoreInv', NEW h \in Handle, NEW name \in PathArg, NEW fl \in Flag,
         NEW perm \in Perm, OpenFile(h, name, fl, perm)
  PROVE  Abstract!Next
<1>1. MapOK /\ MapOK' /\ TypeInv
  BY MapHeld, MapHeldNext DEF StoreInv, QuotaInv, TreeInv
<1>2. Opens[h] = Abstract!NotOpen
  BY <1>1 DEF OpenFile, MapOK
<1>3. CASE OpenExisting(h, name, fl)
  <2>1. name \in DOMAIN nodes
    BY <1>3 DEF OpenExisting, LookupErr
  <2>2. PICK n \in Node : n = nodes[name] /\ linked[n] /\ name \in Path
    BY <1>1, <2>1 DEF MapOK
  <2>3. (isDir[n] => ~fl.write) /\ (fl.trunc => fl.write)
    BY <1>3, <2>2 DEF OpenExisting, OpenErr
  <2>4. /\ data' = [data EXCEPT ![n] = IF fl.trunc THEN <<>> ELSE data[n]]
        /\ refs' = [refs EXCEPT ![n] = refs[n] + 1]
        /\ Opened(h, n, name, fl)
        /\ UNCHANGED <<nodes, isDir, linked>> /\ ret'.bytes = <<>> /\ ret'.err = "OK"
    BY <1>3, <2>2 DEF OpenExisting, Opened, Becomes, Reply
  <2>5. /\ Opens' = [Opens EXCEPT ![h] = [file |-> n, read |-> Opens'[h].read,
                                          write |-> Opens'[h].write]]
        /\ Opens'[h].write = fl.write
    BY <1>1, <2>2, <2>4, MapOpened
  <2>6. \A m \in Node : Live(m)' <=> Live(m)
    BY <1>1, <2>2, <2>4 DEF Live, TypeInv, TypeOK
  <2>7. Dirs' = Dirs
    BY <1>1, <2>4, <2>6 DEF MapOK
  <2>8. data' = data \/ (fl.write /\ data' = [data EXCEPT ![n] = <<>>])
    BY <1>1, <2>3, <2>4 DEF TypeInv, TypeOK
  <2>9. n \in Dirs => ~fl.write
    BY <1>1, <2>3 DEF MapOK
  <2>10. Answer' = Abstract!Done
    BY <2>4, MapAnswer
  <2>11. Abstract!Open(h, name)
    BY <1>2, <2>1, <2>2, <2>4, <2>5, <2>7, <2>8, <2>9, <2>10 DEF Abstract!Open
  <2> QED
    BY <2>2, <2>11 DEF Abstract!Next
<1>4. CASE OpenCreating(h, name, fl, perm)
  <2>1. LookupErr(name) = "ErrNotExist" /\ OpenErr(name, fl) \in {"OK", "ErrPermission"}
    BY <1>4 DEF OpenCreating
  <2>2. name \in Path \ DOMAIN nodes
    BY <2>1 DEF LookupErr, PathArg
  <2>3. ParentErr(name) # "ErrPermission"
    BY DEF ParentErr, LookupErr
  <2>4. ParentErr(name) = "OK" /\ ~Full
    BY <2>1, <2>3 DEF OpenErr
  <2>5. PICK n \in Node :
          /\ newNode(n, FALSE, perm) /\ Bind(name, n)
          /\ IF OpenErr(name, fl) = "OK"
             THEN refs' = [refs EXCEPT ![n] = @ + 1] /\ Opened(h, n, name, fl)
             ELSE UNCHANGED <<refs, file>>
    BY <1>4 DEF OpenCreating, Opened, Becomes
  <2>6. \A m \in Node \ {n} : refs'[m] = refs[m]
    BY <1>1, <2>5 DEF TypeInv, TypeOK
  <2>7. Abstract!Enter(name, n, FALSE)
    BY <2>2, <2>4, <2>5, <2>6, MapEnters
  <2>8. ret'.err = OpenErr(name, fl) /\ ret'.bytes = <<>>
    BY <1>4 DEF OpenCreating, Reply
  <2>9. CASE OpenErr(name, fl) = "OK"
    <3>1. Answer' = Abstract!Done
      BY <2>8, <2>9, MapAnswer
    <3>2. Opens' = [Opens EXCEPT ![h] = [file |-> n, read |-> Opens'[h].read,
                                         write |-> Opens'[h].write]]
      BY <1>1, <2>2, <2>5, <2>9, MapOpened
    <3> QED
      BY <1>2, <2>2, <2>7, <3>1, <3>2 DEF Abstract!Next, Abstract!Create
  <2>10. CASE OpenErr(name, fl) # "OK"
    <3>1. ret'.err = "ErrPermission"
      BY <2>1, <2>8, <2>10
    <3>2. Answer' = Abstract!Refused
      BY <2>8, <3>1, MapAnswer
    <3>3. Opens' = Opens
      BY <2>5, <2>10 DEF Opens
    <3> QED
      BY <2>2, <2>7, <3>2, <3>3 DEF Abstract!Next, Abstract!Create
  <2> QED
    BY <2>9, <2>10
<1>5. CASE OpenRefused(name, fl)
  BY <1>1, <1>5, Fails DEF OpenRefused
<1> QED
  BY <1>3, <1>4, <1>5 DEF OpenFile

\* A write or a truncation that succeeds.
LEMMA MapChange ==
  ASSUME StoreInv, StoreInv', NEW h \in Handle, file[h].writable,
         UNCHANGED <<nodes, isDir, refs, linked>>, SameHandles,
         NEW d \in Seq(Byte), data' = [data EXCEPT ![file[h].n] = d],
         ret'.bytes = <<>>, ret'.err = "OK"
  PROVE  Abstract!Next
<1>1. MapOK /\ MapOK'
  BY MapHeld, MapHeldNext
<1>2. UNCHANGED <<Dirs, Opens>>
  BY <1>1, MapSame
<1>3. Answer' = Abstract!Done
  BY MapAnswer
<1>4. Opens[h].file = file[h].n /\ Opens[h].write
  BY DEF Opens
<1>5. file[h].n \in Node
  BY DEF StoreInv, QuotaInv, TreeInv, TypeInv, TypeOK, FileType
<1>6. data'[file[h].n] = d
  BY <1>1, <1>5 DEF MapOK
<1>7. Abstract!Cardinality(Abstract!Stored(data')) <= Limit
  <2>1. Cardinality(Abstract!Stored(data')) <= Limit
    BY <1>1 DEF MapOK
  <2> QED
    BY <2>1, MapCardinality
<1>8. Abstract!Change(h)
  BY <1>2, <1>3, <1>4, <1>6, <1>7 DEF Abstract!Change, Abstract!names
<1> QED
  BY <1>8 DEF Abstract!Next

\* A handle changes in ways that FileStore does not see.
LEMMA SameBecomes ==
  ASSUME TypeInv, NEW h \in Handle, NEW new, Becomes(h, new), new.n = file[h].n,
         new.readable = file[h].readable, new.writable = file[h].writable
  PROVE  SameHandles
<1>1. \A g \in Handle : file'[g] = IF g = h THEN new ELSE file[g]
  BY DEF Becomes, TypeInv, TypeOK
<1> QED
  BY <1>1 DEF SameHandles

LEMMA SameRepositioned ==
  ASSUME TypeInv, NEW h \in Handle, NEW pos, Repositioned(h, pos)
  PROVE  SameHandles
<1>1. PICK f \in FileType : f = file[h]
  BY DEF TypeInv, TypeOK
<1>2. PICK new : new = [f EXCEPT !.pos = pos]
  OBVIOUS
<1>3. new.n = f.n /\ new.readable = f.readable /\ new.writable = f.writable
  BY <1>2 DEF FileType
<1> QED
  BY <1>1, <1>2, <1>3, SameBecomes DEF Repositioned

LEMMA writeAtMaps ==
  ASSUME StoreInv, StoreInv', NEW h \in Handle, NEW p \in Payload, NEW off \in Int,
         writeAt(h, p, off), SameHandles
  PROVE  Abstract!Next
<1>1. MapOK /\ MapOK' /\ TypeInv
  BY MapHeld, MapHeldNext DEF StoreInv, QuotaInv, TreeInv
<1>2. ret'.bytes = <<>> /\ ret'.err = WriteErr(h, p, off)
  BY DEF writeAt, Reply
<1>3. CASE WriteErr(h, p, off) # "OK"
  BY <1>1, <1>2, <1>3, Quiet DEF writeAt, store
<1>4. CASE WriteErr(h, p, off) = "OK"
  <2>1. off \in Nat /\ file[h].writable /\ Store(file[h].n, p, off)
    BY <1>4 DEF WriteErr, writeAt
  <2>2. file[h].n \in Node
    BY <1>1 DEF TypeInv, TypeOK, FileType
  <2>3. /\ UNCHANGED <<nodes, isDir, refs, linked>>
        /\ \E d \in Seq(Byte) : data' = [data EXCEPT ![file[h].n] = d]
    BY <1>1, <2>1, <2>2, StoreEffect
  <2> QED
    BY <1>2, <1>4, <2>1, <2>3, MapChange
<1> QED
  BY <1>3, <1>4

LEMMA WriteMaps ==
  ASSUME StoreInv, StoreInv', NEW h \in Handle, NEW p \in Payload,
         Write(h, p) \/ \E off \in Offset : WriteAt(h, p, off)
  PROVE  Abstract!Next
<1>1. MapOK /\ MapOK' /\ TypeInv
  BY MapHeld, MapHeldNext DEF StoreInv, QuotaInv, TreeInv
<1>2. CASE Write(h, p)
  <2>1. CASE ~IsOpen(h)
    BY <1>1, <1>2, <2>1, Fails DEF Write
  <2>2. CASE IsOpen(h)
    <3>1. WritePos(h) \in Int /\ Len(p) \in Int
      BY <1>1, LenProperties, ArgumentAssumption DEF WritePos, TypeInv, TypeOK, FileType
    <3>2. PICK pos : Repositioned(h, pos)
      BY <1>2, <2>2 DEF Write, Repositioned, Becomes
    <3>3. SameHandles
      BY <1>1, <3>2, SameRepositioned
    <3> QED
      BY <1>2, <2>2, <3>1, <3>3, writeAtMaps DEF Write
  <2> QED
    BY <2>1, <2>2
<1>3. ASSUME NEW off \in Offset, WriteAt(h, p, off)
      PROVE  Abstract!Next
  <2>1. off \in Int
    BY ArgumentAssumption, StoreAssumption DEF Int64
  <2>2. CASE ~IsOpen(h) \/ file[h].append
    BY <1>1, <1>3, <2>2, Fails DEF WriteAt
  <2>3. CASE IsOpen(h) /\ ~file[h].append
    <3>1. writeAt(h, p, off) /\ UNCHANGED file
      BY <1>3, <2>3 DEF WriteAt
    <3>2. SameHandles
      BY <3>1 DEF SameHandles
    <3> QED
      BY <2>1, <3>1, <3>2, writeAtMaps
  <2> QED
    BY <2>2, <2>3
<1> QED
  BY <1>2, <1>3

LEMMA TruncateMaps ==
  ASSUME StoreInv, StoreInv', NEW h \in Handle, NEW size \in Offset, Truncate(h, size)
  PROVE  Abstract!Next
<1>1. MapOK /\ MapOK' /\ TypeInv
  BY MapHeld, MapHeldNext DEF StoreInv, QuotaInv, TreeInv
<1>2. CASE TruncateErr(h, size) # "OK"
  BY <1>1, <1>2, Fails DEF Truncate
<1>3. CASE TruncateErr(h, size) = "OK"
  <2>1. file[h].writable /\ file[h].n \in Node /\ ResizeErr(file[h].n, size) = "OK"
    BY <1>1, <1>3 DEF TruncateErr, TypeInv, TypeOK, FileType
  <2>2. size \in Nat
    <3>1. size \in Int
      BY ArgumentAssumption, StoreAssumption DEF Int64
    <3> QED
      BY <2>1, <3>1 DEF ResizeErr
  <2>3. Resized(data[file[h].n], size) \in Seq(Byte)
    BY <1>1, <2>1, <2>2, ResizedType DEF TypeInv, TypeOK
  <2>4. /\ data' = [data EXCEPT ![file[h].n] = Resized(data[file[h].n], size)]
        /\ UNCHANGED <<nodes, isDir, refs, linked, file>>
        /\ ret'.bytes = <<>> /\ ret'.err = "OK"
    BY <1>3 DEF Truncate, Reply
  <2>5. SameHandles
    BY <2>4 DEF SameHandles
  <2> QED
    BY <2>1, <2>3, <2>4, <2>5, MapChange
<1> QED
  BY <1>2, <1>3

\* What a read returns is a piece of the file.
LEMMA SlicePiece ==
  ASSUME NEW d \in Seq(Byte), NEW off \in Nat, NEW len \in Nat
  PROVE  \E i, j \in 0..Len(d) : Slice(d, off, len) = SubSeq(d, i + 1, j)
<1>1. Len(d) \in Nat
  OBVIOUS
<1>2. CASE off >= Len(d)
  <2>1. Slice(d, off, len) = SubSeq(d, 0 + 1, 0)
    BY <1>2 DEF Slice
  <2> QED
    BY <1>1, <2>1
<1>3. CASE off < Len(d)
  <2>1. PICK m \in Nat : m = IF len < Len(d) - off THEN len ELSE Len(d) - off
    BY <1>1, <1>3
  <2>2. Slice(d, off, len) = [i \in 1..m |-> d[off + i]]
    BY <1>3, <2>1 DEF Slice
  <2>3. off \in 0..Len(d) /\ off + m \in 0..Len(d)
    BY <1>1, <1>3, <2>1
  <2>4. SubSeq(d, off + 1, off + m) = [i \in 1..m |-> d[off + i]]
    BY <2>3
  <2> QED
    BY <1>1, <2>2, <2>3, <2>4
<1> QED
  BY <1>2, <1>3

LEMMA readAtMaps ==
  ASSUME StoreInv, StoreInv', NEW h \in Handle, NEW len \in ReadLen, NEW off \in Int,
         ret' = readAt(h, len, off), UNCHANGED store, SameHandles
  PROVE  Abstract!Next
<1>1. MapOK /\ MapOK' /\ TypeInv
  BY MapHeld, MapHeldNext DEF StoreInv, QuotaInv, TreeInv
<1>2. UNCHANGED <<nodes, isDir, data, refs, linked>>
  BY DEF store
<1>3. CASE ReadErr(h, len, off) \notin {"OK", "EOF"}
  <2>1. ret'.bytes = <<>>
    BY <1>3 DEF readAt, Reply
  <2> QED
    BY <1>1, <1>2, <2>1, Quiet
<1>4. CASE ReadErr(h, len, off) \in {"OK", "EOF"}
  <2>1. PICK d \in Seq(Byte) : d = data[file[h].n]
    BY <1>1 DEF TypeInv, TypeOK, FileType
  <2>2. off \in Nat /\ len \in Nat /\ file[h].readable
    BY <1>4, ArgumentAssumption, StoreAssumption DEF ReadErr
  <2>3. ret'.err \in {"OK", "EOF"} /\ ret'.bytes = Slice(d, off, len)
    BY <1>4, <2>1 DEF readAt, Reply
  <2>4. Answer' = [refused |-> FALSE, bytes |-> Slice(d, off, len)]
    <3>1. (ret'.err \notin {"OK", "EOF"}) = FALSE
      BY <2>3
    <3> QED
      BY <2>3, <3>1 DEF Answer
  <2>5. Opens[h].file = file[h].n /\ Opens[h].read
    BY <2>2 DEF Opens
  <2>6. \E i, j \in 0..Len(d) :
          Answer' = [refused |-> FALSE, bytes |-> SubSeq(d, i + 1, j)]
    BY <2>2, <2>4, SlicePiece
  <2>7. UNCHANGED <<Dirs, Opens>>
    BY <1>1, <1>2, MapSame
  <2>8. Abstract!Read(h)
    BY <1>2, <2>1, <2>5, <2>6, <2>7 DEF Abstract!Read, Abstract!names
  <2> QED
    BY <2>8 DEF Abstract!Next
<1> QED
  BY <1>3, <1>4

LEMMA ReadMaps ==
  ASSUME StoreInv, StoreInv', NEW h \in Handle, NEW len \in ReadLen,
         Read(h, len) \/ \E off \in Offset : ReadAt(h, len, off)
  PROVE  Abstract!Next
<1>1. TypeInv
  BY DEF StoreInv, QuotaInv, TreeInv
<1>2. CASE Read(h, len)
  <2>1. file[h].pos \in Int
    BY <1>1 DEF TypeInv, TypeOK, FileType
  <2>2. PICK pos : Repositioned(h, pos)
    BY <1>2 DEF Read, Repositioned, Becomes
  <2>3. SameHandles
    BY <1>1, <2>2, SameRepositioned
  <2> QED
    BY <1>2, <2>1, <2>3, readAtMaps DEF Read
<1>3. ASSUME NEW off \in Offset, ReadAt(h, len, off)
      PROVE  Abstract!Next
  <2>1. off \in Int
    BY ArgumentAssumption, StoreAssumption DEF Int64
  <2>2. SameHandles
    BY <1>3 DEF ReadAt, SameHandles
  <2> QED
    BY <1>3, <2>1, <2>2, readAtMaps DEF ReadAt
<1> QED
  BY <1>2, <1>3

LEMMA SeekMaps ==
  ASSUME StoreInv, StoreInv', NEW h \in Handle, NEW off \in Offset, NEW whence \in Whence,
         Seek(h, off, whence)
  PROVE  Abstract!Next
<1>1. MapOK /\ MapOK' /\ TypeInv
  BY MapHeld, MapHeldNext DEF StoreInv, QuotaInv, TreeInv
<1>2. CASE SeekErr(h, off, whence) # "OK"
  BY <1>1, <1>2, Fails DEF Seek
<1>3. CASE SeekErr(h, off, whence) = "OK"
  <2>1. PICK pos : pos = Wrap(SeekBase(h, whence) + off)
    OBVIOUS
  <2>2. PICK f \in FileType : f = file[h]
    BY <1>1 DEF TypeInv, TypeOK
  <2>3. PICK moved : moved = [f EXCEPT !.pos = pos]
    OBVIOUS
  <2>4. PICK new : new = IF pos = 0 THEN [moved EXCEPT !.listed = FALSE, !.entries = {},
                                                       !.dirPos = 0, !.seen = {}]
                         ELSE moved
    OBVIOUS
  <2>5. new.n = f.n /\ new.readable = f.readable /\ new.writable = f.writable
    BY <2>3, <2>4 DEF FileType
  <2>6. Becomes(h, new) /\ UNCHANGED store /\ ret'.bytes = <<>>
    BY <1>3, <2>1, <2>2, <2>3, <2>4 DEF Seek, Becomes, Reply
  <2>7. SameHandles
    BY <1>1, <2>2, <2>5, <2>6, SameBecomes
  <2> QED
    BY <1>1, <2>6, <2>7, Quiet DEF store
<1> QED
  BY <1>2, <1>3

LEMMA FileReadDirMaps ==
  ASSUME StoreInv, StoreInv', NEW h \in Handle, NEW k \in Count, FileReadDir(h, k)
  PROVE  Abstract!Next
<1>1. MapOK /\ MapOK' /\ TypeInv
  BY MapHeld, MapHeldNext DEF StoreInv, QuotaInv, TreeInv
<1>2. CASE FileReadDirErr(h) # "OK"
  BY <1>1, <1>2, Fails DEF FileReadDir
<1>3. CASE FileReadDirErr(h) = "OK"
  <2>1. PICK f \in FileType : f = file[h]
    BY <1>1 DEF TypeInv, TypeOK
  <2> DEFINE entries == Snapshot(h)
             end == PageEnd(f.dirPos, Cardinality(entries), k)
             eof == f.dirPos = Cardinality(entries) /\ k > 0
             page == {x \in entries : Rank(entries, x) \in f.dirPos..(end - 1)}
             dirPos == IF eof THEN f.dirPos ELSE end
             seen == IF eof THEN f.seen ELSE f.seen \cup page
  <2>2. Becomes(h, [f EXCEPT !.listed = TRUE, !.entries = entries, !.dirPos = dirPos,
                             !.seen = seen])
    BY <1>3, <2>1 DEF FileReadDir, Becomes
  <2> HIDE DEF entries, dirPos, seen
  <2>3. PICK new : new = [f EXCEPT !.listed = TRUE, !.entries = entries, !.dirPos = dirPos,
                                   !.seen = seen]
    OBVIOUS
  <2>4. new.n = f.n /\ new.readable = f.readable /\ new.writable = f.writable
    BY <2>3 DEF FileType
  <2>5. SameHandles
    BY <1>1, <2>1, <2>2, <2>3, <2>4, SameBecomes
  <2>6. UNCHANGED store /\ ret'.bytes = <<>>
    BY <1>3 DEF FileReadDir, Reply
  <2> QED
    BY <1>1, <2>5, <2>6, Quiet DEF store
<1> QED
  BY <1>2, <1>3

\* Calls that look, or that set permissions or times.
LEMMA LookMaps ==
  ASSUME StoreInv, StoreInv',
         \/ \E name \in PathArg : \/ Stat(name) \/ ReadDir(name)
                                  \/ \E perm \in Perm : Chmod(name, perm)
                                  \/ \E a, m \in Stamp : Chtimes(name, a, m)
         \/ \E h \in Handle : FileStat(h) \/ \E a, m \in Stamp : FileChtimes(h, a, m)
  PROVE  Abstract!Next
<1>1. MapOK /\ MapOK'
  BY MapHeld, MapHeldNext
<1>2. Reply("OK").bytes = <<>> /\ \A err : Reply(err).bytes = <<>>
  BY DEF Reply
<1>3. \A n : [Reply("OK") EXCEPT !.n = n].bytes = <<>> /\ [Reply("OK") EXCEPT !.names = n].bytes = <<>>
  BY DEF Reply
<1>4. ASSUME NEW n, NEW m, SetMeta(n, m)
      PROVE  UNCHANGED <<nodes, isDir, data, refs, linked, file>> /\ ret'.bytes = <<>>
  BY <1>2, <1>4 DEF SetMeta
<1>5. ASSUME NEW err, Fail(err)
      PROVE  UNCHANGED <<nodes, isDir, data, refs, linked, file>> /\ ret'.bytes = <<>>
  BY <1>2, <1>5 DEF Fail, store
<1>6. UNCHANGED <<nodes, isDir, data, refs, linked, file>> /\ ret'.bytes = <<>>
  BY <1>3, <1>4, <1>5 DEF Stat, ReadDir, Chmod, Chtimes, FileStat, FileChtimes, store
<1>7. SameHandles
  BY <1>6 DEF SameHandles
<1> QED
  BY <1>1, <1>6, <1>7, Quiet

-----------------------------------------------------------------------------
(* The refinement *)

LEMMA RefineInit == Init => Abstract!Init
<1> SUFFICES ASSUME Init PROVE Abstract!Init
  OBVIOUS
<1>1. MapOK
  BY StoreInit, MapHeld
<1>2. ClosedFile.n = Root /\ ClosedFile.readable = FALSE /\ ClosedFile.writable = FALSE
  BY DEF ClosedFile
<1>3. Opens = [h \in Handle |-> Abstract!NotOpen]
  <2>1. \A h \in Handle : file[h] = ClosedFile
    BY DEF Init
  <2> QED
    BY <1>2, <2>1 DEF Opens, Abstract!NotOpen
<1>4. Dirs = {Root}
  <2>1. \A n \in Node : isDir[n] <=> n = Root
    BY DEF Init
  <2>2. linked[Root]
    BY StoreAssumption DEF Init
  <2> QED
    BY <1>1, <2>1, <2>2, StoreAssumption DEF MapOK, Live
<1>5. Answer = Abstract!Done
  <2>1. ret.err = "OK" /\ ret.bytes = <<>>
    BY DEF Init, Reply
  <2>2. (ret.err \notin {"OK", "EOF"}) = FALSE
    BY <2>1
  <2> QED
    BY <2>1, <2>2 DEF Answer, Abstract!Done
<1>6. nodes = [p \in {<<>>} |-> Root] /\ data = [n \in Node |-> <<>>]
  BY DEF Init
<1> QED
  BY <1>3, <1>4, <1>5, <1>6 DEF Abstract!Init

LEMMA RefineStep ==
  ASSUME StoreInv, StoreInv', [Next]_vars
  PROVE  [Abstract!Next]_Abstract!vars
<1>1. CASE UNCHANGED vars
  <2>1. MapOK /\ MapOK'
    BY MapHeld, MapHeldNext
  <2>2. UNCHANGED <<nodes, isDir, data, refs, linked, file, ret>>
    BY <1>1 DEF vars
  <2>3. UNCHANGED <<Dirs, Opens>>
    BY <2>1, <2>2, MapSame DEF SameHandles
  <2>4. Answer' = Answer
    BY <2>2 DEF Answer
  <2> QED
    BY <2>2, <2>3, <2>4 DEF Abstract!vars
<1>2. CASE NameStep
  BY <1>2, LookMaps, RemoveMaps, RenameMaps, MkdirMaps DEF NameStep
<1>3. CASE FileStep
  BY <1>3, OpenFileMaps, LookMaps, CloseMaps, ReadMaps, WriteMaps, SeekMaps, TruncateMaps,
     FileReadDirMaps DEF FileStep
<1> QED
  BY <1>1, <1>2, <1>3 DEF Next

\* Memory implements FileStore for every choice of the constants: whatever the
\* calls and their order, reference counts, the linked flag and the byte
\* counter of vfs/memory.go are never visible to a caller.
THEOREM RefinementCorrect == Spec => ImplementsFileStore
<1>1. StoreInv /\ StoreInv' /\ [Next]_vars => [Abstract!Next]_Abstract!vars
  BY RefineStep
<1> QED
  BY <1>1, StoreInit, StoreStep, RefineInit, PTL DEF Spec, ImplementsFileStore, Abstract!Spec
=============================================================================
