---------------------------- MODULE MemoryProofs ----------------------------
(***************************************************************************)
(* Proofs about Memory, for every set of names, paths, nodes and handles    *)
(* and every byte budget.                                                   *)
(***************************************************************************)
EXTENDS Memory, FiniteSetTheorems, SequenceTheorems, TLAPS

-----------------------------------------------------------------------------
(* The operators the model is built from *)

\* int64 arithmetic has an int64 result, and is exact within the range.
LEMMA WrapType ==
  ASSUME NEW x \in Int
  PROVE  Wrap(x) \in Int
BY StoreAssumption DEF Wrap, Int64

LEMMA WrapExact ==
  ASSUME NEW x \in Int64
  PROVE  Wrap(x) = x
BY StoreAssumption DEF Wrap, Int64

\* Resizing gives a file of the requested length, which starts with the old
\* contents.
LEMMA ResizedType ==
  ASSUME NEW d \in Seq(Byte), NEW size \in Nat
  PROVE  Resized(d, size) \in Seq(Byte) /\ Len(Resized(d, size)) = size
BY StoreAssumption DEF Resized

\* Overwriting within a file keeps its length.
LEMMA OverwrittenType ==
  ASSUME NEW d \in Seq(Byte), NEW p \in Seq(Byte), NEW off \in Nat
  PROVE  Overwritten(d, p, off) \in Seq(Byte) /\ Len(Overwritten(d, p, off)) = Len(d)
BY DEF Overwritten

LEMMA SliceType ==
  ASSUME NEW d \in Seq(Byte), NEW off \in Nat, NEW len \in Nat
  PROVE  /\ Slice(d, off, len) \in Seq(Byte)
         /\ off + Len(Slice(d, off, len)) <= Len(d) \/ Slice(d, off, len) = <<>>
BY DEF Slice

-----------------------------------------------------------------------------
(* Paths *)

\* A path moved from below a to below b keeps its tail, and moving it back
\* gives the path again.
LEMMA RebaseType ==
  ASSUME NEW p \in Seq(Name), NEW a \in Seq(Name), NEW b \in Seq(Name), Under(p, a)
  PROVE  /\ Rebase(p, a, b) \in Seq(Name)
         /\ Len(Rebase(p, a, b)) = Len(p) - Len(a) + Len(b)
         /\ Under(Rebase(p, a, b), b)
BY DEF Rebase, Under

LEMMA RebaseBack ==
  ASSUME NEW p \in Seq(Name), NEW a \in Seq(Name), NEW b \in Seq(Name), Under(p, a)
  PROVE  Rebase(Rebase(p, a, b), b, a) = p
<1>1. PICK q \in Seq(Name) : q = Rebase(p, a, b)
  BY RebaseType
<1>2. Len(q) = Len(p) - Len(a) + Len(b) /\ Under(q, b)
  BY <1>1, RebaseType
<1>3. PICK r \in Seq(Name) : r = Rebase(q, b, a)
  BY <1>2, RebaseType
<1>4. Len(r) = Len(p)
  BY <1>2, <1>3, RebaseType
<1>5. \A i \in 1..Len(p) : r[i] = p[i]
  BY <1>1, <1>2, <1>3, <1>4 DEF Rebase, Under
<1> QED
  BY <1>1, <1>3, <1>4, <1>5, SeqEqual

\* The parent is one component shorter.
LEMMA DirType ==
  ASSUME NEW p \in Seq(Name)
  PROVE  /\ Dir(p) \in Seq(Name)
         /\ p # <<>> => Len(Dir(p)) = Len(p) - 1
         /\ p = <<>> => Dir(p) = <<>>
         /\ Under(p, Dir(p))
<1>1. Dir(p) \in Seq(Name)
  BY DEF Dir
<1>2. CASE p = <<>>
  <2>1. DOMAIN Dir(p) = {}
    BY <1>2 DEF Dir
  <2>2. Len(Dir(p)) = 0
    BY <1>1, <2>1, LenProperties
  <2>3. Dir(p) = <<>>
    BY <1>1, <2>2, EmptySeq
  <2> QED
    BY <1>1, <1>2, <2>3 DEF Under
<1>3. CASE p # <<>>
  <2>1. Len(p) \in Nat /\ Len(p) > 0
    BY <1>3, EmptySeq
  <2>2. Len(Dir(p)) = Len(p) - 1
    BY <2>1 DEF Dir
  <2> QED
    BY <1>1, <1>3, <2>1, <2>2 DEF Dir, Under
<1> QED
  BY <1>2, <1>3

\* Moving a path below a moves its parent too, and a itself becomes b.
LEMMA RebaseDir ==
  ASSUME NEW p \in Seq(Name), NEW a \in Seq(Name), NEW b \in Seq(Name),
         Under(p, a), p # a
  PROVE  /\ Under(Dir(p), a)
         /\ Dir(Rebase(p, a, b)) = Rebase(Dir(p), a, b)
<1>1. Len(p) > Len(a)
  BY SeqEqual DEF Under
<1>2. Dir(p) \in Seq(Name) /\ Len(Dir(p)) = Len(p) - 1
  BY <1>1, DirType
<1>3. Under(Dir(p), a)
  BY <1>1, <1>2 DEF Under, Dir
<1>4. PICK q \in Seq(Name) : q = Rebase(p, a, b)
  BY RebaseType
<1>5. Len(q) = Len(p) - Len(a) + Len(b)
  BY <1>4, RebaseType
<1>6. Dir(q) \in Seq(Name) /\ Len(Dir(q)) = Len(q) - 1
  <2>1. Len(q) > 0
    BY <1>1, <1>5, LenProperties
  <2>2. q # <<>>
    BY <2>1, EmptySeq
  <2> QED
    BY <2>2, DirType
<1>7. PICK r \in Seq(Name) : r = Rebase(Dir(p), a, b)
  BY <1>2, <1>3, RebaseType
<1>8. Len(r) = Len(q) - 1
  <2>1. Len(r) = Len(Dir(p)) - Len(a) + Len(b)
    BY <1>2, <1>3, <1>7, RebaseType
  <2> QED
    BY <1>2, <1>5, <2>1, LenProperties
<1>9. \A i \in 1..Len(r) : Dir(q)[i] = r[i]
  BY <1>1, <1>2, <1>4, <1>5, <1>6, <1>7, <1>8 DEF Rebase, Dir
<1> QED
  BY <1>3, <1>4, <1>6, <1>7, <1>8, <1>9, SeqEqual

LEMMA RebaseSelf ==
  ASSUME NEW a \in Seq(Name), NEW b \in Seq(Name)
  PROVE  Under(a, a) /\ Rebase(a, a, b) = b
BY DEF Under, Rebase

-----------------------------------------------------------------------------
(* Type correctness *)

\* Directory snapshots and the map of names are finite.
Finite == /\ IsFiniteSet(DOMAIN nodes)
          /\ \A h \in Handle : IsFiniteSet(file[h].entries)

TypeInv == TypeOK /\ Finite /\ RefsExact

\* Reference counts depend only on which handles are open on which nodes.
LEMMA RefsFrame ==
  ASSUME RefsExact, refs' = refs,
         \A h \in Handle : file'[h].n = file[h].n /\ file'[h].closed = file[h].closed
  PROVE  RefsExact'
BY DEF RefsExact, HandlesOn, IsOpen

\* Every result code is one of Err.
LEMMA ErrType ==
  /\ \A name : LookupErr(name) \in Err
  /\ \A name : ParentErr(name) \in Err
  /\ \A name, fl : OpenErr(name, fl) \in Err
  /\ \A name : ReadDirErr(name) \in Err
  /\ \A name : MkdirErr(name) \in Err
  /\ \A name : RemoveErr(name) \in Err
  /\ \A old, new : RenameErr(old, new) \in Err
  /\ \A h, len, off : ReadErr(h, len, off) \in Err
  /\ \A n, size : ResizeErr(n, size) \in Err
  /\ \A h, p, off : WriteErr(h, p, off) \in Err
  /\ \A h, off, whence : SeekErr(h, off, whence) \in Err
  /\ \A h, size : TruncateErr(h, size) \in Err
  /\ \A h : FileReadDirErr(h) \in Err
<1>1. /\ \A name : LookupErr(name) \in Err
      /\ \A n, size : ResizeErr(n, size) \in Err
  BY DEF LookupErr, ResizeErr, Err
<1>2. /\ \A name : ParentErr(name) \in Err
      /\ \A name : ReadDirErr(name) \in Err
  BY <1>1 DEF ParentErr, ReadDirErr, Err
<1>3. \A name, fl : OpenErr(name, fl) \in Err
  BY <1>2 DEF OpenErr, Err
<1>4. /\ \A name : MkdirErr(name) \in Err
      /\ \A name : RemoveErr(name) \in Err
  BY <1>1, <1>2 DEF MkdirErr, RemoveErr, Err
<1>5. \A old, new : RenameErr(old, new) \in Err
  BY <1>1, <1>2 DEF RenameErr, Err
<1>6. /\ \A h, len, off : ReadErr(h, len, off) \in Err
      /\ \A h, off, whence : SeekErr(h, off, whence) \in Err
  BY DEF ReadErr, SeekErr, Err
<1>7. /\ \A h, p, off : WriteErr(h, p, off) \in Err
      /\ \A h, size : TruncateErr(h, size) \in Err
      /\ \A h : FileReadDirErr(h) \in Err
  BY <1>1, <1>2 DEF WriteErr, TruncateErr, FileReadDirErr, Err
<1> QED
  BY <1>1, <1>2, <1>3, <1>4, <1>5, <1>6, <1>7

\* A call that changes neither the store nor a handle keeps every type.
LEMMA FailType ==
  ASSUME TypeInv, UNCHANGED <<store, file>>, ret'.err \in Err
  PROVE  TypeInv'
<1>1. TypeOK'
  BY DEF TypeInv, TypeOK, store
<1>2. Finite'
  BY DEF TypeInv, Finite, store
<1>3. RefsExact'
  BY DEF TypeInv, RefsExact, HandlesOn, IsOpen, store
<1> QED
  BY <1>1, <1>2, <1>3 DEF TypeInv

THEOREM TypeInit == Init => TypeInv
<1> SUFFICES ASSUME Init PROVE TypeInv
  OBVIOUS
<1>1. TypeOK
  BY PathAssumption, StoreAssumption
  DEF Init, TypeOK, FileType, ClosedFile, Reply, Err
<1>2. Finite
  BY FS_EmptySet, FS_Singleton DEF Init, Finite, ClosedFile
<1>3. RefsExact
  <2>1. \A n \in Node : HandlesOn(n) = {}
    BY DEF Init, HandlesOn, IsOpen, ClosedFile
  <2> QED
    BY <2>1, FS_EmptySet DEF Init, RefsExact
<1> QED
  BY <1>1, <1>2, <1>3 DEF TypeInv

LEMMA HandlesFinite ==
  ASSUME NEW n \in Node
  PROVE  /\ IsFiniteSet(HandlesOn(n))
         /\ Cardinality(HandlesOn(n)) \in Nat
BY StoreAssumption, FS_Subset, FS_CardinalityType DEF HandlesOn

\* Opening a handle adds one to the count of its node.
LEMMA RefsOpen ==
  ASSUME TypeInv, NEW h \in Handle, file[h].closed, NEW n \in Node, NEW f \in FileType,
         f.n = n, ~f.closed, file' = [file EXCEPT ![h] = f],
         refs' = [refs EXCEPT ![n] = @ + 1]
  PROVE  RefsExact'
<1> SUFFICES ASSUME NEW m \in Node
             PROVE  refs'[m] = Cardinality(HandlesOn(m)')
  BY DEF RefsExact
<1>1. CASE m = n
  <2>1. HandlesOn(m)' = HandlesOn(m) \cup {h} /\ h \notin HandlesOn(m)
    BY <1>1 DEF HandlesOn, IsOpen, TypeInv, TypeOK
  <2>2. refs'[m] = Cardinality(HandlesOn(m)) + 1
    BY <1>1 DEF TypeInv, RefsExact, TypeOK
  <2> QED
    BY <2>1, <2>2, FS_AddElement, HandlesFinite
<1>2. CASE m # n
  <2>1. HandlesOn(m)' = HandlesOn(m)
    BY <1>2 DEF HandlesOn, IsOpen, TypeInv, TypeOK
  <2> QED
    BY <1>2, <2>1 DEF TypeInv, RefsExact, TypeOK
<1> QED
  BY <1>1, <1>2

\* Closing one takes it away again, so the count of a node with an open
\* handle is positive.
LEMMA RefsPositive ==
  ASSUME TypeInv, NEW h \in Handle, IsOpen(h)
  PROVE  file[h].n \in Node /\ refs[file[h].n] > 0
<1>1. file[h].n \in Node /\ h \in HandlesOn(file[h].n)
  BY DEF TypeInv, TypeOK, FileType, HandlesOn
<1>2. Cardinality(HandlesOn(file[h].n)) # 0
  BY <1>1, FS_EmptySet, HandlesFinite
<1> QED
  BY <1>1, <1>2, HandlesFinite DEF TypeInv, RefsExact

LEMMA RefsClose ==
  ASSUME TypeInv, NEW h \in Handle, IsOpen(h), file' = [file EXCEPT ![h] = ClosedFile],
         refs' = [refs EXCEPT ![file[h].n] = @ - 1]
  PROVE  RefsExact'
<1> DEFINE n == file[h].n
<1> SUFFICES ASSUME NEW m \in Node
             PROVE  refs'[m] = Cardinality(HandlesOn(m)')
  BY DEF RefsExact
<1>1. CASE m = n
  <2>1. HandlesOn(m)' = HandlesOn(m) \ {h} /\ h \in HandlesOn(m)
    BY <1>1 DEF HandlesOn, IsOpen, TypeInv, TypeOK, ClosedFile
  <2>2. refs'[m] = Cardinality(HandlesOn(m)) - 1
    BY <1>1 DEF TypeInv, RefsExact, TypeOK
  <2> QED
    BY <2>1, <2>2, FS_RemoveElement, HandlesFinite
<1>2. CASE m # n
  <2>1. HandlesOn(m)' = HandlesOn(m)
    BY <1>2 DEF HandlesOn, IsOpen, TypeInv, TypeOK, ClosedFile
  <2> QED
    BY <1>2, <2>1 DEF TypeInv, RefsExact, TypeOK
<1> QED
  BY <1>1, <1>2

LEMMA OpenFileType ==
  ASSUME TypeInv, NEW h \in Handle, NEW name \in PathArg, NEW fl \in Flag,
         NEW perm \in Perm, OpenFile(h, name, fl, perm)
  PROVE  TypeInv'
<1>1. CASE OpenExisting(h, name, fl)
  <2>1. name \in DOMAIN nodes /\ nodes[name] \in Node /\ name \in Path
    BY <1>1 DEF OpenExisting, LookupErr, TypeInv, TypeOK
  <2>2. OpenedFile(nodes[name], name, fl) \in FileType
    BY <2>1, ArgumentAssumption DEF OpenedFile, FileType, AllFlags
  <2>3. TypeOK'
    <3>1. /\ data' \in [Node -> Seq(Byte)]
          /\ refs' \in [Node -> Nat]
          /\ used' \in Int
          /\ file' \in [Handle -> FileType]
      BY <1>1, <2>1, <2>2 DEF OpenExisting, TypeInv, TypeOK
    <3>2. meta' \in [Node -> [perm: Perm, atime: Stamp, mtime: Stamp]]
      BY <1>1, <2>1, StoreAssumption DEF OpenExisting, TypeInv, TypeOK, Touched
    <3>3. UNCHANGED <<nodes, isDir, linked>> /\ ret'.err \in Err
      BY <1>1 DEF OpenExisting, Reply, Err
    <3> QED
      BY <3>1, <3>2, <3>3 DEF TypeInv, TypeOK
  <2>4. Finite'
    BY <1>1, <2>1, <2>2, FS_EmptySet DEF OpenExisting, TypeInv, TypeOK, Finite, OpenedFile
  <2>5. RefsExact'
    BY <1>1, <2>1, <2>2, RefsOpen DEF OpenExisting, OpenFile, OpenedFile
  <2> QED
    BY <2>3, <2>4, <2>5 DEF TypeInv
<1>2. CASE OpenCreating(h, name, fl, perm)
  <2>1. PICK n \in Node :
          /\ newNode(n, FALSE, perm)
          /\ Bind(name, n)
          /\ IF OpenErr(name, fl) = "OK"
             THEN /\ refs' = [refs EXCEPT ![n] = @ + 1]
                  /\ file' = [file EXCEPT ![h] = OpenedFile(n, name, fl)]
             ELSE UNCHANGED <<refs, file>>
    BY <1>2 DEF OpenCreating
  <2>2. name \in Path
    BY <1>2 DEF OpenCreating, LookupErr, PathArg
  <2>3. OpenedFile(n, name, fl) \in FileType
    BY <2>2, ArgumentAssumption DEF OpenedFile, FileType, AllFlags
  <2>4. refs' \in [Node -> Nat] /\ file' \in [Handle -> FileType]
    <3>1. refs \in [Node -> Nat] /\ file \in [Handle -> FileType]
      BY DEF TypeInv, TypeOK
    <3>2. CASE OpenErr(name, fl) = "OK"
      BY <2>1, <2>3, <3>1, <3>2
    <3>3. CASE OpenErr(name, fl) # "OK"
      BY <2>1, <3>1, <3>3
    <3> QED
      BY <3>2, <3>3
  <2>5. TypeOK'
    <3>1. DOMAIN nodes' \subseteq Path /\ \A p \in DOMAIN nodes' : nodes'[p] \in Node
      BY <2>1, <2>2 DEF Bind, TypeInv, TypeOK
    <3>2. used' = used /\ ret'.err \in Err
      BY <1>2, ErrType DEF OpenCreating, Reply
    <3>3. /\ isDir' \in [Node -> BOOLEAN]
          /\ linked' \in [Node -> BOOLEAN]
          /\ data' \in [Node -> Seq(Byte)]
      BY <2>1 DEF newNode, TypeInv, TypeOK
    <3>4. meta' \in [Node -> [perm: Perm, atime: Stamp, mtime: Stamp]]
      BY <2>1, StoreAssumption DEF newNode, TypeInv, TypeOK
    <3> QED
      BY <2>4, <3>1, <3>2, <3>3, <3>4 DEF TypeInv, TypeOK
  <2>6. Finite'
    <3>1. IsFiniteSet(DOMAIN nodes')
      BY <2>1, FS_AddElement DEF Bind, TypeInv, Finite
    <3>2. \A g \in Handle : file'[g] = file[g] \/ file'[g].entries = {}
      BY <2>1 DEF OpenedFile, TypeInv, TypeOK
    <3> QED
      BY <3>1, <3>2, FS_EmptySet DEF TypeInv, Finite
  <2>7. RefsExact'
    BY <2>1, <2>3, RefsOpen, RefsFrame DEF OpenFile, OpenedFile, TypeInv
  <2> QED
    BY <2>5, <2>6, <2>7 DEF TypeInv
<1>3. CASE OpenRefused(name, fl)
  BY <1>3, FailType, ErrType DEF OpenRefused, Fail, Reply
<1> QED
  BY <1>1, <1>2, <1>3 DEF OpenFile

\* The store keeps its types when only names, links and contents change.
LEMMA NamesType ==
  ASSUME TypeInv, DOMAIN nodes' \subseteq Path, IsFiniteSet(DOMAIN nodes'),
         \A p \in DOMAIN nodes' : nodes'[p] \in Node,
         isDir' \in [Node -> BOOLEAN],
         meta' \in [Node -> [perm: Perm, atime: Stamp, mtime: Stamp]],
         data' \in [Node -> Seq(Byte)], linked' \in [Node -> BOOLEAN], used' \in Int,
         UNCHANGED <<refs, file>>, ret'.err \in Err
  PROVE  TypeInv'
<1>1. TypeOK'
  BY DEF TypeInv, TypeOK
<1>2. Finite'
  BY DEF TypeInv, Finite
<1>3. RefsExact'
  BY RefsFrame DEF TypeInv
<1> QED
  BY <1>1, <1>2, <1>3 DEF TypeInv

LEMMA StatType ==
  ASSUME TypeInv, NEW name \in PathArg, Stat(name) \/ ReadDir(name)
  PROVE  TypeInv'
<1>1. UNCHANGED <<store, file>> /\ ret'.err \in Err
  BY ErrType DEF Stat, ReadDir, Fail, Reply, Err
<1> QED
  BY <1>1, FailType

LEMMA MkdirType ==
  ASSUME TypeInv, NEW name \in PathArg, NEW perm \in Perm, Mkdir(name, perm)
  PROVE  TypeInv'
<1>1. CASE MkdirErr(name) # "OK"
  BY <1>1, FailType, ErrType DEF Mkdir, Fail, Reply
<1>2. CASE MkdirErr(name) = "OK"
  <2>1. PICK n \in Node : newNode(n, TRUE, perm) /\ Bind(name, n)
    BY <1>2 DEF Mkdir
  <2>2. name \in Path
    BY <1>2 DEF MkdirErr, PathArg
  <2>3. DOMAIN nodes' \subseteq Path /\ \A p \in DOMAIN nodes' : nodes'[p] \in Node
    BY <2>1, <2>2 DEF Bind, TypeInv, TypeOK
  <2>4. IsFiniteSet(DOMAIN nodes')
    BY <2>1, FS_AddElement DEF Bind, TypeInv, Finite
  <2>5. /\ isDir' \in [Node -> BOOLEAN]
        /\ linked' \in [Node -> BOOLEAN]
        /\ data' \in [Node -> Seq(Byte)]
    BY <2>1 DEF newNode, TypeInv, TypeOK
  <2>6. meta' \in [Node -> [perm: Perm, atime: Stamp, mtime: Stamp]]
    BY <2>1, StoreAssumption DEF newNode, TypeInv, TypeOK
  <2>7. UNCHANGED <<refs, used, file>> /\ ret'.err \in Err
    BY <1>2 DEF Mkdir, Reply, Err
  <2>8. used' \in Int
    BY <2>7 DEF TypeInv, TypeOK
  <2> QED
    BY <2>3, <2>4, <2>5, <2>6, <2>7, <2>8, NamesType
<1> QED
  BY <1>1, <1>2

LEMMA UnlinkType ==
  ASSUME TypeInv, NEW n \in Node, unlink(n)
  PROVE  /\ linked' \in [Node -> BOOLEAN]
         /\ used' \in Int
         /\ data' \in [Node -> Seq(Byte)]
BY DEF unlink, TypeInv, TypeOK

LEMMA RemoveType ==
  ASSUME TypeInv, NEW name \in PathArg, Remove(name)
  PROVE  TypeInv'
<1>1. CASE RemoveErr(name) # "OK"
  BY <1>1, FailType, ErrType DEF Remove, Fail, Reply
<1>2. CASE RemoveErr(name) = "OK"
  <2>1. nodes[name] \in Node
    BY <1>2 DEF RemoveErr, LookupErr, TypeInv, TypeOK
  <2>2. /\ DOMAIN nodes' = DOMAIN nodes \ {name}
        /\ \A p \in DOMAIN nodes' : nodes'[p] = nodes[p]
    BY <1>2 DEF Remove
  <2>3. IsFiniteSet(DOMAIN nodes')
    BY <2>2, FS_Subset DEF TypeInv, Finite
  <2>4. UNCHANGED <<isDir, meta, refs, file>> /\ ret'.err \in Err
    BY <1>2 DEF Remove, Reply, Err
  <2>5. unlink(nodes[name])
    BY <1>2 DEF Remove
  <2> QED
    BY <2>1, <2>2, <2>3, <2>4, <2>5, UnlinkType, NamesType DEF TypeInv, TypeOK
<1> QED
  BY <1>1, <1>2

\* What a rename that moves something finds and leaves.
LEMMA RenameMoves ==
  ASSUME TypeInv, NEW old \in PathArg, NEW new \in PathArg, Rename(old, new),
         RenameErr(old, new) = "OK", old # new
  PROVE  /\ old \in DOMAIN nodes /\ old # <<>>
         /\ new \in Path /\ new # <<>> /\ ~Under(new, old)
         /\ Dir(new) \in DOMAIN nodes /\ isDir[nodes[Dir(new)]]
         /\ new \in DOMAIN nodes => /\ isDir[nodes[new]] = isDir[nodes[old]]
                                    /\ isDir[nodes[new]] => ~HasChild(new)
                                    /\ unlink(nodes[new])
         /\ new \notin DOMAIN nodes => UNCHANGED <<linked, used, data>>
         /\ MovedTo(old, new) \subseteq Path
         /\ MoveNodes(old, new)
         /\ UNCHANGED <<isDir, meta, refs, file>>
         /\ ret' = Reply("OK")
<1>1. /\ MovedTo(old, new) \subseteq Path
      /\ MoveNodes(old, new)
      /\ UNCHANGED <<isDir, meta, refs, file>>
      /\ ret' = Reply("OK")
      /\ new \in DOMAIN nodes => unlink(nodes[new])
      /\ new \notin DOMAIN nodes => UNCHANGED <<linked, used, data>>
  BY DEF Rename, RenameInBounds
<1>2. LookupErr(old) = "OK" /\ ParentErr(new) = "OK"
  BY DEF RenameErr
<1>3. /\ old \in DOMAIN nodes
      /\ Dir(new) \in DOMAIN nodes /\ isDir[nodes[Dir(new)]]
  BY <1>2 DEF LookupErr, ParentErr
<1>4. old # <<>> /\ new # <<>> /\ new \in Path /\ ~Under(new, old)
  BY DEF RenameErr, PathArg
<1>5. new \in DOMAIN nodes => /\ isDir[nodes[new]] = isDir[nodes[old]]
                              /\ isDir[nodes[new]] => ~HasChild(new)
  BY <1>3, <1>4 DEF RenameErr, TypeInv, TypeOK
<1> QED
  BY <1>1, <1>3, <1>4, <1>5

\* The image of a finite set is finite.
LEMMA FiniteImage ==
  ASSUME NEW S, IsFiniteSet(S), NEW f, NEW T, T = {f[x] : x \in S}
  PROVE  IsFiniteSet(T)
<1> DEFINE g == [x \in S |-> f[x]]
<1>1. g \in Surjection(S, T)
  BY DEF Surjection
<1> QED
  BY <1>1, FS_Surjection

\* The map after a rename, seen from the names before it.
LEMMA RenamedNodes ==
  ASSUME TypeInv, NEW old \in Path, NEW new \in Path, MoveNodes(old, new)
  PROVE  /\ DOMAIN nodes' = (DOMAIN nodes \ Moved(old)) \cup MovedTo(old, new)
         /\ \A p \in Moved(old) : /\ Rebase(p, old, new) \in MovedTo(old, new)
                                  /\ nodes'[Rebase(p, old, new)] = nodes[p]
         /\ \A q \in MovedTo(old, new) :
              /\ Under(q, new)
              /\ Rebase(q, new, old) \in Moved(old)
              /\ Rebase(Rebase(q, new, old), old, new) = q
              /\ nodes'[q] = nodes[Rebase(q, new, old)]
         /\ \A q \in DOMAIN nodes' : q \notin MovedTo(old, new) =>
              q \in DOMAIN nodes /\ ~Under(q, old) /\ nodes'[q] = nodes[q]
<1>1. old \in Seq(Name) /\ new \in Seq(Name) /\ DOMAIN nodes \subseteq Seq(Name)
  BY PathAssumption DEF TypeInv, TypeOK
<1>2. \A p \in Moved(old) : /\ Rebase(p, old, new) \in Seq(Name)
                            /\ Under(Rebase(p, old, new), new)
                            /\ Rebase(Rebase(p, old, new), new, old) = p
                            /\ Rebase(p, old, new) \in MovedTo(old, new)
  BY <1>1, RebaseType, RebaseBack DEF Moved, MovedTo
<1>3. \A q \in MovedTo(old, new) :
         /\ Under(q, new)
         /\ Rebase(q, new, old) \in Moved(old)
         /\ Rebase(Rebase(q, new, old), old, new) = q
  BY <1>2 DEF MovedTo
<1>4. DOMAIN nodes' = (DOMAIN nodes \ Moved(old)) \cup MovedTo(old, new)
  BY DEF MoveNodes
<1>5. \A q \in MovedTo(old, new) : nodes'[q] = nodes[Rebase(q, new, old)]
  BY <1>4 DEF MoveNodes
<1>6. \A q \in DOMAIN nodes' : q \notin MovedTo(old, new) =>
         q \in DOMAIN nodes /\ ~Under(q, old) /\ nodes'[q] = nodes[q]
  BY <1>4 DEF MoveNodes, Moved
<1>7. \A p \in Moved(old) : nodes'[Rebase(p, old, new)] = nodes[p]
  BY <1>2, <1>5
<1> QED
  BY <1>2, <1>3, <1>4, <1>5, <1>6, <1>7

LEMMA RenameType ==
  ASSUME TypeInv, NEW old \in PathArg, NEW new \in PathArg, Rename(old, new)
  PROVE  TypeInv'
<1>1. CASE RenameErr(old, new) # "OK" \/ old = new
  <2>1. UNCHANGED <<store, file>> /\ ret'.err \in Err
    BY <1>1, ErrType DEF Rename, Fail, Reply, Err
  <2> QED
    BY <2>1, FailType
<1>2. CASE RenameErr(old, new) = "OK" /\ old # new
  <2>1. old \in Path /\ new \in Path /\ MoveNodes(old, new)
    BY <1>2, RenameMoves DEF TypeInv, TypeOK
  <2>2. DOMAIN nodes' = (DOMAIN nodes \ Moved(old)) \cup MovedTo(old, new)
    BY <2>1, RenamedNodes
  <2>3. DOMAIN nodes' \subseteq Path
    BY <1>2, <2>2, RenameMoves DEF TypeInv, TypeOK
  <2>4. \A q \in DOMAIN nodes' : nodes'[q] \in Node
    BY <2>1, RenamedNodes DEF TypeInv, TypeOK, Moved
  <2>5. IsFiniteSet(DOMAIN nodes')
    <3>1. IsFiniteSet(DOMAIN nodes \ Moved(old)) /\ IsFiniteSet(Moved(old))
      BY FS_Subset DEF TypeInv, Finite, Moved
    <3>2. IsFiniteSet(MovedTo(old, new))
      <4> DEFINE f == [p \in Moved(old) |-> Rebase(p, old, new)]
      <4>1. MovedTo(old, new) = {f[p] : p \in Moved(old)}
        BY DEF MovedTo
      <4> HIDE DEF f
      <4> QED
        BY <3>1, <4>1, FiniteImage
    <3> QED
      BY <2>2, <3>1, <3>2, FS_Union
  <2>6. linked' \in [Node -> BOOLEAN] /\ used' \in Int /\ data' \in [Node -> Seq(Byte)]
    <3>1. CASE new \in DOMAIN nodes
      BY <1>2, <3>1, RenameMoves, UnlinkType DEF TypeInv, TypeOK
    <3>2. CASE new \notin DOMAIN nodes
      BY <1>2, <3>2, RenameMoves DEF TypeInv, TypeOK
    <3> QED
      BY <3>1, <3>2
  <2>7. UNCHANGED <<isDir, meta, refs, file>> /\ ret'.err \in Err
    BY <1>2, RenameMoves DEF Reply, Err
  <2> QED
    BY <2>3, <2>4, <2>5, <2>6, <2>7, NamesType DEF TypeInv, TypeOK
<1> QED
  BY <1>1, <1>2

LEMMA SetMetaType ==
  ASSUME TypeInv, NEW n \in Node, NEW m \in [perm: Perm, atime: Stamp, mtime: Stamp],
         SetMeta(n, m)
  PROVE  TypeInv'
<1>1. /\ UNCHANGED <<nodes, isDir, data, refs, linked, used, file>>
      /\ ret'.err \in Err
      /\ meta' \in [Node -> [perm: Perm, atime: Stamp, mtime: Stamp]]
  BY DEF SetMeta, Reply, Err, TypeInv, TypeOK
<1> QED
  BY <1>1, NamesType DEF TypeInv, TypeOK, Finite

LEMMA ChmodType ==
  ASSUME TypeInv, NEW name \in PathArg, NEW perm \in Perm, Chmod(name, perm)
  PROVE  TypeInv'
<1>1. CASE LookupErr(name) # "OK"
  BY <1>1, FailType, ErrType DEF Chmod, Fail, Reply
<1>2. CASE LookupErr(name) = "OK"
  <2>1. nodes[name] \in Node
    BY <1>2 DEF LookupErr, TypeInv, TypeOK
  <2>2. [meta[nodes[name]] EXCEPT !.perm = perm] \in [perm: Perm, atime: Stamp, mtime: Stamp]
    BY <2>1 DEF TypeInv, TypeOK
  <2> QED
    BY <1>2, <2>1, <2>2, SetMetaType DEF Chmod
<1> QED
  BY <1>1, <1>2

LEMMA ChtimesType ==
  ASSUME TypeInv, NEW name \in PathArg, NEW a \in Stamp, NEW m \in Stamp, Chtimes(name, a, m)
  PROVE  TypeInv'
<1>1. CASE LookupErr(name) # "OK"
  BY <1>1, FailType, ErrType DEF Chtimes, Fail, Reply
<1>2. CASE LookupErr(name) = "OK"
  <2>1. nodes[name] \in Node
    BY <1>2 DEF LookupErr, TypeInv, TypeOK
  <2>2. [meta[nodes[name]] EXCEPT !.atime = a, !.mtime = m]
           \in [perm: Perm, atime: Stamp, mtime: Stamp]
    BY <2>1 DEF TypeInv, TypeOK
  <2> QED
    BY <1>2, <2>1, <2>2, SetMetaType DEF Chtimes
<1> QED
  BY <1>1, <1>2

\* A step that changes one field of one handle, and of the store only
\* contents, budget and times.
LEMMA HandleType ==
  ASSUME TypeInv, NEW h \in Handle, NEW f \in FileType, file' = [file EXCEPT ![h] = f],
         f.n = file[h].n, f.closed = file[h].closed, IsFiniteSet(f.entries),
         UNCHANGED <<nodes, isDir, refs, linked>>, used' \in Int,
         meta' \in [Node -> [perm: Perm, atime: Stamp, mtime: Stamp]],
         data' \in [Node -> Seq(Byte)], ret'.err \in Err
  PROVE  TypeInv'
<1>1. file' \in [Handle -> FileType]
  BY DEF TypeInv, TypeOK
<1>2. \A g \in Handle : file'[g] = IF g = h THEN f ELSE file[g]
  BY DEF TypeInv, TypeOK
<1>3. TypeOK'
  BY <1>1 DEF TypeInv, TypeOK
<1>4. Finite'
  BY <1>2 DEF TypeInv, Finite
<1>5. RefsExact'
  BY <1>2, RefsFrame DEF TypeInv
<1> QED
  BY <1>3, <1>4, <1>5 DEF TypeInv

LEMMA PosType ==
  ASSUME TypeInv, NEW h \in Handle, NEW pos \in Int
  PROVE  LET f == [file[h] EXCEPT !.pos = pos] IN
         /\ f \in FileType /\ f.n = file[h].n /\ f.closed = file[h].closed
         /\ IsFiniteSet(f.entries) /\ f.pos = pos
<1>1. file[h] \in FileType
  BY DEF TypeInv, TypeOK
<1>2. IsFiniteSet(file[h].entries)
  BY DEF TypeInv, Finite
<1> QED
  BY <1>1, <1>2 DEF FileType

LEMMA FileStatType ==
  ASSUME TypeInv, NEW h \in Handle, FileStat(h)
  PROVE  TypeInv'
<1>1. UNCHANGED <<store, file>> /\ ret'.err \in Err
  BY DEF FileStat, Fail, Reply, Err
<1> QED
  BY <1>1, FailType

LEMMA CloseType ==
  ASSUME TypeInv, NEW h \in Handle, Close(h)
  PROVE  TypeInv'
<1>1. CASE ~IsOpen(h)
  BY <1>1, FailType DEF Close, Fail, Reply, Err
<1>2. CASE IsOpen(h)
  <2>1. file[h].n \in Node /\ refs[file[h].n] > 0
    BY <1>2, RefsPositive
  <2>2. ClosedFile \in FileType
    BY PathAssumption, StoreAssumption DEF ClosedFile, FileType
  <2>3. /\ refs' = [refs EXCEPT ![file[h].n] = @ - 1]
        /\ file' = [file EXCEPT ![h] = ClosedFile]
    BY <1>2 DEF Close
  <2>4. TypeOK'
    <3>1. refs' \in [Node -> Nat] /\ file' \in [Handle -> FileType]
      BY <2>1, <2>2, <2>3 DEF TypeInv, TypeOK
    <3>2. data' \in [Node -> Seq(Byte)] /\ used' \in Int
      <4>1. data \in [Node -> Seq(Byte)] /\ used \in Int /\ <<>> \in Seq(Byte)
        BY EmptySeq DEF TypeInv, TypeOK
      <4>2. data[file[h].n] \in Seq(Byte) /\ Len(data[file[h].n]) \in Nat
        BY <2>1, <4>1, LenProperties
      <4>3. \E d \in {<<>>, data[file[h].n]} : data' = [data EXCEPT ![file[h].n] = d]
        BY <1>2 DEF Close
      <4>4. \E k \in {0, Len(data[file[h].n])} : used' = used - k
        BY <1>2 DEF Close
      <4>5. data' \in [Node -> Seq(Byte)]
        BY <4>1, <4>2, <4>3
      <4>6. used' \in Int
        BY <4>1, <4>2, <4>4
      <4> QED
        BY <4>5, <4>6
    <3>3. UNCHANGED <<nodes, isDir, meta, linked>> /\ ret'.err \in Err
      BY <1>2 DEF Close, Reply, Err
    <3> QED
      BY <3>1, <3>2, <3>3 DEF TypeInv, TypeOK
  <2>5. Finite'
    <3>1. \A g \in Handle : file'[g] = file[g] \/ file'[g].entries = {}
      BY <2>3 DEF ClosedFile, TypeInv, TypeOK
    <3>2. nodes' = nodes
      BY <1>2 DEF Close
    <3> QED
      BY <3>1, <3>2, FS_EmptySet DEF TypeInv, Finite
  <2>6. RefsExact'
    BY <1>2, <2>3, RefsClose
  <2> QED
    BY <2>4, <2>5, <2>6 DEF TypeInv
<1> QED
  BY <1>1, <1>2

\* A read hands out a piece of the file that starts at the offset.
LEMMA readAtType ==
  ASSUME TypeInv, NEW h \in Handle, NEW len \in Nat, NEW off \in Int
  PROVE  LET r == readAt(h, len, off) IN
         /\ r.err \in Err
         /\ r.bytes \in Seq(Byte)
         /\ r.bytes = <<>> \/ off + Len(r.bytes) <= Len(data[file[h].n])
<1>1. file[h].n \in Node /\ data[file[h].n] \in Seq(Byte)
  BY DEF TypeInv, TypeOK, FileType
<1>2. CASE ReadErr(h, len, off) \in {"OK", "EOF"}
  <2>1. off \in Nat
    BY <1>2 DEF ReadErr
  <2>2. /\ Slice(data[file[h].n], off, len) \in Seq(Byte)
        /\ \/ Slice(data[file[h].n], off, len) = <<>>
           \/ off + Len(Slice(data[file[h].n], off, len)) <= Len(data[file[h].n])
    BY <1>1, <2>1, SliceType
  <2> QED
    BY <1>2, <2>2 DEF readAt, Reply, Err
<1>3. CASE ReadErr(h, len, off) \notin {"OK", "EOF"}
  BY <1>3, ErrType DEF readAt, Reply
<1> QED
  BY <1>2, <1>3

LEMMA ReadType ==
  ASSUME TypeInv, NEW h \in Handle, NEW len \in ReadLen, Read(h, len)
  PROVE  TypeInv'
<1> DEFINE r == readAt(h, len, file[h].pos)
           f == [file[h] EXCEPT !.pos = Wrap(file[h].pos + Len(r.bytes))]
<1>1. len \in Nat /\ file[h].pos \in Int
  BY ArgumentAssumption, StoreAssumption DEF TypeInv, TypeOK, FileType
<1>2. r.err \in Err /\ r.bytes \in Seq(Byte)
  BY <1>1, readAtType
<1>3. Wrap(file[h].pos + Len(r.bytes)) \in Int
  <2>1. Len(r.bytes) \in Nat
    BY <1>2, LenProperties
  <2>2. file[h].pos + Len(r.bytes) \in Int
    BY <1>1, <2>1
  <2> QED
    BY <2>2, WrapType
<1>4. /\ f \in FileType /\ f.n = file[h].n /\ f.closed = file[h].closed
      /\ IsFiniteSet(f.entries)
  BY <1>3, PosType
<1>5. file' = [file EXCEPT ![h] = f] /\ ret' = r /\ UNCHANGED store
  BY DEF Read
<1> HIDE DEF f, r
<1> QED
  BY <1>2, <1>4, <1>5, HandleType DEF store, TypeInv, TypeOK

LEMMA ReadAtType ==
  ASSUME TypeInv, NEW h \in Handle, NEW len \in ReadLen, NEW off \in Offset,
         ReadAt(h, len, off)
  PROVE  TypeInv'
<1>1. len \in Nat /\ off \in Int
  BY ArgumentAssumption, StoreAssumption DEF Int64
<1>2. ret'.err \in Err /\ UNCHANGED <<store, file>>
  BY <1>1, readAtType DEF ReadAt
<1> QED
  BY <1>2, FailType

\* What a write does to the contents and to the budget.
LEMMA StoreEffect ==
  ASSUME TypeInv, NEW n \in Node, NEW p \in Payload, NEW off \in Nat, Store(n, p, off)
  PROVE  /\ UNCHANGED <<nodes, isDir, refs, linked>>
         /\ meta' \in [Node -> [perm: Perm, atime: Stamp, mtime: Stamp]]
         /\ \E d \in Seq(Byte) :
              /\ data' = [data EXCEPT ![n] = d]
              /\ \/ d = data[n] /\ used' = used
                 \/ /\ Len(d) = IF Wrap(off + Len(p)) > Len(data[n])
                                THEN Wrap(off + Len(p)) ELSE Len(data[n])
                    /\ used' = Wrap(used + (Len(d) - Len(data[n])))
<1>1. /\ data \in [Node -> Seq(Byte)] /\ data[n] \in Seq(Byte) /\ Len(data[n]) \in Nat
      /\ p \in Seq(Byte) /\ Len(p) \in Nat
  BY ArgumentAssumption, LenProperties DEF TypeInv, TypeOK
<1>2. CASE Len(p) = 0
  <2>1. UNCHANGED store
    BY <1>2 DEF Store
  <2>2. data' = [data EXCEPT ![n] = data[n]] /\ used' = used
    BY <1>1, <2>1 DEF store
  <2> QED
    BY <1>1, <2>1, <2>2 DEF store, TypeInv, TypeOK
<1>3. CASE Len(p) # 0
  <2> DEFINE end == Wrap(off + Len(p))
             grown == IF end > Len(data[n]) THEN Resized(data[n], end) ELSE data[n]
             d == Overwritten(grown, p, off)
  <2>1. end \in Int
    BY <1>1, WrapType
  <2>2. /\ grown \in Seq(Byte)
        /\ Len(grown) = IF end > Len(data[n]) THEN end ELSE Len(data[n])
    <3> HIDE DEF end
    <3>1. CASE end > Len(data[n])
      <4>1. end \in Nat
        BY <1>1, <2>1, <3>1
      <4> QED
        BY <1>1, <3>1, <4>1, ResizedType
    <3>2. CASE ~(end > Len(data[n]))
      BY <1>1, <3>2
    <3> QED
      BY <3>1, <3>2
  <2>3. d \in Seq(Byte) /\ Len(d) = Len(grown)
    BY <1>1, <2>2, OverwrittenType
  <2>4. /\ data' = [data EXCEPT ![n] = d]
        /\ used' = Wrap(used + (Len(grown) - Len(data[n])))
        /\ meta' = Touched(n)
        /\ UNCHANGED <<nodes, isDir, refs, linked>>
    BY <1>3 DEF Store
  <2>5. meta' \in [Node -> [perm: Perm, atime: Stamp, mtime: Stamp]]
    BY <2>4, StoreAssumption DEF Touched, TypeInv, TypeOK
  <2> HIDE DEF d, grown, end
  <2>6. Len(d) = IF end > Len(data[n]) THEN end ELSE Len(data[n])
    BY <2>2, <2>3
  <2>7. used' = Wrap(used + (Len(d) - Len(data[n])))
    BY <2>3, <2>4
  <2> QED
    BY <2>3, <2>4, <2>5, <2>6, <2>7 DEF end
<1> QED
  BY <1>2, <1>3

LEMMA writeAtType ==
  ASSUME TypeInv, NEW h \in Handle, NEW p \in Payload, NEW off \in Int, writeAt(h, p, off)
  PROVE  /\ UNCHANGED <<nodes, isDir, refs, linked>>
         /\ meta' \in [Node -> [perm: Perm, atime: Stamp, mtime: Stamp]]
         /\ data' \in [Node -> Seq(Byte)]
         /\ used' \in Int
         /\ ret'.err \in Err
<1>1. ret'.err \in Err
  BY ErrType DEF writeAt, Reply
<1>2. file[h].n \in Node
  BY DEF TypeInv, TypeOK, FileType
<1>3. CASE WriteErr(h, p, off) = "OK"
  <2>1. off \in Nat /\ Store(file[h].n, p, off)
    BY <1>3 DEF WriteErr, writeAt
  <2>2. PICK d \in Seq(Byte) :
          /\ data' = [data EXCEPT ![file[h].n] = d]
          /\ \/ used' = used
             \/ used' = Wrap(used + (Len(d) - Len(data[file[h].n])))
    BY <1>2, <2>1, StoreEffect
  <2>3. Len(d) \in Nat /\ Len(data[file[h].n]) \in Nat /\ used \in Int
    BY <1>2, LenProperties DEF TypeInv, TypeOK
  <2>4. used + (Len(d) - Len(data[file[h].n])) \in Int
    BY <2>3
  <2>5. used' \in Int
    BY <2>2, <2>3, <2>4, WrapType
  <2>6. data' \in [Node -> Seq(Byte)]
    BY <1>2, <2>2 DEF TypeInv, TypeOK
  <2> QED
    BY <1>1, <1>2, <2>1, <2>5, <2>6, StoreEffect
<1>4. CASE WriteErr(h, p, off) # "OK"
  BY <1>1, <1>4 DEF writeAt, store, TypeInv, TypeOK
<1> QED
  BY <1>3, <1>4

LEMMA WriteType ==
  ASSUME TypeInv, NEW h \in Handle, NEW p \in Payload, Write(h, p)
  PROVE  TypeInv'
<1>1. CASE ~IsOpen(h)
  BY <1>1, FailType DEF Write, Fail, Reply, Err
<1>2. CASE IsOpen(h)
  <2> DEFINE pos == Wrap(WritePos(h) +
                      (IF WriteErr(h, p, WritePos(h)) = "OK" THEN Len(p) ELSE 0))
             f == [file[h] EXCEPT !.pos = pos]
  <2>1. WritePos(h) \in Int /\ Len(p) \in Nat
    BY LenProperties, ArgumentAssumption DEF WritePos, TypeInv, TypeOK, FileType
  <2>2. pos \in Int
    BY <2>1, WrapType
  <2>3. writeAt(h, p, WritePos(h)) /\ file' = [file EXCEPT ![h] = f]
    BY <1>2 DEF Write
  <2> HIDE DEF pos
  <2>4. /\ f \in FileType /\ f.n = file[h].n /\ f.closed = file[h].closed
        /\ IsFiniteSet(f.entries)
    BY <2>2, PosType
  <2> HIDE DEF f
  <2> QED
    BY <2>1, <2>3, <2>4, writeAtType, HandleType
<1> QED
  BY <1>1, <1>2

LEMMA WriteAtType ==
  ASSUME TypeInv, NEW h \in Handle, NEW p \in Payload, NEW off \in Offset, WriteAt(h, p, off)
  PROVE  TypeInv'
<1>1. CASE ~IsOpen(h) \/ file[h].append
  BY <1>1, FailType DEF WriteAt, Fail, Reply, Err
<1>2. CASE IsOpen(h) /\ ~file[h].append
  <2>1. off \in Int /\ writeAt(h, p, off) /\ file' = file
    BY <1>2, ArgumentAssumption, StoreAssumption DEF WriteAt, Int64
  <2>2. /\ UNCHANGED <<nodes, isDir, refs, linked, file>>
        /\ meta' \in [Node -> [perm: Perm, atime: Stamp, mtime: Stamp]]
        /\ data' \in [Node -> Seq(Byte)] /\ used' \in Int /\ ret'.err \in Err
    BY <2>1, writeAtType
  <2> QED
    BY <2>2, NamesType DEF TypeInv, TypeOK, Finite
<1> QED
  BY <1>1, <1>2

LEMMA SeekType ==
  ASSUME TypeInv, NEW h \in Handle, NEW off \in Offset, NEW whence \in Whence,
         Seek(h, off, whence)
  PROVE  TypeInv'
<1> DEFINE pos == Wrap(SeekBase(h, whence) + off)
           moved == [file[h] EXCEPT !.pos = pos]
           f == IF pos = 0
                THEN [moved EXCEPT !.listed = FALSE, !.entries = {}, !.dirPos = 0, !.seen = {}]
                ELSE moved
<1>1. CASE SeekErr(h, off, whence) # "OK"
  BY <1>1, FailType, ErrType DEF Seek, Fail, Reply
<1>2. CASE SeekErr(h, off, whence) = "OK"
  <2>1. whence \in {"start", "current", "end"} /\ off \in Int
    BY <1>2, ArgumentAssumption, StoreAssumption DEF SeekErr, Whence, Int64
  <2>2. SeekBase(h, whence) \in Int
    BY <2>1, LenProperties DEF SeekBase, TypeInv, TypeOK, FileType
  <2>3. pos \in Int
    BY <2>1, <2>2, WrapType
  <2>4. file' = [file EXCEPT ![h] = f] /\ ret'.err = "OK" /\ UNCHANGED store
    BY <1>2 DEF Seek, Reply
  <2> HIDE DEF pos
  <2>5. /\ moved \in FileType /\ moved.n = file[h].n /\ moved.closed = file[h].closed
        /\ IsFiniteSet(moved.entries)
    BY <2>3, PosType
  <2> HIDE DEF moved
  <2>6. /\ f \in FileType /\ f.n = file[h].n /\ f.closed = file[h].closed
        /\ IsFiniteSet(f.entries)
    BY <2>5, FS_EmptySet DEF FileType
  <2> HIDE DEF f
  <2>7. ret'.err \in Err
    BY <2>4 DEF Err
  <2> QED
    BY <2>4, <2>6, <2>7, HandleType DEF store, TypeInv, TypeOK
<1> QED
  BY <1>1, <1>2

\* What a truncation that does not fail does.
LEMMA TruncateEffect ==
  ASSUME TypeInv, NEW h \in Handle, NEW size \in Offset, Truncate(h, size),
         TruncateErr(h, size) = "OK"
  PROVE  /\ size \in Nat /\ file[h].n \in Node
         /\ Resized(data[file[h].n], size) \in Seq(Byte)
         /\ Len(Resized(data[file[h].n], size)) = size
         /\ data' = [data EXCEPT ![file[h].n] = Resized(data[file[h].n], size)]
         /\ used' = Wrap(used + Wrap(size - Len(data[file[h].n])))
         /\ used' \in Int
         /\ meta' \in [Node -> [perm: Perm, atime: Stamp, mtime: Stamp]]
         /\ UNCHANGED <<nodes, isDir, refs, linked, file>>
         /\ ret' = Reply("OK")
<1>1. size \in Int
  BY ArgumentAssumption, StoreAssumption DEF Int64
<1>2. size \in Nat
  BY <1>1 DEF TruncateErr, ResizeErr
<1>3. /\ file[h].n \in Node /\ data[file[h].n] \in Seq(Byte)
      /\ Len(data[file[h].n]) \in Nat /\ used \in Int
  BY LenProperties DEF TypeInv, TypeOK, FileType
<1>4. /\ Resized(data[file[h].n], size) \in Seq(Byte)
      /\ Len(Resized(data[file[h].n], size)) = size
  BY <1>2, <1>3, ResizedType
<1>5. /\ data' = [data EXCEPT ![file[h].n] = Resized(data[file[h].n], size)]
      /\ used' = Wrap(used + Wrap(size - Len(data[file[h].n])))
      /\ meta' = Touched(file[h].n)
      /\ UNCHANGED <<nodes, isDir, refs, linked, file>>
      /\ ret' = Reply("OK")
  BY <1>3 DEF Truncate, TypeInv, TypeOK
<1>6. meta' \in [Node -> [perm: Perm, atime: Stamp, mtime: Stamp]]
  BY <1>3, <1>5, StoreAssumption DEF Touched, TypeInv, TypeOK
<1>7. used' \in Int
  <2>1. Wrap(size - Len(data[file[h].n])) \in Int
    BY <1>2, <1>3, WrapType
  <2>2. used + Wrap(size - Len(data[file[h].n])) \in Int
    BY <1>3, <2>1
  <2> QED
    BY <1>5, <2>2, WrapType
<1> QED
  BY <1>2, <1>3, <1>4, <1>5, <1>6, <1>7

LEMMA TruncateType ==
  ASSUME TypeInv, NEW h \in Handle, NEW size \in Offset, Truncate(h, size)
  PROVE  TypeInv'
<1>1. CASE TruncateErr(h, size) # "OK"
  BY <1>1, FailType, ErrType DEF Truncate, Fail, Reply
<1>2. CASE TruncateErr(h, size) = "OK"
  <2>1. ret'.err \in Err
    BY <1>2, TruncateEffect DEF Reply, Err
  <2>2. data' \in [Node -> Seq(Byte)]
    <3>1. PICK d \in Seq(Byte) : data' = [data EXCEPT ![file[h].n] = d]
      BY <1>2, TruncateEffect
    <3> QED
      BY <3>1 DEF TypeInv, TypeOK
  <2> QED
    BY <1>2, <2>1, <2>2, TruncateEffect, NamesType DEF TypeInv, TypeOK, Finite
<1> QED
  BY <1>1, <1>2

LEMMA FileChtimesType ==
  ASSUME TypeInv, NEW h \in Handle, NEW a \in Stamp, NEW m \in Stamp, FileChtimes(h, a, m)
  PROVE  TypeInv'
<1>1. CASE ~IsOpen(h)
  BY <1>1, FailType DEF FileChtimes, Fail, Reply, Err
<1>2. CASE IsOpen(h)
  <2>1. file[h].n \in Node
    BY DEF TypeInv, TypeOK, FileType
  <2>2. [meta[file[h].n] EXCEPT !.atime = a, !.mtime = m]
           \in [perm: Perm, atime: Stamp, mtime: Stamp]
    BY <2>1 DEF TypeInv, TypeOK
  <2> QED
    BY <1>2, <2>1, <2>2, SetMetaType DEF FileChtimes
<1> QED
  BY <1>1, <1>2

\* A snapshot is a finite set of names.
LEMMA SnapshotType ==
  ASSUME TypeInv, NEW h \in Handle
  PROVE  Snapshot(h) \subseteq Name /\ IsFiniteSet(Snapshot(h))
<1>1. CASE file[h].listed
  BY <1>1 DEF Snapshot, TypeInv, TypeOK, Finite, FileType
<1>2. CASE ~file[h].listed
  <2> DEFINE C == {q \in DOMAIN nodes : q # NameOf(h) /\ Dir(q) = NameOf(h)}
             f == [q \in C |-> Base(q)]
  <2>1. Snapshot(h) = {f[q] : q \in C}
    BY <1>2 DEF Snapshot, ChildNames
  <2>2. IsFiniteSet(C)
    BY FS_Subset DEF TypeInv, Finite
  <2>3. \A q \in C : q \in Seq(Name) /\ q # <<>>
    BY PathAssumption, DirType DEF TypeInv, TypeOK
  <2>4. \A q \in C : f[q] \in Name
    BY <2>3, EmptySeq, ElementOfSeq DEF Base
  <2> HIDE DEF f, C
  <2> QED
    BY <2>1, <2>2, <2>4, FiniteImage
<1> QED
  BY <1>1, <1>2

LEMMA FileReadDirType ==
  ASSUME TypeInv, NEW h \in Handle, NEW k \in Count, FileReadDir(h, k)
  PROVE  TypeInv'
<1>1. CASE FileReadDirErr(h) # "OK"
  BY <1>1, FailType, ErrType DEF FileReadDir, Fail, Reply
<1>2. CASE FileReadDirErr(h) = "OK"
  <2> DEFINE entries == Snapshot(h)
             len == Cardinality(entries)
             end == PageEnd(file[h].dirPos, len, k)
             page == {x \in entries : Rank(entries, x) \in file[h].dirPos..(end - 1)}
             eof == file[h].dirPos = len /\ k > 0
             pos == IF eof THEN file[h].dirPos ELSE end
             seen == IF eof THEN file[h].seen ELSE file[h].seen \cup page
             f == [file[h] EXCEPT !.listed = TRUE, !.entries = entries,
                                  !.dirPos = pos, !.seen = seen]
  <2>1. entries \subseteq Name /\ IsFiniteSet(entries) /\ len \in Nat
    BY SnapshotType, FS_CardinalityType
  <2>2. file[h] \in FileType /\ file[h].dirPos \in Nat /\ file[h].seen \subseteq Name
    BY DEF TypeInv, TypeOK, FileType
  <2>3. pos \in Nat
    BY <2>1, <2>2, ArgumentAssumption DEF PageEnd
  <2>4. seen \subseteq Name
    BY <2>1, <2>2
  <2>5. file' = [file EXCEPT ![h] = f] /\ ret'.err \in {"OK", "EOF"} /\ UNCHANGED store
    BY <1>2 DEF FileReadDir, Reply
  <2> HIDE DEF entries, pos, seen
  <2>6. /\ f \in FileType /\ f.n = file[h].n /\ f.closed = file[h].closed
        /\ IsFiniteSet(f.entries)
    BY <2>1, <2>2, <2>3, <2>4 DEF FileType
  <2> HIDE DEF f
  <2>7. ret'.err \in Err
    BY <2>5 DEF Err
  <2> QED
    BY <2>5, <2>6, <2>7, HandleType DEF store, TypeInv, TypeOK
<1> QED
  BY <1>1, <1>2

LEMMA TypeStep == TypeInv /\ [Next]_vars => TypeInv'
<1> SUFFICES ASSUME TypeInv, [Next]_vars PROVE TypeInv'
  OBVIOUS
<1>1. CASE UNCHANGED vars
  BY <1>1, FailType DEF vars, store, TypeInv, TypeOK
<1>2. CASE NameStep
  BY <1>2, StatType, RemoveType, RenameType, MkdirType, ChmodType, ChtimesType DEF NameStep
<1>3. CASE FileStep
  BY <1>3, OpenFileType, FileStatType, CloseType, ReadType, ReadAtType, WriteType,
     WriteAtType, SeekType, TruncateType, FileChtimesType, FileReadDirType DEF FileStep
<1> QED
  BY <1>1, <1>2, <1>3 DEF Next

\* Memory's state is well typed in every behaviour; in particular a reference
\* count never goes below zero.
THEOREM TypeCorrect == Spec => []TypeOK
<1>1. Init => TypeInv
  BY TypeInit
<1>2. TypeInv /\ [Next]_vars => TypeInv'
  BY TypeStep
<1>3. TypeInv => TypeOK
  BY DEF TypeInv
<1> QED
  BY <1>1, <1>2, <1>3, PTL DEF Spec

\* Reference counts are exact in every behaviour.
THEOREM RefsCorrect == Spec => []RefsExact
<1>1. Init => TypeInv
  BY TypeInit
<1>2. TypeInv /\ [Next]_vars => TypeInv'
  BY TypeStep
<1>3. TypeInv => RefsExact
  BY DEF TypeInv
<1> QED
  BY <1>1, <1>2, <1>3, PTL DEF Spec
=============================================================================
