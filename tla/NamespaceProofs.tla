-------------------------- MODULE NamespaceProofs --------------------------
(***************************************************************************)
(* What holds of the guest's view of the filesystem for every number of     *)
(* commands, every tree and every mount: mount points stand, no open file   *)
(* is lost, a read-only mount keeps what it holds, and times are set on the *)
(* file that is open.                                                       *)
(***************************************************************************)
EXTENDS Namespace, FiniteSetTheorems, SequenceTheorems, TLAPS

-----------------------------------------------------------------------------
(* The inductive invariant *)

Names == {Resolve(x) : x \in Arg}

Opening == {"openDir", "openSlash", "open", "check"}

\* The WASI call a command is in the middle of.
CallOK(c) ==
  \/ c = Idle
  \/ c \in [pc : {"lstat", "remove"}, name : Names, dir : BOOLEAN]
  \/ c \in [pc : {"renameOld", "renameNew", "rename"}, name : Names, to : Names]
  \/ c \in [pc : Opening, name : Names, flag : Flag, dir : BOOLEAN]
  \/ /\ c.pc = "chtimes"
     /\ c = [pc |-> "chtimes", name |-> c.name, times |-> c.times] /\ c.name \in Names
  \/ c = [pc |-> "fileChtimes", times |-> c.times]

WasiType == [closed : BOOLEAN, on : {"null", "root", "data"}, name : Names \cup {NoFile.name},
             readable : BOOLEAN, writable : BOOLEAN, metadataWritable : BOOLEAN]

\* The fields of a memoryFile that matter here.
FileOK(f) == {"closed", "n"} \subseteq DOMAIN f /\ f.closed \in BOOLEAN

HandlesOK(file) == /\ file = [p \in Proc |-> file[p]]
                   /\ \A p \in Proc : FileOK(file[p])

MetaOK(meta) == meta = [n \in Node |-> meta[n]]

ShapeInv ==
  /\ HandlesOK(rFile) /\ HandlesOK(dFile)
  /\ MetaOK(rMeta) /\ MetaOK(dMeta)
  /\ call = [p \in Proc |-> call[p]] /\ \A p \in Proc : CallOK(call[p])
  /\ wasi \in [Proc -> WasiType]

\* What was checked before the filesystem call that relies on it: a name about
\* to be removed is writable, a command that opens a file has none, and a file
\* whose times are being set allows it.
CheckedInv ==
  \A p \in Proc :
    /\ call[p].pc = "remove" => writable(call[p].name) = "OK"
    /\ call[p].pc \in Opening => wasi[p].closed
    /\ call[p].pc = "fileChtimes" => ~wasi[p].closed /\ wasi[p].metadataWritable

\* The names that lead to the mount, and the nodes they stood for at first.
MountDirs == {SubSeq(MountPath, 1, k) : k \in 0..Len(MountPath)}
MountNodes == {RootTree[q] : q \in MountDirs}

\* They still do, and no other name leads to one of these nodes.
MountInv ==
  /\ DOMAIN rNodes \subseteq Path
  /\ rIsDir = [n \in Node |-> rIsDir[n]] /\ rLinked = [n \in Node |-> rLinked[n]]
  /\ \A q \in MountDirs : q \in DOMAIN rNodes /\ rNodes[q] = RootTree[q]
  /\ \A n \in MountNodes : rIsDir[n] /\ rLinked[n]
  /\ \A q \in DOMAIN rNodes \ MountDirs : rNodes[q] \notin MountNodes

\* A filesystem that is mounted read-only is as it was, the files open on it
\* are named, and no command may write or set times through them.
ReadOnlyInv ==
  ReadOnly =>
    /\ dNodes = DataTree
    /\ dIsDir = [n \in Node |-> \E q \in DataDirs : DataTree[q] = n]
    /\ dMeta = [n \in Node |-> [perm |-> RootPerm, atime |-> Now, mtime |-> Now]]
    /\ dData = [n \in Node |-> IF \E q \in DOMAIN DataTree \ DataDirs : DataTree[q] = n
                               THEN DataBytes ELSE <<>>]
    /\ dLinked = [n \in Node |-> \E q \in DOMAIN DataTree : DataTree[q] = n]
    /\ dUsed = Len(DataBytes) * Cardinality(DOMAIN DataTree \ DataDirs)
    /\ \A p \in Proc :
         /\ ~dFile[p].closed => \E q \in DOMAIN DataTree : DataTree[q] = dFile[p].n
         /\ ~wasi[p].closed /\ wasi[p].on = "data" =>
              ~wasi[p].writable /\ ~wasi[p].metadataWritable
         /\ call[p].pc = "check" /\ ~IsNull(call[p].name) /\ Owner(call[p].name) = "data" =>
              ~Mutates(call[p].flag)

NamespaceInv == ShapeInv /\ CheckedInv /\ NoFileLeaked /\ MountInv /\ ReadOnlyInv

-----------------------------------------------------------------------------
(* Paths *)

LEMMA RebaseType ==
  ASSUME NEW p \in Seq(Name), NEW a \in Seq(Name), NEW b \in Seq(Name), Under(p, a)
  PROVE  /\ Rebase(p, a, b) \in Seq(Name)
         /\ Len(Rebase(p, a, b)) = Len(p) - Len(a) + Len(b)
         /\ Under(Rebase(p, a, b), b)
BY DEF Rebase, Under

\* A path moved from below a to below b and back is the path again.
LEMMA RebaseBack ==
  ASSUME NEW p \in Seq(Name), NEW a \in Seq(Name), NEW b \in Seq(Name), Under(p, a)
  PROVE  Rebase(Rebase(p, a, b), b, a) = p
<1>1. PICK q \in Seq(Name) : q = Rebase(p, a, b)
  BY RebaseType
<1>2. Len(q) = Len(p) - Len(a) + Len(b) /\ Under(q, b)
  BY <1>1, RebaseType
<1>3. PICK r \in Seq(Name) : r = Rebase(q, b, a)
  BY <1>2, RebaseType
<1>4. Len(r) = Len(p)
  BY <1>2, <1>3, RebaseType
<1>5. \A i \in 1..Len(p) : r[i] = p[i]
  BY <1>1, <1>2, <1>3, <1>4 DEF Rebase, Under
<1> QED
  BY <1>1, <1>3, <1>4, <1>5, SeqEqual

\* What lies on the way to the mount is above it, and so is all that is above
\* that.
LEMMA MountDirAbove ==
  ASSUME NEW q \in MountDirs
  PROVE  q \in Seq(Name) /\ \A a \in Seq(Name) : Under(q, a) => Under(MountPath, a)
<1>1. PICK k \in 0..Len(MountPath) : q = SubSeq(MountPath, 1, k)
  BY DEF MountDirs
<1>2. q \in Seq(Name) /\ Len(q) = k /\ \A i \in 1..k : q[i] = MountPath[i]
  BY <1>1, NameAssumption
<1>3. Len(MountPath) \in Nat
  BY NameAssumption
<1> QED
  BY <1>2, <1>3 DEF Under

LEMMA MountDirUnder ==
  ASSUME NEW q \in MountDirs
  PROVE  Under(MountPath, q) /\ Under(q, q)
<1>1. q \in Seq(Name)
  BY MountDirAbove
<1>2. Under(q, q)
  BY <1>1 DEF Under
<1> QED
  BY <1>1, <1>2, MountDirAbove

-----------------------------------------------------------------------------
(* The root filesystem *)

LEMMA REnter ==
  ASSUME MountInv, NEW name \in Path, name \notin DOMAIN rNodes, NEW n \in Node, NEW dir,
         NEW perm, R!newNode(n, dir, perm), R!Bind(name, n)
  PROVE  MountInv'
<1>1. n \notin MountNodes
  BY DEF MountInv, R!newNode, R!Live
<1>2. /\ DOMAIN rNodes' = DOMAIN rNodes \cup {name} /\ rNodes'[name] = n
      /\ \A q \in DOMAIN rNodes : rNodes'[q] = rNodes[q]
  BY DEF R!Bind
<1>3. /\ rIsDir' = [m \in Node |-> rIsDir'[m]] /\ rLinked' = [m \in Node |-> rLinked'[m]]
      /\ \A m \in Node \ {n} : rIsDir'[m] = rIsDir[m] /\ rLinked'[m] = rLinked[m]
  BY DEF R!newNode, MountInv
<1>4. MountNodes \subseteq Node
  BY TreeAssumption DEF MountNodes, MountDirs
<1> QED
  BY <1>1, <1>2, <1>3, <1>4 DEF MountInv

LEMMA RUnlink ==
  ASSUME MountInv, NEW q \in DOMAIN rNodes \ MountDirs, R!unlink(rNodes[q])
  PROVE  /\ rLinked' = [n \in Node |-> rLinked'[n]]
         /\ \A n \in MountNodes : rLinked'[n]
<1>1. rNodes[q] \notin MountNodes
  BY DEF MountInv
<1>2. MountNodes \subseteq Node
  BY TreeAssumption DEF MountNodes, MountDirs
<1>3. rLinked' = [rLinked EXCEPT ![rNodes[q]] = FALSE]
  BY DEF R!unlink
<1> QED
  BY <1>1, <1>2, <1>3 DEF MountInv

LEMMA RRemove ==
  ASSUME MountInv, NEW name \in Path, ~Under(MountPath, name), R!Remove(name)
  PROVE  MountInv' /\ UNCHANGED <<rFile, rMeta>>
<1>1. name \notin MountDirs
  BY MountDirUnder
<1>2. CASE R!RemoveErr(name) # "OK"
  BY <1>2 DEF R!Remove, R!Fail, R!store, MountInv
<1>3. CASE R!RemoveErr(name) = "OK"
  <2>1. /\ rNodes' = [p \in DOMAIN rNodes \ {name} |-> rNodes[p]]
        /\ R!unlink(rNodes[name])
        /\ UNCHANGED <<rIsDir, rMeta, rFile>>
    BY <1>3 DEF R!Remove
  <2>2. name \in DOMAIN rNodes
    BY <1>3 DEF R!RemoveErr, R!LookupErr
  <2>3. /\ rLinked' = [n \in Node |-> rLinked'[n]]
        /\ \A n \in MountNodes : rLinked'[n]
    BY <1>1, <2>1, <2>2, RUnlink
  <2> QED
    BY <1>1, <2>1, <2>3 DEF MountInv
<1> QED
  BY <1>2, <1>3

LEMMA RRename ==
  ASSUME MountInv, NEW old \in Path, NEW new \in Path, ~Under(MountPath, old),
         ~Under(MountPath, new), R!Rename(old, new)
  PROVE  MountInv' /\ UNCHANGED <<rFile, rMeta>>
<1>1. CASE UNCHANGED <<rNodes, rIsDir, rLinked, rFile, rMeta>>
  BY <1>1 DEF MountInv
<1>2. CASE ~UNCHANGED <<rNodes, rIsDir, rLinked, rFile, rMeta>>
  <2>1. /\ R!RenameInBounds(old, new) /\ R!MoveNodes(old, new)
        /\ IF new \in DOMAIN rNodes THEN R!unlink(rNodes[new]) ELSE UNCHANGED rLinked
        /\ UNCHANGED <<rIsDir, rMeta, rFile>>
    BY <1>2 DEF R!Rename, R!Fail, R!store
  <2>2. old \in Seq(Name) /\ new \in Seq(Name) /\ Path \subseteq Seq(Name)
    BY NameAssumption
  <2> DEFINE moved == {p \in DOMAIN rNodes : Under(p, old)}
             target == {Rebase(p, old, new) : p \in moved}
  <2>3. /\ target \subseteq Path
        /\ rNodes' = [q \in (DOMAIN rNodes \ moved) \cup target |->
                        IF q \in target THEN rNodes[Rebase(q, new, old)] ELSE rNodes[q]]
    BY <2>1 DEF R!RenameInBounds, R!MoveNodes, R!MovedTo, R!Moved, R!Under, Under, R!Rebase, Rebase
  <2>4. \A q \in MountDirs : ~Under(q, old) /\ ~Under(q, new)
    BY <2>2, MountDirAbove
  <2>5. ASSUME NEW p \in moved
        PROVE  /\ Under(Rebase(p, old, new), new)
               /\ Rebase(Rebase(p, old, new), new, old) = p
               /\ p \in DOMAIN rNodes \ MountDirs
    <3>1. p \in Seq(Name) /\ Under(p, old)
      BY <2>2 DEF MountInv
    <3> QED
      BY <2>2, <2>4, <3>1, RebaseType, RebaseBack
  <2>6. /\ \A q \in target : Under(q, new) /\ Rebase(q, new, old) \in DOMAIN rNodes \ MountDirs
        /\ \A q \in moved : q \notin MountDirs
    BY <2>5
  <2>7. \A q \in MountDirs : q \notin target /\ q \notin moved
    BY <2>4, <2>6
  <2>8. /\ rLinked' = [n \in Node |-> rLinked'[n]]
        /\ \A n \in MountNodes : rLinked'[n]
    <3>1. new \notin MountDirs
      BY MountDirUnder
    <3> QED
      BY <2>1, <3>1, RUnlink DEF MountInv
  <2> HIDE DEF moved, target
  <2>9. DOMAIN rNodes' \subseteq Path
    BY <2>3 DEF MountInv
  <2>10. \A q \in MountDirs : q \in DOMAIN rNodes' /\ rNodes'[q] = RootTree[q]
    BY <2>3, <2>7 DEF MountInv
  <2>11. \A q \in DOMAIN rNodes' \ MountDirs : rNodes'[q] \notin MountNodes
    BY <2>3, <2>6 DEF MountInv
  <2> QED
    BY <2>1, <2>8, <2>9, <2>10, <2>11 DEF MountInv
<1> QED
  BY <1>1, <1>2
-----------------------------------------------------------------------------
(* What the calls of a filesystem do, for root *)

\* The handles that a step does not open or close stay what they were.
SameFiles(file, new) ==
  /\ HandlesOK(new)
  /\ \A p \in Proc : new[p].closed = file[p].closed /\ new[p].n = file[p].n

\* Handle p has become open or closed, and no other one.
Turned(file, new, p, closed) ==
  /\ HandlesOK(new)
  /\ new[p].closed = closed
  /\ \A q \in Proc \ {p} : new[q].closed = file[q].closed /\ new[q].n = file[q].n

\* The open files with f for handle p.
Put(file, p, f) == [file EXCEPT ![p] = f]

LEMMA TurnedOne ==
  ASSUME NEW file, NEW p \in Proc, NEW f, HandlesOK(file), FileOK(f)
  PROVE  /\ HandlesOK(Put(file, p, f)) /\ Put(file, p, f)[p] = f
         /\ \A q \in Proc \ {p} : Put(file, p, f)[q] = file[q]
<1>1. file = [q \in Proc |-> file[q]]
  BY DEF HandlesOK
<1>2. \A q \in Proc : Put(file, p, f)[q] = IF q = p THEN f ELSE file[q]
  BY <1>1 DEF Put
<1>3. Put(file, p, f) = [q \in Proc |-> Put(file, p, f)[q]]
  BY <1>1 DEF Put
<1>4. \A q \in Proc : FileOK(Put(file, p, f)[q])
  BY <1>2 DEF HandlesOK
<1> QED
  BY <1>2, <1>3, <1>4 DEF HandlesOK

LEMMA SameOne ==
  ASSUME NEW file, NEW p \in Proc, NEW f, HandlesOK(file),
         DOMAIN f = DOMAIN file[p], f.closed = file[p].closed, f.n = file[p].n
  PROVE  SameFiles(file, Put(file, p, f))
<1>1. FileOK(f)
  BY DEF HandlesOK, FileOK
<1>2. /\ HandlesOK(Put(file, p, f)) /\ Put(file, p, f)[p] = f
      /\ \A q \in Proc \ {p} : Put(file, p, f)[q] = file[q]
  BY <1>1, TurnedOne
<1> QED
  BY <1>2 DEF SameFiles

LEMMA SameSelf ==
  ASSUME NEW file, HandlesOK(file)
  PROVE  SameFiles(file, file)
BY DEF SameFiles

LEMMA MetaSet ==
  ASSUME NEW meta, MetaOK(meta), NEW n, NEW m
  PROVE  MetaOK([meta EXCEPT ![n] = m]) /\ \A k \in Node : k # n => [meta EXCEPT ![n] = m][k] = meta[k]
BY DEF MetaOK

\* A call on a handle other than Close: names and handles stay.
LEMMA RFileOp ==
  ASSUME ShapeInv, NEW p \in Proc,
         \/ \E len \in ReadLen : R!Read(p, len) \/ \E off \in Offset : R!ReadAt(p, len, off)
         \/ \E off \in Offset, whence \in R!Whence : R!Seek(p, off, whence)
         \/ \E b \in Payload : R!Write(p, b) \/ \E off \in Offset : R!WriteAt(p, b, off)
         \/ \E size \in Offset : R!Truncate(p, size)
         \/ \E k \in Count : R!FileReadDir(p, k)
         \/ \E at, mt : R!FileChtimes(p, at, mt)
  PROVE  /\ SameFiles(rFile, rFile') /\ MetaOK(rMeta')
         /\ UNCHANGED <<rNodes, rIsDir, rLinked>>
<1>1. HandlesOK(rFile) /\ MetaOK(rMeta) /\ FileOK(rFile[p])
  BY DEF ShapeInv, HandlesOK
<1>2. SameFiles(rFile, rFile)
  BY <1>1, SameSelf
<1>3. \A n : MetaOK(R!Touched(n))
  BY <1>1, MetaSet DEF R!Touched
<1>4. ASSUME NEW b, NEW off, R!writeAt(p, b, off)
      PROVE  MetaOK(rMeta') /\ UNCHANGED <<rNodes, rIsDir, rLinked>>
  BY <1>1, <1>3, <1>4 DEF R!writeAt, R!Store, R!store
<1>5. ASSUME NEW pos
      PROVE  SameFiles(rFile, [rFile EXCEPT ![p] = [rFile[p] EXCEPT !.pos = pos]])
  <2>1. PICK f : f = [rFile[p] EXCEPT !.pos = pos]
    OBVIOUS
  <2>2. DOMAIN f = DOMAIN rFile[p] /\ f.closed = rFile[p].closed /\ f.n = rFile[p].n
    BY <1>1, <2>1 DEF FileOK
  <2> QED
    BY <1>1, <2>1, <2>2, SameOne DEF Put
<1>6. CASE \E len \in ReadLen : R!Read(p, len) \/ \E off \in Offset : R!ReadAt(p, len, off)
  BY <1>1, <1>2, <1>5, <1>6 DEF R!Read, R!ReadAt, R!store
<1>7. ASSUME NEW off \in Offset, NEW whence \in R!Whence, R!Seek(p, off, whence)
      PROVE  SameFiles(rFile, rFile') /\ UNCHANGED R!store
  <2>1. PICK pos : pos = R!Wrap(R!SeekBase(p, whence) + off)
    OBVIOUS
  <2>2. PICK moved : moved = [rFile[p] EXCEPT !.pos = pos]
    OBVIOUS
  <2>3. PICK f : f = IF pos = 0 THEN [moved EXCEPT !.listed = FALSE, !.entries = {},
                                                   !.dirPos = 0, !.seen = {}]
                     ELSE moved
    OBVIOUS
  <2>4. DOMAIN f = DOMAIN rFile[p] /\ f.closed = rFile[p].closed /\ f.n = rFile[p].n
    BY <1>1, <2>2, <2>3 DEF FileOK
  <2>5. SameFiles(rFile, [rFile EXCEPT ![p] = f])
    BY <1>1, <2>4, SameOne DEF Put
  <2> QED
    BY <1>2, <1>7, <2>1, <2>2, <2>3, <2>5 DEF R!Seek, R!Fail
<1>8. CASE \E b \in Payload : R!Write(p, b) \/ \E off \in Offset : R!WriteAt(p, b, off)
  BY <1>1, <1>2, <1>4, <1>5, <1>8 DEF R!Write, R!WriteAt, R!Fail, R!store
<1>9. CASE \E size \in Offset : R!Truncate(p, size)
  BY <1>1, <1>2, <1>3, <1>9 DEF R!Truncate, R!Fail, R!store
<1>10. ASSUME NEW k \in Count, R!FileReadDir(p, k)
       PROVE  SameFiles(rFile, rFile') /\ UNCHANGED R!store
  <2>1. CASE R!FileReadDirErr(p) # "OK"
    BY <1>2, <1>10, <2>1 DEF R!FileReadDir, R!Fail
  <2>2. CASE R!FileReadDirErr(p) = "OK"
    <3> DEFINE entries == R!Snapshot(p)
               end == R!PageEnd(rFile[p].dirPos, R!Cardinality(entries), k)
               eof == rFile[p].dirPos = R!Cardinality(entries) /\ k > 0
               page == {x \in entries : R!Rank(entries, x) \in rFile[p].dirPos..(end - 1)}
               dirPos == IF eof THEN rFile[p].dirPos ELSE end
               seen == IF eof THEN rFile[p].seen ELSE rFile[p].seen \cup page
    <3>1. /\ rFile' = [rFile EXCEPT ![p] = [rFile[p] EXCEPT !.listed = TRUE,
                         !.entries = entries, !.dirPos = dirPos, !.seen = seen]]
          /\ UNCHANGED R!store
      BY <1>10, <2>2 DEF R!FileReadDir
    <3> HIDE DEF entries, dirPos, seen
    <3>2. PICK f : f = [rFile[p] EXCEPT !.listed = TRUE, !.entries = entries,
                                        !.dirPos = dirPos, !.seen = seen]
      OBVIOUS
    <3>3. DOMAIN f = DOMAIN rFile[p] /\ f.closed = rFile[p].closed /\ f.n = rFile[p].n
      BY <1>1, <3>2 DEF FileOK
    <3> QED
      BY <1>1, <3>1, <3>2, <3>3, SameOne DEF Put
  <2> QED
    BY <2>1, <2>2
<1>11. ASSUME NEW at, NEW mt, R!FileChtimes(p, at, mt)
       PROVE  SameFiles(rFile, rFile') /\ MetaOK(rMeta') /\ UNCHANGED <<rNodes, rIsDir, rLinked>>
  <2>1. ASSUME NEW n, NEW m, R!SetMeta(n, m)
        PROVE  SameFiles(rFile, rFile') /\ MetaOK(rMeta') /\ UNCHANGED <<rNodes, rIsDir, rLinked>>
    BY <1>1, <1>2, <2>1, MetaSet DEF R!SetMeta
  <2> QED
    BY <1>1, <1>2, <1>11, <2>1 DEF R!FileChtimes, R!Fail, R!store
<1> QED
  BY <1>1, <1>6, <1>7, <1>8, <1>9, <1>10, <1>11 DEF R!store

\* What a call that names a file of the root filesystem leaves: no handle is
\* opened or closed, and the way to the mount stands.
LEMMA RNameOp ==
  ASSUME ShapeInv, MountInv, NEW n \in Names, Owner(n) = "root", writable(n) = "OK",
         \/ \E perm \in Perm : R!Mkdir(Rel(n), perm) \/ R!Chmod(Rel(n), perm)
         \/ R!Remove(Rel(n))
         \/ \E at, mt : R!Chtimes(Rel(n), at, mt)
         \/ \E m \in Names : /\ Owner(m) = "root" /\ writable(m) = "OK"
                             /\ R!Rename(Rel(n), Rel(m))
  PROVE  MountInv' /\ UNCHANGED rFile /\ MetaOK(rMeta')
<1>1. ASSUME NEW m \in Names, Owner(m) = "root", writable(m) = "OK"
      PROVE  Rel(m) \in Path /\ ~Under(MountPath, Rel(m))
  BY <1>1, NameAssumption DEF Names, Rel, writable
<1>2. MetaOK(rMeta)
  BY DEF ShapeInv
<1>3. ASSUME NEW x, NEW m, R!SetMeta(x, m)
      PROVE  MountInv' /\ UNCHANGED rFile /\ MetaOK(rMeta')
  BY <1>2, <1>3, MetaSet DEF R!SetMeta, MountInv
<1>4. ASSUME NEW err, R!Fail(err)
      PROVE  MountInv' /\ UNCHANGED rFile /\ MetaOK(rMeta')
  BY <1>2, <1>4 DEF R!Fail, R!store, MountInv
<1>5. ASSUME NEW perm \in Perm, R!Mkdir(Rel(n), perm)
      PROVE  MountInv' /\ UNCHANGED rFile /\ MetaOK(rMeta')
  <2>1. CASE R!MkdirErr(Rel(n)) # "OK"
    BY <1>4, <1>5, <2>1 DEF R!Mkdir
  <2>2. CASE R!MkdirErr(Rel(n)) = "OK"
    <3>1. Rel(n) \notin DOMAIN rNodes /\ UNCHANGED rFile
      BY <1>5, <2>2 DEF R!Mkdir, R!MkdirErr
    <3>2. PICK node \in Node : R!newNode(node, TRUE, perm) /\ R!Bind(Rel(n), node)
      BY <1>5, <2>2 DEF R!Mkdir
    <3>3. MountInv'
      BY <1>1, <3>1, <3>2, REnter
    <3>4. MetaOK(rMeta')
      BY <1>2, <3>2, MetaSet DEF R!newNode
    <3> QED
      BY <3>1, <3>3, <3>4
  <2> QED
    BY <2>1, <2>2
<1>6. CASE \E perm \in Perm : R!Chmod(Rel(n), perm)
  BY <1>3, <1>4, <1>6 DEF R!Chmod
<1>7. CASE \E at, mt : R!Chtimes(Rel(n), at, mt)
  BY <1>3, <1>4, <1>7 DEF R!Chtimes
<1>8. CASE R!Remove(Rel(n))
  BY <1>1, <1>2, <1>8, RRemove
<1>9. CASE \E m \in Names : /\ Owner(m) = "root" /\ writable(m) = "OK"
                            /\ R!Rename(Rel(n), Rel(m))
  BY <1>1, <1>2, <1>9, RRename
<1> QED
  BY <1>5, <1>6, <1>7, <1>8, <1>9

LEMMA ROpenFile ==
  ASSUME ShapeInv, MountInv, NEW p \in Proc, NEW name \in Path, NEW fl, NEW perm,
         R!OpenFile(p, name, fl, perm)
  PROVE  /\ MountInv' /\ MetaOK(rMeta')
         /\ \/ ret'.err = "OK" /\ Turned(rFile, rFile', p, FALSE)
            \/ ret'.err # "OK" /\ UNCHANGED rFile
<1>1. HandlesOK(rFile) /\ MetaOK(rMeta) /\ \A n : MetaOK(R!Touched(n))
  BY MetaSet DEF ShapeInv, R!Touched
<1>2. \A err : R!Reply(err).err = err
  BY DEF R!Reply
<1>3. ASSUME NEW n, rFile' = [rFile EXCEPT ![p] = R!OpenedFile(n, name, fl)]
      PROVE  Turned(rFile, rFile', p, FALSE)
  <2>1. PICK f : f = R!OpenedFile(n, name, fl)
    OBVIOUS
  <2>2. FileOK(f) /\ f.closed = FALSE
    BY <2>1 DEF R!OpenedFile, FileOK
  <2>3. rFile' = Put(rFile, p, f)
    BY <1>3, <2>1 DEF Put
  <2> QED
    BY <1>1, <2>2, <2>3, TurnedOne DEF Turned
<1>4. CASE R!OpenExisting(p, name, fl)
  BY <1>1, <1>2, <1>3, <1>4 DEF R!OpenExisting, MountInv
<1>5. CASE R!OpenCreating(p, name, fl, perm)
  <2>1. name \notin DOMAIN rNodes
    BY <1>5 DEF R!OpenCreating, R!LookupErr
  <2>2. PICK n \in Node :
          /\ R!newNode(n, FALSE, perm) /\ R!Bind(name, n)
          /\ IF R!OpenErr(name, fl) = "OK"
             THEN rFile' = [rFile EXCEPT ![p] = R!OpenedFile(n, name, fl)]
             ELSE UNCHANGED rFile
    BY <1>5 DEF R!OpenCreating
  <2>3. MountInv'
    BY <2>1, <2>2, REnter
  <2>4. MetaOK(rMeta')
    BY <1>1, <2>2, MetaSet DEF R!newNode
  <2>5. ret'.err = R!OpenErr(name, fl)
    BY <1>2, <1>5 DEF R!OpenCreating
  <2> QED
    BY <1>3, <2>2, <2>3, <2>4, <2>5
<1>6. CASE R!OpenRefused(name, fl)
  BY <1>1, <1>2, <1>6 DEF R!OpenRefused, R!Fail, R!store, MountInv
<1> QED
  BY <1>4, <1>5, <1>6 DEF R!OpenFile

LEMMA RClose ==
  ASSUME ShapeInv, NEW p \in Proc, ~rFile[p].closed, R!Close(p)
  PROVE  /\ Turned(rFile, rFile', p, TRUE)
         /\ UNCHANGED <<rNodes, rIsDir, rLinked, rMeta>>
<1>1. /\ rFile' = Put(rFile, p, R!ClosedFile)
      /\ UNCHANGED <<rNodes, rIsDir, rLinked, rMeta>>
  BY DEF R!Close, R!IsOpen, Put
<1>2. PICK f : f = R!ClosedFile
  OBVIOUS
<1>3. FileOK(f) /\ f.closed = TRUE
  BY <1>2 DEF R!ClosedFile, FileOK
<1>4. HandlesOK(rFile)
  BY DEF ShapeInv
<1> QED
  BY <1>1, <1>2, <1>3, <1>4, TurnedOne DEF Turned

\* The way to the mount depends on names and nodes alone.
LEMMA MountFrame ==
  ASSUME MountInv, UNCHANGED <<rNodes, rIsDir, rLinked>>
  PROVE  MountInv'
BY DEF MountInv

-----------------------------------------------------------------------------
(* What they do, for the mounted filesystem *)

LEMMA DFileOp ==
  ASSUME ShapeInv, NEW p \in Proc,
         \/ \E len \in ReadLen : D!Read(p, len) \/ \E off \in Offset : D!ReadAt(p, len, off)
         \/ \E off \in Offset, whence \in D!Whence : D!Seek(p, off, whence)
         \/ \E b \in Payload : D!Write(p, b) \/ \E off \in Offset : D!WriteAt(p, b, off)
         \/ \E size \in Offset : D!Truncate(p, size)
         \/ \E k \in Count : D!FileReadDir(p, k)
         \/ \E at, mt : D!FileChtimes(p, at, mt)
  PROVE  /\ SameFiles(dFile, dFile') /\ MetaOK(dMeta')
         /\ UNCHANGED <<dNodes, dIsDir, dLinked>>
<1>1. HandlesOK(dFile) /\ MetaOK(dMeta) /\ FileOK(dFile[p])
  BY DEF ShapeInv, HandlesOK
<1>2. SameFiles(dFile, dFile)
  BY <1>1, SameSelf
<1>3. \A n : MetaOK(D!Touched(n))
  BY <1>1, MetaSet DEF D!Touched
<1>4. ASSUME NEW b, NEW off, D!writeAt(p, b, off)
      PROVE  MetaOK(dMeta') /\ UNCHANGED <<dNodes, dIsDir, dLinked>>
  BY <1>1, <1>3, <1>4 DEF D!writeAt, D!Store, D!store
<1>5. ASSUME NEW pos
      PROVE  SameFiles(dFile, [dFile EXCEPT ![p] = [dFile[p] EXCEPT !.pos = pos]])
  <2>1. PICK f : f = [dFile[p] EXCEPT !.pos = pos]
    OBVIOUS
  <2>2. DOMAIN f = DOMAIN dFile[p] /\ f.closed = dFile[p].closed /\ f.n = dFile[p].n
    BY <1>1, <2>1 DEF FileOK
  <2> QED
    BY <1>1, <2>1, <2>2, SameOne DEF Put
<1>6. CASE \E len \in ReadLen : D!Read(p, len) \/ \E off \in Offset : D!ReadAt(p, len, off)
  BY <1>1, <1>2, <1>5, <1>6 DEF D!Read, D!ReadAt, D!store
<1>7. ASSUME NEW off \in Offset, NEW whence \in D!Whence, D!Seek(p, off, whence)
      PROVE  SameFiles(dFile, dFile') /\ UNCHANGED D!store
  <2>1. PICK pos : pos = D!Wrap(D!SeekBase(p, whence) + off)
    OBVIOUS
  <2>2. PICK moved : moved = [dFile[p] EXCEPT !.pos = pos]
    OBVIOUS
  <2>3. PICK f : f = IF pos = 0 THEN [moved EXCEPT !.listed = FALSE, !.entries = {},
                                                   !.dirPos = 0, !.seen = {}]
                     ELSE moved
    OBVIOUS
  <2>4. DOMAIN f = DOMAIN dFile[p] /\ f.closed = dFile[p].closed /\ f.n = dFile[p].n
    BY <1>1, <2>2, <2>3 DEF FileOK
  <2>5. SameFiles(dFile, [dFile EXCEPT ![p] = f])
    BY <1>1, <2>4, SameOne DEF Put
  <2> QED
    BY <1>2, <1>7, <2>1, <2>2, <2>3, <2>5 DEF D!Seek, D!Fail
<1>8. CASE \E b \in Payload : D!Write(p, b) \/ \E off \in Offset : D!WriteAt(p, b, off)
  BY <1>1, <1>2, <1>4, <1>5, <1>8 DEF D!Write, D!WriteAt, D!Fail, D!store
<1>9. CASE \E size \in Offset : D!Truncate(p, size)
  BY <1>1, <1>2, <1>3, <1>9 DEF D!Truncate, D!Fail, D!store
<1>10. ASSUME NEW k \in Count, D!FileReadDir(p, k)
       PROVE  SameFiles(dFile, dFile') /\ UNCHANGED D!store
  <2>1. CASE D!FileReadDirErr(p) # "OK"
    BY <1>2, <1>10, <2>1 DEF D!FileReadDir, D!Fail
  <2>2. CASE D!FileReadDirErr(p) = "OK"
    <3> DEFINE entries == D!Snapshot(p)
               end == D!PageEnd(dFile[p].dirPos, D!Cardinality(entries), k)
               eof == dFile[p].dirPos = D!Cardinality(entries) /\ k > 0
               page == {x \in entries : D!Rank(entries, x) \in dFile[p].dirPos..(end - 1)}
               dirPos == IF eof THEN dFile[p].dirPos ELSE end
               seen == IF eof THEN dFile[p].seen ELSE dFile[p].seen \cup page
    <3>1. /\ dFile' = [dFile EXCEPT ![p] = [dFile[p] EXCEPT !.listed = TRUE,
                         !.entries = entries, !.dirPos = dirPos, !.seen = seen]]
          /\ UNCHANGED D!store
      BY <1>10, <2>2 DEF D!FileReadDir
    <3> HIDE DEF entries, dirPos, seen
    <3>2. PICK f : f = [dFile[p] EXCEPT !.listed = TRUE, !.entries = entries,
                                        !.dirPos = dirPos, !.seen = seen]
      OBVIOUS
    <3>3. DOMAIN f = DOMAIN dFile[p] /\ f.closed = dFile[p].closed /\ f.n = dFile[p].n
      BY <1>1, <3>2 DEF FileOK
    <3> QED
      BY <1>1, <3>1, <3>2, <3>3, SameOne DEF Put
  <2> QED
    BY <2>1, <2>2
<1>11. ASSUME NEW at, NEW mt, D!FileChtimes(p, at, mt)
       PROVE  SameFiles(dFile, dFile') /\ MetaOK(dMeta') /\ UNCHANGED <<dNodes, dIsDir, dLinked>>
  <2>1. ASSUME NEW n, NEW m, D!SetMeta(n, m)
        PROVE  SameFiles(dFile, dFile') /\ MetaOK(dMeta') /\ UNCHANGED <<dNodes, dIsDir, dLinked>>
    BY <1>1, <1>2, <2>1, MetaSet DEF D!SetMeta
  <2> QED
    BY <1>1, <1>2, <1>11, <2>1 DEF D!FileChtimes, D!Fail, D!store
<1> QED
  BY <1>1, <1>6, <1>7, <1>8, <1>9, <1>10, <1>11 DEF D!store

LEMMA DNameOp ==
  ASSUME ShapeInv, NEW name,
         \/ \E perm \in Perm : D!Mkdir(name, perm) \/ D!Chmod(name, perm)
         \/ D!Remove(name)
         \/ \E at, mt : D!Chtimes(name, at, mt)
         \/ \E new : D!Rename(name, new)
  PROVE  UNCHANGED dFile /\ MetaOK(dMeta')
<1>1. MetaOK(dMeta)
  BY DEF ShapeInv
<1>2. ASSUME NEW x, NEW m, D!SetMeta(x, m)
      PROVE  UNCHANGED dFile /\ MetaOK(dMeta')
  BY <1>1, <1>2, MetaSet DEF D!SetMeta
<1>3. ASSUME NEW err, D!Fail(err)
      PROVE  UNCHANGED dFile /\ MetaOK(dMeta')
  BY <1>1, <1>3 DEF D!Fail, D!store
<1>4. ASSUME NEW n, NEW perm, D!newNode(n, TRUE, perm)
      PROVE  MetaOK(dMeta')
  BY <1>1, <1>4, MetaSet DEF D!newNode
<1>5. CASE \E perm \in Perm : D!Mkdir(name, perm) \/ D!Chmod(name, perm)
  BY <1>2, <1>3, <1>4, <1>5 DEF D!Mkdir, D!Chmod
<1>6. CASE D!Remove(name) \/ \E new : D!Rename(name, new)
  BY <1>1, <1>3, <1>6 DEF D!Remove, D!Rename
<1>7. CASE \E at, mt : D!Chtimes(name, at, mt)
  BY <1>2, <1>3, <1>7 DEF D!Chtimes
<1> QED
  BY <1>5, <1>6, <1>7

LEMMA DOpenFile ==
  ASSUME ShapeInv, NEW p \in Proc, NEW name, NEW fl, NEW perm,
         D!OpenFile(p, name, fl, perm)
  PROVE  /\ MetaOK(dMeta')
         /\ \/ ret'.err = "OK" /\ Turned(dFile, dFile', p, FALSE)
            \/ ret'.err # "OK" /\ UNCHANGED dFile
<1>1. HandlesOK(dFile) /\ MetaOK(dMeta) /\ \A n : MetaOK(D!Touched(n))
  BY MetaSet DEF ShapeInv, D!Touched
<1>2. \A err : D!Reply(err).err = err
  BY DEF D!Reply
<1>3. ASSUME NEW n, dFile' = [dFile EXCEPT ![p] = D!OpenedFile(n, name, fl)]
      PROVE  Turned(dFile, dFile', p, FALSE)
  <2>1. PICK f : f = D!OpenedFile(n, name, fl)
    OBVIOUS
  <2>2. FileOK(f) /\ f.closed = FALSE
    BY <2>1 DEF D!OpenedFile, FileOK
  <2>3. dFile' = Put(dFile, p, f)
    BY <1>3, <2>1 DEF Put
  <2> QED
    BY <1>1, <2>2, <2>3, TurnedOne DEF Turned
<1>4. CASE D!OpenExisting(p, name, fl)
  BY <1>1, <1>2, <1>3, <1>4 DEF D!OpenExisting
<1>5. CASE D!OpenCreating(p, name, fl, perm)
  <2>1. PICK n \in Node :
          /\ D!newNode(n, FALSE, perm)
          /\ IF D!OpenErr(name, fl) = "OK"
             THEN dFile' = [dFile EXCEPT ![p] = D!OpenedFile(n, name, fl)]
             ELSE UNCHANGED dFile
    BY <1>5 DEF D!OpenCreating
  <2>2. MetaOK(dMeta')
    BY <1>1, <2>1, MetaSet DEF D!newNode
  <2>3. ret'.err = D!OpenErr(name, fl)
    BY <1>2, <1>5 DEF D!OpenCreating
  <2> QED
    BY <1>3, <2>1, <2>2, <2>3
<1>6. CASE D!OpenRefused(name, fl)
  BY <1>1, <1>2, <1>6 DEF D!OpenRefused, D!Fail, D!store
<1> QED
  BY <1>4, <1>5, <1>6 DEF D!OpenFile

LEMMA DClose ==
  ASSUME ShapeInv, NEW p \in Proc, ~dFile[p].closed, D!Close(p)
  PROVE  Turned(dFile, dFile', p, TRUE) /\ UNCHANGED dMeta
<1>1. dFile' = Put(dFile, p, D!ClosedFile) /\ UNCHANGED dMeta
  BY DEF D!Close, D!IsOpen, Put
<1>2. PICK f : f = D!ClosedFile
  OBVIOUS
<1>3. FileOK(f) /\ f.closed = TRUE
  BY <1>2 DEF D!ClosedFile, FileOK
<1>4. HandlesOK(dFile)
  BY DEF ShapeInv
<1> QED
  BY <1>1, <1>2, <1>3, <1>4, TurnedOne DEF Turned

-----------------------------------------------------------------------------
(* A filesystem that is mounted read-only *)

Kept == UNCHANGED <<dNodes, dIsDir, dMeta, dData, dLinked, dUsed>>

LEMMA UsedType ==
  ASSUME ReadOnly, ReadOnlyInv
  PROVE  dUsed \in Int
<1>1. Cardinality(DOMAIN DataTree \ DataDirs) \in Nat
  BY TreeAssumption, FS_Difference, FS_CardinalityType
<1>2. Len(DataBytes) \in Nat
  BY TreeAssumption
<1> QED
  BY <1>1, <1>2 DEF ReadOnlyInv

\* Reading changes nothing.
LEMMA DReads ==
  ASSUME NEW p,
         \/ \E len \in ReadLen : D!Read(p, len) \/ \E off \in Offset : D!ReadAt(p, len, off)
         \/ \E off \in Offset, whence \in R!Whence : D!Seek(p, off, whence)
         \/ \E k \in Count : D!FileReadDir(p, k)
  PROVE  Kept
BY DEF D!Read, D!ReadAt, D!Seek, D!FileReadDir, D!Fail, D!store, Kept

\* Neither does opening a file without a flag that mutates, and it is the file
\* of a name.
LEMMA DOpens ==
  ASSUME ShapeInv, ReadOnly, ReadOnlyInv, NEW p \in Proc, NEW name,
         NEW fl \in R!AllFlags, ~Mutates(fl), NEW perm, D!OpenFile(p, name, fl, perm)
  PROVE  /\ Kept
         /\ UNCHANGED dFile \/ \E q \in DOMAIN DataTree : DataTree[q] = dFile'[p].n
<1>1. ~fl.create /\ ~fl.trunc /\ ~fl.write
  BY DEF Mutates
<1>2. ~D!OpenCreating(p, name, fl, perm)
  BY <1>1 DEF D!OpenCreating, D!OpenErr
<1>3. CASE D!OpenRefused(name, fl)
  BY <1>3 DEF D!OpenRefused, D!Fail, D!store, Kept
<1>4. CASE D!OpenExisting(p, name, fl)
  <2>1. name \in DOMAIN DataTree /\ dNodes[name] = DataTree[name]
    BY <1>4 DEF D!OpenExisting, D!LookupErr, ReadOnlyInv
  <2>2. dData' = dData
    <3>1. dData' = [dData EXCEPT ![dNodes[name]] = dData[dNodes[name]]]
      BY <1>1, <1>4 DEF D!OpenExisting
    <3>2. dData = [n \in Node |-> dData[n]]
      BY DEF ReadOnlyInv
    <3> QED
      BY <3>1, <3>2
  <2>3. dUsed' = dUsed
    <3>1. dUsed' = dUsed - 0
      BY <1>1, <1>4 DEF D!OpenExisting
    <3> QED
      BY <3>1, UsedType
  <2>4. UNCHANGED <<dNodes, dIsDir, dMeta, dLinked>>
    BY <1>1, <1>4 DEF D!OpenExisting
  <2>5. dFile'[p].n = dNodes[name]
    <3>1. dFile' = [dFile EXCEPT ![p] = D!OpenedFile(dNodes[name], name, fl)]
      BY <1>4 DEF D!OpenExisting
    <3>2. dFile'[p] = D!OpenedFile(dNodes[name], name, fl)
      BY <3>1 DEF ShapeInv, HandlesOK
    <3> QED
      BY <3>2 DEF D!OpenedFile
  <2> QED
    BY <2>1, <2>2, <2>3, <2>4, <2>5 DEF Kept
<1> QED
  BY <1>2, <1>3, <1>4 DEF D!OpenFile

\* Neither does closing one: it has a name.
LEMMA DCloses ==
  ASSUME ShapeInv, ReadOnly, ReadOnlyInv, NEW p \in Proc, D!Close(p)
  PROVE  Kept
<1>1. CASE dFile[p].closed
  BY <1>1 DEF D!Close, D!IsOpen, D!Fail, D!store, Kept
<1>2. CASE ~dFile[p].closed
  <2>1. PICK q \in DOMAIN DataTree : DataTree[q] = dFile[p].n
    BY <1>2 DEF ReadOnlyInv
  <2>2. dFile[p].n \in Node => dLinked[dFile[p].n]
    BY <2>1 DEF ReadOnlyInv
  <2>3. dData = [n \in Node |-> dData[n]]
    BY DEF ReadOnlyInv
  <2>4. CASE dFile[p].n \in Node
    <3>1. dData' = [dData EXCEPT ![dFile[p].n] = dData[dFile[p].n]] /\ dUsed' = dUsed - 0
      BY <1>2, <2>2, <2>4 DEF D!Close, D!IsOpen
    <3>2. dUsed' = dUsed /\ dData' = dData
      BY <2>3, <3>1, UsedType
    <3> QED
      BY <1>2, <3>2 DEF D!Close, D!IsOpen, Kept
  <2> QED
    BY <2>1, <2>4, TreeAssumption
<1> QED
  BY <1>1, <1>2

-----------------------------------------------------------------------------
(* One step *)

Calls(p, c) == call' = [call EXCEPT ![p] = c]

\* What the command in call c with file w holds open on filesystem o.
Holds(c, w, o) == \/ ~w.closed /\ w.on = o
                  \/ c.pc = "check" /\ ~IsNull(c.name) /\ Owner(c.name) = o

\* Command p comes to be in call c with file w, as it may.
Allowed(c, w) ==
  /\ CallOK(c) /\ w \in WasiType
  /\ c.pc = "remove" => writable(c.name) = "OK"
  /\ c.pc \in Opening => w.closed
  /\ c.pc = "fileChtimes" => ~w.closed /\ w.metadataWritable
  /\ ReadOnly => /\ ~w.closed /\ w.on = "data" => ~w.writable /\ ~w.metadataWritable
                 /\ c.pc = "check" /\ ~IsNull(c.name) /\ Owner(c.name) = "data" =>
                      ~Mutates(c.flag)

\* The other commands hold what they held.
OthersSame(p) ==
  /\ HandlesOK(rFile') /\ HandlesOK(dFile') /\ MetaOK(rMeta') /\ MetaOK(dMeta')
  /\ \A q \in Proc \ {p} : /\ rFile'[q].closed = rFile[q].closed
                           /\ dFile'[q].closed = dFile[q].closed /\ dFile'[q].n = dFile[q].n

LEMMA ActorStep ==
  ASSUME NamespaceInv, NEW p \in Proc, NEW c, NEW w, Allowed(c, w), Calls(p, c),
         \A q \in Proc : wasi'[q] = IF q = p THEN w ELSE wasi[q],
         wasi' \in [Proc -> WasiType],
         OthersSame(p), MountInv',
         ~rFile'[p].closed <=> Holds(c, w, "root"),
         ~dFile'[p].closed <=> Holds(c, w, "data"),
         ReadOnly => /\ Kept
                     /\ ~dFile'[p].closed => \E q \in DOMAIN DataTree : DataTree[q] = dFile'[p].n
  PROVE  NamespaceInv'
<1>1. \A q \in Proc : call'[q] = IF q = p THEN c ELSE call[q]
  BY DEF Calls, NamespaceInv, ShapeInv
<1>2. call' = [q \in Proc |-> call'[q]]
  BY DEF Calls, NamespaceInv, ShapeInv
<1>3. ShapeInv'
  BY <1>1, <1>2 DEF Allowed, OthersSame, NamespaceInv, ShapeInv
<1>4. CheckedInv'
  BY <1>1 DEF Allowed, NamespaceInv, CheckedInv
<1>5. NoFileLeaked'
  <2> SUFFICES ASSUME NEW q \in Proc
               PROVE  /\ ~rFile'[q].closed <=> Holds(call'[q], wasi'[q], "root")
                      /\ ~dFile'[q].closed <=> Holds(call'[q], wasi'[q], "data")
    BY DEF NoFileLeaked, Holds
  <2>1. CASE q = p
    BY <1>1, <2>1
  <2>2. CASE q # p
    BY <1>1, <2>2 DEF OthersSame, NamespaceInv, NoFileLeaked, Holds
  <2> QED
    BY <2>1, <2>2
<1>6. ReadOnlyInv'
  BY <1>1 DEF Allowed, OthersSame, Kept, NamespaceInv, ReadOnlyInv
<1> QED
  BY <1>3, <1>4, <1>5, <1>6 DEF NamespaceInv

\* A step that opens and closes nothing.
LEMMA SameStep ==
  ASSUME NamespaceInv, NEW p \in Proc, NEW c, Calls(p, c), UNCHANGED wasi, CallOK(c),
         call[p].pc # "check", c.pc = "check" => IsNull(c.name),
         c.pc = "remove" => writable(c.name) = "OK",
         c.pc \in Opening => wasi[p].closed,
         c.pc = "fileChtimes" => ~wasi[p].closed /\ wasi[p].metadataWritable,
         SameFiles(rFile, rFile'), SameFiles(dFile, dFile'), MetaOK(rMeta'), MetaOK(dMeta'),
         MountInv', ReadOnly => Kept
  PROVE  NamespaceInv'
<1>1. Allowed(c, wasi[p])
  BY DEF Allowed, NamespaceInv, ShapeInv, ReadOnlyInv
<1>2. OthersSame(p)
  BY DEF OthersSame, SameFiles
<1>3. \A o : Holds(c, wasi[p], o) <=> Holds(call[p], wasi[p], o)
  BY DEF Holds
<1>4. /\ ~rFile'[p].closed <=> Holds(call[p], wasi[p], "root")
      /\ ~dFile'[p].closed <=> Holds(call[p], wasi[p], "data")
  BY DEF SameFiles, NamespaceInv, NoFileLeaked, Holds
<1>5. ReadOnly /\ ~dFile'[p].closed => \E q \in DOMAIN DataTree : DataTree[q] = dFile'[p].n
  BY DEF SameFiles, NamespaceInv, ReadOnlyInv
<1>6. wasi' \in [Proc -> WasiType]
  BY DEF NamespaceInv, ShapeInv
<1> QED
  BY <1>1, <1>2, <1>3, <1>4, <1>5, <1>6, ActorStep

\* A step that makes no call on a filesystem.
LEMMA Talk ==
  ASSUME NamespaceInv, NEW p \in Proc, NEW c, Calls(p, c), UNCHANGED <<stores, wasi>>, CallOK(c),
         call[p].pc # "check", c.pc = "check" => IsNull(c.name),
         c.pc = "remove" => writable(c.name) = "OK",
         c.pc \in Opening => wasi[p].closed,
         c.pc = "fileChtimes" => ~wasi[p].closed /\ wasi[p].metadataWritable
  PROVE  NamespaceInv'
<1>1. UNCHANGED <<rNodes, rIsDir, rMeta, rLinked, rFile, dMeta, dFile>> /\ Kept
  BY DEF stores, root, data, Kept
<1>2. SameFiles(rFile, rFile') /\ SameFiles(dFile, dFile')
  BY <1>1, SameSelf DEF NamespaceInv, ShapeInv
<1>3. MetaOK(rMeta') /\ MetaOK(dMeta') /\ MountInv'
  BY <1>1, MountFrame DEF NamespaceInv, ShapeInv
<1> QED
  BY <1>1, <1>2, <1>3, SameStep

LEMMA IdleOK == CallOK(Idle) /\ Idle.pc = "idle"
BY DEF CallOK, Idle

LEMMA Refused ==
  ASSUME NamespaceInv, NEW p \in Proc, NEW op, NEW err, Refuse(p, op, err), call[p].pc # "check"
  PROVE  NamespaceInv'
<1>1. Calls(p, Idle) /\ UNCHANGED <<stores, wasi>>
  BY DEF Refuse, Return, Calls
<1> QED
  BY <1>1, IdleOK, Talk DEF Opening

\* One call on the filesystem of a name that may be written to.
LEMMA NameOp ==
  ASSUME NamespaceInv, NEW p \in Proc, NEW n \in Names, writable(n) = "OK",
         Calls(p, Idle), UNCHANGED wasi, call[p].pc # "check",
         \/ \E perm \in Perm : \/ On(Owner(n), R!Mkdir(Rel(n), perm), D!Mkdir(Rel(n), perm))
                               \/ On(Owner(n), R!Chmod(Rel(n), perm), D!Chmod(Rel(n), perm))
         \/ On(Owner(n), R!Remove(Rel(n)), D!Remove(Rel(n)))
         \/ \E at, mt : On(Owner(n), R!Chtimes(Rel(n), at, mt), D!Chtimes(Rel(n), at, mt))
         \/ \E m \in Names : /\ Owner(m) = Owner(n) /\ writable(m) = "OK"
                             /\ On(Owner(n), R!Rename(Rel(n), Rel(m)), D!Rename(Rel(n), Rel(m)))
  PROVE  NamespaceInv'
<1>1. ShapeInv /\ MountInv
  BY DEF NamespaceInv
<1>2. HandlesOK(rFile) /\ HandlesOK(dFile) /\ MetaOK(rMeta) /\ MetaOK(dMeta)
  BY <1>1 DEF ShapeInv
<1>3. CASE Owner(n) = "root"
  <2>1. UNCHANGED <<dFile, dMeta>> /\ Kept
    BY <1>3 DEF On, data, Kept
  <2>2. MountInv' /\ UNCHANGED rFile /\ MetaOK(rMeta')
    BY <1>1, <1>3, RNameOp DEF On
  <2>3. SameFiles(rFile, rFile') /\ SameFiles(dFile, dFile') /\ MetaOK(dMeta')
    BY <1>2, <2>1, <2>2, SameSelf
  <2> QED
    BY <2>1, <2>2, <2>3, IdleOK, SameStep DEF Opening
<1>4. CASE Owner(n) = "data"
  <2>1. UNCHANGED <<rNodes, rIsDir, rLinked, rFile, rMeta>>
    BY <1>4 DEF On, root
  <2>2. UNCHANGED dFile /\ MetaOK(dMeta')
    BY <1>1, <1>4, DNameOp DEF On
  <2>3. SameFiles(rFile, rFile') /\ SameFiles(dFile, dFile') /\ MetaOK(rMeta') /\ MountInv'
    BY <1>1, <1>2, <2>1, <2>2, SameSelf, MountFrame
  <2>4. ~ReadOnly
    BY <1>4 DEF writable
  <2> QED
    BY <2>2, <2>3, <2>4, IdleOK, SameStep DEF Opening
<1> QED
  BY <1>3, <1>4 DEF Owner

\* One call other than Close on an open file.
LEMMA FileOp ==
  ASSUME NamespaceInv, NEW p \in Proc, ~wasi[p].closed,
         Calls(p, Idle), UNCHANGED wasi, call[p].pc # "check",
         \/ \E len \in ReadLen :
              \/ On(wasi[p].on, R!Read(p, len), D!Read(p, len))
              \/ \E off \in Offset : On(wasi[p].on, R!ReadAt(p, len, off), D!ReadAt(p, len, off))
         \/ \E off \in Offset, whence \in R!Whence :
              On(wasi[p].on, R!Seek(p, off, whence), D!Seek(p, off, whence))
         \/ \E k \in Count : On(wasi[p].on, R!FileReadDir(p, k), D!FileReadDir(p, k))
         \/ /\ wasi[p].writable
            /\ \/ \E b \in Payload :
                    \/ On(wasi[p].on, R!Write(p, b), D!Write(p, b))
                    \/ \E off \in Offset : On(wasi[p].on, R!WriteAt(p, b, off), D!WriteAt(p, b, off))
               \/ \E size \in Offset : On(wasi[p].on, R!Truncate(p, size), D!Truncate(p, size))
         \/ /\ wasi[p].metadataWritable
            /\ \E at, mt : On(wasi[p].on, R!FileChtimes(p, at, mt), D!FileChtimes(p, at, mt))
  PROVE  NamespaceInv'
<1>1. ShapeInv /\ MountInv
  BY DEF NamespaceInv
<1>2. HandlesOK(rFile) /\ HandlesOK(dFile) /\ MetaOK(rMeta) /\ MetaOK(dMeta)
  BY <1>1 DEF ShapeInv
<1>3. CASE wasi[p].on = "root"
  <2>1. UNCHANGED <<dFile, dMeta>> /\ Kept
    BY <1>3 DEF On, data, Kept
  <2>2. /\ SameFiles(rFile, rFile') /\ MetaOK(rMeta')
        /\ UNCHANGED <<rNodes, rIsDir, rLinked>>
    BY <1>1, <1>3, RFileOp DEF On
  <2>3. SameFiles(dFile, dFile') /\ MetaOK(dMeta') /\ MountInv'
    BY <1>1, <1>2, <2>1, <2>2, SameSelf, MountFrame
  <2> QED
    BY <2>1, <2>2, <2>3, IdleOK, SameStep DEF Opening
<1>4. CASE wasi[p].on = "data"
  <2>1. UNCHANGED <<rNodes, rIsDir, rLinked, rFile, rMeta>>
    BY <1>4 DEF On, root
  <2>2. SameFiles(dFile, dFile') /\ MetaOK(dMeta')
    <3>1. R!Whence = D!Whence
      BY DEF R!Whence, D!Whence
    <3> QED
      BY <1>1, <1>4, <3>1, DFileOp DEF On
  <2>3. SameFiles(rFile, rFile') /\ MetaOK(rMeta') /\ MountInv'
    BY <1>1, <1>2, <2>1, SameSelf, MountFrame
  <2>4. ReadOnly => Kept
    <3>1. ReadOnly => ~wasi[p].writable /\ ~wasi[p].metadataWritable
      BY <1>4 DEF NamespaceInv, ReadOnlyInv
    <3> QED
      BY <1>4, <3>1, DReads DEF On
  <2> QED
    BY <2>2, <2>3, <2>4, IdleOK, SameStep DEF Opening
<1> QED
  BY <1>3, <1>4 DEF On

-----------------------------------------------------------------------------
(* The actions *)

LEMMA ReadyIdle ==
  ASSUME NEW p \in Proc, NEW op, Ready(p, op)
  PROVE  call[p] = Idle /\ call[p].pc = "idle"
BY IdleOK DEF Ready

LEMMA ReturnIdle ==
  ASSUME NEW p, NEW op, NEW err, Return(p, op, err)
  PROVE  Calls(p, Idle)
BY DEF Return, Calls

LEMMA GotoCalls ==
  ASSUME NEW p, NEW c, Goto(p, c)
  PROVE  Calls(p, c)
BY DEF Goto, Calls

LEMMA RemoveLookStep ==
  ASSUME NamespaceInv, NEW p \in Proc, NEW n \in Names, NEW dir \in BOOLEAN,
         RemoveLook(p, n, dir), call[p].pc # "check"
  PROVE  NamespaceInv'
<1>1. CASE RemoveErr(n, dir) # "OK"
  BY <1>1, Refused DEF RemoveLook
<1>2. CASE RemoveErr(n, dir) = "OK"
  <2>1. PICK c : c = [pc |-> "remove", name |-> n, dir |-> dir]
    OBVIOUS
  <2>2. Calls(p, c) /\ UNCHANGED <<stores, wasi>>
    BY <1>2, <2>1, GotoCalls DEF RemoveLook
  <2>3. CallOK(c) /\ c.pc = "remove" /\ writable(c.name) = "OK"
    BY <1>2, <2>1 DEF CallOK, RemoveErr
  <2> QED
    BY <2>2, <2>3, Talk DEF Opening
<1> QED
  BY <1>1, <1>2

LEMMA NameCallStep ==
  ASSUME NamespaceInv, NEW p \in Proc, NameCall(p)
  PROVE  NamespaceInv'
<1>1. PICK x \in Arg :
        \/ \E perm \in Perm : Mkdir(p, x, perm) \/ Chmod(p, x, perm)
        \/ CommandRemove(p, x)
        \/ Unlink(p, x)
        \/ Rmdir(p, x)
        \/ \E y \in Arg : RenameStart(p, x, y)
        \/ \E at, mt \in Stamp \cup {Omit} : Utimens(p, x, at, mt)
        \/ \E fl \in Flag, dir \in BOOLEAN : OpenStart(p, x, fl, dir)
  BY DEF NameCall
<1>2. PICK n \in Names : n = Resolve(x)
  BY DEF Names
<1>3. call[p] = Idle /\ call[p].pc = "idle"
  BY <1>1, ReadyIdle DEF Mkdir, Chmod, CommandRemove, Unlink, Rmdir, RenameStart, Utimens, OpenStart
<1>4. CASE \E perm \in Perm : Mkdir(p, x, perm) \/ Chmod(p, x, perm)
  <2>1. CASE writable(n) # "OK"
    BY <1>2, <1>3, <1>4, <2>1, Refused DEF Mkdir, Chmod
  <2>2. CASE writable(n) = "OK"
    <3>1. /\ \E perm \in Perm : \/ On(Owner(n), R!Mkdir(Rel(n), perm), D!Mkdir(Rel(n), perm))
                                \/ On(Owner(n), R!Chmod(Rel(n), perm), D!Chmod(Rel(n), perm))
          /\ Calls(p, Idle) /\ UNCHANGED wasi
      BY <1>2, <1>4, <2>2, ReturnIdle DEF Mkdir, Chmod
    <3> QED
      BY <1>3, <2>2, <3>1, NameOp
  <2> QED
    BY <2>1, <2>2
<1>5. CASE CommandRemove(p, x)
  <2>1. CASE StatErr(n) # "OK"
    BY <1>2, <1>3, <1>5, <2>1, Refused DEF CommandRemove
  <2>2. CASE StatErr(n) = "OK"
    <3>1. PICK c : c = [pc |-> "lstat", name |-> n, dir |-> StatIsDir(n)]
      OBVIOUS
    <3>2. Calls(p, c) /\ UNCHANGED <<stores, wasi>>
      BY <1>2, <1>5, <2>2, <3>1, GotoCalls DEF CommandRemove
    <3>3. CallOK(c) /\ c.pc = "lstat"
      BY <3>1 DEF CallOK, StatIsDir
    <3> QED
      BY <1>3, <3>2, <3>3, Talk DEF Opening
  <2> QED
    BY <2>1, <2>2
<1>6. CASE Unlink(p, x) \/ Rmdir(p, x)
  <2>1. PICK dir \in BOOLEAN : RemoveLook(p, n, dir)
    BY <1>2, <1>6 DEF Unlink, Rmdir
  <2> QED
    BY <1>3, <2>1, RemoveLookStep
<1>7. ASSUME NEW y \in Arg, RenameStart(p, x, y)
      PROVE  NamespaceInv'
  <2>1. PICK m \in Names : m = Resolve(y)
    BY DEF Names
  <2>2. PICK c : c = [pc |-> "renameOld", name |-> n, to |-> m]
    OBVIOUS
  <2>3. Calls(p, c) /\ UNCHANGED <<stores, wasi>>
    BY <1>2, <1>7, <2>1, <2>2, GotoCalls DEF RenameStart
  <2>4. CallOK(c) /\ c.pc = "renameOld"
    BY <2>2 DEF CallOK
  <2> QED
    BY <1>3, <2>3, <2>4, Talk DEF Opening
<1>8. ASSUME NEW at, NEW mt, Utimens(p, x, at, mt)
      PROVE  NamespaceInv'
  <2>1. CASE StatErr(n) # "OK"
    BY <1>2, <1>3, <1>8, <2>1, Refused DEF Utimens
  <2>2. CASE StatErr(n) = "OK"
    <3>1. PICK t : t = timestamps(IF IsNull(n) THEN NullMeta ELSE MetaAt(n), at, mt)
      OBVIOUS
    <3>2. PICK c : c = [pc |-> "chtimes", name |-> n, times |-> t]
      OBVIOUS
    <3>3. Calls(p, c) /\ UNCHANGED <<stores, wasi>>
      BY <1>2, <1>8, <2>2, <3>1, <3>2, GotoCalls DEF Utimens
    <3>4. CallOK(c) /\ c.pc = "chtimes"
      BY <3>2 DEF CallOK
    <3> QED
      BY <1>3, <3>3, <3>4, Talk DEF Opening
  <2> QED
    BY <2>1, <2>2
<1>9. ASSUME NEW fl \in Flag, NEW dir \in BOOLEAN, OpenStart(p, x, fl, dir)
      PROVE  NamespaceInv'
  <2>1. PICK pc \in {"openDir", "openSlash"} : pc = IF dir THEN "openDir" ELSE "openSlash"
    OBVIOUS
  <2>2. PICK c : c = [pc |-> pc, name |-> n, flag |-> fl, dir |-> dir]
    OBVIOUS
  <2>3. Calls(p, c) /\ UNCHANGED <<stores, wasi>> /\ wasi[p].closed
    BY <1>2, <1>9, <2>1, <2>2, GotoCalls DEF OpenStart
  <2>4. CallOK(c) /\ c.pc = pc
    BY <2>2 DEF CallOK, Opening
  <2> QED
    BY <1>3, <2>1, <2>3, <2>4, Talk
<1> QED
  BY <1>1, <1>4, <1>5, <1>6, <1>7, <1>8, <1>9

LEMMA NoFileOK == NoFile \in WasiType /\ NoFile.closed
<1>1. NoFile.closed = TRUE /\ NoFile.on = "null"
  BY DEF NoFile
<1>2. NoFile \in WasiType
  BY DEF NoFile, WasiType
<1> QED
  BY <1>1, <1>2

\* What the command holds before the step.
LEMMA HoldsNow ==
  ASSUME NamespaceInv, NEW p \in Proc
  PROVE  /\ ~rFile[p].closed <=> Holds(call[p], wasi[p], "root")
         /\ ~dFile[p].closed <=> Holds(call[p], wasi[p], "data")
         /\ rFile[p].closed \in BOOLEAN /\ dFile[p].closed \in BOOLEAN
         /\ wasi[p] \in WasiType
BY DEF NamespaceInv, NoFileLeaked, Holds, ShapeInv, HandlesOK, FileOK

\* The file that command p holds is closed, if it holds one, and p is left
\* with w, which is no file.
LEMMA GivenUp ==
  ASSUME NamespaceInv, NEW p \in Proc, NEW w \in WasiType, w.closed,
         Calls(p, Idle), wasi' = Put(wasi, p, w),
         \/ /\ ~Holds(call[p], wasi[p], "root") /\ ~Holds(call[p], wasi[p], "data")
            /\ UNCHANGED <<root, data>>
         \/ /\ Holds(call[p], wasi[p], "root") /\ ~Holds(call[p], wasi[p], "data")
            /\ R!Close(p) /\ UNCHANGED data
         \/ /\ Holds(call[p], wasi[p], "data") /\ ~Holds(call[p], wasi[p], "root")
            /\ D!Close(p) /\ UNCHANGED root
  PROVE  NamespaceInv'
<1>1. ShapeInv /\ MountInv /\ ReadOnlyInv
  BY DEF NamespaceInv
<1>2. HandlesOK(rFile) /\ HandlesOK(dFile) /\ MetaOK(rMeta) /\ MetaOK(dMeta)
  BY <1>1 DEF ShapeInv
<1>3. ~Holds(Idle, w, "root") /\ ~Holds(Idle, w, "data")
  BY IdleOK DEF Holds
<1>4. Allowed(Idle, w)
  BY IdleOK DEF Allowed, Opening
<1>5. /\ \A q \in Proc : wasi'[q] = IF q = p THEN w ELSE wasi[q]
      /\ wasi' \in [Proc -> WasiType]
  BY <1>1 DEF ShapeInv, Put
<1>6. /\ OthersSame(p) /\ MountInv' /\ rFile'[p].closed /\ dFile'[p].closed
      /\ ReadOnly => Kept
  <2>1. CASE UNCHANGED <<root, data>> /\ rFile[p].closed /\ dFile[p].closed
    BY <1>1, <1>2, <2>1, MountFrame DEF root, data, OthersSame, Kept
  <2>2. CASE /\ ~rFile[p].closed /\ dFile[p].closed
             /\ R!Close(p) /\ UNCHANGED data
    <3>1. /\ Turned(rFile, rFile', p, TRUE)
          /\ UNCHANGED <<rNodes, rIsDir, rLinked, rMeta>>
      BY <1>1, <2>2, RClose
    <3>2. UNCHANGED <<dFile, dMeta>> /\ Kept
      BY <2>2 DEF data, Kept
    <3>3. MountInv'
      BY <1>1, <3>1, MountFrame
    <3>4. OthersSame(p) /\ rFile'[p].closed /\ dFile'[p].closed
      BY <1>2, <2>2, <3>1, <3>2 DEF OthersSame, Turned
    <3> QED
      BY <3>2, <3>3, <3>4
  <2>3. CASE /\ ~dFile[p].closed /\ rFile[p].closed
             /\ D!Close(p) /\ UNCHANGED root
    <3>1. Turned(dFile, dFile', p, TRUE) /\ UNCHANGED dMeta
      BY <1>1, <2>3, DClose
    <3>2. UNCHANGED <<rNodes, rIsDir, rLinked, rMeta, rFile>>
      BY <2>3 DEF root
    <3>3. MountInv'
      BY <1>1, <3>2, MountFrame
    <3>4. OthersSame(p) /\ rFile'[p].closed /\ dFile'[p].closed
      BY <1>2, <2>3, <3>1, <3>2 DEF OthersSame, Turned
    <3>5. ReadOnly => Kept
      BY <1>1, <2>3, DCloses
    <3> QED
      BY <3>3, <3>4, <3>5
  <2> QED
    BY <2>1, <2>2, <2>3, HoldsNow
<1> QED
  BY <1>3, <1>4, <1>5, <1>6, ActorStep

LEMMA CloseStep ==
  ASSUME NamespaceInv, NEW p \in Proc, Close(p)
  PROVE  NamespaceInv'
<1>1. call[p] = Idle /\ call[p].pc = "idle"
  BY ReadyIdle DEF Close
<1>2. CASE wasi[p].closed
  BY <1>1, <1>2, Refused DEF Close
<1>3. CASE ~wasi[p].closed
  <2>1. Calls(p, Idle)
    BY <1>3, ReturnIdle DEF Close
  <2>2. \A o : Holds(call[p], wasi[p], o) <=> wasi[p].on = o
    BY <1>1, <1>3 DEF Holds
  <2>3. wasi' = Put(wasi, p, NoFile)
    BY <1>3 DEF Close, Put
  <2>4. CASE wasi[p].on = "null"
    <3>1. UNCHANGED <<root, data>>
      BY <1>3, <2>4 DEF Close, stores
    <3>2. ~Holds(call[p], wasi[p], "root") /\ ~Holds(call[p], wasi[p], "data")
      BY <2>2, <2>4
    <3> QED
      BY <2>1, <2>3, <3>1, <3>2, NoFileOK, GivenUp
  <2>5. CASE wasi[p].on = "root"
    <3>1. R!Close(p) /\ UNCHANGED data
      BY <1>3, <2>5 DEF Close, On
    <3>2. Holds(call[p], wasi[p], "root") /\ ~Holds(call[p], wasi[p], "data")
      BY <2>2, <2>5
    <3> QED
      BY <2>1, <2>3, <3>1, <3>2, NoFileOK, GivenUp
  <2>6. CASE wasi[p].on = "data"
    <3>1. D!Close(p) /\ UNCHANGED root
      BY <1>3, <2>6 DEF Close, On
    <3>2. Holds(call[p], wasi[p], "data") /\ ~Holds(call[p], wasi[p], "root")
      BY <2>2, <2>6
    <3> QED
      BY <2>1, <2>3, <3>1, <3>2, NoFileOK, GivenUp
  <2> QED
    BY <1>3, <2>4, <2>5, <2>6 DEF Close, On
<1> QED
  BY <1>2, <1>3

LEMMA FileCallStep ==
  ASSUME NamespaceInv, NEW p \in Proc, FileCall(p)
  PROVE  NamespaceInv'
<1>1. CASE Close(p)
  BY <1>1, CloseStep
<1>2. ASSUME NEW at, NEW mt, FileUtimens(p, at, mt)
      PROVE  NamespaceInv'
  <2>1. call[p].pc = "idle"
    BY <1>2, ReadyIdle DEF FileUtimens
  <2>2. CASE FileUtimensErr(p) # "OK"
    BY <1>2, <2>1, <2>2, Refused DEF FileUtimens
  <2>3. CASE FileUtimensErr(p) = "OK"
    <3>1. PICK t : t = timestamps(IF wasi[p].on = "null" THEN NullMeta ELSE FileMeta(p), at, mt)
      OBVIOUS
    <3>2. PICK c : c = [pc |-> "fileChtimes", times |-> t]
      OBVIOUS
    <3>3. Calls(p, c) /\ UNCHANGED <<stores, wasi>>
      BY <1>2, <2>3, <3>1, <3>2, GotoCalls DEF FileUtimens
    <3>4. CallOK(c) /\ c.pc = "fileChtimes"
      BY <3>2 DEF CallOK
    <3>5. ~wasi[p].closed /\ wasi[p].metadataWritable
      BY <2>3 DEF FileUtimensErr
    <3> QED
      BY <2>1, <3>3, <3>4, <3>5, Talk DEF Opening
  <2> QED
    BY <2>2, <2>3
<1> DEFINE refused == call[p].pc = "idle" /\ \E op, err : Refuse(p, op, err)
           passed == /\ call[p].pc = "idle" /\ ~wasi[p].closed
                     /\ Calls(p, Idle) /\ UNCHANGED wasi
           reads == \E len \in ReadLen :
             \/ On(wasi[p].on, R!Read(p, len), D!Read(p, len))
             \/ \E off \in Offset : On(wasi[p].on, R!ReadAt(p, len, off), D!ReadAt(p, len, off))
           moves == \/ \E off \in Offset, whence \in R!Whence :
                         On(wasi[p].on, R!Seek(p, off, whence), D!Seek(p, off, whence))
                    \/ \E k \in Count : On(wasi[p].on, R!FileReadDir(p, k), D!FileReadDir(p, k))
           writes == \E b \in Payload :
             \/ On(wasi[p].on, R!Write(p, b), D!Write(p, b))
             \/ \E off \in Offset : On(wasi[p].on, R!WriteAt(p, b, off), D!WriteAt(p, b, off))
           cuts == \E size \in Offset : On(wasi[p].on, R!Truncate(p, size), D!Truncate(p, size))
<1>3. refused => NamespaceInv'
  BY Refused
<1>4. passed /\ (reads \/ moves) => NamespaceInv'
  BY FileOp
<1>5. passed /\ wasi[p].writable /\ (writes \/ cuts) => NamespaceInv'
  BY FileOp
<1>6. CASE \E len \in ReadLen : Read(p, len) \/ \E off \in Offset : Pread(p, len, off)
  <2>1. refused \/ (passed /\ reads)
    BY <1>6, ReadyIdle, ReturnIdle DEF Read, Pread, PassOn
  <2> QED
    BY <2>1, <1>3, <1>4
<1>7. CASE \E off \in Offset, whence \in R!Whence : Seek(p, off, whence)
  <2>1. refused \/ (passed /\ moves)
    BY <1>7, ReadyIdle, ReturnIdle DEF Seek, PassOn
  <2> QED
    BY <2>1, <1>3, <1>4
<1>8. CASE \E k \in Count : Readdir(p, k)
  <2>1. refused \/ (passed /\ moves)
    BY <1>8, ReadyIdle, ReturnIdle DEF Readdir, PassOn
  <2> QED
    BY <2>1, <1>3, <1>4
<1>9. CASE \E b \in Payload : Write(p, b) \/ \E off \in Offset : Pwrite(p, b, off)
  <2>1. refused \/ (passed /\ wasi[p].writable /\ writes)
    BY <1>9, ReadyIdle, ReturnIdle DEF Write, Pwrite, PassOn
  <2> QED
    BY <2>1, <1>3, <1>5
<1>10. CASE \E size \in Offset : Truncate(p, size)
  <2>1. refused \/ (passed /\ wasi[p].writable /\ cuts)
    BY <1>10, ReadyIdle, ReturnIdle DEF Truncate, PassOn
  <2> QED
    BY <2>1, <1>3, <1>5
<1> QED
  BY <1>1, <1>2, <1>6, <1>7, <1>8, <1>9, <1>10 DEF FileCall

\* What the call of a command looks like, by where it has got to.
LEMMA InCall ==
  ASSUME NamespaceInv, NEW p \in Proc
  PROVE  /\ call[p].pc \in {"lstat", "remove"} =>
              call[p] \in [pc : {"lstat", "remove"}, name : Names, dir : BOOLEAN]
         /\ call[p].pc \in {"renameOld", "renameNew", "rename"} =>
              call[p] \in [pc : {"renameOld", "renameNew", "rename"}, name : Names, to : Names]
         /\ call[p].pc \in Opening =>
              call[p] \in [pc : Opening, name : Names, flag : Flag, dir : BOOLEAN]
         /\ call[p].pc = "chtimes" => call[p].name \in Names
<1>1. CallOK(call[p])
  BY DEF NamespaceInv, ShapeInv
<1>2. call[p] = Idle => call[p].pc = "idle"
  BY IdleOK
<1>3. call[p] = [pc |-> "fileChtimes", times |-> call[p].times] => call[p].pc = "fileChtimes"
  OBVIOUS
<1> QED
  BY <1>1, <1>2, <1>3 DEF CallOK, Opening

LEMMA RemoveNowStep ==
  ASSUME NamespaceInv, NEW p \in Proc, RemoveNow(p)
  PROVE  NamespaceInv'
<1>1. PICK n \in Names : n = call[p].name
  BY InCall DEF RemoveNow
<1>2. writable(n) = "OK"
  BY <1>1 DEF RemoveNow, NamespaceInv, CheckedInv
<1>3. On(Owner(n), R!Remove(Rel(n)), D!Remove(Rel(n))) /\ Calls(p, Idle) /\ UNCHANGED wasi
  BY <1>1, ReturnIdle DEF RemoveNow
<1>4. call[p].pc # "check"
  BY DEF RemoveNow
<1> QED
  BY <1>2, <1>3, <1>4, NameOp

LEMMA RenameStep ==
  ASSUME NamespaceInv, NEW p \in Proc, RenameLook(p) \/ RenameNow(p)
  PROVE  NamespaceInv'
<1>1. call[p].pc \in {"renameOld", "renameNew", "rename"}
  BY DEF RenameLook, RenameNow
<1>2. call[p] \in [pc : {"renameOld", "renameNew", "rename"}, name : Names, to : Names]
  BY <1>1, InCall
<1>3. CASE \E err : Refuse(p, "Rename", err)
  BY <1>1, <1>3, Refused
<1>4. CASE RenameLook(p) /\ ~\E err : Refuse(p, "Rename", err)
  <2>1. PICK pc \in {"renameNew", "rename"} :
          pc = IF call[p].pc = "renameOld" THEN "renameNew" ELSE "rename"
    OBVIOUS
  <2>2. PICK c : c = [call[p] EXCEPT !.pc = pc]
    OBVIOUS
  <2>3. Calls(p, c) /\ UNCHANGED <<stores, wasi>>
    BY <1>4, <2>1, <2>2, GotoCalls DEF RenameLook
  <2>4. c.pc = pc /\ c \in [pc : {"renameOld", "renameNew", "rename"}, name : Names, to : Names]
    BY <1>2, <2>2
  <2> QED
    BY <1>1, <2>3, <2>4, Talk DEF CallOK, Opening
<1>5. CASE RenameNow(p) /\ ~\E err : Refuse(p, "Rename", err)
  <2>1. PICK a \in Names, b \in Names : a = call[p].name /\ b = call[p].to
    BY <1>2
  <2>2. writable(a) = "OK" /\ writable(b) = "OK" /\ Owner(b) = Owner(a)
    BY <1>5, <2>1 DEF RenameNow, RenameErr
  <2>3. On(Owner(a), R!Rename(Rel(a), Rel(b)), D!Rename(Rel(a), Rel(b)))
    BY <1>5, <2>1 DEF RenameNow
  <2>4. Calls(p, Idle) /\ UNCHANGED wasi
    BY <1>5, ReturnIdle DEF RenameNow
  <2> QED
    BY <1>1, <2>2, <2>3, <2>4, NameOp
<1> QED
  BY <1>3, <1>4, <1>5

LEMMA UtimensNowStep ==
  ASSUME NamespaceInv, NEW p \in Proc, UtimensNow(p)
  PROVE  NamespaceInv'
<1>1. PICK n \in Names : n = call[p].name
  BY InCall DEF UtimensNow
<1>2. call[p].pc # "check"
  BY DEF UtimensNow
<1>3. CASE writable(n) # "OK"
  BY <1>1, <1>2, <1>3, Refused DEF UtimensNow
<1>4. CASE writable(n) = "OK"
  <2>1. /\ \E at, mt : On(Owner(n), R!Chtimes(Rel(n), at, mt), D!Chtimes(Rel(n), at, mt))
        /\ Calls(p, Idle) /\ UNCHANGED wasi
    BY <1>1, <1>4, ReturnIdle DEF UtimensNow
  <2> QED
    BY <1>2, <1>4, <2>1, NameOp
<1> QED
  BY <1>3, <1>4

LEMMA FileUtimensNowStep ==
  ASSUME NamespaceInv, NEW p \in Proc, FileUtimensNow(p)
  PROVE  NamespaceInv'
<1>1. call[p].pc = "fileChtimes" /\ ~wasi[p].closed /\ wasi[p].metadataWritable
  BY DEF FileUtimensNow, NamespaceInv, CheckedInv
<1>2. CASE wasi[p].on = "null"
  BY <1>1, <1>2, Refused DEF FileUtimensNow
<1>3. CASE wasi[p].on # "null"
  <2>1. /\ \E at, mt : On(wasi[p].on, R!FileChtimes(p, at, mt), D!FileChtimes(p, at, mt))
        /\ Calls(p, Idle) /\ UNCHANGED wasi
    BY <1>3, ReturnIdle DEF FileUtimensNow
  <2> QED
    BY <1>1, <2>1, FileOp
<1> QED
  BY <1>2, <1>3

\* An open goes on to the next look.
LEMMA OpenLookStep ==
  ASSUME NamespaceInv, NEW p \in Proc, OpenDir(p) \/ OpenSlash(p)
  PROVE  NamespaceInv'
<1>1. call[p].pc \in {"openDir", "openSlash"}
  BY DEF OpenDir, OpenSlash
<1>2. /\ call[p] \in [pc : Opening, name : Names, flag : Flag, dir : BOOLEAN]
      /\ wasi[p].closed
  BY <1>1, InCall DEF Opening, NamespaceInv, CheckedInv
<1>3. CASE \E err : Refuse(p, "OpenFile", err)
  BY <1>1, <1>3, Refused
<1>4. CASE ~\E err : Refuse(p, "OpenFile", err)
  <2>1. PICK pc \in {"openSlash", "open"} :
          Goto(p, [call[p] EXCEPT !.pc = pc]) /\ UNCHANGED <<stores, wasi>>
    BY <1>4 DEF OpenDir, OpenSlash
  <2>2. PICK c : c = [call[p] EXCEPT !.pc = pc]
    OBVIOUS
  <2>3. Calls(p, c)
    BY <2>1, <2>2, GotoCalls
  <2>4. c.pc = pc /\ c \in [pc : Opening, name : Names, flag : Flag, dir : BOOLEAN]
    BY <1>2, <2>2 DEF Opening
  <2>5. CallOK(c)
    BY <2>4 DEF CallOK
  <2> QED
    BY <1>1, <1>2, <2>1, <2>3, <2>4, <2>5, Talk
<1> QED
  BY <1>3, <1>4

\* A file has been opened for command p on the filesystem of the name.
LEMMA OpenedStep ==
  ASSUME NamespaceInv, NEW p \in Proc, call[p].pc = "open", NEW c, Calls(p, c), UNCHANGED wasi,
         c \in [pc : Opening, name : Names, flag : Flag, dir : BOOLEAN],
         c.pc = "check", ~IsNull(c.name),
         MetaOK(rMeta'), MetaOK(dMeta'), MountInv',
         \/ /\ Owner(c.name) = "root" /\ Turned(rFile, rFile', p, FALSE)
            /\ UNCHANGED dFile /\ Kept
         \/ /\ Owner(c.name) = "data" /\ Turned(dFile, dFile', p, FALSE) /\ UNCHANGED rFile
            /\ ReadOnly => /\ Kept /\ ~Mutates(c.flag)
                           /\ \E q \in DOMAIN DataTree : DataTree[q] = dFile'[p].n
  PROVE  NamespaceInv'
<1>1. wasi[p].closed /\ wasi \in [Proc -> WasiType] /\ HandlesOK(rFile) /\ HandlesOK(dFile)
  BY DEF NamespaceInv, ShapeInv, CheckedInv, Opening
<1>2. rFile[p].closed /\ dFile[p].closed
  BY <1>1, HoldsNow DEF Holds
<1>3. CallOK(c)
  BY DEF CallOK
<1>4. \A o : Holds(c, wasi[p], o) <=> Owner(c.name) = o
  BY <1>1 DEF Holds
<1>5. CASE Owner(c.name) = "root"
  <2>1. Turned(rFile, rFile', p, FALSE) /\ UNCHANGED dFile /\ Kept
    BY <1>5
  <2>2. OthersSame(p) /\ ~rFile'[p].closed /\ dFile'[p].closed
    BY <1>1, <1>2, <2>1 DEF OthersSame, Turned
  <2>3. Allowed(c, wasi[p])
    BY <1>1, <1>3, <1>5 DEF Allowed
  <2>4. Holds(c, wasi[p], "root") /\ ~Holds(c, wasi[p], "data")
    BY <1>4, <1>5
  <2> QED
    BY <1>1, <2>1, <2>2, <2>3, <2>4, ActorStep
<1>6. CASE Owner(c.name) = "data"
  <2>1. /\ Turned(dFile, dFile', p, FALSE) /\ UNCHANGED rFile
        /\ ReadOnly => /\ Kept /\ ~Mutates(c.flag)
                       /\ \E q \in DOMAIN DataTree : DataTree[q] = dFile'[p].n
    BY <1>6
  <2>2. OthersSame(p) /\ rFile'[p].closed /\ ~dFile'[p].closed
    BY <1>1, <1>2, <2>1 DEF OthersSame, Turned
  <2>3. Allowed(c, wasi[p])
    BY <1>1, <1>3, <2>1 DEF Allowed
  <2>4. ~Holds(c, wasi[p], "root") /\ Holds(c, wasi[p], "data")
    BY <1>4, <1>6
  <2> QED
    BY <1>1, <2>1, <2>2, <2>3, <2>4, ActorStep
<1> QED
  BY <1>5, <1>6

LEMMA OpenNowStep ==
  ASSUME NamespaceInv, NEW p \in Proc, NEW perm, OpenNow(p, perm)
  PROVE  NamespaceInv'
<1>1. call[p].pc = "open"
  BY DEF OpenNow
<1>2. call[p] \in [pc : Opening, name : Names, flag : Flag, dir : BOOLEAN] /\ wasi[p].closed
  BY <1>1, InCall DEF Opening, NamespaceInv, CheckedInv
<1>3. PICK n \in Names, flag \in R!AllFlags : n = call[p].name /\ flag = call[p].flag
  BY <1>2, NameAssumption
<1>4. PICK fl \in R!AllFlags :
        fl = (IF Mutates(flag) THEN flag ELSE [flag EXCEPT !.excl = FALSE])
  BY DEF R!AllFlags
<1>5. Mutates(fl) <=> Mutates(flag)
  BY <1>4 DEF Mutates, R!AllFlags
<1>6. PICK c : c = [call[p] EXCEPT !.pc = "check"]
  OBVIOUS
<1>7. /\ c \in [pc : Opening, name : Names, flag : Flag, dir : BOOLEAN]
      /\ c.pc = "check" /\ c.name = n /\ c.flag = flag
  BY <1>2, <1>3, <1>6 DEF Opening
<1>8. CASE IsNull(n)
  <2>1. Calls(p, c) /\ UNCHANGED <<stores, wasi>>
    BY <1>3, <1>6, <1>8, GotoCalls DEF OpenNow
  <2>2. CallOK(c)
    BY <1>7 DEF CallOK
  <2> QED
    BY <1>1, <1>2, <1>7, <1>8, <2>1, <2>2, Talk
<1>9. CASE ~IsNull(n) /\ OpenErr(n, fl) # "OK"
  BY <1>1, <1>3, <1>4, <1>9, Refused DEF OpenNow
<1>10. CASE ~IsNull(n) /\ OpenErr(n, fl) = "OK"
  <2>1. /\ On(Owner(n), R!OpenFile(p, Rel(n), fl, perm), D!OpenFile(p, Rel(n), fl, perm))
        /\ UNCHANGED wasi
    BY <1>3, <1>4, <1>10 DEF OpenNow
  <2>2. IF ret'.err = "OK" THEN Calls(p, c) ELSE Calls(p, Idle)
    BY <1>3, <1>4, <1>6, <1>10, GotoCalls, ReturnIdle DEF OpenNow
  <2>3. /\ ShapeInv /\ MountInv /\ ReadOnlyInv /\ Rel(n) \in Path
        /\ HandlesOK(rFile) /\ HandlesOK(dFile) /\ MetaOK(rMeta) /\ MetaOK(dMeta)
    BY NameAssumption DEF NamespaceInv, ShapeInv, Names
  <2>4. /\ MetaOK(rMeta') /\ MetaOK(dMeta') /\ MountInv'
        /\ \/ UNCHANGED rFile /\ UNCHANGED dFile /\ ret'.err # "OK" /\ (ReadOnly => Kept)
           \/ /\ ret'.err = "OK" /\ Owner(c.name) = "root" /\ Turned(rFile, rFile', p, FALSE)
              /\ UNCHANGED dFile /\ Kept
           \/ /\ ret'.err = "OK" /\ Owner(c.name) = "data"
              /\ Turned(dFile, dFile', p, FALSE) /\ UNCHANGED rFile
              /\ ReadOnly => /\ Kept /\ ~Mutates(c.flag)
                             /\ \E q \in DOMAIN DataTree : DataTree[q] = dFile'[p].n
    <3>1. CASE Owner(n) = "root"
      <4>1. UNCHANGED <<dFile, dMeta>> /\ Kept
        BY <2>1, <3>1 DEF On, data, Kept
      <4>2. /\ MountInv' /\ MetaOK(rMeta')
            /\ \/ ret'.err = "OK" /\ Turned(rFile, rFile', p, FALSE)
               \/ ret'.err # "OK" /\ UNCHANGED rFile
        BY <2>1, <2>3, <3>1, ROpenFile DEF On
      <4> QED
        BY <1>7, <2>3, <3>1, <4>1, <4>2
    <3>2. CASE Owner(n) = "data"
      <4>1. UNCHANGED <<rNodes, rIsDir, rLinked, rFile, rMeta>>
        BY <2>1, <3>2 DEF On, root
      <4>2. D!OpenFile(p, Rel(n), fl, perm)
        BY <2>1, <3>2 DEF On
      <4>3. /\ MetaOK(dMeta')
            /\ \/ ret'.err = "OK" /\ Turned(dFile, dFile', p, FALSE)
               \/ ret'.err # "OK" /\ UNCHANGED dFile
        BY <2>3, <4>2, DOpenFile
      <4>4. MountInv'
        BY <2>3, <4>1, MountFrame
      <4>5. ReadOnly => /\ Kept /\ ~Mutates(flag)
                        /\ UNCHANGED dFile \/ \E q \in DOMAIN DataTree : DataTree[q] = dFile'[p].n
        BY <1>5, <1>10, <2>3, <3>2, <4>2, DOpens DEF OpenErr
      <4>6. Turned(dFile, dFile', p, FALSE) => dFile' # dFile
        <5>1. dFile[p].closed
          BY <1>1, <1>2, HoldsNow DEF Holds
        <5> QED
          BY <5>1 DEF Turned
      <4> QED
        BY <1>7, <2>3, <3>2, <4>1, <4>3, <4>4, <4>5, <4>6
    <3> QED
      BY <3>1, <3>2 DEF Owner
  <2>5. CASE ret'.err = "OK"
    <3>1. Calls(p, c)
      BY <2>2, <2>5
    <3> QED
      BY <1>1, <1>7, <1>10, <2>1, <2>4, <2>5, <3>1, OpenedStep
  <2>6. CASE ret'.err # "OK"
    <3>1. Calls(p, Idle)
      BY <2>2, <2>6
    <3>2. SameFiles(rFile, rFile') /\ SameFiles(dFile, dFile') /\ (ReadOnly => Kept)
      BY <2>3, <2>4, <2>6, SameSelf
    <3> QED
      BY <1>1, <2>1, <2>4, <3>1, <3>2, IdleOK, SameStep DEF Opening
  <2> QED
    BY <2>5, <2>6
<1> QED
  BY <1>8, <1>9, <1>10

LEMMA WasiFileType ==
  ASSUME NEW n \in Names, NEW fl \in R!AllFlags
  PROVE  /\ wasiFile(n, fl) \in WasiType /\ wasiFile(n, fl).closed = FALSE
         /\ wasiFile(n, fl).on = (IF IsNull(n) THEN "null" ELSE Owner(n))
         /\ wasiFile(n, fl).writable = fl.write
         /\ wasiFile(n, fl).metadataWritable = (writable(n) = "OK")
<1>1. Owner(n) \in {"root", "data"}
  BY DEF Owner
<1>2. PICK on \in {"null", "root", "data"} : on = IF IsNull(n) THEN "null" ELSE Owner(n)
  BY <1>1
<1>3. PICK mw \in BOOLEAN : mw = (writable(n) = "OK")
  OBVIOUS
<1>4. fl.read \in BOOLEAN /\ fl.write \in BOOLEAN
  BY DEF R!AllFlags
<1>5. wasiFile(n, fl) = [closed |-> FALSE, on |-> on, name |-> n, readable |-> fl.read,
                         writable |-> fl.write, metadataWritable |-> mw]
  BY <1>2, <1>3 DEF wasiFile
<1> QED
  BY <1>2, <1>3, <1>4, <1>5 DEF WasiType

LEMMA OpenCheckStep ==
  ASSUME NamespaceInv, NEW p \in Proc, OpenCheck(p)
  PROVE  NamespaceInv'
<1>1. call[p].pc = "check"
  BY DEF OpenCheck
<1>2. call[p] \in [pc : Opening, name : Names, flag : Flag, dir : BOOLEAN] /\ wasi[p].closed
  BY <1>1, InCall DEF Opening, NamespaceInv, CheckedInv
<1>3. PICK n \in Names, fl \in R!AllFlags : n = call[p].name /\ fl = call[p].flag
  BY <1>2, NameAssumption
<1>4. Calls(p, Idle)
  BY ReturnIdle DEF OpenCheck
<1>5. \A o : Holds(call[p], wasi[p], o) <=> ~IsNull(n) /\ Owner(n) = o
  BY <1>1, <1>2, <1>3 DEF Holds
<1>6. ShapeInv /\ MountInv /\ ReadOnlyInv /\ wasi \in [Proc -> WasiType]
  BY DEF NamespaceInv, ShapeInv
<1>7. CASE WrongKind(p)
  <2>1. wasi[p] \in WasiType /\ wasi' = Put(wasi, p, wasi[p])
    BY <1>6, <1>7 DEF OpenCheck, Put
  <2>2. CASE IsNull(n)
    <3>1. UNCHANGED <<root, data>>
      BY <1>3, <1>7, <2>2 DEF OpenCheck, stores
    <3>2. ~Holds(call[p], wasi[p], "root") /\ ~Holds(call[p], wasi[p], "data")
      BY <1>5, <2>2
    <3> QED
      BY <1>2, <1>4, <2>1, <3>1, <3>2, GivenUp
  <2>3. CASE ~IsNull(n) /\ Owner(n) = "root"
    <3>1. R!Close(p) /\ UNCHANGED data
      BY <1>3, <1>7, <2>3 DEF OpenCheck, On
    <3>2. Holds(call[p], wasi[p], "root") /\ ~Holds(call[p], wasi[p], "data")
      BY <1>5, <2>3
    <3> QED
      BY <1>2, <1>4, <2>1, <3>1, <3>2, GivenUp
  <2>4. CASE ~IsNull(n) /\ Owner(n) = "data"
    <3>1. D!Close(p) /\ UNCHANGED root
      BY <1>3, <1>7, <2>4 DEF OpenCheck, On
    <3>2. Holds(call[p], wasi[p], "data") /\ ~Holds(call[p], wasi[p], "root")
      BY <1>5, <2>4
    <3> QED
      BY <1>2, <1>4, <2>1, <3>1, <3>2, GivenUp
  <2> QED
    BY <2>2, <2>3, <2>4 DEF Owner
<1>8. CASE ~WrongKind(p)
  <2>1. PICK w \in WasiType :
          /\ w = wasiFile(n, fl) /\ w.closed = FALSE
          /\ w.on = (IF IsNull(n) THEN "null" ELSE Owner(n))
          /\ w.writable = fl.write /\ w.metadataWritable = (writable(n) = "OK")
    BY WasiFileType
  <2>2. wasi' = Put(wasi, p, w) /\ UNCHANGED stores
    BY <1>3, <1>8, <2>1 DEF OpenCheck, Put
  <2>3. /\ \A q \in Proc : wasi'[q] = IF q = p THEN w ELSE wasi[q]
        /\ wasi' \in [Proc -> WasiType]
    BY <1>6, <2>2 DEF Put
  <2>4. UNCHANGED <<rNodes, rIsDir, rMeta, rLinked, rFile, dMeta, dFile>> /\ Kept
    BY <2>2 DEF stores, root, data, Kept
  <2>5. MountInv' /\ OthersSame(p)
    BY <1>6, <2>4, MountFrame DEF OthersSame, ShapeInv
  <2>6. Owner(n) \in {"root", "data"}
    BY DEF Owner
  <2>7. /\ Holds(Idle, w, "root") <=> Holds(call[p], wasi[p], "root")
        /\ Holds(Idle, w, "data") <=> Holds(call[p], wasi[p], "data")
    <3>1. \A o : Holds(Idle, w, o) <=> w.on = o
      BY <2>1, IdleOK DEF Holds
    <3> QED
      BY <1>5, <2>1, <2>6, <3>1
  <2>8. /\ ~rFile'[p].closed <=> Holds(Idle, w, "root")
        /\ ~dFile'[p].closed <=> Holds(Idle, w, "data")
    BY <2>4, <2>7, HoldsNow
  <2>9. ReadOnly /\ w.on = "data" => ~w.writable /\ ~w.metadataWritable
    <3>1. ASSUME ReadOnly, w.on = "data"
          PROVE  ~w.writable /\ ~w.metadataWritable
      <4>1. ~IsNull(n) /\ Owner(n) = "data"
        BY <2>1, <3>1
      <4>2. ~Mutates(fl)
        BY <1>1, <1>3, <1>6, <3>1, <4>1 DEF ReadOnlyInv
      <4>3. writable(n) # "OK"
        BY <3>1, <4>1 DEF writable
      <4> QED
        BY <2>1, <4>2, <4>3 DEF Mutates
    <3> QED
      BY <3>1
  <2>10. Allowed(Idle, w)
    BY <2>9, IdleOK DEF Allowed, Opening
  <2>11. ReadOnly /\ ~dFile'[p].closed => \E q \in DOMAIN DataTree : DataTree[q] = dFile'[p].n
    BY <1>6, <2>4 DEF ReadOnlyInv
  <2> QED
    BY <1>4, <2>3, <2>4, <2>5, <2>8, <2>10, <2>11, ActorStep
<1> QED
  BY <1>7, <1>8

LEMMA ContinueStep ==
  ASSUME NamespaceInv, NEW p \in Proc, Continue(p)
  PROVE  NamespaceInv'
<1>1. CASE CommandRemoveLook(p)
  <2>1. PICK n \in Names, dir \in BOOLEAN : RemoveLook(p, n, dir)
    BY <1>1, InCall DEF CommandRemoveLook
  <2>2. call[p].pc # "check"
    BY <1>1 DEF CommandRemoveLook
  <2> QED
    BY <2>1, <2>2, RemoveLookStep
<1> QED
  BY <1>1, RemoveNowStep, RenameStep, UtimensNowStep, OpenLookStep, OpenNowStep,
     OpenCheckStep, FileUtimensNowStep DEF Continue

LEMMA NamespaceStep == NamespaceInv /\ [Next]_vars => NamespaceInv'
<1> SUFFICES ASSUME NamespaceInv, [Next]_vars
             PROVE  NamespaceInv'
  OBVIOUS
<1>1. ASSUME NEW p \in Proc, NameCall(p) \/ FileCall(p) \/ Continue(p)
      PROVE  NamespaceInv'
  BY <1>1, NameCallStep, FileCallStep, ContinueStep
<1>2. CASE UNCHANGED vars
  BY <1>2 DEF vars, root, data, NamespaceInv, ShapeInv, CheckedInv, NoFileLeaked, MountInv,
              ReadOnlyInv, HandlesOK, MetaOK
<1> QED
  BY <1>1, <1>2 DEF Next

LEMMA NamespaceInit == Init => NamespaceInv
<1> SUFFICES ASSUME Init
             PROVE  NamespaceInv
  OBVIOUS
<1>1. \A p \in Proc : call[p] = Idle /\ wasi[p] = NoFile /\ rFile[p].closed /\ dFile[p].closed
  BY DEF Init, R!ClosedFile, D!ClosedFile
<1>2. ShapeInv
  <2>1. HandlesOK(rFile)
    BY DEF Init, HandlesOK, FileOK, R!ClosedFile
  <2>2. HandlesOK(dFile)
    BY DEF Init, HandlesOK, FileOK, D!ClosedFile
  <2>3. MetaOK(rMeta) /\ MetaOK(dMeta)
    BY DEF Init, MetaOK
  <2>4. call = [p \in Proc |-> call[p]] /\ wasi \in [Proc -> WasiType]
    BY NoFileOK DEF Init
  <2> QED
    BY <1>1, <2>1, <2>2, <2>3, <2>4, IdleOK DEF ShapeInv
<1>3. CheckedInv
  BY <1>1, IdleOK DEF CheckedInv, Opening
<1>4. NoFileLeaked
  BY <1>1, IdleOK, NoFileOK DEF NoFileLeaked
<1>5. MountInv
  <2>1. rNodes = RootTree /\ MountDirs \subseteq DOMAIN RootTree
    BY TreeAssumption DEF Init, MountDirs
  <2>2. MountNodes \subseteq Node
    BY TreeAssumption DEF MountNodes, MountDirs
  <2>3. rIsDir = [n \in Node |-> \E q \in DOMAIN RootTree : RootTree[q] = n] /\ rLinked = rIsDir
    BY DEF Init
  <2>4. \A n \in Node : rIsDir[n] <=> \E q \in DOMAIN RootTree : RootTree[q] = n
    BY <2>3, Zenon
  <2>5. rIsDir = [n \in Node |-> rIsDir[n]]
    BY <2>3, Zenon
  <2>6. \A n \in MountNodes : \E q \in DOMAIN RootTree : RootTree[q] = n
    BY <2>1 DEF MountNodes
  <2>7. \A n \in MountNodes : rIsDir[n] /\ rLinked[n]
    BY <2>2, <2>3, <2>4, <2>6
  <2>8. \A q \in DOMAIN rNodes \ MountDirs : rNodes[q] \notin MountNodes
    BY <2>1, TreeAssumption DEF MountNodes
  <2>9. DOMAIN rNodes \subseteq Path
    BY <2>1, TreeAssumption
  <2> QED
    BY <2>1, <2>3, <2>5, <2>7, <2>8, <2>9 DEF MountInv
<1>6. ReadOnlyInv
  BY <1>1, IdleOK, NoFileOK, Zenon DEF Init, ReadOnlyInv
<1> QED
  BY <1>2, <1>3, <1>4, <1>5, <1>6 DEF NamespaceInv

-----------------------------------------------------------------------------
(* Theorems *)

\* In every reachable state the calls, files and trees of the guest's view are
\* as the inductive invariant says.
THEOREM NamespaceInvariant == Spec => []NamespaceInv
BY NamespaceInit, NamespaceStep, PTL DEF Spec

\* However the commands interleave their removals, renames and creations, the
\* directories that lead to the mount stay directories: writable answers EBUSY
\* for each of them, and no directory below another is moved away with it.
THEOREM MountPointsCorrect == Spec => []MountPointsStand
<1>1. NamespaceInv => MountPointsStand
  <2> SUFFICES ASSUME NamespaceInv, NEW k \in 0..Len(MountPath)
               PROVE  LET q == SubSeq(MountPath, 1, k) IN q \in DOMAIN rNodes /\ rIsDir[rNodes[q]]
    BY DEF MountPointsStand
  <2>1. PICK q \in MountDirs : q = SubSeq(MountPath, 1, k)
    BY DEF MountDirs
  <2>2. q \in DOMAIN rNodes /\ rNodes[q] \in MountNodes
    BY DEF NamespaceInv, MountInv, MountNodes
  <2> QED
    BY <2>1, <2>2 DEF NamespaceInv, MountInv
<1> QED
  BY <1>1, NamespaceInvariant, PTL

\* A filesystem's file is open exactly while a command's wasiFile holds it or
\* WASI.OpenFile is about to hand it over or to close it again.
THEOREM NoFileLeakedCorrect == Spec => []NoFileLeaked
<1>1. NamespaceInv => NoFileLeaked
  BY DEF NamespaceInv
<1> QED
  BY <1>1, NamespaceInvariant, PTL

\* No call of any command changes the names, contents or metadata of a
\* filesystem that is mounted read-only.
THEOREM ReadOnlyCorrect == Spec => ReadOnlyKept
<1>1. NamespaceInv /\ NamespaceInv' =>
        [ReadOnly => UNCHANGED <<dNodes, dIsDir, dMeta, dData, dLinked, dUsed>>]_vars
  BY Zenon DEF NamespaceInv, ReadOnlyInv
<1> QED
  BY <1>1, NamespaceInvariant, PTL DEF ReadOnlyKept

\* Every step is one command's, and only its own call goes on.
LEMMA OneCalls ==
  ASSUME NEW p \in Proc, NameCall(p) \/ FileCall(p) \/ Continue(p)
  PROVE  \E c : Calls(p, c)
<1>1. CASE NameCall(p)
  BY <1>1 DEF NameCall, Mkdir, Chmod, CommandRemove, Unlink, Rmdir, RenameStart, Utimens,
              OpenStart, RemoveLook, Refuse, Return, Goto, Calls
<1>2. CASE FileCall(p)
  BY <1>2 DEF FileCall, Read, Pread, Seek, Write, Pwrite, Truncate, Readdir, FileUtimens, Close,
              PassOn, Refuse, Return, Goto, Calls
<1>3. CASE Continue(p)
  BY <1>3 DEF Continue, CommandRemoveLook, RemoveNow, RenameLook, RenameNow, UtimensNow, OpenDir,
              OpenSlash, OpenNow, OpenCheck, FileUtimensNow, RemoveLook, Refuse, Return, Goto, Calls
<1> QED
  BY <1>1, <1>2, <1>3

\* A command that is about to set the times of its file does nothing else.
LEMMA OnlySetsTimes ==
  ASSUME NEW p \in Proc, NameCall(p) \/ FileCall(p) \/ Continue(p), call[p].pc = "fileChtimes"
  PROVE  FileUtimensNow(p)
<1>1. ~\E op : Ready(p, op)
  BY ReadyIdle
<1>2. ~NameCall(p)
  BY <1>1 DEF NameCall, Mkdir, Chmod, CommandRemove, Unlink, Rmdir, RenameStart, Utimens, OpenStart
<1>3. ~FileCall(p)
  BY <1>1 DEF FileCall, Read, Pread, Seek, Write, Pwrite, Truncate, Readdir, FileUtimens, Close, PassOn
<1>4. ~CommandRemoveLook(p) /\ ~RemoveNow(p) /\ ~RenameLook(p) /\ ~RenameNow(p) /\ ~UtimensNow(p)
  BY DEF CommandRemoveLook, RemoveNow, RenameLook, RenameNow, UtimensNow
<1>5. ~OpenDir(p) /\ ~OpenSlash(p) /\ ~OpenCheck(p) /\ \A perm : ~OpenNow(p, perm)
  BY DEF OpenDir, OpenSlash, OpenCheck, OpenNow
<1> QED
  BY <1>2, <1>3, <1>4, <1>5 DEF Continue

LEMMA TimesOfFile ==
  ASSUME ShapeInv, NEW p \in Proc, FileUtimensNow(p)
  PROVE  /\ \A n \in Node : rMeta'[n] # rMeta[n] => wasi[p].on = "root" /\ n = rFile[p].n
         /\ \A n \in Node : dMeta'[n] # dMeta[n] => wasi[p].on = "data" /\ n = dFile[p].n
<1>1. MetaOK(rMeta) /\ MetaOK(dMeta)
  BY DEF ShapeInv
<1>2. CASE wasi[p].on = "null"
  BY <1>2 DEF FileUtimensNow, Refuse, stores, root, data
<1>3. CASE wasi[p].on = "root"
  <2>1. (\E at, mt : R!FileChtimes(p, at, mt)) /\ UNCHANGED dMeta
    BY <1>3 DEF FileUtimensNow, On, data
  <2>2. UNCHANGED rMeta \/ \E m : rMeta' = [rMeta EXCEPT ![rFile[p].n] = m]
    BY <2>1 DEF R!FileChtimes, R!Fail, R!store, R!SetMeta
  <2>3. \A n \in Node : n # rFile[p].n => rMeta'[n] = rMeta[n]
    BY <1>1, <2>2 DEF MetaOK
  <2> QED
    BY <1>3, <2>1, <2>3
<1>4. CASE wasi[p].on = "data"
  <2>1. (\E at, mt : D!FileChtimes(p, at, mt)) /\ UNCHANGED rMeta
    BY <1>4 DEF FileUtimensNow, On, root
  <2>2. UNCHANGED dMeta \/ \E m : dMeta' = [dMeta EXCEPT ![dFile[p].n] = m]
    BY <2>1 DEF D!FileChtimes, D!Fail, D!store, D!SetMeta
  <2>3. \A n \in Node : n # dFile[p].n => dMeta'[n] = dMeta[n]
    BY <1>1, <2>2 DEF MetaOK
  <2> QED
    BY <1>4, <2>1, <2>3
<1> QED
  BY <1>2, <1>3, <1>4 DEF FileUtimensNow, On

\* The second half of wasiFile.Utimens sets the times of the file that the
\* command holds open, whatever was renamed or removed since the first half.
THEOREM TimesCorrect == Spec => TimesFollowFile
<1>1. NamespaceInv /\ [Next]_vars =>
        [\A p \in Proc :
           call[p].pc = "fileChtimes" /\ call'[p].pc = "idle" =>
             /\ \A n \in Node : rMeta'[n] # rMeta[n] => wasi[p].on = "root" /\ n = rFile[p].n
             /\ \A n \in Node : dMeta'[n] # dMeta[n] => wasi[p].on = "data" /\ n = dFile[p].n]_vars
  <2> SUFFICES ASSUME NamespaceInv, Next, NEW p \in Proc,
                      call[p].pc = "fileChtimes", call'[p].pc = "idle"
               PROVE  /\ \A n \in Node : rMeta'[n] # rMeta[n] => wasi[p].on = "root" /\ n = rFile[p].n
                      /\ \A n \in Node : dMeta'[n] # dMeta[n] => wasi[p].on = "data" /\ n = dFile[p].n
    OBVIOUS
  <2>1. PICK q \in Proc : NameCall(q) \/ FileCall(q) \/ Continue(q)
    BY DEF Next
  <2>2. q = p
    <3>1. PICK c : call' = [call EXCEPT ![q] = c]
      BY <2>1, OneCalls DEF Calls
    <3> QED
      BY <3>1 DEF NamespaceInv, ShapeInv
  <2>3. FileUtimensNow(p)
    BY <2>1, <2>2, OnlySetsTimes
  <2> QED
    BY <2>3, TimesOfFile DEF NamespaceInv
<1> QED
  BY <1>1, NamespaceInvariant, PTL DEF Spec, TimesFollowFile
=============================================================================
