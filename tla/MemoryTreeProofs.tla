-------------------------- MODULE MemoryTreeProofs --------------------------
(***************************************************************************)
(* The map of names is a tree, in which every linked node has exactly one   *)
(* name, and renames move whole subtrees.  TreeShape speaks of parents      *)
(* only; the inductive invariant speaks of all ancestors, which is what     *)
(* rules out, without induction over paths, that a rename finds something   *)
(* deep below its target.                                                   *)
(***************************************************************************)
EXTENDS MemoryProofs

-----------------------------------------------------------------------------
(* More about paths *)

LEMMA UnderTransitive ==
  ASSUME NEW p \in Seq(Name), NEW a \in Seq(Name), NEW b \in Seq(Name),
         Under(p, a), Under(a, b)
  PROVE  Under(p, b)
BY DEF Under

\* Two ancestors of a path are comparable.
LEMMA UnderComparable ==
  ASSUME NEW p \in Seq(Name), NEW a \in Seq(Name), NEW b \in Seq(Name),
         Under(p, a), Under(p, b)
  PROVE  Under(a, b) \/ Under(b, a)
BY DEF Under

LEMMA UnderBoth ==
  ASSUME NEW a \in Seq(Name), NEW b \in Seq(Name), Under(a, b), Under(b, a)
  PROVE  a = b
BY SeqEqual DEF Under

LEMMA UnderDir ==
  ASSUME NEW p \in Seq(Name), NEW a \in Seq(Name), Under(p, a), p # a
  PROVE  Under(Dir(p), a)
BY RebaseDir

\* A proper descendant of a lies below, or is, a child of a.
LEMMA ChildOnPath ==
  ASSUME NEW p \in Seq(Name), NEW a \in Seq(Name), Under(p, a), p # a
  PROVE  \E c \in Seq(Name) : Under(p, c) /\ c # a /\ Dir(c) = a
<1> DEFINE c == [i \in 1..(Len(a) + 1) |-> p[i]]
<1>1. Len(p) > Len(a) /\ Len(a) \in Nat
  BY SeqEqual, LenProperties DEF Under
<1>2. c \in Seq(Name) /\ Len(c) = Len(a) + 1
  BY <1>1
<1>3. Under(p, c)
  BY <1>1, <1>2 DEF Under
<1>4. c # a
  BY <1>1, <1>2
<1>5. Dir(c) \in Seq(Name) /\ Len(Dir(c)) = Len(a)
  <2>1. c # <<>>
    BY <1>1, <1>2, EmptySeq
  <2> HIDE DEF c
  <2> QED
    BY <1>1, <1>2, <2>1, DirType
<1>6. \A i \in 1..Len(a) : Dir(c)[i] = a[i]
  BY <1>1, <1>2 DEF Dir, Under
<1> HIDE DEF c
<1>7. Dir(c) = a
  BY <1>5, <1>6, SeqEqual
<1> QED
  BY <1>2, <1>3, <1>4, <1>7

\* Moving keeps the order of two paths.
LEMMA RebaseMonotone ==
  ASSUME NEW p \in Seq(Name), NEW r \in Seq(Name), NEW a \in Seq(Name), NEW b \in Seq(Name),
         Under(p, a), Under(r, p)
  PROVE  /\ Under(r, a)
         /\ Under(Rebase(r, a, b), Rebase(p, a, b))
<1>1. Under(r, a)
  BY UnderTransitive
<1>2. PICK q \in Seq(Name) : q = Rebase(p, a, b)
  BY RebaseType
<1>3. PICK t \in Seq(Name) : t = Rebase(r, a, b)
  BY <1>1, RebaseType
<1>4. Len(q) = Len(p) - Len(a) + Len(b)
  <2>1. Len(Rebase(p, a, b)) = Len(p) - Len(a) + Len(b)
    BY RebaseType
  <2> QED
    BY <1>2, <2>1
<1>5. Len(t) = Len(r) - Len(a) + Len(b)
  <2>1. Len(Rebase(r, a, b)) = Len(r) - Len(a) + Len(b)
    BY <1>1, RebaseType
  <2> QED
    BY <1>3, <2>1
<1>6. Under(t, q)
  BY <1>2, <1>3, <1>4, <1>5 DEF Under, Rebase
<1> QED
  BY <1>1, <1>2, <1>3, <1>6

\* Moving a tail along with its stem is moving the stem.
LEMMA RebaseCompose ==
  ASSUME NEW p \in Seq(Name), NEW r \in Seq(Name), NEW a \in Seq(Name), NEW b \in Seq(Name),
         Under(p, a), Under(r, p)
  PROVE  Rebase(r, p, Rebase(p, a, b)) = Rebase(r, a, b)
<1>1. PICK q \in Seq(Name) : q = Rebase(p, a, b)
  BY RebaseType
<1>2. Len(q) = Len(p) - Len(a) + Len(b)
  <2>1. Len(Rebase(p, a, b)) = Len(p) - Len(a) + Len(b)
    BY RebaseType
  <2> QED
    BY <1>1, <2>1
<1>3. PICK s \in Seq(Name) : s = Rebase(r, p, q)
  BY RebaseType
<1>4. PICK t \in Seq(Name) : t = Rebase(r, a, b)
  BY RebaseType, RebaseMonotone
<1>5. Len(s) = Len(t)
  <2>1. Len(s) = Len(r) - Len(p) + Len(q)
    <3>1. Len(Rebase(r, p, q)) = Len(r) - Len(p) + Len(q)
      BY RebaseType
    <3> QED
      BY <1>3, <3>1
  <2>2. Len(t) = Len(r) - Len(a) + Len(b)
    <3>1. Under(r, a)
      BY UnderTransitive
    <3>2. Len(Rebase(r, a, b)) = Len(r) - Len(a) + Len(b)
      BY <3>1, RebaseType
    <3> QED
      BY <1>4, <3>2
  <2> QED
    BY <1>2, <2>1, <2>2, LenProperties
<1>6. \A i \in 1..Len(s) : s[i] = t[i]
  BY <1>1, <1>2, <1>3, <1>4, <1>5 DEF Rebase, Under
<1> QED
  BY <1>1, <1>3, <1>4, <1>5, <1>6, SeqEqual

-----------------------------------------------------------------------------
(* What a step does to the names *)

\* A new node is entered under a free name of an existing directory.
Enter(name, n) ==
  /\ name \in Path \ DOMAIN nodes
  /\ Dir(name) \in DOMAIN nodes /\ isDir[nodes[Dir(name)]]
  /\ ~Full
  /\ ~linked[n]
  /\ Bind(name, n)
  /\ \E d \in BOOLEAN : isDir' = [isDir EXCEPT ![n] = d]
  /\ linked' = [linked EXCEPT ![n] = TRUE]

Delete(name) == RemoveErr(name) = "OK" /\ Remove(name)

Move(old, new) == RenameErr(old, new) = "OK" /\ old # new /\ Rename(old, new)

LEMMA StepCases ==
  ASSUME TypeInv, [Next]_vars
  PROVE  \/ UNCHANGED <<nodes, isDir, linked>>
         \/ \E name \in Path, n \in Node : Enter(name, n)
         \/ \E name \in PathArg : Delete(name)
         \/ \E old, new \in PathArg : Move(old, new)
<1>1. CASE UNCHANGED vars
  BY <1>1 DEF vars
<1>2. ASSUME NEW name \in PathArg, NEW perm \in Perm, Mkdir(name, perm)
      PROVE  \/ UNCHANGED <<nodes, isDir, linked>>
             \/ \E p \in Path, n \in Node : Enter(p, n)
  <2>1. CASE MkdirErr(name) # "OK"
    BY <1>2, <2>1 DEF Mkdir, Fail, store
  <2>2. CASE MkdirErr(name) = "OK"
    <3>1. name \in Path \ DOMAIN nodes /\ ParentErr(name) = "OK" /\ ~Full
      BY <1>2, <2>2 DEF MkdirErr, PathArg
    <3>2. Dir(name) \in DOMAIN nodes /\ isDir[nodes[Dir(name)]]
      BY <3>1 DEF ParentErr, LookupErr
    <3>3. PICK n \in Node : newNode(n, TRUE, perm) /\ Bind(name, n)
      BY <1>2, <2>2 DEF Mkdir
    <3>4. Enter(name, n)
      BY <3>1, <3>2, <3>3 DEF Enter, newNode, Live
    <3> QED
      BY <3>1, <3>4
  <2> QED
    BY <2>1, <2>2
<1>3. ASSUME NEW h \in Handle, NEW name \in PathArg, NEW fl \in Flag, NEW perm \in Perm,
             OpenFile(h, name, fl, perm)
      PROVE  \/ UNCHANGED <<nodes, isDir, linked>>
             \/ \E p \in Path, n \in Node : Enter(p, n)
  <2>1. CASE OpenExisting(h, name, fl) \/ OpenRefused(name, fl)
    BY <2>1 DEF OpenExisting, OpenRefused, Fail, store
  <2>2. CASE OpenCreating(h, name, fl, perm)
    <3>1. LookupErr(name) = "ErrNotExist" /\ OpenErr(name, fl) \in {"OK", "ErrPermission"}
      BY <2>2 DEF OpenCreating
    <3>2. name \in Path \ DOMAIN nodes
      BY <3>1 DEF LookupErr, PathArg
    <3>3. ParentErr(name) \notin {"ErrPermission"}
      BY DEF ParentErr, LookupErr
    <3>4. ParentErr(name) = "OK" /\ ~Full
      BY <3>1, <3>3 DEF OpenErr
    <3>5. Dir(name) \in DOMAIN nodes /\ isDir[nodes[Dir(name)]]
      BY <3>4 DEF ParentErr, LookupErr
    <3>6. PICK n \in Node : newNode(n, FALSE, perm) /\ Bind(name, n)
      BY <2>2 DEF OpenCreating
    <3>7. Enter(name, n)
      BY <3>2, <3>4, <3>5, <3>6 DEF Enter, newNode, Live
    <3> QED
      BY <3>2, <3>7
  <2> QED
    BY <1>3, <2>1, <2>2 DEF OpenFile
<1>4. ASSUME NEW name \in PathArg, Remove(name)
      PROVE  UNCHANGED <<nodes, isDir, linked>> \/ Delete(name)
  BY <1>4 DEF Remove, Delete, Fail, store
<1>5. ASSUME NEW old \in PathArg, NEW new \in PathArg, Rename(old, new)
      PROVE  UNCHANGED <<nodes, isDir, linked>> \/ Move(old, new)
  BY <1>5 DEF Rename, Move, Fail, store
<1>6. ASSUME NEW name \in PathArg,
             \/ Stat(name) \/ ReadDir(name)
             \/ \E perm \in Perm : Chmod(name, perm)
             \/ \E a, m \in Stamp : Chtimes(name, a, m)
      PROVE  UNCHANGED <<nodes, isDir, linked>>
  BY <1>6 DEF Stat, ReadDir, Chmod, Chtimes, SetMeta, Fail, store
<1>7. ASSUME NEW h \in Handle, NEW p, NEW off, writeAt(h, p, off)
      PROVE  UNCHANGED <<nodes, isDir, linked>>
  BY <1>7 DEF writeAt, Store, store
<1>8. ASSUME NEW h \in Handle,
             \/ FileStat(h) \/ Close(h)
             \/ \E len \in ReadLen : Read(h, len) \/ \E off \in Offset : ReadAt(h, len, off)
             \/ \E p \in Payload : Write(h, p) \/ \E off \in Offset : WriteAt(h, p, off)
             \/ \E off \in Offset, whence \in Whence : Seek(h, off, whence)
             \/ \E size \in Offset : Truncate(h, size)
             \/ \E a, m \in Stamp : FileChtimes(h, a, m)
             \/ \E k \in Count : FileReadDir(h, k)
      PROVE  UNCHANGED <<nodes, isDir, linked>>
  <2>1. CASE FileStat(h) \/ Close(h)
    BY <2>1 DEF FileStat, Close, Fail, store
  <2>2. CASE \E len \in ReadLen : Read(h, len) \/ \E off \in Offset : ReadAt(h, len, off)
    BY <2>2 DEF Read, ReadAt, store
  <2>3. CASE \E p \in Payload : Write(h, p) \/ \E off \in Offset : WriteAt(h, p, off)
    BY <1>7, <2>3 DEF Write, WriteAt, Fail, store
  <2>4. CASE \E off \in Offset, whence \in Whence : Seek(h, off, whence)
    BY <2>4 DEF Seek, Fail, store
  <2>5. CASE \E size \in Offset : Truncate(h, size)
    BY <2>5 DEF Truncate, Fail, store
  <2>6. CASE \E a, m \in Stamp : FileChtimes(h, a, m)
    BY <2>6 DEF FileChtimes, SetMeta, Fail, store
  <2>7. CASE \E k \in Count : FileReadDir(h, k)
    BY <2>7 DEF FileReadDir, Fail, store
  <2> QED
    BY <1>8, <2>1, <2>2, <2>3, <2>4, <2>5, <2>6, <2>7
<1>9. CASE NameStep
  BY <1>2, <1>4, <1>5, <1>6, <1>9 DEF NameStep
<1>10. CASE FileStep
  BY <1>3, <1>8, <1>10 DEF FileStep
<1> QED
  BY <1>1, <1>9, <1>10 DEF Next

-----------------------------------------------------------------------------
(* The tree *)

\* Every ancestor of a name is in the map, and is a directory.
Ancestors ==
  \A p \in DOMAIN nodes : \A a \in Seq(Name) :
    Under(p, a) => a \in DOMAIN nodes /\ (a # p => isDir[nodes[a]])

TreeInv ==
  /\ TypeInv
  /\ <<>> \in DOMAIN nodes /\ isDir[nodes[<<>>]]
  /\ Ancestors
  /\ NamesExact

LEMMA TreeInvShape == TreeInv => TreeShape
<1> SUFFICES ASSUME TreeInv PROVE TreeShape
  OBVIOUS
<1> SUFFICES ASSUME NEW p \in DOMAIN nodes
             PROVE  Dir(p) \in DOMAIN nodes /\ isDir[nodes[Dir(p)]]
  BY DEF TreeShape, TreeInv
<1>1. p \in Seq(Name)
  BY PathAssumption DEF TreeInv, TypeInv, TypeOK
<1>2. CASE p = <<>>
  BY <1>1, <1>2, DirType DEF TreeInv
<1>3. CASE p # <<>>
  <2>1. Dir(p) \in Seq(Name) /\ Under(p, Dir(p)) /\ Len(Dir(p)) = Len(p) - 1
    BY <1>1, <1>3, DirType
  <2>2. Dir(p) # p
    BY <1>1, <2>1, LenProperties
  <2> QED
    BY <2>1, <2>2 DEF TreeInv, Ancestors
<1> QED
  BY <1>2, <1>3

\* Below a name that is not a directory, or one without children, there is
\* nothing at any depth.
LEMMA NothingBelow ==
  ASSUME TreeInv, NEW a \in Path,
         a \in DOMAIN nodes => (isDir[nodes[a]] => ~HasChild(a)),
         NEW q \in DOMAIN nodes, Under(q, a)
  PROVE  q = a
<1> SUFFICES ASSUME q # a PROVE FALSE
  OBVIOUS
<1>1. a \in Seq(Name) /\ q \in Seq(Name)
  BY PathAssumption DEF TreeInv, TypeInv, TypeOK
<1>2. a \in DOMAIN nodes /\ isDir[nodes[a]]
  BY <1>1 DEF TreeInv, Ancestors
<1>3. PICK c \in Seq(Name) : Under(q, c) /\ c # a /\ Dir(c) = a
  BY <1>1, ChildOnPath
<1>4. c \in DOMAIN nodes
  BY <1>3 DEF TreeInv, Ancestors
<1> QED
  BY <1>2, <1>3, <1>4 DEF HasChild

LEMMA EnterTree ==
  ASSUME TreeInv, TypeInv', NEW name \in Path, NEW n \in Node, Enter(name, n)
  PROVE  TreeInv'
<1>1. /\ DOMAIN nodes' = DOMAIN nodes \cup {name}
      /\ nodes'[name] = n
      /\ \A p \in DOMAIN nodes : nodes'[p] = nodes[p]
  BY DEF Enter, Bind
<1>2. /\ \A p \in DOMAIN nodes : nodes[p] # n /\ nodes[p] \in Node
      /\ \A p \in DOMAIN nodes : isDir'[nodes'[p]] = isDir[nodes[p]]
  <2>1. \A p \in DOMAIN nodes : nodes[p] # n /\ nodes[p] \in Node
    BY DEF Enter, TreeInv, NamesExact, TypeInv, TypeOK
  <2>2. PICK d \in BOOLEAN : isDir' = [isDir EXCEPT ![n] = d]
    BY DEF Enter
  <2>3. isDir \in [Node -> BOOLEAN]
    BY DEF TreeInv, TypeInv, TypeOK
  <2> QED
    BY <1>1, <2>1, <2>2, <2>3
<1>3. <<>> \in DOMAIN nodes' /\ isDir'[nodes'[<<>>]]
  BY <1>1, <1>2 DEF TreeInv
<1>4. Ancestors'
  <2> SUFFICES ASSUME NEW p \in DOMAIN nodes', NEW a \in Seq(Name), Under(p, a)
               PROVE  a \in DOMAIN nodes' /\ (a # p => isDir'[nodes'[a]])
    BY DEF Ancestors
  <2>1. CASE p \in DOMAIN nodes
    BY <1>1, <1>2, <2>1 DEF TreeInv, Ancestors
  <2>2. CASE p = name /\ a # name
    <3>1. name \in Seq(Name) /\ Dir(name) \in DOMAIN nodes /\ isDir[nodes[Dir(name)]]
      BY PathAssumption DEF Enter
    <3>2. Under(Dir(name), a)
      BY <2>2, <3>1, UnderDir
    <3>3. a \in DOMAIN nodes /\ isDir[nodes[a]]
      BY <3>1, <3>2 DEF TreeInv, Ancestors
    <3> QED
      BY <1>1, <1>2, <3>3
  <2>3. CASE p = name /\ a = name
    BY <1>1, <2>3
  <2> QED
    BY <1>1, <2>1, <2>2, <2>3
<1>5. NamesExact'
  <2>1. \A m \in Node : linked'[m] <=> (m = n \/ linked[m])
    BY DEF Enter, TypeInv, TypeOK, TreeInv
  <2>2. \A m \in Node : linked'[m] <=> \E p \in DOMAIN nodes' : nodes'[p] = m
    BY <1>1, <2>1 DEF TreeInv, NamesExact
  <2>3. \A p, q \in DOMAIN nodes' : nodes'[p] = nodes'[q] => p = q
    BY <1>1, <1>2 DEF TreeInv, NamesExact
  <2> QED
    BY <2>2, <2>3 DEF NamesExact
<1> QED
  BY <1>3, <1>4, <1>5 DEF TreeInv

LEMMA DeleteTree ==
  ASSUME TreeInv, TypeInv', NEW name \in PathArg, Delete(name)
  PROVE  TreeInv'
<1>1. /\ name \in DOMAIN nodes /\ name # <<>>
      /\ isDir[nodes[name]] => ~HasChild(name)
  BY DEF Delete, RemoveErr, LookupErr
<1>2. /\ DOMAIN nodes' = DOMAIN nodes \ {name}
      /\ \A p \in DOMAIN nodes' : nodes'[p] = nodes[p]
      /\ isDir' = isDir
      /\ linked' = [linked EXCEPT ![nodes[name]] = FALSE]
  BY DEF Delete, Remove, unlink
<1>3. name \in Path /\ name \in Seq(Name)
  BY <1>1, PathAssumption DEF TreeInv, TypeInv, TypeOK
<1>4. Ancestors'
  <2> SUFFICES ASSUME NEW p \in DOMAIN nodes', NEW a \in Seq(Name), Under(p, a)
               PROVE  a \in DOMAIN nodes' /\ (a # p => isDir'[nodes'[a]])
    BY DEF Ancestors
  <2>1. a \in DOMAIN nodes /\ (a # p => isDir[nodes[a]])
    BY <1>2 DEF TreeInv, Ancestors
  <2>2. a # name
    BY <1>1, <1>2, <1>3, NothingBelow
  <2> QED
    BY <1>2, <2>1, <2>2
<1>5. NamesExact'
  <2>1. \A m \in Node : linked'[m] <=> (m # nodes[name] /\ linked[m])
    BY <1>1, <1>2 DEF TypeInv, TypeOK, TreeInv
  <2>2. \A m \in Node : linked'[m] <=> \E p \in DOMAIN nodes' : nodes'[p] = m
    BY <1>1, <1>2, <2>1 DEF TreeInv, NamesExact
  <2>3. \A p, q \in DOMAIN nodes' : nodes'[p] = nodes'[q] => p = q
    BY <1>2 DEF TreeInv, NamesExact
  <2> QED
    BY <2>2, <2>3 DEF NamesExact
<1>6. <<>> \in DOMAIN nodes' /\ isDir'[nodes'[<<>>]]
  BY <1>1, <1>2 DEF TreeInv
<1> QED
  BY <1>4, <1>5, <1>6 DEF TreeInv

\* A rename finds nothing below its target, and both ends are proper names.
LEMMA MoveFacts ==
  ASSUME TreeInv, NEW old \in PathArg, NEW new \in PathArg, Move(old, new)
  PROVE  /\ old \in Path /\ new \in Path /\ old \in Seq(Name) /\ new \in Seq(Name)
         /\ MoveNodes(old, new)
         /\ old \in Moved(old) /\ new \in MovedTo(old, new)
         /\ \A q \in DOMAIN nodes : Under(q, new) => q = new
<1>1. /\ old \in DOMAIN nodes /\ new \in Path
      /\ new \in DOMAIN nodes => (isDir[nodes[new]] => ~HasChild(new))
      /\ MoveNodes(old, new)
  BY RenameMoves DEF Move, TreeInv
<1>2. old \in Path /\ old \in Seq(Name) /\ new \in Seq(Name)
  BY <1>1, PathAssumption DEF TreeInv, TypeInv, TypeOK
<1>3. old \in Moved(old) /\ Rebase(old, old, new) = new
  BY <1>1, <1>2, RebaseSelf DEF Moved
<1>4. new \in MovedTo(old, new)
  BY <1>3 DEF MovedTo
<1>5. \A q \in DOMAIN nodes : Under(q, new) => q = new
  BY <1>1, NothingBelow
<1> QED
  BY <1>1, <1>2, <1>3, <1>4, <1>5

LEMMA MoveAncestors ==
  ASSUME TreeInv, NEW old \in PathArg, NEW new \in PathArg, Move(old, new)
  PROVE  Ancestors'
<1> SUFFICES ASSUME NEW q \in DOMAIN nodes', NEW a \in Seq(Name), Under(q, a)
             PROVE  a \in DOMAIN nodes' /\ (a # q => isDir[nodes'[a]])
  BY RenameMoves DEF Ancestors, Move, TreeInv
<1>1. /\ old \in Path /\ new \in Path /\ old \in Seq(Name) /\ new \in Seq(Name)
      /\ MoveNodes(old, new)
      /\ new \in MovedTo(old, new)
      /\ \A p \in DOMAIN nodes : Under(p, new) => p = new
  BY MoveFacts
<1>2. /\ ~Under(new, old)
      /\ Dir(new) \in DOMAIN nodes /\ isDir[nodes[Dir(new)]]
  BY RenameMoves DEF Move, TreeInv
<1>3. DOMAIN nodes \subseteq Seq(Name)
  BY PathAssumption DEF TreeInv, TypeInv, TypeOK
<1>4. /\ DOMAIN nodes' = (DOMAIN nodes \ Moved(old)) \cup MovedTo(old, new)
      /\ \A p \in Moved(old) : /\ Rebase(p, old, new) \in MovedTo(old, new)
                               /\ nodes'[Rebase(p, old, new)] = nodes[p]
      /\ \A r \in MovedTo(old, new) :
           /\ Under(r, new)
           /\ Rebase(r, new, old) \in Moved(old)
           /\ Rebase(Rebase(r, new, old), old, new) = r
           /\ nodes'[r] = nodes[Rebase(r, new, old)]
      /\ \A r \in DOMAIN nodes' : r \notin MovedTo(old, new) =>
           r \in DOMAIN nodes /\ ~Under(r, old) /\ nodes'[r] = nodes[r]
  BY <1>1, RenamedNodes DEF TreeInv
<1>5. CASE q \in MovedTo(old, new)
  <2>1. PICK p \in Moved(old) : p = Rebase(q, new, old) /\ q = Rebase(p, old, new)
    BY <1>4, <1>5
  <2>2. p \in DOMAIN nodes /\ p \in Seq(Name) /\ Under(p, old) /\ Under(q, new)
    BY <1>3, <1>4, <1>5 DEF Moved
  <2>3. q \in Seq(Name)
    BY <1>1, <2>1, <2>2, RebaseType
  <2>4. CASE Under(a, new)
    <3>1. PICK b \in Seq(Name) : b = Rebase(a, new, old)
      BY <1>1, <2>4, RebaseType
    <3>2. Under(b, old) /\ Rebase(b, old, new) = a
      BY <1>1, <2>4, <3>1, RebaseType, RebaseBack
    <3>3. Under(p, b)
      BY <1>1, <2>1, <2>3, <2>4, <3>1, RebaseMonotone
    <3>4. b \in DOMAIN nodes /\ (b # p => isDir[nodes[b]])
      BY <2>2, <3>3 DEF TreeInv, Ancestors
    <3>5. b \in Moved(old)
      BY <3>2, <3>4 DEF Moved
    <3>6. a \in DOMAIN nodes' /\ nodes'[a] = nodes[b]
      BY <1>4, <3>2, <3>5
    <3> QED
      BY <2>1, <3>2, <3>4, <3>6
  <2>5. CASE ~Under(a, new)
    <3>1. Under(new, a) /\ a # new
      BY <1>1, <2>2, <2>3, <2>5, UnderComparable, RebaseSelf
    <3>2. Under(Dir(new), a)
      BY <1>1, <3>1, UnderDir
    <3>3. a \in DOMAIN nodes /\ isDir[nodes[a]]
      BY <1>2, <3>2 DEF TreeInv, Ancestors
    <3>4. ~Under(a, old)
      BY <1>1, <1>2, <3>1, UnderTransitive
    <3>5. a \in DOMAIN nodes' /\ a \notin MovedTo(old, new)
      BY <1>4, <2>5, <3>3, <3>4 DEF Moved
    <3> QED
      BY <1>4, <3>3, <3>5
  <2> QED
    BY <2>4, <2>5
<1>6. CASE q \notin MovedTo(old, new)
  <2>1. q \in DOMAIN nodes /\ q \in Seq(Name) /\ ~Under(q, old)
    BY <1>3, <1>4, <1>6
  <2>2. a \in DOMAIN nodes /\ (a # q => isDir[nodes[a]])
    BY <2>1 DEF TreeInv, Ancestors
  <2>3. ~Under(a, old)
    BY <1>1, <2>1, UnderTransitive
  <2>4. a \notin MovedTo(old, new)
    <3> SUFFICES ASSUME a \in MovedTo(old, new) PROVE FALSE
      OBVIOUS
    <3>1. Under(a, new)
      BY <1>4
    <3>2. Under(q, new)
      BY <1>1, <2>1, <3>1, UnderTransitive
    <3> QED
      BY <1>1, <1>6, <2>1, <3>2
  <2>5. a \in DOMAIN nodes'
    BY <1>4, <2>2, <2>3 DEF Moved
  <2> QED
    BY <1>4, <2>2, <2>4, <2>5
<1> QED
  BY <1>5, <1>6

\* A rename keeps every node but the one it replaces, each under one name.
LEMMA MoveNames ==
  ASSUME TreeInv, NEW old \in PathArg, NEW new \in PathArg, Move(old, new)
  PROVE  NamesExact'
<1>1. /\ old \in Path /\ new \in Path /\ old \in Seq(Name) /\ new \in Seq(Name)
      /\ MoveNodes(old, new)
      /\ new \in MovedTo(old, new)
      /\ \A p \in DOMAIN nodes : Under(p, new) => p = new
  BY MoveFacts
<1>2. /\ ~Under(new, old)
      /\ new \in DOMAIN nodes => linked' = [linked EXCEPT ![nodes[new]] = FALSE]
      /\ new \notin DOMAIN nodes => linked' = linked
  BY RenameMoves DEF Move, TreeInv, unlink
<1>3. /\ DOMAIN nodes' = (DOMAIN nodes \ Moved(old)) \cup MovedTo(old, new)
      /\ \A p \in Moved(old) : /\ Rebase(p, old, new) \in MovedTo(old, new)
                               /\ nodes'[Rebase(p, old, new)] = nodes[p]
      /\ \A r \in MovedTo(old, new) :
           /\ Under(r, new)
           /\ Rebase(r, new, old) \in Moved(old)
           /\ Rebase(Rebase(r, new, old), old, new) = r
           /\ nodes'[r] = nodes[Rebase(r, new, old)]
      /\ \A r \in DOMAIN nodes' : r \notin MovedTo(old, new) =>
           r \in DOMAIN nodes /\ ~Under(r, old) /\ nodes'[r] = nodes[r]
  BY <1>1, RenamedNodes DEF TreeInv
<1>4. \A p, q \in DOMAIN nodes : nodes[p] = nodes[q] => p = q
  BY DEF TreeInv, NamesExact
<1>5. \A p \in DOMAIN nodes : p # new => \E q \in DOMAIN nodes' : nodes'[q] = nodes[p]
  <2> SUFFICES ASSUME NEW p \in DOMAIN nodes, p # new
               PROVE  \E q \in DOMAIN nodes' : nodes'[q] = nodes[p]
    OBVIOUS
  <2>1. CASE p \in Moved(old)
    BY <1>3, <2>1
  <2>2. CASE p \notin Moved(old)
    <3>1. p \notin MovedTo(old, new)
      BY <1>1, <1>3
    <3> QED
      BY <1>3, <2>2, <3>1
  <2> QED
    BY <2>1, <2>2
<1>6. \A q \in DOMAIN nodes' : \E p \in DOMAIN nodes : p # new /\ nodes'[q] = nodes[p]
  <2> SUFFICES ASSUME NEW q \in DOMAIN nodes'
               PROVE  \E p \in DOMAIN nodes : p # new /\ nodes'[q] = nodes[p]
    OBVIOUS
  <2>1. CASE q \in MovedTo(old, new)
    BY <1>2, <1>3, <2>1 DEF Moved
  <2>2. CASE q \notin MovedTo(old, new)
    BY <1>1, <1>3, <2>2
  <2> QED
    BY <2>1, <2>2
<1>7. \A n \in Node : linked'[n] <=> \E p \in DOMAIN nodes : p # new /\ nodes[p] = n
  <2> SUFFICES ASSUME NEW n \in Node
               PROVE  linked'[n] <=> \E p \in DOMAIN nodes : p # new /\ nodes[p] = n
    OBVIOUS
  <2>1. linked[n] <=> \E p \in DOMAIN nodes : nodes[p] = n
    BY DEF TreeInv, NamesExact
  <2>2. linked \in [Node -> BOOLEAN] /\ \A p \in DOMAIN nodes : nodes[p] \in Node
    BY DEF TreeInv, TypeInv, TypeOK
  <2>3. CASE new \in DOMAIN nodes
    <3>1. linked'[n] = IF n = nodes[new] THEN FALSE ELSE linked[n]
      BY <1>2, <2>2, <2>3
    <3> QED
      BY <1>4, <2>1, <2>3, <3>1
  <2>4. CASE new \notin DOMAIN nodes
    BY <1>2, <2>1, <2>4
  <2> QED
    BY <2>3, <2>4
<1>8. \A n \in Node : linked'[n] <=> \E q \in DOMAIN nodes' : nodes'[q] = n
  BY <1>5, <1>6, <1>7
<1>9. ASSUME NEW q \in DOMAIN nodes', NEW r \in DOMAIN nodes', nodes'[q] = nodes'[r]
      PROVE  q = r
  <2>1. CASE q \in MovedTo(old, new) /\ r \in MovedTo(old, new)
    <3>1. Rebase(q, new, old) = Rebase(r, new, old)
      BY <1>3, <1>4, <1>9, <2>1 DEF Moved
    <3> QED
      BY <1>3, <2>1, <3>1
  <2>2. CASE q \notin MovedTo(old, new) /\ r \notin MovedTo(old, new)
    BY <1>3, <1>4, <1>9, <2>2
  <2>3. CASE q \in MovedTo(old, new) /\ r \notin MovedTo(old, new)
    BY <1>3, <1>4, <1>9, <2>3 DEF Moved
  <2>4. CASE q \notin MovedTo(old, new) /\ r \in MovedTo(old, new)
    BY <1>3, <1>4, <1>9, <2>4 DEF Moved
  <2> QED
    BY <2>1, <2>2, <2>3, <2>4
<1> QED
  BY <1>8, <1>9 DEF NamesExact

LEMMA MoveTree ==
  ASSUME TreeInv, TypeInv', NEW old \in PathArg, NEW new \in PathArg, Move(old, new)
  PROVE  TreeInv'
<1>1. <<>> \in DOMAIN nodes' /\ isDir'[nodes'[<<>>]]
  <2>1. /\ old \in Seq(Name) /\ new \in Seq(Name) /\ new \in Path /\ old \in Path
        /\ new # <<>> /\ old # <<>> /\ MoveNodes(old, new) /\ isDir' = isDir
    BY MoveFacts, RenameMoves DEF Move, TreeInv
  <2>2. ~Under(<<>>, old) /\ ~Under(<<>>, new)
    BY <2>1, EmptySeq DEF Under
  <2>3. <<>> \in DOMAIN nodes' /\ nodes'[<<>>] = nodes[<<>>]
    <3>1. /\ DOMAIN nodes' = (DOMAIN nodes \ Moved(old)) \cup MovedTo(old, new)
          /\ \A r \in MovedTo(old, new) : Under(r, new)
          /\ \A r \in DOMAIN nodes' : r \notin MovedTo(old, new) => nodes'[r] = nodes[r]
      BY <2>1, RenamedNodes DEF TreeInv
    <3> QED
      BY <2>2, <3>1 DEF Moved, TreeInv
  <2> QED
    BY <2>1, <2>3 DEF TreeInv
<1> QED
  BY <1>1, MoveAncestors, MoveNames DEF TreeInv

LEMMA TreeStep ==
  ASSUME TreeInv, [Next]_vars
  PROVE  TreeInv'
<1>1. TypeInv /\ TypeInv'
  BY TypeStep DEF TreeInv
<1>2. CASE UNCHANGED <<nodes, isDir, linked>>
  BY <1>1, <1>2 DEF TreeInv, Ancestors, NamesExact
<1> QED
  BY <1>1, <1>2, StepCases, EnterTree, DeleteTree, MoveTree

LEMMA TreeInit == Init => TreeInv
<1> SUFFICES ASSUME Init PROVE TreeInv
  OBVIOUS
<1>1. TypeInv
  BY TypeInit
<1>2. /\ DOMAIN nodes = {<<>>} /\ nodes[<<>>] = Root
      /\ isDir[Root] /\ \A n \in Node : linked[n] <=> n = Root
  BY StoreAssumption DEF Init
<1>3. Ancestors
  BY <1>2, EmptySeq DEF Ancestors, Under
<1>4. NamesExact
  BY <1>2 DEF NamesExact
<1> QED
  BY <1>1, <1>2, <1>3, <1>4 DEF TreeInv

\* The map of names is a tree in every behaviour.
THEOREM TreeCorrect == Spec => []TreeShape
<1>1. TreeInv /\ [Next]_vars => TreeInv'
  BY TreeStep
<1> QED
  BY <1>1, TreeInit, TreeInvShape, PTL DEF Spec

\* The linked flag and the map agree in every behaviour, and no node ever has
\* two names.
THEOREM NamesCorrect == Spec => []NamesExact
<1>1. TreeInv /\ [Next]_vars => TreeInv'
  BY TreeStep
<1>2. TreeInv => NamesExact
  BY DEF TreeInv
<1> QED
  BY <1>1, <1>2, TreeInit, PTL DEF Spec

-----------------------------------------------------------------------------
(* What a step may do to the tree *)

\* The only names that lose their node in a step are those Delete and Move
\* name, and there is nothing below them.
LEMMA LostName ==
  ASSUME TreeInv, [Next]_vars
  PROVE  \E a \in PathArg : \A p \in DOMAIN nodes :
           ~linked'[nodes[p]] => p = a /\ ~HasChild(p)
<1>1. \A p \in DOMAIN nodes : linked[nodes[p]] /\ nodes[p] \in Node /\ p \in Seq(Name)
  BY PathAssumption DEF TreeInv, NamesExact, TypeInv, TypeOK
<1>2. \A p, q \in DOMAIN nodes : nodes[p] = nodes[q] => p = q
  BY DEF TreeInv, NamesExact
<1>3. linked \in [Node -> BOOLEAN]
  BY DEF TreeInv, TypeInv, TypeOK
<1>4. ASSUME NEW a \in Path, a \in DOMAIN nodes => (isDir[nodes[a]] => ~HasChild(a)),
             a \in DOMAIN nodes
      PROVE  ~HasChild(a)
  <2> SUFFICES ASSUME NEW c \in DOMAIN nodes, c # a, Dir(c) = a PROVE FALSE
    BY DEF HasChild
  <2>1. Under(c, a)
    BY <1>1, DirType
  <2> QED
    BY <1>4, <2>1, NothingBelow
<1>5. CASE UNCHANGED <<nodes, isDir, linked>>
  BY <1>1, <1>5 DEF PathArg
<1>6. CASE \E name \in Path, n \in Node : Enter(name, n)
  BY <1>1, <1>3, <1>6 DEF Enter, PathArg
<1>7. ASSUME NEW name \in PathArg, Delete(name)
      PROVE  \A p \in DOMAIN nodes : ~linked'[nodes[p]] => p = name /\ ~HasChild(p)
  <2>1. /\ name \in DOMAIN nodes
        /\ isDir[nodes[name]] => ~HasChild(name)
        /\ linked' = [linked EXCEPT ![nodes[name]] = FALSE]
    BY <1>7 DEF Delete, RemoveErr, LookupErr, Remove, unlink
  <2>2. name \in Path
    BY <2>1 DEF TreeInv, TypeInv, TypeOK
  <2>3. ~HasChild(name)
    BY <1>4, <2>1, <2>2
  <2> QED
    BY <1>1, <1>2, <1>3, <2>1, <2>3
<1>8. ASSUME NEW old \in PathArg, NEW new \in PathArg, Move(old, new)
      PROVE  \A p \in DOMAIN nodes : ~linked'[nodes[p]] => p = new /\ ~HasChild(p)
  <2>1. /\ new \in Path
        /\ new \in DOMAIN nodes => (isDir[nodes[new]] => ~HasChild(new))
        /\ new \in DOMAIN nodes => linked' = [linked EXCEPT ![nodes[new]] = FALSE]
        /\ new \notin DOMAIN nodes => linked' = linked
    BY <1>8, RenameMoves DEF Move, TreeInv, unlink
  <2>2. CASE new \in DOMAIN nodes
    <3>1. ~HasChild(new)
      BY <1>4, <2>1, <2>2
    <3> QED
      BY <1>1, <1>2, <1>3, <2>1, <2>2, <3>1
  <2>3. CASE new \notin DOMAIN nodes
    BY <1>1, <2>1, <2>3
  <2> QED
    BY <2>2, <2>3
<1> QED
  BY <1>5, <1>6, <1>7, <1>8, StepCases DEF TreeInv

\* No call loses a subtree.
THEOREM NoSubtreeLostCorrect == Spec => NoSubtreeLost
<1> DEFINE A == /\ \A p \in DOMAIN nodes : ~linked'[nodes[p]] => ~HasChild(p)
                /\ \A p, q \in DOMAIN nodes :
                     ~linked'[nodes[p]] /\ ~linked'[nodes[q]] => p = q
<1>1. TreeInv /\ [Next]_vars => TreeInv'
  BY TreeStep
<1>2. TreeInv /\ [Next]_vars => [A]_vars
  <2> SUFFICES ASSUME TreeInv, [Next]_vars PROVE A
    OBVIOUS
  <2>1. PICK a \in PathArg : \A p \in DOMAIN nodes :
           ~linked'[nodes[p]] => p = a /\ ~HasChild(p)
    BY LostName
  <2> QED
    BY <2>1
<1> QED
  BY <1>1, <1>2, TreeInit, PTL DEF Spec, NoSubtreeLost

\* A rename moves a subtree as a whole.
THEOREM AtomicMoveCorrect == Spec => AtomicMove
<1> DEFINE A == \A p \in DOMAIN nodes, q \in DOMAIN nodes' :
                  nodes'[q] = nodes[p] /\ q # p =>
                    \A r \in DOMAIN nodes : Under(r, p) =>
                      /\ Rebase(r, p, q) \in DOMAIN nodes'
                      /\ nodes'[Rebase(r, p, q)] = nodes[r]
<1>1. TreeInv /\ [Next]_vars => TreeInv'
  BY TreeStep
<1>2. ASSUME TreeInv, [Next]_vars PROVE A
  <2> SUFFICES ASSUME NEW p \in DOMAIN nodes, NEW q \in DOMAIN nodes',
                      nodes'[q] = nodes[p], q # p,
                      NEW r \in DOMAIN nodes, Under(r, p)
               PROVE  /\ Rebase(r, p, q) \in DOMAIN nodes'
                      /\ nodes'[Rebase(r, p, q)] = nodes[r]
    OBVIOUS
  <2>1. \A a, b \in DOMAIN nodes : nodes[a] = nodes[b] => a = b
    BY <1>2 DEF TreeInv, NamesExact
  <2>2. CASE UNCHANGED <<nodes, isDir, linked>>
    BY <2>1, <2>2
  <2>3. ASSUME NEW name \in Path, NEW n \in Node, Enter(name, n) PROVE FALSE
    <3>1. /\ DOMAIN nodes' = DOMAIN nodes \cup {name}
          /\ nodes'[name] = n
          /\ \A a \in DOMAIN nodes : nodes'[a] = nodes[a]
      BY <2>3 DEF Enter, Bind
    <3>2. nodes[p] # n
      BY <1>2, <2>3 DEF Enter, TreeInv, NamesExact
    <3> QED
      BY <2>1, <3>1, <3>2
  <2>4. ASSUME NEW name \in PathArg, Delete(name) PROVE FALSE
    <3>1. /\ DOMAIN nodes' \subseteq DOMAIN nodes
          /\ \A a \in DOMAIN nodes' : nodes'[a] = nodes[a]
      BY <2>4 DEF Delete, Remove
    <3> QED
      BY <2>1, <3>1
  <2>5. ASSUME NEW old \in PathArg, NEW new \in PathArg, Move(old, new)
        PROVE  /\ Rebase(r, p, q) \in DOMAIN nodes'
               /\ nodes'[Rebase(r, p, q)] = nodes[r]
    <3>1. /\ old \in Path /\ new \in Path /\ old \in Seq(Name) /\ new \in Seq(Name)
          /\ MoveNodes(old, new)
      BY <1>2, <2>5, MoveFacts
    <3>2. /\ DOMAIN nodes' = (DOMAIN nodes \ Moved(old)) \cup MovedTo(old, new)
          /\ \A a \in Moved(old) : /\ Rebase(a, old, new) \in MovedTo(old, new)
                                   /\ nodes'[Rebase(a, old, new)] = nodes[a]
          /\ \A b \in MovedTo(old, new) :
               /\ Under(b, new)
               /\ Rebase(b, new, old) \in Moved(old)
               /\ Rebase(Rebase(b, new, old), old, new) = b
               /\ nodes'[b] = nodes[Rebase(b, new, old)]
          /\ \A b \in DOMAIN nodes' : b \notin MovedTo(old, new) =>
               b \in DOMAIN nodes /\ ~Under(b, old) /\ nodes'[b] = nodes[b]
      BY <1>2, <3>1, RenamedNodes DEF TreeInv
    <3>3. q \in MovedTo(old, new)
      BY <2>1, <3>2
    <3>4. p \in Moved(old) /\ q = Rebase(p, old, new)
      BY <2>1, <3>2, <3>3 DEF Moved
    <3>5. p \in Seq(Name) /\ r \in Seq(Name) /\ Under(p, old)
      BY <1>2, <3>4, PathAssumption DEF Moved, TreeInv, TypeInv, TypeOK
    <3>6. Rebase(r, p, q) = Rebase(r, old, new) /\ r \in Moved(old)
      BY <3>1, <3>4, <3>5, RebaseCompose, UnderTransitive DEF Moved
    <3> QED
      BY <3>2, <3>6
  <2> QED
    BY <1>2, <2>2, <2>3, <2>4, <2>5, StepCases DEF TreeInv
<1>3. TreeInv /\ [Next]_vars => [A]_vars
  BY <1>2
<1> QED
  BY <1>1, <1>3, TreeInit, PTL DEF Spec, AtomicMove
=============================================================================
