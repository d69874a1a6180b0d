------------------------- MODULE MemoryQuotaProofs -------------------------
(***************************************************************************)
(* The byte budget is exact and respected, and file positions stay in       *)
(* range, so that no int64 expression of memory.go overflows.  The two      *)
(* facts need each other: a write is refused by comparing its position      *)
(* with the limit, and a position may be the length of a file.              *)
(***************************************************************************)
EXTENDS MemoryTreeProofs

QuotaInv == TreeInv /\ Quota /\ IsFiniteSet(Charged) /\ PositionsInRange

-----------------------------------------------------------------------------
(* Accounting *)

\* The bytes of one file: a row of the given length.
LEMMA RowCardinality ==
  ASSUME NEW n, NEW k \in Nat
  PROVE  IsFiniteSet({n} \X (1..k)) /\ Cardinality({n} \X (1..k)) = k
<1>1. IsFiniteSet(1..k) /\ Cardinality(1..k) = k
  BY FS_Interval
<1>2. IsFiniteSet({n}) /\ Cardinality({n}) = 1
  BY FS_Singleton
<1>3. /\ IsFiniteSet({n} \X (1..k))
      /\ Cardinality({n} \X (1..k)) = Cardinality({n}) * Cardinality(1..k)
  BY <1>1, <1>2, FS_Product
<1> QED
  BY <1>1, <1>2, <1>3

LEMMA DisjointUnion ==
  ASSUME NEW S, NEW T, IsFiniteSet(S), IsFiniteSet(T), S \cap T = {}
  PROVE  IsFiniteSet(S \cup T) /\ Cardinality(S \cup T) = Cardinality(S) + Cardinality(T)
<1>1. /\ IsFiniteSet(S \cup T)
      /\ Cardinality(S \cup T) = Cardinality(S) + Cardinality(T) - Cardinality(S \cap T)
  BY FS_Union
<1>2. Cardinality(S \cap T) = 0
  BY FS_EmptySet
<1>3. Cardinality(S) \in Nat /\ Cardinality(T) \in Nat
  BY FS_CardinalityType
<1> QED
  BY <1>1, <1>2, <1>3

\* Changing the contents of one node changes what is charged by the
\* difference of the lengths, provided that nodes without name and handle
\* end up empty.
LEMMA Recharge ==
  ASSUME QuotaInv, TypeInv', NEW n \in Node, NEW d \in Seq(Byte), Len(d) <= Limit,
         data' = [data EXCEPT ![n] = d], \A m \in Node : ~Live(m)' => data'[m] = <<>>
  PROVE  /\ IsFiniteSet(Charged')
         /\ Cardinality(Charged') = Cardinality(Charged) - Len(data[n]) + Len(d)
<1> DEFINE Others == {c \in Charged : c[1] # n}
           Before == {n} \X (1..Len(data[n]))
           After == {n} \X (1..Len(d))
<1>1. /\ data \in [Node -> Seq(Byte)]
      /\ \A m \in Node : Len(data[m]) \in 0..Limit
      /\ \A m \in Node : data'[m] = IF m = n THEN d ELSE data[m]
      /\ Len(d) \in Nat /\ Len(data[n]) \in Nat /\ Limit \in Nat
  BY StoreAssumption, LenProperties DEF QuotaInv, TreeInv, TypeInv, TypeOK, Quota
<1>2. \A m \in Node : ~Live(m) => Len(data[m]) = 0
  BY EmptySeq DEF QuotaInv, Quota
<1>3. \A m \in Node : ~Live(m)' => Len(data'[m]) = 0
  BY EmptySeq
<1>4. Charged = {c \in Node \X (1..Limit) : c[2] <= Len(data[c[1]])}
  BY <1>1, <1>2 DEF Charged
<1>5. Charged' = {c \in Node \X (1..Limit) : c[2] <= Len(data'[c[1]])}
  <2>1. Charged' = {c \in Node \X (1..Limit) : Live(c[1])' /\ c[2] <= Len(data'[c[1]])}
    BY DEF Charged
  <2>2. \A m \in Node : Len(data'[m]) \in Nat
    BY <1>1
  <2> QED
    BY <1>3, <2>1, <2>2
<1>6. Charged = Others \cup Before
  BY <1>1, <1>4
<1>7. Charged' = Others \cup After
  BY <1>1, <1>4, <1>5
<1>8. Others \cap Before = {} /\ Others \cap After = {}
  OBVIOUS
<1>9. IsFiniteSet(Others)
  BY FS_Subset DEF QuotaInv
<1>10. /\ IsFiniteSet(Before) /\ Cardinality(Before) = Len(data[n])
       /\ IsFiniteSet(After) /\ Cardinality(After) = Len(d)
  BY <1>1, RowCardinality
<1>11. Cardinality(Others) \in Nat
  BY <1>9, FS_CardinalityType
<1> HIDE DEF Others, Before, After
<1>12. Cardinality(Charged) = Cardinality(Others) + Len(data[n])
  BY <1>6, <1>8, <1>9, <1>10, DisjointUnion
<1>13. /\ IsFiniteSet(Charged')
       /\ Cardinality(Charged') = Cardinality(Others) + Len(d)
  BY <1>7, <1>8, <1>9, <1>10, DisjointUnion
<1> QED
  BY <1>1, <1>11, <1>12, <1>13

LEMMA RechargeQuota ==
  ASSUME QuotaInv, TypeInv', NEW n \in Node, NEW d \in Seq(Byte), Len(d) <= Limit,
         data' = [data EXCEPT ![n] = d], \A m \in Node : ~Live(m)' => data'[m] = <<>>,
         used' = used - Len(data[n]) + Len(d), used' <= Limit
  PROVE  Quota' /\ IsFiniteSet(Charged')
<1>1. used = Cardinality(Charged) /\ \A m \in Node : Len(data[m]) <= Limit
  BY DEF QuotaInv, Quota
<1>2. IsFiniteSet(Charged') /\ used' = Cardinality(Charged')
  BY <1>1, Recharge
<1>3. \A m \in Node : Len(data'[m]) <= Limit
  BY <1>1 DEF QuotaInv, TreeInv, TypeInv, TypeOK
<1> QED
  BY <1>2, <1>3 DEF Quota

\* A step that changes no contents and lets no file with contents die.
LEMMA QuotaFrame ==
  ASSUME QuotaInv, TypeInv', data' = data, used' = used,
         \A m \in Node : ~Live(m)' => ~Live(m) \/ data[m] = <<>>
  PROVE  Quota' /\ IsFiniteSet(Charged')
<1>1. data' = [data EXCEPT ![Root] = data[Root]] /\ data[Root] \in Seq(Byte)
  BY StoreAssumption DEF QuotaInv, TreeInv, TypeInv, TypeOK
<1>2. Len(data[Root]) <= Limit /\ used <= Limit /\ Len(data[Root]) \in Nat /\ used \in Int
  BY <1>1, StoreAssumption, LenProperties DEF QuotaInv, Quota, TreeInv, TypeInv, TypeOK
<1>3. \A m \in Node : ~Live(m)' => data'[m] = <<>>
  BY DEF QuotaInv, Quota
<1>4. used' = used - Len(data[Root]) + Len(data[Root])
  BY <1>2
<1> QED
  BY <1>1, <1>2, <1>3, <1>4, StoreAssumption, RechargeQuota

\* A step that leaves contents, links and counts alone.
LEMMA QuotaUnchanged ==
  ASSUME QuotaInv, TypeInv', UNCHANGED <<data, used, linked, refs>>
  PROVE  Quota' /\ IsFiniteSet(Charged')
<1>1. \A m \in Node : ~Live(m)' => ~Live(m)
  BY DEF Live
<1> QED
  BY <1>1, QuotaFrame

\* The facts about one node that the steps below start from.
LEMMA NodeFacts ==
  ASSUME QuotaInv, NEW n \in Node
  PROVE  /\ data[n] \in Seq(Byte) /\ Len(data[n]) \in 0..Limit
         /\ used \in 0..Limit
         /\ ~Live(n) => data[n] = <<>>
         /\ Limit \in Nat /\ MaxInt \in Nat /\ Limit <= MaxInt
<1>1. data[n] \in Seq(Byte) /\ Len(data[n]) \in Nat /\ used \in Int
  BY LenProperties DEF QuotaInv, TreeInv, TypeInv, TypeOK
<1>2. Cardinality(Charged) \in Nat
  BY FS_CardinalityType DEF QuotaInv
<1>3. Limit \in Nat /\ MaxInt \in Nat /\ Limit <= MaxInt
  BY StoreAssumption
<1> QED
  BY <1>1, <1>2, <1>3 DEF QuotaInv, Quota

LEMMA EmptyContents == <<>> \in Seq(Byte) /\ Len(<<>>) = 0
BY EmptySeq

-----------------------------------------------------------------------------
(* One lemma per action that changes contents, links or counts *)

\* A dead node that comes to life is empty.
LEMMA NewNodeQuota ==
  ASSUME QuotaInv, TypeInv', NEW n \in Node, NEW dir, NEW perm, newNode(n, dir, perm),
         refs' = refs \/ refs' = [refs EXCEPT ![n] = @ + 1], used' = used
  PROVE  Quota' /\ IsFiniteSet(Charged')
<1>1. data[n] = <<>> /\ data' = [data EXCEPT ![n] = <<>>]
  BY NodeFacts DEF newNode
<1>2. data' = data
  BY <1>1 DEF QuotaInv, TreeInv, TypeInv, TypeOK
<1>3. \A m \in Node : ~Live(m)' => ~Live(m)
  BY DEF newNode, Live, QuotaInv, TreeInv, TypeInv, TypeOK
<1> QED
  BY <1>2, <1>3, QuotaFrame

LEMMA OpenFileQuota ==
  ASSUME QuotaInv, TypeInv', NEW h \in Handle, NEW name \in PathArg, NEW fl \in Flag,
         NEW perm \in Perm, OpenFile(h, name, fl, perm)
  PROVE  Quota' /\ IsFiniteSet(Charged')
<1>1. CASE OpenExisting(h, name, fl)
  <2>1. nodes[name] \in Node
    BY <1>1 DEF OpenExisting, LookupErr, QuotaInv, TreeInv, TypeInv, TypeOK
  <2>2. PICK n \in Node : n = nodes[name]
    BY <2>1
  <2>3. PICK d : d = IF fl.trunc THEN <<>> ELSE data[n]
    OBVIOUS
  <2>4. d \in Seq(Byte) /\ Len(d) \in 0..Len(data[n])
    BY <2>3, NodeFacts, EmptyContents
  <2>5. /\ data' = [data EXCEPT ![n] = d]
        /\ linked' = linked
        /\ refs' = [refs EXCEPT ![n] = @ + 1]
    BY <1>1, <2>2, <2>3 DEF OpenExisting
  <2>6. used' = used - Len(data[n]) + Len(d)
    <3>1. used' = used - (IF fl.trunc THEN Len(data[n]) ELSE 0)
      BY <1>1, <2>2 DEF OpenExisting
    <3> QED
      BY <2>3, <3>1, NodeFacts, EmptyContents
  <2>7. \A m \in Node : ~Live(m)' => data'[m] = <<>>
    <3> SUFFICES ASSUME NEW m \in Node, ~Live(m)' PROVE data'[m] = <<>>
      OBVIOUS
    <3>1. m # n /\ ~Live(m)
      BY <2>5 DEF Live, QuotaInv, TreeInv, TypeInv, TypeOK
    <3> QED
      BY <2>5, <3>1, NodeFacts DEF QuotaInv, TreeInv, TypeInv, TypeOK
  <2>8. Len(d) <= Limit /\ used' <= Limit
    BY <2>4, <2>6, NodeFacts
  <2> QED
    BY <2>4, <2>5, <2>6, <2>7, <2>8, RechargeQuota
<1>2. CASE OpenCreating(h, name, fl, perm)
  <2>1. PICK n \in Node : /\ newNode(n, FALSE, perm)
                          /\ \/ refs' = [refs EXCEPT ![n] = @ + 1]
                             \/ refs' = refs
    BY <1>2 DEF OpenCreating
  <2>2. used' = used
    BY <1>2 DEF OpenCreating
  <2> QED
    BY <2>1, <2>2, NewNodeQuota
<1>3. CASE OpenRefused(name, fl)
  BY <1>3, QuotaUnchanged DEF OpenRefused, Fail, store
<1> QED
  BY <1>1, <1>2, <1>3 DEF OpenFile

LEMMA MkdirQuota ==
  ASSUME QuotaInv, TypeInv', NEW name \in PathArg, NEW perm \in Perm, Mkdir(name, perm)
  PROVE  Quota' /\ IsFiniteSet(Charged')
<1>1. CASE MkdirErr(name) # "OK"
  BY <1>1, QuotaUnchanged DEF Mkdir, Fail, store
<1>2. CASE MkdirErr(name) = "OK"
  <2>1. PICK n \in Node : newNode(n, TRUE, perm)
    BY <1>2 DEF Mkdir
  <2>2. used' = used /\ refs' = refs
    BY <1>2 DEF Mkdir
  <2> QED
    BY <2>1, <2>2, NewNodeQuota
<1> QED
  BY <1>1, <1>2

LEMMA UnlinkQuota ==
  ASSUME QuotaInv, TypeInv', NEW n \in Node, unlink(n), refs' = refs
  PROVE  Quota' /\ IsFiniteSet(Charged')
<1>1. PICK d : d = IF refs[n] = 0 THEN <<>> ELSE data[n]
  OBVIOUS
<1>2. d \in Seq(Byte) /\ Len(d) \in 0..Len(data[n])
  BY <1>1, NodeFacts, EmptyContents
<1>3. /\ data' = [data EXCEPT ![n] = d]
      /\ linked' = [linked EXCEPT ![n] = FALSE]
  BY <1>1 DEF unlink
<1>4. used' = used - Len(data[n]) + Len(d)
  <2>1. used' = used - (IF refs[n] = 0 THEN Len(data[n]) ELSE 0)
    BY DEF unlink
  <2> QED
    BY <1>1, <2>1, NodeFacts, EmptyContents
<1>5. \A m \in Node : ~Live(m)' => data'[m] = <<>>
  <2> SUFFICES ASSUME NEW m \in Node, ~Live(m)' PROVE data'[m] = <<>>
    OBVIOUS
  <2>1. CASE m = n
    <3>1. refs[n] = 0
      BY <2>1 DEF Live, QuotaInv, TreeInv, TypeInv, TypeOK
    <3> QED
      BY <1>1, <1>3, <2>1, <3>1 DEF QuotaInv, TreeInv, TypeInv, TypeOK
  <2>2. CASE m # n
    <3>1. ~Live(m)
      BY <1>3, <2>2 DEF Live, QuotaInv, TreeInv, TypeInv, TypeOK
    <3> QED
      BY <1>3, <2>2, <3>1, NodeFacts DEF QuotaInv, TreeInv, TypeInv, TypeOK
  <2> QED
    BY <2>1, <2>2
<1>6. Len(d) <= Limit /\ used' <= Limit
  BY <1>2, <1>4, NodeFacts
<1> QED
  BY <1>2, <1>3, <1>4, <1>5, <1>6, RechargeQuota

LEMMA RemoveQuota ==
  ASSUME QuotaInv, TypeInv', NEW name \in PathArg, Remove(name)
  PROVE  Quota' /\ IsFiniteSet(Charged')
<1>1. CASE RemoveErr(name) # "OK"
  BY <1>1, QuotaUnchanged DEF Remove, Fail, store
<1>2. CASE RemoveErr(name) = "OK"
  <2>1. nodes[name] \in Node
    BY <1>2 DEF RemoveErr, LookupErr, QuotaInv, TreeInv, TypeInv, TypeOK
  <2>2. unlink(nodes[name]) /\ refs' = refs
    BY <1>2 DEF Remove
  <2> QED
    BY <2>1, <2>2, UnlinkQuota
<1> QED
  BY <1>1, <1>2

LEMMA RenameQuota ==
  ASSUME QuotaInv, TypeInv', NEW old \in PathArg, NEW new \in PathArg, Rename(old, new)
  PROVE  Quota' /\ IsFiniteSet(Charged')
<1>1. CASE RenameErr(old, new) # "OK" \/ old = new
  BY <1>1, QuotaUnchanged DEF Rename, Fail, store
<1>2. CASE RenameErr(old, new) = "OK" /\ old # new
  <2>1. /\ new \in DOMAIN nodes => unlink(nodes[new])
        /\ new \notin DOMAIN nodes => UNCHANGED <<linked, used, data>>
        /\ refs' = refs
    BY <1>2, RenameMoves DEF QuotaInv, TreeInv
  <2>2. CASE new \in DOMAIN nodes
    <3>1. nodes[new] \in Node
      BY <2>2 DEF QuotaInv, TreeInv, TypeInv, TypeOK
    <3> QED
      BY <2>1, <2>2, <3>1, UnlinkQuota
  <2>3. CASE new \notin DOMAIN nodes
    BY <2>1, <2>3, QuotaUnchanged
  <2> QED
    BY <2>2, <2>3
<1> QED
  BY <1>1, <1>2

LEMMA CloseQuota ==
  ASSUME QuotaInv, TypeInv', NEW h \in Handle, Close(h)
  PROVE  Quota' /\ IsFiniteSet(Charged')
<1>1. CASE ~IsOpen(h)
  BY <1>1, QuotaUnchanged DEF Close, Fail, store
<1>2. CASE IsOpen(h)
  <2>1. PICK n \in Node : n = file[h].n /\ refs[n] > 0 /\ refs[n] \in Nat
    BY <1>2, RefsPositive DEF QuotaInv, TreeInv, TypeInv, TypeOK
  <2>2. PICK last : last = (~linked[n] /\ refs[n] = 1)
    OBVIOUS
  <2>3. PICK d : d = IF last THEN <<>> ELSE data[n]
    OBVIOUS
  <2>4. d \in Seq(Byte) /\ Len(d) \in 0..Len(data[n])
    BY <2>3, NodeFacts, EmptyContents
  <2>5. /\ data' = [data EXCEPT ![n] = d]
        /\ linked' = linked
        /\ refs' = [refs EXCEPT ![n] = @ - 1]
    BY <1>2, <2>1, <2>2, <2>3 DEF Close
  <2>6. used' = used - Len(data[n]) + Len(d)
    <3>1. used' = used - (IF last THEN Len(data[n]) ELSE 0)
      BY <1>2, <2>1, <2>2 DEF Close
    <3> QED
      BY <2>3, <3>1, NodeFacts, EmptyContents
  <2>7. \A m \in Node : ~Live(m)' => data'[m] = <<>>
    <3> SUFFICES ASSUME NEW m \in Node, ~Live(m)' PROVE data'[m] = <<>>
      OBVIOUS
    <3>1. CASE m = n
      <4>1. ~linked[n] /\ refs[n] = 1
        BY <2>1, <2>5, <3>1 DEF Live, QuotaInv, TreeInv, TypeInv, TypeOK
      <4> QED
        BY <2>2, <2>3, <2>5, <3>1, <4>1 DEF QuotaInv, TreeInv, TypeInv, TypeOK
    <3>2. CASE m # n
      <4>1. ~Live(m)
        BY <2>5, <3>2 DEF Live, QuotaInv, TreeInv, TypeInv, TypeOK
      <4> QED
        BY <2>5, <3>2, <4>1, NodeFacts DEF QuotaInv, TreeInv, TypeInv, TypeOK
    <3> QED
      BY <3>1, <3>2
  <2>8. Len(d) <= Limit /\ used' <= Limit
    BY <2>4, <2>6, NodeFacts
  <2> QED
    BY <2>4, <2>5, <2>6, <2>7, <2>8, RechargeQuota
<1> QED
  BY <1>1, <1>2
\* A write that is not refused ends within the limit: the check on its offset
\* cannot wrap, because neither the limit nor a buffer exceeds int64.
LEMMA WriteFits ==
  ASSUME QuotaInv, NEW h \in Handle, NEW p \in Payload, NEW off \in Int,
         WriteErr(h, p, off) = "OK"
  PROVE  /\ IsOpen(h) /\ off \in Nat /\ Len(p) \in Nat /\ off + Len(p) <= Limit
         /\ Wrap(off + Len(p)) = off + Len(p)
<1>1. Len(p) \in 0..MaxInt
  BY ArgumentAssumption, LenProperties
<1>2. Limit \in 0..MaxInt /\ MaxInt \in Nat
  BY StoreAssumption
<1>3. Wrap(Limit - Len(p)) = Limit - Len(p)
  BY <1>1, <1>2, WrapExact DEF Int64
<1>4. IsOpen(h) /\ off >= 0 /\ off <= Limit - Len(p)
  BY <1>1, <1>2, <1>3 DEF WriteErr
<1>5. off + Len(p) \in Int64
  BY <1>1, <1>2, <1>4 DEF Int64
<1>6. Wrap(off + Len(p)) = off + Len(p)
  BY <1>5, WrapExact
<1> QED
  BY <1>1, <1>2, <1>4, <1>6

\* resize: a size that is not refused fits in what is left of the budget.
LEMMA ResizeFits ==
  ASSUME QuotaInv, NEW n \in Node, NEW size \in Int, ResizeErr(n, size) = "OK"
  PROVE  /\ size \in 0..Limit
         /\ used + (size - Len(data[n])) \in Int64
         /\ size - Len(data[n]) \in Int64
         /\ used + (size - Len(data[n])) <= Limit
<1>1. /\ Len(data[n]) \in 0..Limit /\ used \in 0..Limit
      /\ Limit \in Nat /\ MaxInt \in Nat /\ Limit <= MaxInt
  BY NodeFacts
<1>2. size \in 0..Limit
  BY <1>1 DEF ResizeErr
<1>3. /\ size - Len(data[n]) \in Int64 /\ Limit - used \in Int64
  BY <1>1, <1>2 DEF Int64
<1>4. /\ Wrap(size - Len(data[n])) = size - Len(data[n])
      /\ Wrap(Limit - used) = Limit - used
  BY <1>3, WrapExact
<1>5. size - Len(data[n]) <= Limit - used
  BY <1>1, <1>2, <1>4 DEF ResizeErr
<1>6. PICK k \in 0..Limit : k = Len(data[n])
  BY <1>1
<1>7. PICK grow \in Int : grow = size - k /\ grow <= Limit - used /\ grow >= 0 - Limit
  BY <1>1, <1>2, <1>5, <1>6
<1>8. used + grow <= Limit /\ used + grow >= 0 - Limit /\ used + grow \in Int
  BY <1>1, <1>7
<1>9. used + grow \in Int64
  BY <1>1, <1>8 DEF Int64
<1> QED
  BY <1>2, <1>3, <1>6, <1>7, <1>8, <1>9

LEMMA writeAtQuota ==
  ASSUME QuotaInv, TypeInv', NEW h \in Handle, NEW p \in Payload, NEW off \in Int,
         writeAt(h, p, off)
  PROVE  Quota' /\ IsFiniteSet(Charged')
<1>1. CASE WriteErr(h, p, off) # "OK"
  BY <1>1, QuotaUnchanged DEF writeAt, store
<1>2. CASE WriteErr(h, p, off) = "OK"
  <2>1. /\ IsOpen(h) /\ off \in Nat /\ Len(p) \in Nat /\ off + Len(p) <= Limit
        /\ Wrap(off + Len(p)) = off + Len(p)
    BY <1>2, WriteFits
  <2>2. PICK n \in Node : n = file[h].n /\ refs[n] > 0
    BY <2>1, RefsPositive DEF QuotaInv, TreeInv
  <2>3. Store(n, p, off)
    BY <1>2, <2>2 DEF writeAt
  <2>4. CASE Len(p) = 0
    BY <2>3, <2>4, QuotaUnchanged DEF Store, store
  <2>5. CASE Len(p) > 0
    <3>1. refs' = refs /\ linked' = linked
      BY <2>1, <2>3, StoreEffect DEF QuotaInv, TreeInv
    <3>2. PICK d \in Seq(Byte) :
            /\ data' = [data EXCEPT ![n] = d]
            /\ \/ d = data[n] /\ used' = used
               \/ /\ Len(d) = IF Wrap(off + Len(p)) > Len(data[n])
                              THEN Wrap(off + Len(p)) ELSE Len(data[n])
                  /\ used' = Wrap(used + (Len(d) - Len(data[n])))
      BY <2>1, <2>3, StoreEffect DEF QuotaInv, TreeInv
    <3>3. Len(data[n]) \in 0..Limit /\ used \in 0..Limit /\ Limit \in Nat /\ MaxInt \in Nat
          /\ Limit <= MaxInt /\ Len(d) \in Nat
      BY NodeFacts, LenProperties
    <3>4. \A m \in Node : ~Live(m)' => data'[m] = <<>>
      <4> SUFFICES ASSUME NEW m \in Node, ~Live(m)' PROVE data'[m] = <<>>
        OBVIOUS
      <4>1. m # n /\ ~Live(m)
        BY <2>2, <3>1 DEF Live
      <4> QED
        BY <3>2, <4>1, NodeFacts DEF QuotaInv, TreeInv, TypeInv, TypeOK
    <3>5. /\ used' = used - Len(data[n]) + Len(d)
          /\ used' <= Limit /\ Len(d) <= Limit
      <4>1. CASE d = data[n] /\ used' = used
        BY <3>3, <4>1
      <4>2. CASE /\ ~(off + Len(p) > Len(data[n]))
                 /\ Len(d) = Len(data[n])
                 /\ used' = Wrap(used + (Len(d) - Len(data[n])))
        <5>1. used + (Len(d) - Len(data[n])) = used /\ used \in Int64
          BY <3>3, <4>2 DEF Int64
        <5> QED
          BY <3>3, <4>2, <5>1, WrapExact
      <4>3. CASE /\ off + Len(p) > Len(data[n])
                 /\ Len(d) = off + Len(p)
                 /\ used' = Wrap(used + (Len(d) - Len(data[n])))
        <5>1. ResizeErr(n, Len(d)) = "OK" /\ Len(d) \in Int
          BY <1>2, <2>1, <2>2, <2>5, <4>3 DEF WriteErr
        <5>2. /\ Len(d) \in 0..Limit
              /\ used + (Len(d) - Len(data[n])) \in Int64
              /\ used + (Len(d) - Len(data[n])) <= Limit
          BY <5>1, ResizeFits
        <5>3. used' = used + (Len(d) - Len(data[n]))
          BY <4>3, <5>2, WrapExact
        <5>4. PICK k \in Int, j \in Int : k = Len(data[n]) /\ j = Len(d)
          BY <3>3, <5>1
        <5>5. used + (j - k) = used - k + j
          BY <3>3
        <5> QED
          BY <5>2, <5>3, <5>4, <5>5
      <4> QED
        BY <2>1, <3>2, <4>1, <4>2, <4>3
    <3> QED
      BY <3>2, <3>4, <3>5, RechargeQuota
  <2> QED
    BY <2>1, <2>4, <2>5
<1> QED
  BY <1>1, <1>2

LEMMA TruncateQuota ==
  ASSUME QuotaInv, TypeInv', NEW h \in Handle, NEW size \in Offset, Truncate(h, size)
  PROVE  Quota' /\ IsFiniteSet(Charged')
<1>1. CASE TruncateErr(h, size) # "OK"
  BY <1>1, QuotaUnchanged DEF Truncate, Fail, store
<1>2. CASE TruncateErr(h, size) = "OK"
  <2>1. IsOpen(h) /\ ResizeErr(file[h].n, size) = "OK"
    BY <1>2, ErrType DEF TruncateErr
  <2>2. PICK n \in Node : n = file[h].n /\ refs[n] > 0
    BY <2>1, RefsPositive DEF QuotaInv, TreeInv
  <2>3. PICK d \in Seq(Byte) : /\ data' = [data EXCEPT ![n] = d]
                               /\ size \in Nat /\ Len(d) = size
                               /\ used' = Wrap(used + Wrap(size - Len(data[n])))
                               /\ refs' = refs /\ linked' = linked
    BY <1>2, <2>2, TruncateEffect DEF QuotaInv, TreeInv
  <2>4. /\ size \in 0..Limit
        /\ used + (size - Len(data[n])) \in Int64
        /\ size - Len(data[n]) \in Int64
        /\ used + (size - Len(data[n])) <= Limit
    BY <2>1, <2>2, <2>3, ResizeFits
  <2>5. used' = used + (size - Len(data[n]))
    BY <2>3, <2>4, WrapExact
  <2>6. used' = used - Len(data[n]) + Len(d) /\ used' <= Limit /\ Len(d) <= Limit
    BY <2>3, <2>4, <2>5, NodeFacts
  <2>7. \A m \in Node : ~Live(m)' => data'[m] = <<>>
    <3> SUFFICES ASSUME NEW m \in Node, ~Live(m)' PROVE data'[m] = <<>>
      OBVIOUS
    <3>1. m # n /\ ~Live(m)
      BY <2>2, <2>3 DEF Live
    <3> QED
      BY <2>3, <3>1, NodeFacts DEF QuotaInv, TreeInv, TypeInv, TypeOK
  <2> QED
    BY <2>3, <2>6, <2>7, RechargeQuota
<1> QED
  BY <1>1, <1>2

\* Write and WriteAt are writeAt, or leave the store alone.
LEMMA WriteQuota ==
  ASSUME QuotaInv, TypeInv', NEW h \in Handle, NEW p \in Payload,
         Write(h, p) \/ \E off \in Offset : WriteAt(h, p, off)
  PROVE  Quota' /\ IsFiniteSet(Charged')
<1>1. CASE Write(h, p)
  <2>1. WritePos(h) \in Int
    <3>1. file[h].n \in Node /\ file[h].pos \in Int
      BY DEF QuotaInv, TreeInv, TypeInv, TypeOK, FileType
    <3> QED
      BY <3>1, NodeFacts DEF WritePos
  <2>2. CASE ~IsOpen(h)
    BY <1>1, <2>2, QuotaUnchanged DEF Write, Fail, store
  <2>3. CASE IsOpen(h)
    <3>1. writeAt(h, p, WritePos(h))
      BY <1>1, <2>3 DEF Write
    <3> QED
      BY <2>1, <3>1, writeAtQuota
  <2> QED
    BY <2>2, <2>3
<1>2. ASSUME NEW off \in Offset, WriteAt(h, p, off)
      PROVE  Quota' /\ IsFiniteSet(Charged')
  <2>1. off \in Int
    BY ArgumentAssumption, StoreAssumption DEF Int64
  <2>2. CASE ~IsOpen(h) \/ file[h].append
    BY <1>2, <2>2, QuotaUnchanged DEF WriteAt, Fail, store
  <2>3. CASE IsOpen(h) /\ ~file[h].append
    <3>1. writeAt(h, p, off)
      BY <1>2, <2>3 DEF WriteAt
    <3> QED
      BY <2>1, <3>1, writeAtQuota
  <2> QED
    BY <2>2, <2>3
<1> QED
  BY <1>1, <1>2
-----------------------------------------------------------------------------
(* File positions *)

\* Only Read, Write and Seek move a position, and opening sets it to 0.
LEMMA PositionsFrame ==
  ASSUME QuotaInv, NEW h \in Handle, NEW f, f.pos \in 0..Limit,
         file' = [file EXCEPT ![h] = f]
  PROVE  PositionsInRange'
BY DEF QuotaInv, TreeInv, TypeInv, TypeOK, PositionsInRange

LEMMA PositionsUnchanged ==
  ASSUME QuotaInv, UNCHANGED file
  PROVE  PositionsInRange'
BY DEF QuotaInv, PositionsInRange

LEMMA ReadPositions ==
  ASSUME QuotaInv, NEW h \in Handle, NEW len \in ReadLen, Read(h, len)
  PROVE  PositionsInRange'
<1>1. file[h].n \in Node /\ file[h].pos \in 0..Limit
  BY DEF QuotaInv, TreeInv, TypeInv, TypeOK, FileType, PositionsInRange
<1>2. /\ Len(data[file[h].n]) \in 0..Limit /\ Limit \in Nat /\ MaxInt \in Nat
      /\ Limit <= MaxInt
  BY <1>1, NodeFacts
<1>3. len \in Nat /\ file[h].pos \in Int
  BY <1>1, <1>2, ArgumentAssumption
<1>4. PICK b \in Seq(Byte) : /\ b = readAt(h, len, file[h].pos).bytes
                             /\ b = <<>> \/ file[h].pos + Len(b) <= Len(data[file[h].n])
  BY <1>3, readAtType DEF QuotaInv, TreeInv
<1>5. Len(b) \in Nat
  BY LenProperties
<1>6. file[h].pos + Len(b) \in 0..Limit
  BY <1>1, <1>2, <1>4, <1>5, EmptyContents
<1>7. Wrap(file[h].pos + Len(b)) \in 0..Limit
  BY <1>2, <1>6, WrapExact DEF Int64
<1>8. PICK x : x = Wrap(file[h].pos + Len(b))
  OBVIOUS
<1>9. file' = [file EXCEPT ![h] = [file[h] EXCEPT !.pos = x]]
  BY <1>4, <1>8 DEF Read
<1>10. [file[h] EXCEPT !.pos = x].pos \in 0..Limit
  BY <1>7, <1>8 DEF QuotaInv, TreeInv, TypeInv, TypeOK, FileType
<1> QED
  BY <1>9, <1>10, PositionsFrame

LEMMA WritePositions ==
  ASSUME QuotaInv, NEW h \in Handle, NEW p \in Payload, Write(h, p)
  PROVE  PositionsInRange'
<1>1. file[h].n \in Node /\ file[h].pos \in 0..Limit
  BY DEF QuotaInv, TreeInv, TypeInv, TypeOK, FileType, PositionsInRange
<1>2. /\ Len(data[file[h].n]) \in 0..Limit /\ Limit \in Nat /\ MaxInt \in Nat
      /\ Limit <= MaxInt
  BY <1>1, NodeFacts
<1>3. WritePos(h) \in 0..Limit /\ WritePos(h) \in Int
  BY <1>1, <1>2 DEF WritePos
<1>4. CASE ~IsOpen(h)
  BY <1>4, PositionsUnchanged DEF Write, Fail
<1>5. CASE IsOpen(h)
  <2>1. PICK x : x = Wrap(WritePos(h) +
                        (IF WriteErr(h, p, WritePos(h)) = "OK" THEN Len(p) ELSE 0))
    OBVIOUS
  <2>2. ASSUME WriteErr(h, p, WritePos(h)) = "OK" PROVE x \in 0..Limit
    <3>1. /\ Len(p) \in Nat /\ WritePos(h) + Len(p) <= Limit
          /\ Wrap(WritePos(h) + Len(p)) = WritePos(h) + Len(p)
      BY <1>3, <2>2, WriteFits
    <3> QED
      BY <1>2, <1>3, <2>1, <2>2, <3>1
  <2>3. ASSUME WriteErr(h, p, WritePos(h)) # "OK" PROVE x \in 0..Limit
    <3>1. x = Wrap(WritePos(h) + 0)
      BY <2>1, <2>3
    <3>2. WritePos(h) + 0 = WritePos(h) /\ WritePos(h) \in Int64
      BY <1>2, <1>3 DEF Int64
    <3> QED
      BY <1>3, <3>1, <3>2, WrapExact
  <2>4. x \in 0..Limit
    BY <2>2, <2>3
  <2>5. file' = [file EXCEPT ![h] = [file[h] EXCEPT !.pos = x]]
    BY <1>5, <2>1 DEF Write
  <2>6. [file[h] EXCEPT !.pos = x].pos \in 0..Limit
    BY <2>4 DEF QuotaInv, TreeInv, TypeInv, TypeOK, FileType
  <2> QED
    BY <2>5, <2>6, PositionsFrame
<1> QED
  BY <1>4, <1>5

LEMMA SeekPositions ==
  ASSUME QuotaInv, NEW h \in Handle, NEW off \in Offset, NEW whence \in Whence,
         Seek(h, off, whence)
  PROVE  PositionsInRange'
<1>1. CASE SeekErr(h, off, whence) # "OK"
  BY <1>1, PositionsUnchanged DEF Seek, Fail
<1>2. CASE SeekErr(h, off, whence) = "OK"
  <2>1. file[h].n \in Node /\ file[h].pos \in 0..Limit
    BY DEF QuotaInv, TreeInv, TypeInv, TypeOK, FileType, PositionsInRange
  <2>2. /\ Len(data[file[h].n]) \in 0..Limit /\ Limit \in Nat /\ MaxInt \in Nat
        /\ Limit <= MaxInt
    BY <2>1, NodeFacts
  <2>3. whence \in {"start", "current", "end"}
    BY <1>2 DEF SeekErr, Whence
  <2>4. PICK base \in 0..Limit : base = SeekBase(h, whence)
    BY <2>1, <2>2, <2>3 DEF SeekBase
  <2>5. /\ 0 - base \in Int64 /\ Limit - base \in Int64 /\ off \in Int
        /\ -base = 0 - base
    BY <2>2, ArgumentAssumption DEF Int64
  <2>6. off >= 0 - base /\ off <= Limit - base
    BY <1>2, <2>2, <2>4, <2>5, WrapExact DEF SeekErr
  <2>7. base + off \in 0..Limit
    BY <2>2, <2>5, <2>6
  <2>8. Wrap(base + off) \in 0..Limit
    BY <2>2, <2>7, WrapExact DEF Int64
  <2>9. PICK x : x = Wrap(base + off)
    OBVIOUS
  <2>10. PICK f : f = IF x = 0
                      THEN [[file[h] EXCEPT !.pos = x] EXCEPT !.listed = FALSE,
                              !.entries = {}, !.dirPos = 0, !.seen = {}]
                      ELSE [file[h] EXCEPT !.pos = x]
    OBVIOUS
  <2>11. file' = [file EXCEPT ![h] = f]
    BY <1>2, <2>4, <2>9, <2>10 DEF Seek
  <2>12. f.pos = x
    BY <2>10 DEF QuotaInv, TreeInv, TypeInv, TypeOK, FileType
  <2> QED
    BY <2>8, <2>9, <2>11, <2>12, PositionsFrame
<1> QED
  BY <1>1, <1>2

LEMMA OpenFilePositions ==
  ASSUME QuotaInv, NEW h \in Handle, NEW name \in PathArg, NEW fl \in Flag,
         NEW perm \in Perm, OpenFile(h, name, fl, perm)
  PROVE  PositionsInRange'
<1>1. CASE UNCHANGED file
  BY <1>1, PositionsUnchanged
<1>2. ASSUME NEW n, file' = [file EXCEPT ![h] = OpenedFile(n, name, fl)]
      PROVE  PositionsInRange'
  <2>1. OpenedFile(n, name, fl).pos \in 0..Limit
    BY StoreAssumption DEF OpenedFile
  <2> QED
    BY <1>2, <2>1, PositionsFrame
<1> QED
  BY <1>1, <1>2 DEF OpenFile, OpenExisting, OpenCreating, OpenRefused, Fail

LEMMA ClosePositions ==
  ASSUME QuotaInv, NEW h \in Handle, Close(h)
  PROVE  PositionsInRange'
<1>1. ClosedFile.pos \in 0..Limit
  BY StoreAssumption DEF ClosedFile
<1>2. UNCHANGED file \/ file' = [file EXCEPT ![h] = ClosedFile]
  BY DEF Close, Fail
<1> QED
  BY <1>1, <1>2, PositionsUnchanged, PositionsFrame

LEMMA FileReadDirPositions ==
  ASSUME QuotaInv, NEW h \in Handle, NEW k \in Count, FileReadDir(h, k)
  PROVE  PositionsInRange'
<1>1. CASE FileReadDirErr(h) # "OK"
  BY <1>1, PositionsUnchanged DEF FileReadDir, Fail
<1>2. CASE FileReadDirErr(h) = "OK"
  <2>1. PICK f : /\ file' = [file EXCEPT ![h] = f]
                 /\ f.pos = file[h].pos
    <3> DEFINE entries == Snapshot(h)
               len == Cardinality(entries)
               end == PageEnd(file[h].dirPos, len, k)
               page == {x \in entries : Rank(entries, x) \in file[h].dirPos..(end - 1)}
               eof == file[h].dirPos = len /\ k > 0
               dirPos == IF eof THEN file[h].dirPos ELSE end
               seen == IF eof THEN file[h].seen ELSE file[h].seen \cup page
               g == [file[h] EXCEPT !.listed = TRUE, !.entries = entries,
                                    !.dirPos = dirPos, !.seen = seen]
    <3>1. file' = [file EXCEPT ![h] = g]
      BY <1>2 DEF FileReadDir
    <3>2. file[h] \in FileType
      BY DEF QuotaInv, TreeInv, TypeInv, TypeOK
    <3> HIDE DEF dirPos, seen, entries
    <3>3. g.pos = file[h].pos
      BY <3>2 DEF FileType
    <3> QED
      BY <3>1, <3>3
  <2>2. f.pos \in 0..Limit
    BY <2>1 DEF QuotaInv, PositionsInRange
  <2> QED
    BY <2>1, <2>2, PositionsFrame
<1> QED
  BY <1>1, <1>2

-----------------------------------------------------------------------------
(* The invariant *)

LEMMA NameStepQuota ==
  ASSUME QuotaInv, TypeInv', NameStep
  PROVE  Quota' /\ IsFiniteSet(Charged') /\ PositionsInRange'
<1> PICK name \in PathArg :
      \/ Stat(name)
      \/ ReadDir(name)
      \/ Remove(name)
      \/ \E new \in PathArg : Rename(name, new)
      \/ \E perm \in Perm : Mkdir(name, perm) \/ Chmod(name, perm)
      \/ \E a, m \in Stamp : Chtimes(name, a, m)
  BY DEF NameStep
<1>1. CASE Stat(name) \/ ReadDir(name)
  <2>1. UNCHANGED <<store, file>>
    BY <1>1 DEF Stat, ReadDir, Fail
  <2> QED
    BY <2>1, QuotaUnchanged, PositionsUnchanged DEF store
<1>2. CASE Remove(name)
  <2>1. UNCHANGED file
    BY <1>2 DEF Remove, Fail
  <2> QED
    BY <1>2, <2>1, RemoveQuota, PositionsUnchanged
<1>3. ASSUME NEW new \in PathArg, Rename(name, new)
      PROVE  Quota' /\ IsFiniteSet(Charged') /\ PositionsInRange'
  <2>1. UNCHANGED file
    BY <1>3 DEF Rename, Fail
  <2> QED
    BY <1>3, <2>1, RenameQuota, PositionsUnchanged
<1>4. ASSUME NEW perm \in Perm, Mkdir(name, perm)
      PROVE  Quota' /\ IsFiniteSet(Charged') /\ PositionsInRange'
  <2>1. UNCHANGED file
    BY <1>4 DEF Mkdir, Fail
  <2> QED
    BY <1>4, <2>1, MkdirQuota, PositionsUnchanged
<1>5. CASE \/ \E perm \in Perm : Chmod(name, perm)
           \/ \E a, m \in Stamp : Chtimes(name, a, m)
  <2>1. UNCHANGED <<data, used, linked, refs>> /\ UNCHANGED file
    BY <1>5 DEF Chmod, Chtimes, SetMeta, Fail, store
  <2> QED
    BY <2>1, QuotaUnchanged, PositionsUnchanged
<1> QED
  BY <1>1, <1>2, <1>3, <1>4, <1>5

LEMMA FileStepQuota ==
  ASSUME QuotaInv, TypeInv', FileStep
  PROVE  Quota' /\ IsFiniteSet(Charged') /\ PositionsInRange'
<1> DEFINE Goal == Quota' /\ IsFiniteSet(Charged') /\ PositionsInRange'
<1> PICK h \in Handle :
      \/ \E name \in PathArg, fl \in Flag, perm \in Perm : OpenFile(h, name, fl, perm)
      \/ FileStat(h)
      \/ Close(h)
      \/ \E len \in ReadLen : Read(h, len) \/ \E off \in Offset : ReadAt(h, len, off)
      \/ \E p \in Payload : Write(h, p) \/ \E off \in Offset : WriteAt(h, p, off)
      \/ \E off \in Offset, whence \in Whence : Seek(h, off, whence)
      \/ \E size \in Offset : Truncate(h, size)
      \/ \E a, m \in Stamp : FileChtimes(h, a, m)
      \/ \E k \in Count : FileReadDir(h, k)
  BY DEF FileStep
<1>1. ASSUME NEW name \in PathArg, NEW fl \in Flag, NEW perm \in Perm,
             OpenFile(h, name, fl, perm)
      PROVE  Goal
  BY <1>1, OpenFileQuota, OpenFilePositions
<1>2. CASE Close(h)
  BY <1>2, CloseQuota, ClosePositions
<1>3. ASSUME NEW len \in ReadLen, Read(h, len) PROVE Goal
  <2>1. UNCHANGED <<data, used, linked, refs>>
    BY <1>3 DEF Read, store
  <2> QED
    BY <1>3, <2>1, QuotaUnchanged, ReadPositions
<1>4. CASE \/ FileStat(h)
           \/ \E len \in ReadLen, off \in Offset : ReadAt(h, len, off)
           \/ \E a, m \in Stamp : FileChtimes(h, a, m)
  <2>1. UNCHANGED <<data, used, linked, refs>> /\ UNCHANGED file
    BY <1>4 DEF FileStat, ReadAt, FileChtimes, SetMeta, Fail, store
  <2> QED
    BY <2>1, QuotaUnchanged, PositionsUnchanged
<1>5. ASSUME NEW p \in Payload, Write(h, p) PROVE Goal
  BY <1>5, WriteQuota, WritePositions
<1>6. ASSUME NEW p \in Payload, NEW off \in Offset, WriteAt(h, p, off) PROVE Goal
  <2>1. UNCHANGED file
    BY <1>6 DEF WriteAt, Fail
  <2> QED
    BY <1>6, <2>1, WriteQuota, PositionsUnchanged
<1>7. ASSUME NEW off \in Offset, NEW whence \in Whence, Seek(h, off, whence) PROVE Goal
  <2>1. UNCHANGED <<data, used, linked, refs>>
    BY <1>7 DEF Seek, Fail, store
  <2> QED
    BY <1>7, <2>1, QuotaUnchanged, SeekPositions
<1>8. ASSUME NEW size \in Offset, Truncate(h, size) PROVE Goal
  <2>1. UNCHANGED file
    BY <1>8 DEF Truncate, Fail
  <2> QED
    BY <1>8, <2>1, TruncateQuota, PositionsUnchanged
<1>9. ASSUME NEW k \in Count, FileReadDir(h, k) PROVE Goal
  <2>1. UNCHANGED <<data, used, linked, refs>>
    BY <1>9 DEF FileReadDir, Fail, store
  <2> QED
    BY <1>9, <2>1, QuotaUnchanged, FileReadDirPositions
<1> QED
  BY <1>1, <1>2, <1>3, <1>4, <1>5, <1>6, <1>7, <1>8, <1>9

LEMMA QuotaStep == QuotaInv /\ [Next]_vars => QuotaInv'
<1> SUFFICES ASSUME QuotaInv, [Next]_vars PROVE QuotaInv'
  OBVIOUS
<1>1. TreeInv'
  BY TreeStep DEF QuotaInv
<1>2. TypeInv'
  BY <1>1 DEF TreeInv
<1>3. CASE Next
  BY <1>1, <1>2, <1>3, NameStepQuota, FileStepQuota DEF Next, QuotaInv
<1>4. CASE UNCHANGED vars
  <2>1. UNCHANGED <<data, used, linked, refs>> /\ UNCHANGED file
    BY <1>4 DEF vars
  <2> QED
    BY <1>1, <1>2, <2>1, QuotaUnchanged, PositionsUnchanged DEF QuotaInv
<1> QED
  BY <1>3, <1>4

LEMMA QuotaInit == Init => QuotaInv
<1> SUFFICES ASSUME Init PROVE QuotaInv
  OBVIOUS
<1>1. TreeInv
  BY TreeInit
<1>2. \A n \in Node : data[n] = <<>> /\ Len(data[n]) = 0
  BY EmptySeq DEF Init
<1>3. Charged = {}
  BY <1>2, StoreAssumption DEF Charged
<1>4. IsFiniteSet(Charged) /\ Cardinality(Charged) = 0
  BY <1>3, FS_EmptySet
<1>5. Quota
  BY <1>2, <1>4, StoreAssumption DEF Init, Quota
<1>6. PositionsInRange
  BY StoreAssumption DEF Init, ClosedFile, PositionsInRange
<1> QED
  BY <1>1, <1>4, <1>5, <1>6 DEF QuotaInv

\* The byte budget of Memory is exact and never exceeded, for every number of
\* files, handles and bytes and whatever int64 offsets are handed in: used is
\* the number of bytes held by files that are named or open, at most limit.
THEOREM QuotaCorrect == Spec => []Quota
<1>1. QuotaInv => Quota
  BY DEF QuotaInv
<1> QED
  BY <1>1, QuotaInit, QuotaStep, PTL DEF Spec

\* File positions stay within 0..limit, so no sum that Seek, Read or writeAt
\* forms from one leaves the int64 range.
THEOREM PositionsCorrect == Spec => []PositionsInRange
<1>1. QuotaInv => PositionsInRange
  BY DEF QuotaInv
<1> QED
  BY <1>1, QuotaInit, QuotaStep, PTL DEF Spec
=============================================================================
