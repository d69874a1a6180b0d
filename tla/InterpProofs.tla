---------------------------- MODULE InterpProofs ----------------------------
(***************************************************************************)
(* Whatever a script does, the interpreter's bookkeeping is exact: the     *)
(* depth and the arguments of every shell are those of the calls in        *)
(* progress, the open files those of the statements, prefix assignments    *)
(* are undone, $? is the status of the statement before, and Run reports   *)
(* the failures and the exit that happened.                                *)
(*                                                                         *)
(* The argument is about the shape of the stack.  A call changes the       *)
(* innermost frame, makes calls of its own above it, or ends; what is      *)
(* below, and every shell but the innermost, is as it was.  So the lemmas  *)
(* come in three groups: what such a step keeps (LocalStep, EnterStep,     *)
(* LeaveStep), that each action is such a step, and what is on its way up  *)
(* in ret.                                                                 *)
(***************************************************************************)
EXTENDS Interp, TLAPS, FiniteSetTheorems, SequenceTheorems

-----------------------------------------------------------------------------
(* The inductive invariant *)

\* The kinds of frames among the first n of a stack, and the shell that the
\* n-th of them works on.
Count(st, K, n) == Cardinality({i \in 1..n : st[i].kind \in K})
ShellAt(st, n) == 1 + Count(st, Clones, n)

\* Own arguments: a is $@ for the innermost function or nested shell among the
\* first n calls.
Own == {"func", "bash"}
ArgsAt(st, n, a) ==
  \/ (\A i \in 1..n : st[i].kind \notin Own) /\ a = 0
  \/ \E i \in 1..n : /\ st[i].kind \in Own /\ a = st[i].mine
                     /\ \A j \in 1..n : st[j].kind \in Own => j <= i

\* Which call makes which: f is the caller of g.
MadeBy(f, g) ==
  /\ g.kind # "run"
  /\ g.kind = "stmt" => f.kind \in {"list", "binary", "func"}
  /\ g.kind = "list" =>
       /\ f.kind \in {"run", "subst", "bash", "subshell", "if", "for", "while", "stmt"}
       /\ f.kind = "stmt" => f.pc = "run"
       /\ g.empty => f.kind \in {"run", "subst", "bash"}
  /\ g.kind = "subst" => f.kind = "stmt" /\ f.pc \in {"args", "redir", "value", "words"}
  /\ g.kind \in {"binary", "if", "for", "while", "func", "bash", "subshell"} =>
       f.kind = "stmt" /\ f.pc = "run"

ShapeInv ==
  /\ stack # <<>> => stack[1].kind = "run"
  /\ \A i \in 1..(Len(stack) - 1) : MadeBy(stack[i], stack[i + 1])

\* A shell is in use up to the call that works on the next one: there its depth
\* and arguments are those of the calls so far.
EndsAt(st, n) == n = Len(st) \/ st[n + 1].kind \in Clones

CallsInv ==
  /\ Len(shells) = ShellAt(stack, Len(stack))
  /\ \A n \in 0..Len(stack) : EndsAt(stack, n) =>
       /\ shells[ShellAt(stack, n)].depth = Count(stack, Calls, n)
       /\ ArgsAt(stack, n, shells[ShellAt(stack, n)].args)
  /\ \A i \in 1..Len(stack) : stack[i].kind = "func" => ArgsAt(stack, i - 1, stack[i].old)

\* A statement f and the shell t it works on: until its command is called the
\* last substitution is the shell's, and a variable that a prefix has not
\* assigned yet is as it was when the prefix began.
StmtOK(f, t) ==
  /\ f.pc = "args" => f.files = 0
  /\ f.pc \in {"args", "redir", "command"} \/ f.mode # "prefix" =>
       DOMAIN f.before = {} /\ DOMAIN f.orig = {}
  /\ DOMAIN f.orig = {} \/ DOMAIN f.orig = Var
  /\ \A k \in DOMAIN f.before : k \in DOMAIN f.orig /\ f.orig[k] = f.before[k]
  /\ f.pc = "value" /\ f.mode = "prefix" => f.name \in DOMAIN f.before
  /\ f.pc # "run" => f.sub = t.subStatus
  /\ f.pc \in {"assign", "value"} =>
       \A k \in DOMAIN f.orig \ DOMAIN f.before : f.orig[k] = t.vars[k]

StmtInv ==
  \A i \in 1..Len(stack) : stack[i].kind = "stmt" => StmtOK(stack[i], shells[ShellAt(stack, i)])

Failed(err) == IF err \in Failure THEN err ELSE "none"

\* What is on its way up: a failure is the one raised; a statement whose words
\* or redirections end early has an error; and the status of the statement
\* before is recorded where another may follow.
RetInv ==
  /\ ret.err = "pending" => ret = None
  /\ Idle => ret = None
  /\ ret.err = "ctx" => canceled
  /\ raised = Failed(IF Idle THEN result.err ELSE ret.err)

FlowInv ==
  Returned =>
    /\ top.pc \in {"args", "redir"} => ret.err # "none"
    /\ top.kind \in {"if", "for", "while"} /\ ret.ran /\ ret.err \notin Failure => s.status = ret.code
    /\ top.kind = "binary" /\ ret.ran /\ ret.err = "none" => s.status = ret.code

\* An exit of the session's own shell is on its way up, or a failure to close
\* a file has taken its place; nothing else leaves that shell as an exit.
ExitInv ==
  IF Idle
  THEN /\ exited = (quit # {} /\ raised = "none")
       /\ exited => result = Results(CHOOSE c \in quit : TRUE, "none")
  ELSE /\ quit # {} => /\ Len(shells) = 1
                       /\ top.kind = "stmt" => top.pc = "run"
                       /\ ret.err \in Failure \/ ret.err = "exit"
       /\ ret.err = "exit" /\ Len(shells) = 1 => quit = {ret.code}

StackInv == TypeOK /\ ShapeInv /\ CallsInv /\ StmtInv /\ FilesClosed
ResultInv == RetInv /\ FlowInv /\ ExitInv

InterpInv == StackInv /\ ResultInv

-----------------------------------------------------------------------------
(* Counting frames *)

LEMMA CountType ==
  ASSUME NEW st, NEW K, NEW n \in Nat
  PROVE  /\ IsFiniteSet({i \in 1..n : st[i].kind \in K})
         /\ Count(st, K, n) \in Nat
<1>1. IsFiniteSet(1..n)
  BY FS_Interval
<1>2. IsFiniteSet({i \in 1..n : st[i].kind \in K})
  BY <1>1, FS_Subset
<1> QED
  BY <1>2, FS_CardinalityType DEF Count

LEMMA CountZero ==
  ASSUME NEW st, NEW K
  PROVE  Count(st, K, 0) = 0
<1>1. {i \in 1..0 : st[i].kind \in K} = {}
  OBVIOUS
<1> QED
  BY <1>1, FS_EmptySet DEF Count

\* Only the kinds count.
LEMMA CountSame ==
  ASSUME NEW st, NEW tt, NEW K, NEW n \in Nat,
         \A i \in 1..n : st[i].kind \in K <=> tt[i].kind \in K
  PROVE  Count(st, K, n) = Count(tt, K, n)
<1>1. {i \in 1..n : st[i].kind \in K} = {i \in 1..n : tt[i].kind \in K}
  OBVIOUS
<1> QED
  BY <1>1 DEF Count

\* Frames of other kinds do not.
LEMMA CountFlat ==
  ASSUME NEW st, NEW K, NEW m \in Nat, NEW n \in Nat, m <= n,
         \A i \in (m + 1)..n : st[i].kind \notin K
  PROVE  Count(st, K, n) = Count(st, K, m)
<1>1. {i \in 1..n : st[i].kind \in K} = {i \in 1..m : st[i].kind \in K}
  OBVIOUS
<1> QED
  BY <1>1 DEF Count

LEMMA CountNext ==
  ASSUME NEW st, NEW K, NEW n \in Nat, st[n + 1].kind \in K
  PROVE  Count(st, K, n + 1) = Count(st, K, n) + 1
<1> DEFINE S == {i \in 1..n : st[i].kind \in K}
<1>1. {i \in 1..(n + 1) : st[i].kind \in K} = S \cup {n + 1}
  OBVIOUS
<1>2. n + 1 \notin S
  OBVIOUS
<1>3. IsFiniteSet(S)
  BY CountType
<1>4. Cardinality(S \cup {n + 1}) = Cardinality(S) + 1
  BY <1>2, <1>3, FS_AddElement
<1> QED
  BY <1>1, <1>4 DEF Count

LEMMA CountMono ==
  ASSUME NEW st, NEW K, NEW m \in Nat, NEW n \in Nat, m <= n
  PROVE  Count(st, K, m) <= Count(st, K, n)
<1> DEFINE S == {i \in 1..m : st[i].kind \in K}
           T == {i \in 1..n : st[i].kind \in K}
<1>1. S \subseteq T
  OBVIOUS
<1>2. IsFiniteSet(T)
  BY CountType
<1>3. Cardinality(S) <= Cardinality(T)
  BY <1>1, <1>2, FS_Subset
<1> QED
  BY <1>3 DEF Count

\* $@ depends on the functions and nested shells only.
LEMMA ArgsSame ==
  ASSUME NEW st, NEW tt, NEW m \in Nat, NEW n \in Nat, m <= n, NEW a,
         \A i \in 1..m : tt[i].kind = st[i].kind /\ (st[i].kind \in Own => tt[i].mine = st[i].mine),
         \A i \in (m + 1)..n : tt[i].kind \notin Own,
         ArgsAt(st, m, a)
  PROVE  ArgsAt(tt, n, a)
<1>1. CASE (\A i \in 1..m : st[i].kind \notin Own) /\ a = 0
  <2>1. \A i \in 1..n : tt[i].kind \notin Own
    BY <1>1
  <2> QED
    BY <1>1, <2>1 DEF ArgsAt
<1>2. CASE \E i \in 1..m : /\ st[i].kind \in Own /\ a = st[i].mine
                           /\ \A j \in 1..m : st[j].kind \in Own => j <= i
  <2>1. PICK i \in 1..m : /\ st[i].kind \in Own /\ a = st[i].mine
                          /\ \A j \in 1..m : st[j].kind \in Own => j <= i
    BY <1>2
  <2>2. i \in 1..n /\ tt[i].kind \in Own /\ a = tt[i].mine
    BY <2>1
  <2>3. \A j \in 1..n : tt[j].kind \in Own => j <= i
    BY <2>1
  <2> QED
    BY <2>2, <2>3 DEF ArgsAt
<1> QED
  BY <1>1, <1>2 DEF ArgsAt

\* The same, for a stack that has lost frames of other kinds.
LEMMA ArgsFlat ==
  ASSUME NEW st, NEW tt, NEW m \in Nat, NEW n \in Nat, m <= n, NEW a,
         \A i \in 1..m : tt[i].kind = st[i].kind /\ (st[i].kind \in Own => tt[i].mine = st[i].mine),
         \A i \in (m + 1)..n : st[i].kind \notin Own,
         ArgsAt(st, n, a)
  PROVE  ArgsAt(tt, m, a)
<1>1. CASE (\A i \in 1..n : st[i].kind \notin Own) /\ a = 0
  <2>1. \A i \in 1..m : tt[i].kind \notin Own
    BY <1>1
  <2> QED
    BY <1>1, <2>1 DEF ArgsAt
<1>2. CASE \E i \in 1..n : /\ st[i].kind \in Own /\ a = st[i].mine
                           /\ \A j \in 1..n : st[j].kind \in Own => j <= i
  <2>1. PICK i \in 1..n : /\ st[i].kind \in Own /\ a = st[i].mine
                          /\ \A j \in 1..n : st[j].kind \in Own => j <= i
    BY <1>2
  <2>2. i \in 1..m
    BY <2>1
  <2>3. tt[i].kind \in Own /\ a = tt[i].mine
    BY <2>1, <2>2
  <2>4. \A j \in 1..m : tt[j].kind \in Own => j <= i
    BY <2>1
  <2> QED
    BY <2>2, <2>3, <2>4 DEF ArgsAt
<1> QED
  BY <1>1, <1>2 DEF ArgsAt

LEMMA ArgsKept ==
  ASSUME NEW st, NEW tt, NEW n \in Nat, NEW a, ArgsAt(st, n, a),
         \A i \in 1..n : tt[i].kind = st[i].kind /\ (st[i].kind \in Own => tt[i].mine = st[i].mine)
  PROVE  ArgsAt(tt, n, a)
<1>1. n <= n /\ \A i \in (n + 1)..n : tt[i].kind \notin Own
  OBVIOUS
<1> QED
  BY <1>1, ArgsSame

-----------------------------------------------------------------------------
(* Frames *)

\* Frames that are neither calls nor work on a shell of their own.
Plain == {"run", "list", "stmt", "binary", "if", "for", "while"}

LEMMA Kinds ==
  /\ \A k \in Plain : k \notin Calls /\ k \notin Clones /\ k \notin Own
  /\ "func" \in Calls /\ "func" \notin Clones /\ "func" \in Own
  /\ "subst" \in Calls /\ "subst" \in Clones /\ "subst" \notin Own
  /\ "bash" \in Calls /\ "bash" \in Clones /\ "bash" \in Own
  /\ "subshell" \notin Calls /\ "subshell" \in Clones /\ "subshell" \notin Own
BY DEF Plain, Calls, Clones, Own

\* A frame is of one kind, and only statements have the pcs of stmtWithPipe.
LEMMA FrameKind ==
  ASSUME NEW f \in Frames
  PROVE  /\ f.kind \in Plain \cup Calls \cup Clones
         /\ f.kind = "stmt" => f \in Statements
         /\ f.kind # "stmt" => f.pc \in {"wait", "stmt", "loop"}
         /\ f.pc = "stmt" => f.kind \in {"list", "binary", "func"}
         /\ f.kind = "list" => f \in [kind : {"list"}, pc : {"stmt"}, empty : BOOLEAN]
         /\ f.kind = "binary" =>
              f \in [kind : {"binary"}, pc : {"stmt"}, op : {"and", "or"}, left : BOOLEAN]
         /\ f.kind = "func" =>
              f \in [kind : {"func"}, pc : {"stmt"}, old : 0..MaxItems, mine : 0..MaxItems]
         /\ f.kind = "for" =>
              f \in [kind : {"for"}, pc : {"loop"}, items : 0..MaxItems, code : Status]
         /\ f.kind = "while" => f \in [kind : {"while"}, pc : {"loop"}, until : BOOLEAN,
                                       body : BOOLEAN, code : Status]
BY DEF Frames, Statements, Plain, Calls, Clones

LEMMA StatementFields ==
  ASSUME NEW f \in Statements
  PROVE  /\ f \in Frames /\ f.kind = "stmt"
         /\ f.pc \in {"args", "redir", "assign", "value", "words", "command", "call", "xargs", "run"}
         /\ f.parts \in 0..MaxParts /\ f.files \in 0..MaxFiles /\ f.name \in Var /\ f.sub \in Status
         /\ f.mode \in {"plain", "prefix", "export", "other"}
         /\ DOMAIN f.before \subseteq Var /\ \A k \in DOMAIN f.before : f.before[k] \in Variable
         /\ DOMAIN f.orig \subseteq Var /\ \A k \in DOMAIN f.orig : f.orig[k] \in Variable
<1>1. f \in Frames /\ f.kind = "stmt"
  BY DEF Frames, Statements
<1>2. /\ f.pc \in {"args", "redir", "assign", "value", "words", "command", "call", "xargs", "run"}
      /\ f.parts \in 0..MaxParts /\ f.files \in 0..MaxFiles /\ f.name \in Var /\ f.sub \in Status
      /\ f.mode \in {"plain", "prefix", "export", "other"}
  BY DEF Statements
<1>3. /\ f.before \in UNION {[D -> Variable] : D \in SUBSET Var}
      /\ f.orig \in UNION {[D -> Variable] : D \in SUBSET Var}
  BY DEF Statements
<1>4. DOMAIN f.before \subseteq Var /\ \A k \in DOMAIN f.before : f.before[k] \in Variable
  BY <1>3
<1>5. DOMAIN f.orig \subseteq Var /\ \A k \in DOMAIN f.orig : f.orig[k] \in Variable
  BY <1>3
<1> QED
  BY <1>1, <1>2, <1>4, <1>5

LEMMA StackTop ==
  ASSUME TypeOK, stack # <<>>
  PROVE  /\ Len(stack) \in Nat /\ Len(stack) > 0 /\ DOMAIN stack = 1..Len(stack)
         /\ top \in Frames /\ \A i \in 1..Len(stack) : stack[i] \in Frames
BY LenProperties, EmptySeq DEF TypeOK, top

LEMMA ShellTop ==
  ASSUME TypeOK, CallsInv
  PROVE  /\ Len(shells) \in Nat /\ Len(shells) > 0 /\ s \in Shell
         /\ \A i \in 1..Len(shells) : shells[i] \in Shell
<1>1. Len(stack) \in Nat /\ Len(shells) \in Nat
  BY LenProperties DEF TypeOK
<1>2. Len(shells) > 0
  <2>1. Count(stack, Clones, Len(stack)) \in Nat
    BY <1>1, CountType
  <2>2. Len(shells) = 1 + Count(stack, Clones, Len(stack))
    BY DEF CallsInv, ShellAt
  <2> QED
    BY <2>1, <2>2
<1>3. \A i \in 1..Len(shells) : shells[i] \in Shell
  BY <1>1 DEF TypeOK
<1> QED
  BY <1>1, <1>2, <1>3 DEF s

\* The only frame at the bottom is that of Run.
LEMMA Above ==
  ASSUME TypeOK, ShapeInv, stack # <<>>, top.kind # "run"
  PROVE  Len(stack) > 1 /\ MadeBy(stack[Len(stack) - 1], top)
<1>1. Len(stack) \in Nat /\ Len(stack) > 0
  BY StackTop
<1>2. Len(stack) # 1
  BY DEF ShapeInv, top
<1>3. PICK n \in Nat : n = Len(stack)
  BY <1>1
<1>4. n - 1 \in 1..(n - 1) /\ (n - 1) + 1 = n
  BY <1>1, <1>2, <1>3
<1>5. MadeBy(stack[n - 1], stack[n])
  BY <1>3, <1>4 DEF ShapeInv
<1> QED
  BY <1>3, <1>4, <1>5 DEF top

\* Under a statement's expansion runs a substitution; any other call is made
\* when its command has been called.
LEMMA StmtBelow ==
  ASSUME ShapeInv, NEW i \in 1..(Len(stack) - 1), stack[i].kind = "stmt", stack[i].pc # "run",
         stack[i + 1].kind \in Plain \cup Calls \cup Clones
  PROVE  stack[i + 1].kind = "subst"
<1>1. MadeBy(stack[i], stack[i + 1])
  BY DEF ShapeInv
<1> QED
  BY <1>1 DEF MadeBy, Plain, Calls, Clones

\* It works on an outer shell.
LEMMA ShellBelow ==
  ASSUME TypeOK, CallsInv, NEW i \in 1..Len(stack), i < Len(stack), stack[i + 1].kind \in Clones
  PROVE  ShellAt(stack, i) \in 1..(Len(shells) - 1)
<1>1. Len(stack) \in Nat /\ i \in Nat /\ i + 1 \in Nat /\ i + 1 <= Len(stack)
  BY LenProperties DEF TypeOK
<1>2. Count(stack, Clones, i + 1) = Count(stack, Clones, i) + 1
  BY <1>1, CountNext
<1>3. Count(stack, Clones, i + 1) <= Count(stack, Clones, Len(stack))
  BY <1>1, CountMono
<1>4. /\ Count(stack, Clones, i) \in Nat /\ Count(stack, Clones, i + 1) \in Nat
      /\ Count(stack, Clones, Len(stack)) \in Nat
  BY <1>1, CountType
<1> QED
  BY <1>2, <1>3, <1>4 DEF ShellAt, CallsInv

LEMMA ShellRange ==
  ASSUME TypeOK, CallsInv, NEW i \in 0..Len(stack)
  PROVE  ShellAt(stack, i) \in 1..Len(shells)
<1>1. Len(stack) \in Nat /\ i \in Nat /\ i <= Len(stack)
  BY LenProperties DEF TypeOK
<1>2. Count(stack, Clones, i) <= Count(stack, Clones, Len(stack))
  BY <1>1, CountMono
<1>3. Count(stack, Clones, i) \in Nat /\ Count(stack, Clones, Len(stack)) \in Nat
  BY <1>1, CountType
<1> QED
  BY <1>2, <1>3 DEF ShellAt, CallsInv

\* Once its command has been called a statement asks nothing of its shell.
LEMMA StmtCalled ==
  ASSUME NEW f, NEW t, NEW u, StmtOK(f, t), f.pc = "run"
  PROVE  StmtOK(f, u)
BY DEF StmtOK

-----------------------------------------------------------------------------
(* Local steps: the innermost frame gives way to the frames fs, and the      *)
(* innermost shell to t.                                                     *)

Becomes(fs) ==
  /\ stack' \in Seq(Frames) /\ Len(stack') = Len(stack) - 1 + Len(fs)
  /\ \A i \in 1..(Len(stack) - 1) : stack'[i] = stack[i]
  /\ \A i \in Len(stack)..Len(stack') : stack'[i] = fs[i - Len(stack) + 1]

Inner(t) ==
  /\ shells' \in Seq(Shell) /\ Len(shells') = Len(shells)
  /\ \A i \in 1..(Len(shells) - 1) : shells'[i] = shells[i]
  /\ shells'[Len(shells)] = t

\* The calls that fs makes are its own to make.
Fits(fs) ==
  /\ fs # <<>> => MadeBy(stack[Len(stack) - 1], fs[1])
  /\ \A j \in 1..(Len(fs) - 1) : MadeBy(fs[j], fs[j + 1])

AllPlain(fs) == \A j \in 1..Len(fs) : fs[j].kind \in Plain

LEMMA LocalShape ==
  ASSUME TypeOK, ShapeInv, Len(stack) > 1, NEW fs \in Seq(Frames), Becomes(fs), Fits(fs)
  PROVE  ShapeInv'
<1>1. PICK n \in Nat : n = Len(stack)
  BY LenProperties DEF TypeOK
<1>2. PICK m \in Nat : m = Len(fs)
  BY LenProperties
<1>3. /\ Len(stack') = n - 1 + m
      /\ \A i \in 1..(n - 1) : stack'[i] = stack[i]
      /\ \A i \in n..(n - 1 + m) : stack'[i] = fs[i - n + 1]
  BY <1>1, <1>2 DEF Becomes
<1>4. /\ m > 0 => MadeBy(stack[n - 1], fs[1])
      /\ \A j \in 1..(m - 1) : MadeBy(fs[j], fs[j + 1])
  BY <1>1, <1>2, EmptySeq DEF Fits
<1>5. stack'[1].kind = "run"
  BY <1>1, <1>3, EmptySeq DEF ShapeInv
<1>6. ASSUME NEW i \in 1..(Len(stack') - 1)
      PROVE  MadeBy(stack'[i], stack'[i + 1])
  <2>1. i \in Nat /\ i >= 1 /\ i <= n - 2 + m
    BY <1>3
  <2>2. CASE i + 1 < n
    <3>1. stack'[i] = stack[i] /\ stack'[i + 1] = stack[i + 1]
      BY <1>3, <2>1, <2>2
    <3>2. MadeBy(stack[i], stack[i + 1])
      BY <1>1, <2>1, <2>2 DEF ShapeInv
    <3> QED
      BY <3>1, <3>2
  <2>3. CASE i + 1 = n
    <3>1. i = n - 1 /\ n \in n..(n - 1 + m) /\ m > 0 /\ n - n + 1 = 1
      BY <2>1, <2>3
    <3>2. stack'[i] = stack[n - 1]
      BY <1>3, <2>1, <2>3, <3>1
    <3>3. stack'[i + 1] = fs[1]
      BY <1>3, <2>3, <3>1
    <3> QED
      BY <1>4, <3>1, <3>2, <3>3
  <2>4. CASE i + 1 > n
    <3>1. PICK j \in Nat : j = i - n + 1
      BY <2>1, <2>4
    <3>2. j \in 1..(m - 1) /\ i \in n..(n - 1 + m) /\ i + 1 \in n..(n - 1 + m)
      BY <2>1, <2>4, <3>1
    <3>3. stack'[i] = fs[j]
      BY <1>3, <3>1, <3>2
    <3>4. stack'[i + 1] = fs[j + 1]
      <4>1. PICK k \in Nat : k = i + 1
        BY <2>1
      <4>2. k \in n..(n - 1 + m) /\ k - n + 1 = j + 1
        BY <2>1, <3>1, <3>2, <4>1
      <4>3. stack'[k] = fs[k - n + 1]
        BY <1>3, <4>2
      <4> QED
        BY <4>1, <4>2, <4>3
    <3> QED
      BY <1>4, <3>2, <3>3, <3>4
  <2> QED
    BY <2>1, <2>2, <2>3, <2>4
<1> QED
  BY <1>5, <1>6 DEF ShapeInv

\* Frames above the common part that are plain on both sides leave every count
\* as it is.
LEMMA LocalCount ==
  ASSUME TypeOK, Len(stack) > 1, top.kind \in Plain,
         NEW fs \in Seq(Frames), Becomes(fs), AllPlain(fs), NEW K, \A k \in Plain : k \notin K
  PROVE  /\ \A n \in 0..(Len(stack) - 1) : Count(stack', K, n) = Count(stack, K, n)
         /\ \A n \in Nat : n >= Len(stack) - 1 /\ n <= Len(stack') =>
              Count(stack', K, n) = Count(stack, K, Len(stack))
<1>1. PICK l \in Nat : l = Len(stack) /\ l > 1
  BY LenProperties DEF TypeOK
<1>2. PICK m \in Nat : m = Len(fs)
  BY LenProperties
<1>3. /\ Len(stack') = l - 1 + m
      /\ \A i \in 1..(l - 1) : stack'[i] = stack[i]
      /\ \A i \in l..(l - 1 + m) : stack'[i] = fs[i - l + 1]
  BY <1>1, <1>2 DEF Becomes
<1>4. \A i \in l..(l - 1 + m) : stack'[i].kind \notin K
  <2>1. ASSUME NEW i \in l..(l - 1 + m)
        PROVE  stack'[i].kind \notin K
    <3>1. i - l + 1 \in 1..m
      BY <1>1, <1>2
    <3> QED
      BY <1>2, <1>3, <3>1 DEF AllPlain
  <2> QED
    BY <2>1
<1>5. \A i \in (l - 1 + 1)..l : stack[i].kind \notin K
  BY <1>1 DEF top
<1>6. Count(stack, K, l) = Count(stack, K, l - 1)
  BY <1>1, <1>5, CountFlat
<1>7. ASSUME NEW n \in 0..(l - 1)
      PROVE  Count(stack', K, n) = Count(stack, K, n)
  <2>1. \A i \in 1..n : stack'[i].kind \in K <=> stack[i].kind \in K
    BY <1>1, <1>3
  <2> QED
    BY <1>1, <2>1, CountSame
<1>8. ASSUME NEW n \in Nat, n >= l - 1, n <= l - 1 + m
      PROVE  Count(stack', K, n) = Count(stack, K, l)
  <2>1. \A i \in (l - 1 + 1)..n : stack'[i].kind \notin K
    BY <1>1, <1>2, <1>4, <1>8
  <2>2. l - 1 \in Nat /\ l - 1 \in 0..(l - 1)
    BY <1>1
  <2>3. Count(stack', K, n) = Count(stack', K, l - 1)
    BY <1>1, <1>8, <2>1, <2>2, CountFlat
  <2> QED
    BY <1>6, <1>7, <2>2, <2>3
<1> QED
  BY <1>1, <1>3, <1>7, <1>8

\* Below the innermost frame and the innermost shell everything is as it was.
LEMMA LowerCount ==
  ASSUME NEW l \in Nat, \A i \in 1..(l - 1) : stack'[i] = stack[i], NEW n \in Nat, n <= l - 1, NEW K
  PROVE  Count(stack', K, n) = Count(stack, K, n)
<1>1. \A i \in 1..n : stack'[i].kind \in K <=> stack[i].kind \in K
  OBVIOUS
<1> QED
  BY <1>1, CountSame

LEMMA LowerCalls ==
  ASSUME TypeOK, CallsInv, NEW t, Inner(t), NEW l \in Nat, l = Len(stack),
         \A i \in 1..(l - 1) : stack'[i] = stack[i],
         NEW n \in Nat, n < l - 1, stack'[n + 1].kind \in Clones
  PROVE  /\ shells'[ShellAt(stack', n)].depth = Count(stack', Calls, n)
         /\ ArgsAt(stack', n, shells'[ShellAt(stack', n)].args)
<1>1. n <= l - 1 /\ n \in 0..Len(stack) /\ n + 1 \in 1..(l - 1)
  OBVIOUS
<1>2. stack[n + 1].kind \in Clones
  BY <1>1
<1>3. /\ shells[ShellAt(stack, n)].depth = Count(stack, Calls, n)
      /\ ArgsAt(stack, n, shells[ShellAt(stack, n)].args)
  BY <1>1, <1>2 DEF CallsInv, EndsAt
<1>4. ShellAt(stack, n) \in 1..(Len(shells) - 1)
  <2>1. /\ Count(stack, Clones, n + 1) = Count(stack, Clones, n) + 1
        /\ Count(stack, Clones, n + 1) <= Count(stack, Clones, l)
    BY <1>1, <1>2, CountNext, CountMono
  <2>2. Count(stack, Clones, n) \in Nat /\ Count(stack, Clones, l) \in Nat
    BY CountType
  <2>3. Len(shells) = 1 + Count(stack, Clones, l)
    BY DEF CallsInv, ShellAt
  <2> QED
    BY <2>1, <2>2, <2>3 DEF ShellAt
<1>5. /\ Count(stack', Clones, n) = Count(stack, Clones, n)
      /\ Count(stack', Calls, n) = Count(stack, Calls, n)
  BY <1>1, LowerCount
<1>6. shells'[ShellAt(stack', n)] = shells[ShellAt(stack, n)]
  BY <1>4, <1>5 DEF Inner, ShellAt
<1>7. \A i \in 1..n : /\ stack'[i].kind = stack[i].kind
                      /\ stack[i].kind \in Own => stack'[i].mine = stack[i].mine
  BY <1>1
<1>8. ArgsAt(stack', n, shells[ShellAt(stack, n)].args)
  BY <1>3, <1>7, ArgsKept
<1> QED
  BY <1>3, <1>5, <1>6, <1>8

LEMMA LowerFuncs ==
  ASSUME TypeOK, CallsInv, NEW l \in Nat, l = Len(stack),
         \A i \in 1..(l - 1) : stack'[i] = stack[i], NEW i \in 1..(l - 1), stack'[i].kind = "func"
  PROVE  ArgsAt(stack', i - 1, stack'[i].old)
<1>1. i \in 1..Len(stack) /\ stack'[i] = stack[i]
  OBVIOUS
<1>2. PICK k \in Nat : k = i - 1
  OBVIOUS
<1>3. PICK a : a = stack[i].old
  OBVIOUS
<1>4. ArgsAt(stack, k, a)
  BY <1>1, <1>2, <1>3 DEF CallsInv
<1>5. \A j \in 1..k : /\ stack'[j].kind = stack[j].kind
                      /\ stack[j].kind \in Own => stack'[j].mine = stack[j].mine
  BY <1>2
<1>6. ArgsAt(stack', k, a)
  BY <1>4, <1>5, ArgsKept
<1> QED
  BY <1>1, <1>2, <1>3, <1>6

LEMMA LowerStmts ==
  ASSUME TypeOK, ShapeInv, CallsInv, StmtInv, NEW t, Inner(t), NEW l \in Nat, l = Len(stack),
         \A i \in 1..(l - 1) : stack'[i] = stack[i], NEW i \in 1..(l - 1), stack'[i].kind = "stmt"
  PROVE  StmtOK(stack'[i], shells'[ShellAt(stack', i)])
<1>1. /\ i \in Nat /\ i <= l - 1 /\ i \in 1..Len(stack) /\ i < Len(stack)
      /\ i \in 1..(Len(stack) - 1) /\ i + 1 \in 1..Len(stack)
  OBVIOUS
<1>2. stack'[i] = stack[i] /\ StmtOK(stack[i], shells[ShellAt(stack, i)])
  BY <1>1 DEF StmtInv
<1>3. CASE stack[i].pc = "run"
  BY <1>2, <1>3, StmtCalled
<1>4. CASE stack[i].pc # "run"
  <2>1. stack[i + 1] \in Frames
    BY <1>1 DEF TypeOK
  <2>2. stack[i + 1].kind = "subst"
    BY <1>1, <1>2, <1>4, <2>1, FrameKind, StmtBelow
  <2>3. ShellAt(stack, i) \in 1..(Len(shells) - 1)
    BY <1>1, <2>2, Kinds, ShellBelow
  <2>4. ShellAt(stack', i) = ShellAt(stack, i)
    BY <1>1, LowerCount DEF ShellAt
  <2>5. shells'[ShellAt(stack', i)] = shells[ShellAt(stack, i)]
    BY <2>3, <2>4 DEF Inner
  <2> QED
    BY <1>2, <2>5
<1> QED
  BY <1>3, <1>4

LEMMA LocalCalls ==
  ASSUME TypeOK, CallsInv, Len(stack) > 1, top.kind \in Plain,
         NEW fs \in Seq(Frames), Becomes(fs), AllPlain(fs),
         NEW t \in Shell, Inner(t), t.depth = s.depth, t.args = s.args
  PROVE  CallsInv'
<1>1. PICK l \in Nat : l = Len(stack) /\ l > 1
  BY LenProperties DEF TypeOK
<1>2. PICK m \in Nat : m = Len(stack') /\ m >= l - 1
  <2>1. Len(fs) \in Nat /\ Len(stack') = l - 1 + Len(fs)
    BY <1>1, LenProperties DEF Becomes
  <2> QED
    BY <1>1, <2>1
<1>3. /\ \A i \in 1..(l - 1) : stack'[i] = stack[i]
      /\ \A i \in l..m : stack'[i].kind \in Plain
  <2>1. \A i \in 1..(l - 1) : stack'[i] = stack[i]
    BY <1>1 DEF Becomes
  <2>2. ASSUME NEW i \in l..m
        PROVE  stack'[i].kind \in Plain
    <3>1. Len(fs) \in Nat /\ m = l - 1 + Len(fs) /\ stack'[i] = fs[i - l + 1]
      BY <1>1, <1>2, LenProperties DEF Becomes
    <3>2. i - l + 1 \in 1..Len(fs)
      BY <1>1, <3>1
    <3> QED
      BY <3>1, <3>2 DEF AllPlain
  <2> QED
    BY <2>1, <2>2
<1>4. \A k \in Plain : k \notin Clones /\ k \notin Calls /\ k \notin Own
  BY Kinds
<1>5. /\ \A n \in 0..(l - 1) : Count(stack', Clones, n) = Count(stack, Clones, n)
      /\ \A n \in Nat : n >= l - 1 /\ n <= m => Count(stack', Clones, n) = Count(stack, Clones, l)
  BY <1>1, <1>2, <1>4, LocalCount
<1>6. /\ \A n \in 0..(l - 1) : Count(stack', Calls, n) = Count(stack, Calls, n)
      /\ \A n \in Nat : n >= l - 1 /\ n <= m => Count(stack', Calls, n) = Count(stack, Calls, l)
  BY <1>1, <1>2, <1>4, LocalCount
<1>7. /\ Len(shells) \in Nat /\ Len(shells) > 0 /\ Len(shells') = Len(shells)
      /\ \A i \in 1..(Len(shells) - 1) : shells'[i] = shells[i]
      /\ shells'[Len(shells)] = t
  BY ShellTop DEF Inner
<1>8. ShellAt(stack, l) = Len(shells)
  BY <1>1 DEF CallsInv
<1>9. Len(shells') = ShellAt(stack', m)
  BY <1>2, <1>5, <1>7, <1>8, <1>1 DEF ShellAt
<1>10. \A i \in 1..(l - 1) : /\ stack'[i].kind = stack[i].kind
                             /\ stack[i].kind \in Own => stack'[i].mine = stack[i].mine
  BY <1>3
<1>11. stack[l].kind \notin Own /\ \A i \in l..m : stack'[i].kind \notin Own
  BY <1>1, <1>3, <1>4 DEF top
<1>12. ASSUME NEW n \in 0..m, EndsAt(stack', n)
       PROVE  /\ shells'[ShellAt(stack', n)].depth = Count(stack', Calls, n)
              /\ ArgsAt(stack', n, shells'[ShellAt(stack', n)].args)
  <2>1. n \in Nat /\ n <= m
    OBVIOUS
  <2>2. CASE n < l - 1
    <3>1. n < m /\ n # Len(stack')
      BY <1>1, <1>2, <2>1, <2>2
    <3>2. stack'[n + 1].kind \in Clones
      BY <1>12, <3>1 DEF EndsAt
    <3> QED
      BY <1>1, <1>3, <2>1, <2>2, <3>2, LowerCalls
  <2>3. CASE n >= l - 1
    <3>1. ShellAt(stack', n) = Len(shells)
      BY <1>5, <1>8, <2>1, <2>3 DEF ShellAt
    <3>2. Count(stack', Calls, n) = Count(stack, Calls, l)
      BY <1>6, <2>1, <2>3
    <3>3. l \in 0..Len(stack) /\ EndsAt(stack, l)
      BY <1>1 DEF EndsAt
    <3>4. s.depth = Count(stack, Calls, l) /\ ArgsAt(stack, l, s.args)
      BY <1>8, <3>3 DEF CallsInv, s
    <3>5. ArgsAt(stack', l - 1, s.args)
      <4>1. l - 1 \in Nat /\ l - 1 <= l /\ \A i \in (l - 1 + 1)..l : stack[i].kind \notin Own
        BY <1>1, <1>11
      <4> QED
        BY <1>1, <1>10, <3>4, <4>1, ArgsFlat
    <3>6. ArgsAt(stack', n, s.args)
      <4>1. l - 1 \in Nat /\ l - 1 <= n
        BY <1>1, <2>3
      <4>2. \A i \in 1..(l - 1) : /\ stack'[i].kind = stack'[i].kind
                                  /\ stack'[i].kind \in Own => stack'[i].mine = stack'[i].mine
        OBVIOUS
      <4>3. \A i \in (l - 1 + 1)..n : stack'[i].kind \notin Own
        BY <1>1, <1>2, <1>11, <2>1
      <4> QED
        BY <2>1, <3>5, <4>1, <4>2, <4>3, ArgsSame
    <3> QED
      BY <1>7, <3>1, <3>2, <3>4, <3>6
  <2> QED
    BY <1>1, <2>1, <2>2, <2>3
<1>13. ASSUME NEW i \in 1..m, stack'[i].kind = "func"
       PROVE  ArgsAt(stack', i - 1, stack'[i].old)
  <2>1. i < l
    BY <1>1, <1>3, <1>13 DEF Plain
  <2>2. i \in 1..(l - 1)
    BY <1>1, <2>1
  <2> QED
    BY <1>1, <1>3, <1>13, <2>2, LowerFuncs
<1> QED
  BY <1>2, <1>9, <1>12, <1>13 DEF CallsInv

LEMMA LocalStmts ==
  ASSUME TypeOK, ShapeInv, CallsInv, StmtInv, Len(stack) > 1, top.kind \in Plain,
         NEW fs \in Seq(Frames), Becomes(fs), AllPlain(fs), NEW t \in Shell, Inner(t),
         \A j \in 1..Len(fs) : fs[j].kind = "stmt" => StmtOK(fs[j], t)
  PROVE  StmtInv'
<1>1. PICK l \in Nat : l = Len(stack) /\ l > 1
  BY LenProperties DEF TypeOK
<1>2. PICK m \in Nat : m = Len(fs)
  BY LenProperties
<1>3. /\ Len(stack') = l - 1 + m
      /\ \A i \in 1..(l - 1) : stack'[i] = stack[i]
      /\ \A i \in l..(l - 1 + m) : stack'[i] = fs[i - l + 1]
  BY <1>1, <1>2 DEF Becomes
<1>4. \A k \in Plain : k \notin Clones
  BY Kinds
<1>5. /\ \A n \in 0..(l - 1) : Count(stack', Clones, n) = Count(stack, Clones, n)
      /\ \A n \in Nat : n >= l - 1 /\ n <= l - 1 + m =>
           Count(stack', Clones, n) = Count(stack, Clones, l)
  BY <1>1, <1>3, <1>4, LocalCount
<1>6. /\ Len(shells) \in Nat /\ Len(shells) > 0
      /\ \A i \in 1..(Len(shells) - 1) : shells'[i] = shells[i]
      /\ shells'[Len(shells)] = t
  BY ShellTop DEF Inner
<1>7. ShellAt(stack, l) = Len(shells)
  BY <1>1 DEF CallsInv
<1>8. ASSUME NEW i \in 1..(l - 1 + m), stack'[i].kind = "stmt"
      PROVE  StmtOK(stack'[i], shells'[ShellAt(stack', i)])
  <2>1. CASE i < l
    <3>1. i \in 1..(l - 1)
      BY <1>1, <2>1
    <3> QED
      BY <1>1, <1>3, <1>8, <3>1, LowerStmts
  <2>2. CASE i >= l
    <3>1. i \in Nat /\ i >= l - 1 /\ i <= l - 1 + m /\ i \in l..(l - 1 + m) /\ i - l + 1 \in 1..m
      BY <1>1, <1>2, <2>2
    <3>2. ShellAt(stack', i) = Len(shells)
      BY <1>5, <1>7, <3>1 DEF ShellAt
    <3>3. stack'[i] = fs[i - l + 1]
      BY <1>3, <3>1
    <3> QED
      BY <1>2, <1>6, <1>8, <3>1, <3>2, <3>3
  <2> QED
    BY <1>1, <2>1, <2>2
<1> QED
  BY <1>3, <1>8 DEF StmtInv

\* The files a frame holds open.
FilesOf(f) == IF f.kind = "stmt" THEN f.files ELSE 0
HeldOpen(st) == {p \in (DOMAIN st) \X (1..MaxFiles) :
                   st[p[1]].kind = "stmt" /\ p[2] <= st[p[1]].files}

\* The files of the frame i.
LEMMA RowSize ==
  ASSUME NEW i, NEW k \in Nat
  PROVE  IsFiniteSet({i} \X (1..k)) /\ Cardinality({i} \X (1..k)) = k
<1>1. IsFiniteSet(1..k) /\ Cardinality(1..k) = k
  BY FS_Interval
<1>2. IsFiniteSet({i}) /\ Cardinality({i}) = 1
  BY FS_Singleton
<1>3. /\ IsFiniteSet({i} \X (1..k))
      /\ Cardinality({i} \X (1..k)) = Cardinality({i}) * Cardinality(1..k)
  BY <1>1, <1>2, FS_Product
<1> QED
  BY <1>1, <1>2, <1>3

LEMMA FilesOfType ==
  ASSUME NEW f \in Frames
  PROVE  FilesOf(f) \in Nat /\ FilesOf(f) <= MaxFiles
<1>1. CASE f.kind = "stmt"
  <2>1. f.files \in 0..MaxFiles
    BY <1>1, FrameKind, StatementFields
  <2> QED
    BY <1>1, <2>1, InterpAssumption DEF FilesOf
<1>2. CASE f.kind # "stmt"
  BY <1>2, InterpAssumption DEF FilesOf
<1> QED
  BY <1>1, <1>2

\* Above the first l - 1 frames only the l-th holds files: what it holds adds
\* to what they hold.
LEMMA HeldSplit ==
  ASSUME NEW st \in Seq(Frames), NEW l \in Nat, l > 0, NEW a \in Nat, a <= MaxFiles, Len(st) >= l - 1,
         \A i \in 1..Len(st) : i > l => FilesOf(st[i]) = 0,
         a = IF Len(st) >= l THEN FilesOf(st[l]) ELSE 0
  PROVE  LET Low == {p \in HeldOpen(st) : p[1] < l} IN
         /\ IsFiniteSet(HeldOpen(st)) /\ Cardinality(Low) \in Nat
         /\ Cardinality(HeldOpen(st)) = Cardinality(Low) + a
<1> DEFINE Low == {p \in HeldOpen(st) : p[1] < l}
           Row == {l} \X (1..a)
<1>1. Len(st) \in Nat /\ DOMAIN st = 1..Len(st) /\ MaxFiles \in Nat
  BY LenProperties, InterpAssumption
<1>2. \A i \in 1..Len(st) : st[i] \in Frames
  OBVIOUS
<1>3. \A p \in HeldOpen(st) : p[1] <= l
  <2>1. ASSUME NEW p \in HeldOpen(st), p[1] > l
        PROVE  FALSE
    <3>1. /\ p[1] \in 1..Len(st) /\ p[2] \in 1..MaxFiles
          /\ st[p[1]].kind = "stmt" /\ p[2] <= st[p[1]].files
      BY <1>1 DEF HeldOpen
    <3>2. st[p[1]].files = 0
      BY <2>1, <3>1 DEF FilesOf
    <3> QED
      BY <3>1, <3>2
  <2>2. \A p \in HeldOpen(st) : p[1] \in Nat
    BY <1>1 DEF HeldOpen
  <2> QED
    BY <2>1, <2>2
<1>4. HeldOpen(st) = Low \cup Row
  <2>1. ASSUME NEW p \in HeldOpen(st), p \notin Low
        PROVE  p \in Row
    <3>1. /\ p \in (1..Len(st)) \X (1..MaxFiles)
          /\ st[p[1]].kind = "stmt" /\ p[2] <= st[p[1]].files
      BY <1>1 DEF HeldOpen
    <3>2. p[1] = l
      BY <1>3, <2>1, <3>1
    <3>3. a = st[l].files
      BY <1>1, <3>1, <3>2 DEF FilesOf
    <3> QED
      BY <3>1, <3>2, <3>3
  <2>2. ASSUME NEW p \in Row
        PROVE  p \in HeldOpen(st)
    <3>1. p[1] = l /\ p[2] \in 1..a /\ p = <<p[1], p[2]>>
      OBVIOUS
    <3>2. a > 0
      BY <3>1
    <3>3. Len(st) >= l /\ st[l].kind = "stmt" /\ a = st[l].files
      BY <3>2 DEF FilesOf
    <3>4. l \in 1..Len(st) /\ p[2] \in 1..MaxFiles
      BY <1>1, <3>1, <3>3
    <3>5. p \in (DOMAIN st) \X (1..MaxFiles)
      BY <1>1, <3>1, <3>4
    <3> QED
      BY <3>1, <3>3, <3>5 DEF HeldOpen
  <2> QED
    BY <2>1, <2>2
<1>5. Low \cap Row = {}
  OBVIOUS
<1>6. IsFiniteSet(Row) /\ Cardinality(Row) = a
  BY RowSize
<1>7. IsFiniteSet(HeldOpen(st))
  <2>1. IsFiniteSet(1..Len(st)) /\ IsFiniteSet(1..MaxFiles)
    BY <1>1, FS_Interval
  <2>2. IsFiniteSet((1..Len(st)) \X (1..MaxFiles))
    BY <2>1, FS_Product
  <2>3. HeldOpen(st) \subseteq (1..Len(st)) \X (1..MaxFiles)
    BY <1>1 DEF HeldOpen
  <2> QED
    BY <2>2, <2>3, FS_Subset
<1>8. IsFiniteSet(Low) /\ Cardinality(Low) \in Nat
  BY <1>7, FS_Subset, FS_CardinalityType
<1>9. Cardinality(Low \cup Row) = Cardinality(Low) + Cardinality(Row) - Cardinality(Low \cap Row)
  BY <1>6, <1>8, FS_Union
<1>10. Cardinality(Low \cap Row) = 0
  BY <1>5, FS_EmptySet
<1>11. Cardinality(HeldOpen(st)) = Cardinality(Low) + a
  <2> HIDE DEF Low, Row
  <2>1. PICK c \in Nat : c = Cardinality(Low)
    BY <1>8
  <2>2. Cardinality(Low \cup Row) = c + a - 0
    BY <1>6, <1>9, <1>10, <2>1
  <2> QED
    BY <1>4, <2>1, <2>2
<1> QED
  BY <1>7, <1>8, <1>11

\* What is taken away and put back leaves the difference.
LEMMA MoveArith ==
  ASSUME NEW c \in Nat, NEW a \in Nat, NEW b \in Nat
  PROVE  (c + a) - a + b = c + b
OBVIOUS

\* Open files change with those of the innermost frame.
LEMMA FilesMove ==
  ASSUME TypeOK, stack # <<>>, FilesClosed, stack' \in Seq(Frames),
         NEW l \in Nat, l = Len(stack), Len(stack') >= l - 1,
         \A i \in 1..(l - 1) : FilesOf(stack'[i]) = FilesOf(stack[i]),
         \A i \in 1..Len(stack') : i > l => FilesOf(stack'[i]) = 0,
         open' = open - FilesOf(top) + (IF Len(stack') >= l THEN FilesOf(stack'[l]) ELSE 0)
  PROVE  FilesClosed' /\ open' \in Nat
<1> DEFINE Low(st) == {p \in HeldOpen(st) : p[1] < l}
<1>1. PICK a \in Nat : a = FilesOf(top) /\ a <= MaxFiles
  BY StackTop, FilesOfType
<1>2. Len(stack') \in Nat /\ l > 0 /\ MaxFiles \in Nat
  BY LenProperties, StackTop, InterpAssumption
<1>3. PICK b \in Nat : b = (IF Len(stack') >= l THEN FilesOf(stack'[l]) ELSE 0) /\ b <= MaxFiles
  <2>1. CASE Len(stack') >= l
    <3>1. stack'[l] \in Frames
      BY <1>2, <2>1
    <3> QED
      BY <2>1, <3>1, FilesOfType
  <2>2. CASE ~(Len(stack') >= l)
    BY <1>2, <2>2
  <2> QED
    BY <2>1, <2>2
<1>4. Cardinality(Low(stack)) \in Nat /\ Cardinality(HeldOpen(stack)) = Cardinality(Low(stack)) + a
  <2>1. stack \in Seq(Frames) /\ Len(stack) >= l - 1 /\ Len(stack) >= l
    BY DEF TypeOK
  <2>2. \A i \in 1..Len(stack) : i > l => FilesOf(stack[i]) = 0
    OBVIOUS
  <2>3. a = IF Len(stack) >= l THEN FilesOf(stack[l]) ELSE 0
    BY <1>1, <2>1 DEF top
  <2> QED
    BY <1>1, <1>2, <2>1, <2>2, <2>3, HeldSplit
<1>5. Cardinality(Low(stack')) \in Nat /\ Cardinality(HeldOpen(stack')) = Cardinality(Low(stack')) + b
  BY <1>2, <1>3, HeldSplit
<1>6. Low(stack') = Low(stack)
  <2>1. DOMAIN stack = 1..l /\ DOMAIN stack' = 1..Len(stack')
    BY StackTop, LenProperties
  <2>2. ASSUME NEW i \in 1..(l - 1), NEW j \in 1..MaxFiles
        PROVE  /\ i \in 1..l /\ i \in 1..Len(stack')
               /\ (stack'[i].kind = "stmt" /\ j <= stack'[i].files) <=>
                    (stack[i].kind = "stmt" /\ j <= stack[i].files)
    <3>1. i \in 1..l /\ i \in 1..Len(stack')
      BY <1>2
    <3>2. FilesOf(stack'[i]) = FilesOf(stack[i]) /\ ~(j <= 0)
      OBVIOUS
    <3> QED
      BY <3>1, <3>2 DEF FilesOf
  <2>3. \A p : p \in Low(stack') <=> p \in Low(stack)
    <3>1. ASSUME NEW p, p \in Low(stack')
          PROVE  p \in Low(stack)
      <4>1. /\ p \in (1..Len(stack')) \X (1..MaxFiles) /\ p[1] < l
            /\ stack'[p[1]].kind = "stmt" /\ p[2] <= stack'[p[1]].files
        BY <2>1, <3>1 DEF HeldOpen
      <4>2. p[1] \in 1..(l - 1) /\ p[2] \in 1..MaxFiles /\ p = <<p[1], p[2]>>
        BY <4>1
      <4> QED
        BY <2>1, <2>2, <4>1, <4>2 DEF HeldOpen
    <3>2. ASSUME NEW p, p \in Low(stack)
          PROVE  p \in Low(stack')
      <4>1. /\ p \in (1..l) \X (1..MaxFiles) /\ p[1] < l
            /\ stack[p[1]].kind = "stmt" /\ p[2] <= stack[p[1]].files
        BY <2>1, <3>2 DEF HeldOpen
      <4>2. p[1] \in 1..(l - 1) /\ p[2] \in 1..MaxFiles /\ p = <<p[1], p[2]>>
        BY <4>1
      <4> QED
        BY <2>1, <2>2, <4>1, <4>2 DEF HeldOpen
    <3> QED
      BY <3>1, <3>2
  <2> QED
    BY <2>3
<1>7. open = Cardinality(HeldOpen(stack))
  BY DEF FilesClosed, HeldOpen
<1>8. open' = Cardinality(HeldOpen(stack')) /\ open' \in Nat
  <2>1. PICK c \in Nat : c = Cardinality(Low(stack))
    BY <1>4
  <2>2. open = c + a /\ Cardinality(HeldOpen(stack')) = c + b
    BY <1>4, <1>5, <1>6, <1>7, <2>1
  <2>3. open' = open - a + b
    BY <1>1, <1>3
  <2>4. open' = (c + a) - a + b
    BY <2>2, <2>3
  <2>5. open' = c + b
    <3> HIDE DEF Low
    <3> QED
      BY <1>1, <1>3, <2>1, <2>4, MoveArith
  <2>6. c + b \in Nat
    BY <1>3, <2>1
  <2> QED
    BY <2>2, <2>5, <2>6
<1> QED
  BY <1>8 DEF FilesClosed, HeldOpen

-----------------------------------------------------------------------------
(* The operations on the stack and on the shells, as local steps *)

LEMMA BelowSeq ==
  ASSUME TypeOK, stack # <<>>
  PROVE  /\ below \in Seq(Frames) /\ Len(below) = Len(stack) - 1
         /\ \A i \in 1..(Len(stack) - 1) : below[i] = stack[i]
<1>1. PICK n \in Nat : n = Len(stack) /\ n > 0
  BY StackTop
<1>2. \A i \in 1..(n - 1) : stack[i] \in Frames
  BY <1>1, StackTop
<1>3. /\ SubSeq(stack, 1, n - 1) \in Seq(Frames)
      /\ Len(SubSeq(stack, 1, n - 1)) = IF 1 <= n - 1 THEN n - 1 - 1 + 1 ELSE 0
      /\ \A i \in 1..(n - 1 - 1 + 1) : SubSeq(stack, 1, n - 1)[i] = stack[1 + i - 1]
  BY <1>1, <1>2, SubSeqProperties
<1> QED
  BY <1>1, <1>3 DEF below

\* below \o fs, for any frames.
LEMMA SpliceBecomes ==
  ASSUME TypeOK, stack # <<>>, NEW fs \in Seq(Frames), stack' = below \o fs
  PROVE  Becomes(fs)
<1>1. PICK n \in Nat : n = Len(stack) /\ n > 0
  BY StackTop
<1>2. PICK m \in Nat : m = Len(fs)
  BY LenProperties
<1>3. below \in Seq(Frames) /\ Len(below) = n - 1 /\ \A i \in 1..(n - 1) : below[i] = stack[i]
  BY <1>1, BelowSeq
<1>4. /\ stack' \in Seq(Frames) /\ Len(stack') = n - 1 + m
      /\ \A i \in 1..(n - 1 + m) : stack'[i] = IF i <= n - 1 THEN below[i] ELSE fs[i - (n - 1)]
  <2>1. /\ below \o fs \in Seq(Frames) /\ Len(below \o fs) = Len(below) + Len(fs)
        /\ \A i \in 1..(Len(below) + Len(fs)) :
             (below \o fs)[i] = IF i <= Len(below) THEN below[i] ELSE fs[i - Len(below)]
    BY <1>3, ConcatProperties
  <2> QED
    BY <1>2, <1>3, <2>1
<1>5. \A i \in 1..(n - 1) : stack'[i] = stack[i]
  BY <1>1, <1>3, <1>4
<1>6. ASSUME NEW i \in n..(n - 1 + m)
      PROVE  stack'[i] = fs[i - n + 1]
  <2>1. i \in 1..(n - 1 + m) /\ ~(i <= n - 1) /\ i - (n - 1) = i - n + 1
    BY <1>1
  <2> QED
    BY <1>4, <2>1
<1> QED
  BY <1>1, <1>2, <1>4, <1>5, <1>6 DEF Becomes

LEMMA UpdateBecomes ==
  ASSUME TypeOK, stack # <<>>, NEW f \in Frames, Update(f)
  PROVE  Becomes(<<f>>)
<1>1. PICK n \in Nat : n = Len(stack) /\ n > 0
  BY StackTop
<1>2. below \in Seq(Frames) /\ Len(below) = n - 1 /\ \A i \in 1..(n - 1) : below[i] = stack[i]
  BY <1>1, BelowSeq
<1>3. /\ stack' \in Seq(Frames) /\ Len(stack') = n
      /\ \A i \in 1..(n - 1) : stack'[i] = stack[i]
      /\ stack'[n] = f
  BY <1>1, <1>2 DEF Update
<1>4. Len(<<f>>) = 1 /\ <<f>>[1] = f /\ n = n - 1 + 1 /\ n - n + 1 = 1
  BY <1>1
<1>5. \A i \in n..n : stack'[i] = <<f>>[i - n + 1]
  BY <1>1, <1>3, <1>4
<1> QED
  BY <1>1, <1>3, <1>4, <1>5 DEF Becomes

LEMMA SameBecomes ==
  ASSUME TypeOK, stack # <<>>, UNCHANGED stack
  PROVE  Becomes(<<top>>)
<1>1. PICK n \in Nat : n = Len(stack) /\ n > 0
  BY StackTop
<1>2. stack' \in Seq(Frames) /\ Len(stack') = n /\ stack'[n] = top
  BY <1>1 DEF TypeOK, top
<1>3. Len(<<top>>) = 1 /\ <<top>>[1] = top /\ n = n - 1 + 1 /\ n - n + 1 = 1
  BY <1>1
<1>4. \A i \in n..n : stack'[i] = <<top>>[i - n + 1]
  BY <1>1, <1>2, <1>3
<1> QED
  BY <1>1, <1>2, <1>3, <1>4 DEF Becomes

LEMMA PopBecomes ==
  ASSUME TypeOK, stack # <<>>, Pop
  PROVE  Becomes(<<>>)
<1>1. PICK n \in Nat : n = Len(stack) /\ n > 0
  BY StackTop
<1>2. /\ stack' \in Seq(Frames) /\ Len(stack') = n - 1
      /\ \A i \in 1..(n - 1) : stack'[i] = stack[i]
  BY <1>1, BelowSeq DEF Pop
<1>3. Len(<<>>) = 0 /\ n - 1 + 0 = n - 1
  BY <1>1, EmptySeq
<1> QED
  BY <1>1, <1>2, <1>3 DEF Becomes

LEMMA PushBecomes ==
  ASSUME TypeOK, stack # <<>>, NEW f \in Frames, Push(f)
  PROVE  Becomes(<<top, f>>)
<1>1. PICK n \in Nat : n = Len(stack) /\ n > 0
  BY StackTop
<1>2. stack \in Seq(Frames)
  BY DEF TypeOK
<1>3. /\ stack' \in Seq(Frames) /\ Len(stack') = n + 1
      /\ \A i \in 1..n : stack'[i] = stack[i]
      /\ stack'[n + 1] = f
  BY <1>1, <1>2 DEF Push
<1>4. /\ Len(<<top, f>>) = 2 /\ <<top, f>>[1] = top /\ <<top, f>>[2] = f
      /\ n + 1 = n - 1 + 2 /\ n - n + 1 = 1 /\ (n + 1) - n + 1 = 2
  BY <1>1
<1>5. stack'[n] = top
  BY <1>1, <1>3 DEF top
<1>6. \A i \in n..(n + 1) : stack'[i] = <<top, f>>[i - n + 1]
  <2>1. \A i \in n..(n + 1) : i = n \/ i = n + 1
    BY <1>1
  <2> QED
    BY <1>1, <1>3, <1>4, <1>5, <2>1
<1> QED
  BY <1>1, <1>3, <1>4, <1>6 DEF Becomes

LEMMA ChangeInner ==
  ASSUME TypeOK, CallsInv, NEW t \in Shell, Change(t)
  PROVE  Inner(t)
<1>1. PICK n \in Nat : n = Len(shells) /\ n > 0
  BY ShellTop
<1>2. \A i \in 1..(n - 1) : shells[i] \in Shell
  BY <1>1, ShellTop
<1>3. /\ SubSeq(shells, 1, n - 1) \in Seq(Shell)
      /\ Len(SubSeq(shells, 1, n - 1)) = IF 1 <= n - 1 THEN n - 1 - 1 + 1 ELSE 0
      /\ \A i \in 1..(n - 1 - 1 + 1) : SubSeq(shells, 1, n - 1)[i] = shells[1 + i - 1]
  BY <1>1, <1>2, SubSeqProperties
<1>4. /\ outer \in Seq(Shell) /\ Len(outer) = n - 1
      /\ \A i \in 1..(n - 1) : outer[i] = shells[i]
  BY <1>1, <1>3 DEF outer
<1>5. /\ shells' \in Seq(Shell) /\ Len(shells') = n
      /\ \A i \in 1..(n - 1) : shells'[i] = shells[i]
      /\ shells'[n] = t
  BY <1>1, <1>4 DEF Change
<1> QED
  BY <1>1, <1>5 DEF Inner

LEMMA SameInner ==
  ASSUME TypeOK, CallsInv, UNCHANGED shells
  PROVE  Inner(s) /\ s \in Shell
BY ShellTop DEF Inner, TypeOK, s

-----------------------------------------------------------------------------
(* What a local step keeps *)

\* The part of TypeOK that is about neither the stack nor the shells.
ScalarsOK ==
  /\ ret \in [code : Status, err : Err \cup {"pending"}, ran : BOOLEAN]
  /\ steps \in 0..MaxSteps /\ canceled \in BOOLEAN /\ runs \in 0..MaxRuns
  /\ exited \in BOOLEAN /\ raised \in {"none"} \cup Failure /\ quit \subseteq Status

LEMMA TypeNext ==
  ASSUME stack' \in Seq(Frames), shells' \in Seq(Shell), CallsInv', open' \in Nat, ScalarsOK'
  PROVE  TypeOK'
<1>1. DOMAIN stack' = 1..Len(stack')
  BY LenProperties
<1> QED
  BY <1>1 DEF TypeOK, CallsInv, ShellAt, Count, ScalarsOK

LEMMA LocalStep ==
  ASSUME StackInv, Len(stack) > 1, top.kind \in Plain, NEW fs \in Seq(Frames), Becomes(fs),
         AllPlain(fs), Fits(fs), NEW t \in Shell, Inner(t), t.depth = s.depth, t.args = s.args,
         \A j \in 1..Len(fs) : fs[j].kind = "stmt" => StmtOK(fs[j], t),
         \A j \in 2..Len(fs) : FilesOf(fs[j]) = 0,
         open' = open - FilesOf(top) + (IF Len(fs) > 0 THEN FilesOf(fs[1]) ELSE 0),
         ScalarsOK'
  PROVE  StackInv'
<1>1. TypeOK /\ ShapeInv /\ CallsInv /\ StmtInv /\ FilesClosed
  BY DEF StackInv
<1>2. ShapeInv'
  BY <1>1, LocalShape
<1>3. CallsInv'
  BY <1>1, LocalCalls
<1>4. StmtInv'
  BY <1>1, LocalStmts
<1>5. stack' \in Seq(Frames) /\ shells' \in Seq(Shell)
  BY DEF Becomes, Inner
<1>6. FilesClosed' /\ open' \in Nat
  <2>1. PICK l \in Nat : l = Len(stack) /\ l > 1
    BY <1>1, LenProperties DEF TypeOK
  <2>2. PICK m \in Nat : m = Len(fs)
    BY LenProperties
  <2>3. /\ Len(stack') = l - 1 + m
        /\ \A i \in 1..(l - 1) : stack'[i] = stack[i]
        /\ \A i \in l..(l - 1 + m) : stack'[i] = fs[i - l + 1]
    BY <2>1, <2>2 DEF Becomes
  <2>4. \A i \in 1..(l - 1) : FilesOf(stack'[i]) = FilesOf(stack[i])
    BY <2>3
  <2>5. \A i \in 1..Len(stack') : i > l => FilesOf(stack'[i]) = 0
    <3>1. ASSUME NEW i \in 1..Len(stack'), i > l
          PROVE  FilesOf(stack'[i]) = 0
      <4>1. i \in l..(l - 1 + m) /\ i - l + 1 \in 2..m
        BY <2>1, <2>2, <2>3, <3>1
      <4> QED
        BY <2>2, <2>3, <4>1
    <3> QED
      BY <3>1
  <2>6. (IF Len(fs) > 0 THEN FilesOf(fs[1]) ELSE 0)
          = (IF Len(stack') >= l THEN FilesOf(stack'[l]) ELSE 0)
    <3>1. CASE m > 0
      <4>1. l \in l..(l - 1 + m) /\ l - l + 1 = 1 /\ l - 1 + m >= l
        BY <2>1, <2>2, <3>1
      <4>2. stack'[l] = fs[1]
        BY <2>3, <4>1
      <4> QED
        BY <2>2, <2>3, <3>1, <4>1, <4>2
    <3>2. CASE m = 0
      BY <2>1, <2>2, <2>3, <3>2
    <3> QED
      BY <3>1, <3>2
  <2>7. stack # <<>> /\ Len(stack') >= l - 1
    BY <2>1, <2>2, <2>3, EmptySeq
  <2>8. open' = open - FilesOf(top) + (IF Len(stack') >= l THEN FilesOf(stack'[l]) ELSE 0)
    BY <2>6
  <2> QED
    BY <1>1, <1>5, <2>1, <2>4, <2>5, <2>7, <2>8, FilesMove
<1>7. TypeOK'
  BY <1>3, <1>5, <1>6, TypeNext
<1> QED
  BY <1>2, <1>3, <1>4, <1>6, <1>7 DEF StackInv

\* The innermost call goes on, or is replaced.
LEMMA UpdateStep ==
  ASSUME StackInv, stack # <<>>, top.kind \in Plain \ {"run"}, NEW f \in Frames, Becomes(<<f>>),
         f.kind \in Plain, MadeBy(stack[Len(stack) - 1], f),
         NEW t \in Shell, Inner(t), t.depth = s.depth, t.args = s.args,
         f.kind = "stmt" => StmtOK(f, t),
         open' = open - FilesOf(top) + FilesOf(f), ScalarsOK'
  PROVE  StackInv'
<1> DEFINE fs == <<f>>
<1>1. fs \in Seq(Frames) /\ Len(fs) = 1 /\ fs[1] = f /\ fs # <<>>
  BY EmptySeq
<1>2. Becomes(fs)
  OBVIOUS
<1> HIDE DEF fs
<1>3. AllPlain(fs)
  BY <1>1 DEF AllPlain
<1>4. Fits(fs)
  BY <1>1 DEF Fits
<1>5. \A j \in 1..Len(fs) : fs[j].kind = "stmt" => StmtOK(fs[j], t)
  BY <1>1
<1>6. Len(fs) > 0 /\ \A j \in 2..Len(fs) : FilesOf(fs[j]) = 0
  BY <1>1
<1>7. Len(stack) > 1
  BY Above DEF StackInv
<1>8. open' = open - FilesOf(top) + (IF Len(fs) > 0 THEN FilesOf(fs[1]) ELSE 0)
  BY <1>1, <1>6
<1> QED
  BY <1>1, <1>2, <1>3, <1>4, <1>5, <1>6, <1>7, <1>8, LocalStep

\* The innermost call ends.
LEMMA PopStep ==
  ASSUME StackInv, stack # <<>>, top.kind \in Plain \ {"run"}, Becomes(<<>>),
         NEW t \in Shell, Inner(t), t.depth = s.depth, t.args = s.args,
         open' = open - FilesOf(top), ScalarsOK'
  PROVE  StackInv'
<1> DEFINE fs == <<>>
<1>1. fs \in Seq(Frames) /\ Len(fs) = 0 /\ fs = <<>>
  BY EmptySeq
<1>2. Becomes(fs)
  OBVIOUS
<1> HIDE DEF fs
<1>3. AllPlain(fs)
  BY <1>1 DEF AllPlain
<1>4. Fits(fs)
  BY <1>1 DEF Fits
<1>5. \A j \in 1..Len(fs) : fs[j].kind = "stmt" => StmtOK(fs[j], t)
  BY <1>1
<1>6. \A j \in 2..Len(fs) : FilesOf(fs[j]) = 0
  BY <1>1
<1>7. Len(stack) > 1
  BY Above DEF StackInv
<1>8. open' = open - FilesOf(top) + (IF Len(fs) > 0 THEN FilesOf(fs[1]) ELSE 0)
  <2>1. top \in Frames /\ open \in Nat
    BY StackTop DEF StackInv, TypeOK
  <2>2. FilesOf(top) \in Nat
    BY <2>1, FilesOfType
  <2> QED
    BY <1>1, <2>1, <2>2
<1> QED
  BY <1>1, <1>2, <1>3, <1>4, <1>5, <1>6, <1>7, <1>8, LocalStep

\* It makes a call of its own.
LEMMA PushStep ==
  ASSUME StackInv, stack # <<>>, top.kind \in Plain \ {"run"},
         NEW f \in Frames, NEW g \in Frames, Becomes(<<f, g>>), f.kind \in Plain, g.kind \in Plain,
         MadeBy(stack[Len(stack) - 1], f), MadeBy(f, g),
         NEW t \in Shell, Inner(t), t.depth = s.depth, t.args = s.args,
         f.kind = "stmt" => StmtOK(f, t), g.kind = "stmt" => StmtOK(g, t),
         open' = open - FilesOf(top) + FilesOf(f), FilesOf(g) = 0, ScalarsOK'
  PROVE  StackInv'
<1> DEFINE fs == <<f, g>>
<1>1. fs \in Seq(Frames) /\ Len(fs) = 2 /\ fs[1] = f /\ fs[2] = g /\ fs # <<>>
  BY EmptySeq
<1>2. Becomes(fs)
  OBVIOUS
<1> HIDE DEF fs
<1>3. AllPlain(fs)
  BY <1>1 DEF AllPlain
<1>4. Fits(fs)
  BY <1>1 DEF Fits
<1>5. \A j \in 1..Len(fs) : fs[j].kind = "stmt" => StmtOK(fs[j], t)
  BY <1>1
<1>6. Len(fs) > 0 /\ \A j \in 2..Len(fs) : FilesOf(fs[j]) = 0
  BY <1>1
<1>7. Len(stack) > 1
  BY Above DEF StackInv
<1>8. open' = open - FilesOf(top) + (IF Len(fs) > 0 THEN FilesOf(fs[1]) ELSE 0)
  BY <1>1, <1>6
<1> QED
  BY <1>1, <1>2, <1>3, <1>4, <1>5, <1>6, <1>7, <1>8, LocalStep

\* Two calls, one within the other.
LEMMA PushTwoStep ==
  ASSUME StackInv, stack # <<>>, top.kind \in Plain \ {"run"},
         NEW f \in Frames, NEW g \in Frames, NEW h \in Frames, Becomes(<<f, g, h>>),
         f.kind \in Plain, g.kind \in Plain \ {"stmt"}, h.kind \in Plain \ {"stmt"},
         MadeBy(stack[Len(stack) - 1], f), MadeBy(f, g), MadeBy(g, h),
         NEW t \in Shell, Inner(t), t.depth = s.depth, t.args = s.args,
         f.kind = "stmt" => StmtOK(f, t),
         open' = open - FilesOf(top) + FilesOf(f), ScalarsOK'
  PROVE  StackInv'
<1> DEFINE fs == <<f, g, h>>
<1>1. fs \in Seq(Frames) /\ Len(fs) = 3 /\ fs[1] = f /\ fs[2] = g /\ fs[3] = h /\ fs # <<>>
  BY EmptySeq
<1>2. Becomes(fs)
  OBVIOUS
<1> HIDE DEF fs
<1>3. AllPlain(fs)
  BY <1>1 DEF AllPlain
<1>4. Fits(fs)
  BY <1>1 DEF Fits
<1>5. \A j \in 1..Len(fs) : fs[j].kind = "stmt" => StmtOK(fs[j], t)
  BY <1>1
<1>6. Len(fs) > 0 /\ \A j \in 2..Len(fs) : FilesOf(fs[j]) = 0
  BY <1>1 DEF FilesOf
<1>7. Len(stack) > 1
  BY Above DEF StackInv
<1>8. open' = open - FilesOf(top) + (IF Len(fs) > 0 THEN FilesOf(fs[1]) ELSE 0)
  BY <1>1, <1>6
<1> QED
  BY <1>1, <1>2, <1>3, <1>4, <1>5, <1>6, <1>7, <1>8, LocalStep

-----------------------------------------------------------------------------
(* A statement f makes a call g that works on a shell t of its own *)

Extended(t) ==
  /\ shells' \in Seq(Shell) /\ Len(shells') = Len(shells) + 1
  /\ \A i \in 1..Len(shells) : shells'[i] = shells[i]
  /\ shells'[Len(shells) + 1] = t

LEMMA AppendExtended ==
  ASSUME TypeOK, NEW t \in Shell, shells' = Append(shells, t)
  PROVE  Extended(t)
<1>1. shells \in Seq(Shell) /\ Len(shells) \in Nat
  BY LenProperties DEF TypeOK
<1> QED
  BY <1>1 DEF Extended

LEMMA EnterStep ==
  ASSUME StackInv, stack # <<>>, top.kind = "stmt",
         NEW f \in Frames, NEW g \in Frames, NEW h \in Frames, Becomes(<<f, g, h>>),
         f.kind = "stmt", g.kind \in Clones, h.kind = "list", MadeBy(f, g), MadeBy(g, h),
         StmtOK(f, s), FilesOf(f) = FilesOf(top),
         NEW t \in Shell, Extended(t),
         t.depth = IF g.kind \in Calls THEN s.depth + 1 ELSE s.depth,
         t.args = IF g.kind = "bash" THEN g.mine ELSE s.args,
         open' = open, ScalarsOK'
  PROVE  StackInv'
<1> DEFINE fs == <<f, g, h>>
<1>1. fs \in Seq(Frames) /\ Len(fs) = 3 /\ fs[1] = f /\ fs[2] = g /\ fs[3] = h /\ fs # <<>>
  BY EmptySeq
<1>2. Becomes(fs)
  OBVIOUS
<1> HIDE DEF fs
<1>3. TypeOK /\ ShapeInv /\ CallsInv /\ StmtInv /\ FilesClosed
  BY DEF StackInv
<1>4. Len(stack) > 1 /\ MadeBy(stack[Len(stack) - 1], top)
  BY <1>3, Above
<1>5. PICK l \in Nat : l = Len(stack) /\ l > 1
  BY <1>3, <1>4, LenProperties DEF TypeOK
<1>6. /\ stack' \in Seq(Frames) /\ Len(stack') = l + 2
      /\ \A i \in 1..(l - 1) : stack'[i] = stack[i]
      /\ stack'[l] = f /\ stack'[l + 1] = g /\ stack'[l + 2] = h
  <2>1. /\ stack' \in Seq(Frames) /\ Len(stack') = l - 1 + 3
        /\ \A i \in 1..(l - 1) : stack'[i] = stack[i]
        /\ \A i \in l..(l - 1 + 3) : stack'[i] = fs[i - l + 1]
    BY <1>1, <1>2, <1>5 DEF Becomes
  <2>2. /\ l \in l..(l - 1 + 3) /\ l + 1 \in l..(l - 1 + 3) /\ l + 2 \in l..(l - 1 + 3)
        /\ l - l + 1 = 1 /\ (l + 1) - l + 1 = 2 /\ (l + 2) - l + 1 = 3 /\ l - 1 + 3 = l + 2
    BY <1>5
  <2>3. stack'[l] = fs[1] /\ stack'[l + 1] = fs[2] /\ stack'[l + 2] = fs[3]
    BY <2>1, <2>2
  <2> QED
    BY <1>1, <2>1, <2>2, <2>3
<1>7. ShapeInv'
  <2>1. MadeBy(stack[Len(stack) - 1], f)
    BY <1>4 DEF MadeBy
  <2>2. Fits(fs)
    BY <1>1, <2>1 DEF Fits
  <2> QED
    BY <1>1, <1>2, <1>3, <1>4, <2>2, LocalShape
<1>8. /\ stack[l].kind = "stmt" /\ "stmt" \notin Clones /\ "stmt" \notin Calls /\ "stmt" \notin Own
      /\ "list" \notin Clones /\ "list" \notin Calls /\ "list" \notin Own
  BY <1>5, Kinds DEF top, Plain
<1>9. \A i \in 1..l : /\ stack'[i].kind = stack[i].kind
                      /\ stack[i].kind \in Own => stack'[i].mine = stack[i].mine
  <2>1. \A i \in 1..l : i = l \/ i \in 1..(l - 1)
    BY <1>5
  <2>2. stack'[l].kind = stack[l].kind /\ stack[l].kind \notin Own
    BY <1>6, <1>8
  <2> QED
    BY <1>6, <2>1, <2>2
<1>10. \A n \in 0..l : /\ Count(stack', Clones, n) = Count(stack, Clones, n)
                       /\ Count(stack', Calls, n) = Count(stack, Calls, n)
  <2>1. ASSUME NEW n \in 0..l
        PROVE  /\ Count(stack', Clones, n) = Count(stack, Clones, n)
               /\ Count(stack', Calls, n) = Count(stack, Calls, n)
    <3>1. n \in Nat /\ \A i \in 1..n : stack'[i].kind = stack[i].kind
      BY <1>5, <1>9
    <3>2. \A i \in 1..n : stack'[i].kind \in Clones <=> stack[i].kind \in Clones
      BY <3>1
    <3>3. \A i \in 1..n : stack'[i].kind \in Calls <=> stack[i].kind \in Calls
      BY <3>1
    <3> QED
      BY <3>1, <3>2, <3>3, CountSame
  <2> QED
    BY <2>1
<1>11. /\ Count(stack', Clones, l + 2) = Count(stack, Clones, l) + 1
       /\ Count(stack', Calls, l + 2) =
            IF g.kind \in Calls THEN Count(stack, Calls, l) + 1 ELSE Count(stack, Calls, l)
  <2>1. l \in 0..l /\ l + 1 \in Nat /\ l + 2 \in Nat /\ l + 1 <= l + 2 /\ l <= l + 2
    BY <1>5
  <2>2. Count(stack', Clones, l + 1) = Count(stack', Clones, l) + 1
    BY <1>5, <1>6, CountNext
  <2>3. \A i \in (l + 1 + 1)..(l + 2) : i = l + 2
    BY <1>5
  <2>4. \A i \in (l + 1 + 1)..(l + 2) : stack'[i].kind \notin Clones /\ stack'[i].kind \notin Calls
    BY <1>6, <1>8, <2>3
  <2>5. Count(stack', Clones, l + 2) = Count(stack', Clones, l + 1)
    BY <2>1, <2>4, CountFlat
  <2>6. Count(stack', Calls, l + 2) = Count(stack', Calls, l + 1)
    BY <2>1, <2>4, CountFlat
  <2>7. CASE g.kind \in Calls
    <3>1. Count(stack', Calls, l + 1) = Count(stack', Calls, l) + 1
      BY <1>5, <1>6, <2>7, CountNext
    <3> QED
      BY <1>10, <2>1, <2>2, <2>5, <2>6, <2>7, <3>1
  <2>8. CASE g.kind \notin Calls
    <3>1. \A i \in (l + 1)..(l + 1) : i = l + 1
      BY <1>5
    <3>2. \A i \in (l + 1)..(l + 1) : stack'[i].kind \notin Calls
      BY <1>6, <2>8, <3>1
    <3>3. l <= l + 1
      BY <1>5
    <3>4. Count(stack', Calls, l + 1) = Count(stack', Calls, l)
      BY <1>5, <2>1, <3>2, <3>3, CountFlat
    <3> QED
      BY <1>10, <2>1, <2>2, <2>5, <2>6, <2>8, <3>4
  <2> QED
    BY <2>7, <2>8
<1>12. PICK k \in Nat : /\ k = Len(shells) /\ k > 0 /\ Len(shells') = k + 1 /\ shells'[k + 1] = t
                        /\ \A i \in 1..k : shells'[i] = shells[i]
  BY <1>3, ShellTop DEF Extended
<1>13. ShellAt(stack, l) = k /\ shells[k] = s
  BY <1>3, <1>5, <1>12 DEF CallsInv, s
<1>14. \A n \in 0..l : /\ ShellAt(stack', n) = ShellAt(stack, n) /\ ShellAt(stack, n) \in 1..k
                       /\ shells'[ShellAt(stack', n)] = shells[ShellAt(stack, n)]
  <2>1. \A n \in 0..l : ShellAt(stack, n) \in 1..k
    BY <1>3, <1>5, <1>12, ShellRange
  <2>2. \A n \in 0..l : ShellAt(stack', n) = ShellAt(stack, n)
    BY <1>10 DEF ShellAt
  <2> QED
    BY <1>12, <2>1, <2>2
<1>15. ShellAt(stack', l + 2) = k + 1
  <2>1. Count(stack, Clones, l) \in Nat
    BY <1>5, CountType
  <2> QED
    BY <1>11, <1>13, <2>1 DEF ShellAt
<1>16. CallsInv'
  <2>1. ASSUME NEW n \in 0..(l + 2), EndsAt(stack', n)
        PROVE  /\ shells'[ShellAt(stack', n)].depth = Count(stack', Calls, n)
               /\ ArgsAt(stack', n, shells'[ShellAt(stack', n)].args)
    <3>1. CASE n \in 0..l
      <4>1. n \in Nat /\ n \in 0..Len(stack) /\ (n = l \/ n + 1 \in 1..l)
        BY <1>5, <3>1
      <4>2. EndsAt(stack, n)
        <5>1. CASE n = l
          BY <1>5, <5>1 DEF EndsAt
        <5>2. CASE n + 1 \in 1..l
          <6>1. n # l + 2
            BY <1>5, <5>2, <4>1
          <6>2. stack'[n + 1].kind \in Clones
            BY <1>6, <2>1, <6>1 DEF EndsAt
          <6> QED
            BY <1>9, <5>2, <6>2 DEF EndsAt
        <5> QED
          BY <4>1, <5>1, <5>2
      <4>3. /\ shells[ShellAt(stack, n)].depth = Count(stack, Calls, n)
            /\ ArgsAt(stack, n, shells[ShellAt(stack, n)].args)
        BY <1>3, <4>1, <4>2 DEF CallsInv
      <4>4. \A i \in 1..n : /\ stack'[i].kind = stack[i].kind
                            /\ stack[i].kind \in Own => stack'[i].mine = stack[i].mine
        BY <1>5, <1>9, <3>1
      <4>5. ArgsAt(stack', n, shells[ShellAt(stack, n)].args)
        BY <4>1, <4>3, <4>4, ArgsKept
      <4> QED
        BY <1>10, <1>14, <3>1, <4>3, <4>5
    <3>2. CASE n = l + 1
      <4>1. n # l + 2 /\ n + 1 = l + 2
        BY <1>5, <3>2
      <4> QED
        BY <1>6, <1>8, <2>1, <4>1 DEF EndsAt
    <3>3. CASE n = l + 2
      <4>1. l \in 0..Len(stack) /\ EndsAt(stack, l)
        BY <1>5 DEF EndsAt
      <4>2. s.depth = Count(stack, Calls, l) /\ ArgsAt(stack, l, s.args)
        BY <1>3, <1>13, <4>1 DEF CallsInv
      <4>3. t.depth = Count(stack', Calls, l + 2)
        BY <1>11, <4>2
      <4>4. ArgsAt(stack', l + 2, t.args)
        <5>1. CASE g.kind = "bash"
          <6>1. l + 1 \in 1..(l + 2) /\ stack'[l + 1].kind \in Own /\ t.args = stack'[l + 1].mine
            BY <1>5, <1>6, <5>1, Kinds
          <6>2. \A j \in 1..(l + 2) : j = l + 2 \/ j <= l + 1
            BY <1>5
          <6>3. stack'[l + 2].kind \notin Own
            BY <1>6, <1>8
          <6>4. \A j \in 1..(l + 2) : stack'[j].kind \in Own => j <= l + 1
            BY <6>2, <6>3
          <6> QED
            BY <6>1, <6>4 DEF ArgsAt
        <5>2. CASE g.kind # "bash"
          <6>1. g.kind \notin Own
            BY <5>2, Kinds DEF Own, Clones
          <6>2. \A i \in (l + 1)..(l + 2) : i = l + 1 \/ i = l + 2
            BY <1>5
          <6>3. \A i \in (l + 1)..(l + 2) : stack'[i].kind \notin Own
            BY <1>6, <1>8, <6>1, <6>2
          <6>4. l + 2 \in Nat /\ l <= l + 2
            BY <1>5
          <6>5. ArgsAt(stack', l + 2, s.args)
            <7>1. PICK m \in Nat : m = l + 2
              BY <6>4
            <7>2. l <= m /\ \A i \in (l + 1)..m : stack'[i].kind \notin Own
              BY <6>3, <6>4, <7>1
            <7>3. ArgsAt(stack', m, s.args)
              BY <1>9, <4>2, <7>2, ArgsSame
            <7> QED
              BY <7>1, <7>3
          <6> QED
            BY <5>2, <6>5
        <5> QED
          BY <5>1, <5>2
      <4> QED
        BY <1>12, <1>15, <3>3, <4>3, <4>4
    <3> QED
      BY <1>5, <3>1, <3>2, <3>3
  <2>2. ASSUME NEW i \in 1..(l + 2), stack'[i].kind = "func"
        PROVE  ArgsAt(stack', i - 1, stack'[i].old)
    <3>1. i < l
      <4>1. i < l \/ i = l \/ i = l + 1 \/ i = l + 2
        BY <1>5
      <4>2. g.kind # "func"
        BY DEF Clones
      <4> QED
        BY <1>6, <2>2, <4>1, <4>2
    <3>2. PICK j \in Nat : j = i - 1 /\ j < l
      BY <1>5, <3>1
    <3>3. i \in 1..(l - 1) /\ i \in 1..Len(stack)
      BY <1>5, <3>1
    <3>4. stack'[i] = stack[i]
      BY <1>6, <3>3
    <3>5. PICK a : a = stack[i].old
      OBVIOUS
    <3>6. ArgsAt(stack, j, a)
      BY <1>3, <2>2, <3>2, <3>3, <3>4, <3>5 DEF CallsInv
    <3>7. \A x \in 1..j : /\ stack'[x].kind = stack[x].kind
                          /\ stack[x].kind \in Own => stack'[x].mine = stack[x].mine
      BY <1>5, <1>9, <3>2
    <3>8. ArgsAt(stack', j, a)
      BY <3>6, <3>7, ArgsKept
    <3> QED
      BY <3>2, <3>4, <3>5, <3>8
  <2> QED
    BY <1>6, <1>12, <1>15, <2>1, <2>2 DEF CallsInv
<1>17. StmtInv'
  <2>1. ASSUME NEW i \in 1..(l + 2), stack'[i].kind = "stmt"
        PROVE  StmtOK(stack'[i], shells'[ShellAt(stack', i)])
    <3>1. CASE i < l
      <4>1. i \in 1..(l - 1) /\ i \in 0..l /\ i \in 1..Len(stack)
        BY <1>5, <3>1
      <4>2. stack'[i] = stack[i] /\ StmtOK(stack[i], shells[ShellAt(stack, i)])
        BY <1>3, <1>6, <2>1, <4>1 DEF StmtInv
      <4> QED
        BY <1>14, <4>1, <4>2
    <3>2. CASE i = l
      <4>1. l \in 0..l
        BY <1>5
      <4>2. shells'[ShellAt(stack', l)] = s
        BY <1>13, <1>14, <4>1
      <4> QED
        BY <1>6, <3>2, <4>2
    <3>3. CASE i = l + 1
      BY <1>6, <1>8, <2>1, <3>3
    <3>4. CASE i = l + 2
      BY <1>6, <2>1, <3>4
    <3> QED
      BY <1>5, <3>1, <3>2, <3>3, <3>4
  <2> QED
    BY <1>6, <2>1 DEF StmtInv
<1>18. FilesClosed' /\ open' \in Nat
  <2>1. \A i \in 1..(l - 1) : FilesOf(stack'[i]) = FilesOf(stack[i])
    BY <1>6
  <2>2. \A i \in 1..(l + 2) : i > l => i = l + 1 \/ i = l + 2
    BY <1>5
  <2>3. FilesOf(g) = 0 /\ FilesOf(h) = 0
    BY <1>8 DEF FilesOf
  <2>4. \A i \in 1..Len(stack') : i > l => FilesOf(stack'[i]) = 0
    BY <1>6, <2>2, <2>3
  <2>5. l + 2 >= l /\ l + 2 >= l - 1 /\ FilesOf(top) \in Nat /\ open \in Nat
    BY <1>3, <1>5, StackTop, FilesOfType DEF TypeOK
  <2>6. open' = open - FilesOf(top) + FilesOf(stack'[l])
    BY <1>6, <2>5
  <2>7. open' = open - FilesOf(top) + (IF Len(stack') >= l THEN FilesOf(stack'[l]) ELSE 0)
    BY <1>6, <2>5, <2>6
  <2> QED
    BY <1>3, <1>5, <1>6, <2>1, <2>4, <2>5, <2>7, FilesMove
<1>19. TypeOK'
  <2>1. shells' \in Seq(Shell)
    BY DEF Extended
  <2> QED
    BY <1>6, <1>16, <1>18, <2>1, TypeNext
<1> QED
  BY <1>7, <1>16, <1>17, <1>18, <1>19 DEF StackInv

\* That call ends: the shell below it is t, and its statement f.
Shortened(f, t) ==
  /\ stack' \in Seq(Frames) /\ Len(stack') = Len(stack) - 1
  /\ \A i \in 1..(Len(stack) - 2) : stack'[i] = stack[i]
  /\ stack'[Len(stack) - 1] = f
  /\ shells' \in Seq(Shell) /\ Len(shells') = Len(shells) - 1
  /\ \A i \in 1..(Len(shells) - 2) : shells'[i] = shells[i]
  /\ shells'[Len(shells) - 1] = t

\* It was made by a statement, which works on the shell before the last.
LEMMA Caller ==
  ASSUME StackInv, stack # <<>>, top.kind \in Clones
  PROVE  /\ Len(stack) \in Nat /\ Len(stack) > 2 /\ Len(shells) \in Nat /\ Len(shells) > 1
         /\ stack[Len(stack) - 1].kind = "stmt" /\ stack[Len(stack) - 1] \in Statements
         /\ MadeBy(stack[Len(stack) - 1], top)
         /\ ShellAt(stack, Len(stack) - 1) = Len(shells) - 1
         /\ StmtOK(stack[Len(stack) - 1], shells[Len(shells) - 1])
<1>1. TypeOK /\ ShapeInv /\ CallsInv /\ StmtInv
  BY DEF StackInv
<1>2. top.kind # "run"
  BY DEF Clones
<1>3. PICK l \in Nat : l = Len(stack) /\ l > 1
  BY <1>1, <1>2, Above, StackTop
<1>4. MadeBy(stack[l - 1], top)
  BY <1>1, <1>2, <1>3, Above
<1>5. stack[l - 1].kind = "stmt"
  BY <1>4 DEF MadeBy, Clones
<1>6. l > 2
  <2>1. l # 2
    BY <1>1, <1>3, <1>5 DEF ShapeInv
  <2> QED
    BY <1>3, <2>1
<1>7. l - 1 \in 1..Len(stack) /\ l - 1 \in Nat
  BY <1>3
<1>8. stack[l - 1] \in Statements
  BY <1>1, <1>5, <1>7, FrameKind, StackTop
<1>9. Count(stack, Clones, l - 1 + 1) = Count(stack, Clones, l - 1) + 1
  <2>1. l - 1 + 1 = l
    BY <1>3
  <2>2. stack[l - 1 + 1].kind \in Clones
    BY <1>3, <2>1 DEF top
  <2> QED
    BY <1>7, <2>2, CountNext
<1>10. Count(stack, Clones, l - 1) \in Nat
  BY <1>7, CountType
<1>11. Len(shells) = 1 + Count(stack, Clones, l)
  BY <1>1, <1>3 DEF CallsInv, ShellAt
<1>12. /\ Len(shells) = 2 + Count(stack, Clones, l - 1)
       /\ ShellAt(stack, l - 1) = 1 + Count(stack, Clones, l - 1)
  <2>1. l - 1 + 1 = l
    BY <1>3
  <2> QED
    BY <1>9, <1>10, <1>11, <2>1 DEF ShellAt
<1>13. Len(shells) \in Nat /\ Len(shells) > 1 /\ ShellAt(stack, l - 1) = Len(shells) - 1
  BY <1>10, <1>12
<1>14. StmtOK(stack[l - 1], shells[Len(shells) - 1])
  BY <1>1, <1>5, <1>7, <1>13 DEF StmtInv
<1> QED
  BY <1>3, <1>4, <1>5, <1>6, <1>8, <1>13, <1>14

LEMMA LeaveStep ==
  ASSUME StackInv, stack # <<>>, top.kind \in Clones, NEW f \in Frames, NEW t \in Shell,
         Shortened(f, t), f.kind = "stmt", FilesOf(f) = FilesOf(stack[Len(stack) - 1]),
         t.depth = shells[Len(shells) - 1].depth, t.args = shells[Len(shells) - 1].args,
         StmtOK(f, t), open' = open, ScalarsOK'
  PROVE  StackInv'
<1>1. TypeOK /\ ShapeInv /\ CallsInv /\ StmtInv /\ FilesClosed
  BY DEF StackInv
<1>2. PICK l \in Nat : l = Len(stack) /\ l > 2
  BY Caller
<1>3. PICK k \in Nat : k = Len(shells) /\ k > 1
  BY Caller
<1>4. /\ stack' \in Seq(Frames) /\ Len(stack') = l - 1 /\ stack'[l - 1] = f
      /\ \A i \in 1..(l - 2) : stack'[i] = stack[i]
      /\ shells' \in Seq(Shell) /\ Len(shells') = k - 1 /\ shells'[k - 1] = t
      /\ \A i \in 1..(k - 2) : shells'[i] = shells[i]
  BY <1>2, <1>3 DEF Shortened
<1>5. stack[l - 1].kind = "stmt" /\ ShellAt(stack, l - 1) = k - 1
  BY <1>2, <1>3, Caller
<1>6. \A i \in 1..(l - 1) : /\ stack'[i].kind = stack[i].kind
                            /\ stack[i].kind \in Own => stack'[i].mine = stack[i].mine
                            /\ i = l - 1 \/ (i \in 1..(l - 2) /\ stack'[i] = stack[i])
  <2>1. \A i \in 1..(l - 1) : i = l - 1 \/ i \in 1..(l - 2)
    BY <1>2
  <2>2. "stmt" \notin Own
    BY DEF Own
  <2> QED
    BY <1>4, <1>5, <2>1, <2>2
<1>7. ShapeInv'
  <2>1. stack'[1].kind = "run"
    BY <1>1, <1>2, <1>4, EmptySeq DEF ShapeInv
  <2>2. ASSUME NEW i \in 1..(l - 1 - 1)
        PROVE  MadeBy(stack'[i], stack'[i + 1])
    <3>1. i \in 1..(l - 2) /\ i \in 1..(Len(stack) - 1) /\ i + 1 \in 1..(l - 1)
      BY <1>2
    <3>2. stack'[i] = stack[i] /\ MadeBy(stack[i], stack[i + 1])
      BY <1>1, <1>4, <3>1 DEF ShapeInv
    <3>3. stack'[i + 1] = stack[i + 1] \/ i + 1 = l - 1
      BY <1>6, <3>1
    <3>4. CASE i + 1 = l - 1
      <4>1. stack[i + 1].kind = "stmt" /\ stack'[i + 1] = f
        BY <1>4, <1>5, <3>4
      <4> QED
        BY <3>2, <4>1 DEF MadeBy
    <3> QED
      BY <3>2, <3>3, <3>4
  <2> QED
    BY <1>4, <2>1, <2>2 DEF ShapeInv
<1>8. \A n \in 0..(l - 1) : /\ Count(stack', Clones, n) = Count(stack, Clones, n)
                            /\ Count(stack', Calls, n) = Count(stack, Calls, n)
                            /\ ShellAt(stack', n) = ShellAt(stack, n)
  <2>1. ASSUME NEW n \in 0..(l - 1)
        PROVE  /\ Count(stack', Clones, n) = Count(stack, Clones, n)
               /\ Count(stack', Calls, n) = Count(stack, Calls, n)
    <3>1. n \in Nat /\ \A i \in 1..n : stack'[i].kind = stack[i].kind
      BY <1>2, <1>6
    <3>2. \A i \in 1..n : stack'[i].kind \in Clones <=> stack[i].kind \in Clones
      BY <3>1
    <3>3. \A i \in 1..n : stack'[i].kind \in Calls <=> stack[i].kind \in Calls
      BY <3>1
    <3> QED
      BY <3>1, <3>2, <3>3, CountSame
  <2> QED
    BY <2>1 DEF ShellAt
<1>9. ASSUME NEW n \in 0..(l - 1), n < l - 1, stack[n + 1].kind \in Clones
      PROVE  shells'[ShellAt(stack', n)] = shells[ShellAt(stack, n)]
  <2>1. n \in Nat /\ n + 1 \in Nat /\ n + 1 <= l - 1 /\ l - 1 \in Nat
    BY <1>2, <1>9
  <2>2. /\ Count(stack, Clones, n + 1) = Count(stack, Clones, n) + 1
        /\ Count(stack, Clones, n + 1) <= Count(stack, Clones, l - 1)
    BY <1>9, <2>1, CountNext, CountMono
  <2>3. Count(stack, Clones, n) \in Nat /\ Count(stack, Clones, l - 1) \in Nat
    BY <2>1, CountType
  <2>4. ShellAt(stack, n) \in 1..(k - 2)
    BY <1>3, <1>5, <2>2, <2>3 DEF ShellAt
  <2> QED
    BY <1>4, <1>8, <2>4
<1>10. CallsInv'
  <2>1. Len(shells') = ShellAt(stack', l - 1)
    <3>1. l - 1 \in 0..(l - 1)
      BY <1>2
    <3> QED
      BY <1>4, <1>5, <1>8, <3>1
  <2>2. ASSUME NEW n \in 0..(l - 1), EndsAt(stack', n)
        PROVE  /\ shells'[ShellAt(stack', n)].depth = Count(stack', Calls, n)
               /\ ArgsAt(stack', n, shells'[ShellAt(stack', n)].args)
    <3>1. n \in Nat /\ n \in 0..Len(stack) /\ (n = l - 1 \/ (n < l - 1 /\ n + 1 \in 1..(l - 1)))
      BY <1>2
    <3>2. stack[n + 1].kind \in Clones
      <4>1. CASE n = l - 1
        <5>1. n + 1 = l
          BY <1>2, <4>1
        <5> QED
          BY <1>2, <5>1 DEF top
      <4>2. CASE n < l - 1 /\ n + 1 \in 1..(l - 1)
        <5>1. stack'[n + 1].kind \in Clones
          BY <1>2, <1>4, <2>2, <4>2 DEF EndsAt
        <5> QED
          BY <1>6, <4>2, <5>1
      <4> QED
        BY <3>1, <4>1, <4>2
    <3>3. /\ shells[ShellAt(stack, n)].depth = Count(stack, Calls, n)
          /\ ArgsAt(stack, n, shells[ShellAt(stack, n)].args)
      BY <1>1, <3>1, <3>2 DEF CallsInv, EndsAt
    <3>4. /\ shells'[ShellAt(stack', n)].depth = shells[ShellAt(stack, n)].depth
          /\ shells'[ShellAt(stack', n)].args = shells[ShellAt(stack, n)].args
      <4>1. CASE n = l - 1
        BY <1>3, <1>4, <1>5, <1>8, <4>1
      <4>2. CASE n < l - 1
        BY <1>9, <3>2, <4>2
      <4> QED
        BY <3>1, <4>1, <4>2
    <3>5. \A i \in 1..n : /\ stack'[i].kind = stack[i].kind
                          /\ stack[i].kind \in Own => stack'[i].mine = stack[i].mine
      BY <1>2, <1>6
    <3>6. ArgsAt(stack', n, shells[ShellAt(stack, n)].args)
      BY <3>1, <3>3, <3>5, ArgsKept
    <3> QED
      BY <1>8, <3>3, <3>4, <3>6
  <2>3. ASSUME NEW i \in 1..(l - 1), stack'[i].kind = "func"
        PROVE  ArgsAt(stack', i - 1, stack'[i].old)
    <3>1. i \in 1..(l - 2) /\ stack'[i] = stack[i]
      BY <1>4, <1>6, <2>3
    <3>2. PICK j \in Nat : j = i - 1 /\ j < l - 1
      BY <1>2
    <3>3. i \in 1..Len(stack)
      BY <1>2
    <3>4. PICK a : a = stack[i].old
      OBVIOUS
    <3>5. ArgsAt(stack, j, a)
      BY <1>1, <2>3, <3>1, <3>2, <3>3, <3>4 DEF CallsInv
    <3>6. \A x \in 1..j : /\ stack'[x].kind = stack[x].kind
                          /\ stack[x].kind \in Own => stack'[x].mine = stack[x].mine
      BY <1>2, <1>6, <3>2
    <3>7. ArgsAt(stack', j, a)
      BY <3>5, <3>6, ArgsKept
    <3> QED
      BY <3>1, <3>2, <3>4, <3>7
  <2> QED
    BY <1>4, <2>1, <2>2, <2>3 DEF CallsInv
<1>11. StmtInv'
  <2>1. ASSUME NEW i \in 1..(l - 1), stack'[i].kind = "stmt"
        PROVE  StmtOK(stack'[i], shells'[ShellAt(stack', i)])
    <3>1. CASE i = l - 1
      <4>1. l - 1 \in 0..(l - 1)
        BY <1>2
      <4> QED
        BY <1>4, <1>5, <1>8, <3>1, <4>1
    <3>2. CASE i # l - 1
      <4>1. /\ i \in 1..(l - 2) /\ i \in 0..(l - 1) /\ i < l - 1 /\ i \in 1..Len(stack)
            /\ i \in 1..(Len(stack) - 1) /\ i + 1 \in 1..Len(stack)
        BY <1>2, <3>2
      <4>2. stack'[i] = stack[i] /\ StmtOK(stack[i], shells[ShellAt(stack, i)])
        BY <1>1, <1>4, <2>1, <4>1 DEF StmtInv
      <4>3. CASE stack[i].pc = "run"
        BY <4>2, <4>3, StmtCalled
      <4>4. CASE stack[i].pc # "run"
        <5>1. stack[i + 1] \in Frames
          BY <1>1, <4>1 DEF TypeOK
        <5>2. stack[i + 1].kind = "subst"
          BY <1>1, <2>1, <4>1, <4>2, <4>4, <5>1, FrameKind, StmtBelow
        <5>3. shells'[ShellAt(stack', i)] = shells[ShellAt(stack, i)]
          BY <1>9, <4>1, <5>2, Kinds
        <5> QED
          BY <4>2, <5>3
      <4> QED
        BY <4>3, <4>4
    <3> QED
      BY <3>1, <3>2
  <2> QED
    BY <1>4, <2>1 DEF StmtInv
<1>12. FilesClosed' /\ open' \in Nat
  <2>1. \A i \in 1..(l - 1) : FilesOf(stack'[i]) = FilesOf(stack[i])
    BY <1>2, <1>4, <1>6
  <2>2. \A i \in 1..Len(stack') : i > l => FilesOf(stack'[i]) = 0
    BY <1>2, <1>4
  <2>3. ~(Len(stack') >= l) /\ Len(stack') >= l - 1 /\ FilesOf(top) = 0 /\ open \in Nat
    BY <1>1, <1>2, <1>4 DEF FilesOf, TypeOK, Clones
  <2>4. open' = open - FilesOf(top) + (IF Len(stack') >= l THEN FilesOf(stack'[l]) ELSE 0)
    BY <2>3
  <2> QED
    BY <1>1, <1>2, <1>4, <2>1, <2>2, <2>3, <2>4, FilesMove
<1>13. TypeOK'
  BY <1>4, <1>10, <1>12, TypeNext
<1> QED
  BY <1>7, <1>10, <1>11, <1>12, <1>13 DEF StackInv

-----------------------------------------------------------------------------
(* Functions: the caller's shell, one deeper and with other arguments *)

LEMMA FuncEnterStep ==
  ASSUME StackInv, stack # <<>>, top.kind = "stmt", NEW f \in Frames, NEW g \in Frames,
         Becomes(<<f, g>>), f.kind = "stmt", f.pc = "run", StmtOK(f, s), FilesOf(f) = FilesOf(top),
         g.kind = "func", g.old = s.args, NEW t \in Shell, Inner(t),
         t.depth = s.depth + 1, t.args = g.mine, open' = open, ScalarsOK'
  PROVE  StackInv'
<1> DEFINE fs == <<f, g>>
<1>1. fs \in Seq(Frames) /\ Len(fs) = 2 /\ fs[1] = f /\ fs[2] = g /\ fs # <<>>
  BY EmptySeq
<1>2. Becomes(fs)
  OBVIOUS
<1> HIDE DEF fs
<1>3. TypeOK /\ ShapeInv /\ CallsInv /\ StmtInv /\ FilesClosed
  BY DEF StackInv
<1>4. Len(stack) > 1 /\ MadeBy(stack[Len(stack) - 1], top)
  BY <1>3, Above
<1>5. PICK l \in Nat : l = Len(stack) /\ l > 1
  BY <1>3, <1>4, LenProperties DEF TypeOK
<1>6. /\ stack' \in Seq(Frames) /\ Len(stack') = l + 1
      /\ \A i \in 1..(l - 1) : stack'[i] = stack[i]
      /\ stack'[l] = f /\ stack'[l + 1] = g
  <2>1. /\ stack' \in Seq(Frames) /\ Len(stack') = l - 1 + 2
        /\ \A i \in 1..(l - 1) : stack'[i] = stack[i]
        /\ \A i \in l..(l - 1 + 2) : stack'[i] = fs[i - l + 1]
    BY <1>1, <1>2, <1>5 DEF Becomes
  <2>2. /\ l \in l..(l - 1 + 2) /\ l + 1 \in l..(l - 1 + 2)
        /\ l - l + 1 = 1 /\ (l + 1) - l + 1 = 2 /\ l - 1 + 2 = l + 1
    BY <1>5
  <2>3. stack'[l] = fs[1] /\ stack'[l + 1] = fs[2]
    BY <2>1, <2>2
  <2> QED
    BY <1>1, <2>1, <2>2, <2>3
<1>7. ShapeInv'
  <2>1. MadeBy(stack[Len(stack) - 1], f) /\ MadeBy(f, g)
    BY <1>4 DEF MadeBy
  <2>2. Fits(fs)
    BY <1>1, <2>1 DEF Fits
  <2> QED
    BY <1>1, <1>2, <1>3, <1>4, <2>2, LocalShape
<1>8. /\ stack[l].kind = "stmt" /\ "stmt" \notin Clones /\ "stmt" \notin Calls /\ "stmt" \notin Own
      /\ "func" \notin Clones /\ "func" \in Calls /\ "func" \in Own
  BY <1>5, Kinds DEF top, Plain
<1>9. \A i \in 1..l : /\ stack'[i].kind = stack[i].kind
                      /\ stack[i].kind \in Own => stack'[i].mine = stack[i].mine
  <2>1. \A i \in 1..l : i = l \/ i \in 1..(l - 1)
    BY <1>5
  <2>2. stack'[l].kind = stack[l].kind /\ stack[l].kind \notin Own
    BY <1>6, <1>8
  <2> QED
    BY <1>6, <2>1, <2>2
<1>10. /\ Count(stack', Clones, l) = Count(stack, Clones, l)
       /\ Count(stack', Calls, l) = Count(stack, Calls, l)
  <2>1. \A i \in 1..l : stack'[i].kind \in Clones <=> stack[i].kind \in Clones
    BY <1>9
  <2>2. \A i \in 1..l : stack'[i].kind \in Calls <=> stack[i].kind \in Calls
    BY <1>9
  <2> QED
    BY <2>1, <2>2, CountSame
<1>11. /\ Count(stack', Clones, l + 1) = Count(stack, Clones, l)
       /\ Count(stack', Calls, l + 1) = Count(stack, Calls, l) + 1
  <2>1. \A i \in (l + 1)..(l + 1) : i = l + 1
    BY <1>5
  <2>2. \A i \in (l + 1)..(l + 1) : stack'[i].kind \notin Clones
    BY <1>6, <1>8, <2>1
  <2>3. l + 1 \in Nat /\ l <= l + 1
    BY <1>5
  <2>4. Count(stack', Clones, l + 1) = Count(stack', Clones, l)
    BY <2>2, <2>3, CountFlat
  <2>5. Count(stack', Calls, l + 1) = Count(stack', Calls, l) + 1
    BY <1>6, <1>8, CountNext
  <2> QED
    BY <1>10, <2>4, <2>5
<1>12. PICK k \in Nat : k = Len(shells) /\ k > 0 /\ Len(shells') = k /\ shells'[k] = t
  BY <1>3, ShellTop DEF Inner
<1>13. ShellAt(stack, l) = k /\ shells[k] = s /\ ShellAt(stack', l) = k /\ ShellAt(stack', l + 1) = k
  BY <1>3, <1>5, <1>10, <1>11, <1>12 DEF CallsInv, s, ShellAt
<1>14. s.depth = Count(stack, Calls, l) /\ ArgsAt(stack, l, s.args)
  <2>1. l \in 0..Len(stack) /\ EndsAt(stack, l)
    BY <1>5 DEF EndsAt
  <2> QED
    BY <1>3, <1>13, <2>1 DEF CallsInv
<1>15. CallsInv'
  <2>1. ASSUME NEW n \in 0..(l + 1), EndsAt(stack', n)
        PROVE  /\ shells'[ShellAt(stack', n)].depth = Count(stack', Calls, n)
               /\ ArgsAt(stack', n, shells'[ShellAt(stack', n)].args)
    <3>1. n \in Nat /\ (n < l - 1 \/ n = l - 1 \/ n = l \/ n = l + 1)
      BY <1>5
    <3>2. CASE n = l + 1
      <4>1. l + 1 \in 1..(l + 1) /\ stack'[l + 1].kind \in Own /\ t.args = stack'[l + 1].mine
        BY <1>5, <1>6, <1>8
      <4>2. \A j \in 1..(l + 1) : j <= l + 1
        BY <1>5
      <4>3. ArgsAt(stack', l + 1, t.args)
        BY <4>1, <4>2 DEF ArgsAt
      <4> QED
        BY <1>11, <1>12, <1>13, <1>14, <3>2, <4>3
    <3>3. CASE n # l + 1
      <4>1. stack'[n + 1].kind \in Clones
        BY <1>6, <2>1, <3>3 DEF EndsAt
      <4>2. n # l
        BY <1>6, <1>8, <4>1
      <4>3. n # l - 1
        <5>1. n = l - 1 => n + 1 = l
          BY <1>5
        <5> QED
          BY <1>6, <1>8, <4>1, <5>1
      <4>4. n < l - 1
        BY <3>1, <3>3, <4>2, <4>3
      <4> QED
        BY <1>3, <1>5, <1>6, <3>1, <4>1, <4>4, LowerCalls
    <3> QED
      BY <3>2, <3>3
  <2>2. ASSUME NEW i \in 1..(l + 1), stack'[i].kind = "func"
        PROVE  ArgsAt(stack', i - 1, stack'[i].old)
    <3>1. i \in 1..(l - 1) \/ i = l \/ i = l + 1
      BY <1>5
    <3>2. CASE i \in 1..(l - 1)
      BY <1>3, <1>5, <1>6, <2>2, <3>2, LowerFuncs
    <3>3. CASE i = l + 1
      <4>1. ArgsAt(stack', l, s.args)
        BY <1>9, <1>14, ArgsKept
      <4>2. i - 1 = l
        BY <1>5, <3>3
      <4> QED
        BY <1>6, <3>3, <4>1, <4>2
    <3> QED
      BY <1>6, <2>2, <3>1, <3>2, <3>3
  <2> QED
    BY <1>6, <1>12, <1>13, <2>1, <2>2 DEF CallsInv
<1>16. StmtInv'
  <2>1. ASSUME NEW i \in 1..(l + 1), stack'[i].kind = "stmt"
        PROVE  StmtOK(stack'[i], shells'[ShellAt(stack', i)])
    <3>1. i \in 1..(l - 1) \/ i = l \/ i = l + 1
      BY <1>5
    <3>2. CASE i \in 1..(l - 1)
      BY <1>3, <1>5, <1>6, <2>1, <3>2, LowerStmts
    <3>3. CASE i = l
      BY <1>6, <3>3, StmtCalled
    <3> QED
      BY <1>6, <2>1, <3>1, <3>2, <3>3
  <2> QED
    BY <1>6, <2>1 DEF StmtInv
<1>17. FilesClosed' /\ open' \in Nat
  <2>1. \A i \in 1..(l - 1) : FilesOf(stack'[i]) = FilesOf(stack[i])
    BY <1>6
  <2>2. \A i \in 1..(l + 1) : i > l => i = l + 1
    BY <1>5
  <2>3. FilesOf(g) = 0
    BY DEF FilesOf
  <2>4. \A i \in 1..Len(stack') : i > l => FilesOf(stack'[i]) = 0
    BY <1>6, <2>2, <2>3
  <2>5. l + 1 >= l /\ l + 1 >= l - 1 /\ FilesOf(top) \in Nat /\ open \in Nat
    BY <1>3, <1>5, StackTop, FilesOfType DEF TypeOK
  <2>6. open' = open - FilesOf(top) + FilesOf(stack'[l])
    BY <1>6, <2>5
  <2>7. open' = open - FilesOf(top) + (IF Len(stack') >= l THEN FilesOf(stack'[l]) ELSE 0)
    BY <1>6, <2>5, <2>6
  <2> QED
    BY <1>3, <1>5, <1>6, <2>1, <2>4, <2>5, <2>7, FilesMove
<1>18. TypeOK'
  <2>1. shells' \in Seq(Shell)
    BY DEF Inner
  <2> QED
    BY <1>6, <1>15, <1>17, <2>1, TypeNext
<1> QED
  BY <1>7, <1>15, <1>16, <1>17, <1>18 DEF StackInv

LEMMA FuncLeaveStep ==
  ASSUME StackInv, stack # <<>>, top.kind = "func", Becomes(<<>>), NEW t \in Shell, Inner(t),
         t.depth = s.depth - 1, t.args = top.old, open' = open, ScalarsOK'
  PROVE  StackInv'
<1>1. <<>> \in Seq(Frames) /\ Len(<<>>) = 0
  BY EmptySeq
<1>2. TypeOK /\ ShapeInv /\ CallsInv /\ StmtInv /\ FilesClosed
  BY DEF StackInv
<1>3. PICK l \in Nat : l = Len(stack) /\ l > 1
  BY <1>2, Above, LenProperties DEF TypeOK
<1>4. /\ stack' \in Seq(Frames) /\ Len(stack') = l - 1
      /\ \A i \in 1..(l - 1) : stack'[i] = stack[i]
  BY <1>1, <1>3 DEF Becomes
<1>5. ShapeInv'
  <2>1. Fits(<<>>)
    BY <1>1 DEF Fits
  <2> QED
    BY <1>1, <1>2, <1>3, <2>1, LocalShape
<1>6. stack[l].kind = "func" /\ stack[l] = top /\ "func" \notin Clones /\ "func" \in Calls
  BY <1>3, Kinds DEF top
<1>7. /\ Count(stack', Clones, l - 1) = Count(stack, Clones, l)
      /\ Count(stack, Calls, l) = Count(stack', Calls, l - 1) + 1
      /\ Count(stack', Calls, l - 1) \in Nat
  <2>1. l - 1 \in Nat /\ l - 1 <= l - 1 /\ l - 1 <= l /\ l - 1 + 1 = l
    BY <1>3
  <2>2. /\ Count(stack', Clones, l - 1) = Count(stack, Clones, l - 1)
        /\ Count(stack', Calls, l - 1) = Count(stack, Calls, l - 1)
    BY <1>4, <2>1, LowerCount
  <2>3. \A i \in (l - 1 + 1)..l : stack[i].kind \notin Clones
    BY <1>3, <1>6
  <2>4. Count(stack, Clones, l) = Count(stack, Clones, l - 1)
    BY <2>1, <2>3, CountFlat
  <2>5. Count(stack, Calls, l - 1 + 1) = Count(stack, Calls, l - 1) + 1
    BY <1>6, <2>1, CountNext
  <2>6. Count(stack, Calls, l - 1) \in Nat
    BY <2>1, CountType
  <2> QED
    BY <2>1, <2>2, <2>4, <2>5, <2>6
<1>8. PICK k \in Nat : k = Len(shells) /\ k > 0 /\ Len(shells') = k /\ shells'[k] = t
  BY <1>2, ShellTop DEF Inner
<1>9. ShellAt(stack, l) = k /\ shells[k] = s /\ ShellAt(stack', l - 1) = k
  BY <1>2, <1>3, <1>7, <1>8 DEF CallsInv, s, ShellAt
<1>10. s.depth = Count(stack, Calls, l)
  <2>1. l \in 0..Len(stack) /\ EndsAt(stack, l)
    BY <1>3 DEF EndsAt
  <2> QED
    BY <1>2, <1>9, <2>1 DEF CallsInv
<1>11. CallsInv'
  <2>1. ASSUME NEW n \in 0..(l - 1), EndsAt(stack', n)
        PROVE  /\ shells'[ShellAt(stack', n)].depth = Count(stack', Calls, n)
               /\ ArgsAt(stack', n, shells'[ShellAt(stack', n)].args)
    <3>1. n \in Nat /\ (n < l - 1 \/ n = l - 1)
      BY <1>3
    <3>2. CASE n = l - 1
      <4>1. PICK j \in Nat : j = l - 1
        BY <1>3
      <4>2. ArgsAt(stack, j, top.old)
        <5>1. l \in 1..Len(stack)
          BY <1>3
        <5> QED
          BY <1>2, <1>6, <4>1, <5>1 DEF CallsInv
      <4>3. \A i \in 1..j : /\ stack'[i].kind = stack[i].kind
                            /\ stack[i].kind \in Own => stack'[i].mine = stack[i].mine
        BY <1>4, <4>1
      <4>4. ArgsAt(stack', j, top.old)
        BY <4>2, <4>3, ArgsKept
      <4>5. t.depth = Count(stack', Calls, l - 1)
        BY <1>7, <1>10
      <4> QED
        BY <1>8, <1>9, <3>2, <4>1, <4>4, <4>5
    <3>3. CASE n < l - 1
      <4>1. stack'[n + 1].kind \in Clones
        BY <1>3, <1>4, <2>1, <3>3 DEF EndsAt
      <4> QED
        BY <1>2, <1>3, <1>4, <3>1, <3>3, <4>1, LowerCalls
    <3> QED
      BY <3>1, <3>2, <3>3
  <2>2. ASSUME NEW i \in 1..(l - 1), stack'[i].kind = "func"
        PROVE  ArgsAt(stack', i - 1, stack'[i].old)
    BY <1>2, <1>3, <1>4, <2>2, LowerFuncs
  <2> QED
    BY <1>4, <1>8, <1>9, <2>1, <2>2 DEF CallsInv
<1>12. StmtInv'
  <2>1. ASSUME NEW i \in 1..(l - 1), stack'[i].kind = "stmt"
        PROVE  StmtOK(stack'[i], shells'[ShellAt(stack', i)])
    BY <1>2, <1>3, <1>4, <2>1, LowerStmts
  <2> QED
    BY <1>4, <2>1 DEF StmtInv
<1>13. FilesClosed' /\ open' \in Nat
  <2>1. \A i \in 1..(l - 1) : FilesOf(stack'[i]) = FilesOf(stack[i])
    BY <1>4
  <2>2. \A i \in 1..Len(stack') : i > l => FilesOf(stack'[i]) = 0
    BY <1>3, <1>4
  <2>3. ~(Len(stack') >= l) /\ Len(stack') >= l - 1 /\ FilesOf(top) = 0 /\ open \in Nat
    BY <1>2, <1>3, <1>4 DEF FilesOf, TypeOK
  <2>4. open' = open - FilesOf(top) + (IF Len(stack') >= l THEN FilesOf(stack'[l]) ELSE 0)
    BY <2>3
  <2>5. stack # <<>>
    OBVIOUS
  <2> QED
    BY <1>2, <1>3, <1>4, <2>1, <2>2, <2>3, <2>4, FilesMove
<1>14. TypeOK'
  <2>1. shells' \in Seq(Shell)
    BY DEF Inner
  <2> QED
    BY <1>4, <1>11, <1>13, <2>1, TypeNext
<1> QED
  BY <1>5, <1>11, <1>12, <1>13, <1>14 DEF StackInv

-----------------------------------------------------------------------------
(* Between scripts, and as one starts and ends *)

\* Only Run and its list are in progress, or nothing is.
Quiet ==
  /\ stack \in Seq(Frames) /\ \A i \in 1..Len(stack) : stack[i].kind \in {"run", "list"}
  /\ ShapeInv
  /\ shells \in Seq(Shell) /\ Len(shells) = 1 /\ shells[1].depth = 0 /\ shells[1].args = 0
  /\ open = 0 /\ ScalarsOK

LEMMA FlatCount ==
  ASSUME NEW st \in Seq(Frames), \A i \in 1..Len(st) : st[i].kind \in {"run", "list"},
         NEW n \in 0..Len(st)
  PROVE  /\ Count(st, Clones, n) = 0 /\ Count(st, Calls, n) = 0
         /\ \A i \in 1..n : st[i].kind \notin Own
<1>1. Len(st) \in Nat /\ n \in Nat /\ 0 \in Nat /\ 0 <= n
  BY LenProperties
<1>2. "run" \in Plain /\ "list" \in Plain
  BY DEF Plain
<1>3. \A i \in (0 + 1)..n : st[i].kind \notin Clones /\ st[i].kind \notin Calls /\ st[i].kind \notin Own
  BY <1>1, <1>2, Kinds
<1>4. Count(st, Clones, n) = Count(st, Clones, 0) /\ Count(st, Calls, n) = Count(st, Calls, 0)
  BY <1>1, <1>3, CountFlat
<1> QED
  BY <1>1, <1>3, <1>4, CountZero

LEMMA QuietStack == Quiet => StackInv
<1> SUFFICES ASSUME Quiet PROVE StackInv
  OBVIOUS
<1> USE DEF Quiet
<1>1. Len(stack) \in Nat /\ Len(stack) \in 0..Len(stack) /\ DOMAIN stack = 1..Len(stack)
  BY LenProperties
<1>2. \A n \in 0..Len(stack) : /\ Count(stack, Clones, n) = 0 /\ Count(stack, Calls, n) = 0
                               /\ \A i \in 1..n : stack[i].kind \notin Own
  BY FlatCount
<1>3. \A n \in 0..Len(stack) : ShellAt(stack, n) = 1 /\ ArgsAt(stack, n, 0)
  BY <1>2 DEF ShellAt, ArgsAt
<1>4. CallsInv
  BY <1>1, <1>2, <1>3 DEF CallsInv
<1>5. StmtInv
  BY DEF StmtInv
<1>6. FilesClosed
  <2>1. {p \in (DOMAIN stack) \X (1..MaxFiles) :
           stack[p[1]].kind = "stmt" /\ p[2] <= stack[p[1]].files} = {}
    BY <1>1
  <2> QED
    BY <2>1, FS_EmptySet DEF FilesClosed
<1>7. TypeOK
  BY <1>1, <1>4 DEF TypeOK, CallsInv, ShellAt, Count, ScalarsOK
<1> QED
  BY <1>4, <1>5, <1>6, <1>7 DEF StackInv

\* Whenever nothing else is in progress, depth, arguments and files are back.
LEMMA QuietEnd ==
  ASSUME StackInv, \A i \in 1..Len(stack) : stack[i].kind \in {"run", "list"}
  PROVE  Quiet
<1>1. /\ stack \in Seq(Frames) /\ shells \in Seq(Shell) /\ ScalarsOK
      /\ Len(stack) \in Nat /\ DOMAIN stack = 1..Len(stack) /\ ShapeInv /\ CallsInv
  BY LenProperties DEF StackInv, TypeOK, ScalarsOK
<1>2. Len(stack) \in 0..Len(stack) /\ EndsAt(stack, Len(stack))
  BY <1>1 DEF EndsAt
<1>3. /\ Count(stack, Clones, Len(stack)) = 0 /\ Count(stack, Calls, Len(stack)) = 0
      /\ \A i \in 1..Len(stack) : stack[i].kind \notin Own
  BY <1>1, <1>2, FlatCount
<1>4. ShellAt(stack, Len(stack)) = 1
  BY <1>3 DEF ShellAt
<1>5. /\ Len(shells) = 1 /\ shells[1].depth = Count(stack, Calls, Len(stack))
      /\ ArgsAt(stack, Len(stack), shells[1].args)
  BY <1>1, <1>2, <1>4 DEF CallsInv
<1>6. shells[1].args = 0
  BY <1>3, <1>5 DEF ArgsAt
<1>7. open = 0
  <2>1. {p \in (DOMAIN stack) \X (1..MaxFiles) :
           stack[p[1]].kind = "stmt" /\ p[2] <= stack[p[1]].files} = {}
    BY <1>1
  <2> QED
    BY <2>1, FS_EmptySet DEF StackInv, FilesClosed
<1> QED
  BY <1>1, <1>3, <1>5, <1>6, <1>7 DEF Quiet

\* Run ends with its frame alone.
LEMMA BottomFrame ==
  ASSUME StackInv, stack # <<>>, top.kind = "run"
  PROVE  Len(stack) = 1 /\ Quiet
<1>1. TypeOK /\ ShapeInv
  BY DEF StackInv
<1>2. PICK l \in Nat : l = Len(stack) /\ l > 0
  BY <1>1, StackTop
<1>3. l = 1
  <2>1. SUFFICES ASSUME l > 1 PROVE FALSE
    BY <1>2
  <2>2. l - 1 \in 1..(Len(stack) - 1) /\ l - 1 + 1 = l
    BY <1>2, <2>1
  <2>3. MadeBy(stack[l - 1], stack[l])
    BY <1>1, <2>2 DEF ShapeInv
  <2> QED
    BY <1>2, <2>3 DEF MadeBy, top
<1>4. \A i \in 1..Len(stack) : stack[i].kind \in {"run", "list"}
  BY <1>2, <1>3 DEF top
<1> QED
  BY <1>2, <1>3, <1>4, QuietEnd

LEMMA NewShellType ==
  ASSUME NEW fs \in SUBSET Func
  PROVE  NewShell(fs) \in Shell /\ NewShell(fs).depth = 0 /\ NewShell(fs).args = 0
<1> DEFINE env == [k \in Var |-> Zero]
           vs == [env EXCEPT !["PWD"] = variable(Home, TRUE)]
<1>1. Home \in Dir /\ Home \in Value /\ 0 \in 0..MaxItems /\ 0 \in 0..MaxDepth /\ 0 \in Status
  BY InterpAssumption DEF Status
<1>2. Zero \in Variable /\ variable(Home, TRUE) \in Variable
  BY <1>1 DEF Zero, variable, Variable
<1>3. vs \in [Var -> Variable]
  BY <1>2
<1> HIDE DEF vs
<1> DEFINE r == [vars |-> vs, funcs |-> {}, cwd |-> Home, status |-> 0, subStatus |-> 0,
                 args |-> 0, depth |-> 0]
<1>4a. {} \in SUBSET Func
  OBVIOUS
<1>4b. r \in Shell
  BY <1>1, <1>3, <1>4a DEF Shell
<1>4c. r.depth = 0 /\ r.args = 0
  OBVIOUS
<1>4. PICK sh \in Shell : sh = r /\ sh.depth = 0 /\ sh.args = 0
  BY <1>4b, <1>4c
<1>5. New(Home, env, 0, 0) = sh
  BY <1>4 DEF New, vs
<1>6. NewShell(fs) = [sh EXCEPT !.funcs = fs]
  BY <1>5 DEF NewShell
<1>7. [sh EXCEPT !.funcs = fs] \in Shell
  BY DEF Shell
<1>8. [sh EXCEPT !.funcs = fs].depth = sh.depth /\ [sh EXCEPT !.funcs = fs].args = sh.args
  BY DEF Shell
<1> QED
  BY <1>4, <1>6, <1>7, <1>8

-----------------------------------------------------------------------------
(* A statement starts: a frame above a list, && or ||, or a function *)

LEMMA AppendStep ==
  ASSUME StackInv, stack # <<>>, top.kind \in {"list", "binary", "func"}, NEW g \in Frames, Push(g),
         g.kind = "stmt", FilesOf(g) = 0, NEW t \in Shell, Inner(t), StmtOK(g, t),
         t.depth = s.depth, t.args = s.args, open' = open, ScalarsOK'
  PROVE  StackInv'
<1>1. TypeOK /\ ShapeInv /\ CallsInv /\ StmtInv /\ FilesClosed
  BY DEF StackInv
<1>2. Len(stack) > 1 /\ MadeBy(stack[Len(stack) - 1], top)
  BY <1>1, Above
<1>3. PICK l \in Nat : l = Len(stack) /\ l > 1
  BY <1>1, <1>2, LenProperties DEF TypeOK
<1>4. /\ stack' \in Seq(Frames) /\ Len(stack') = l + 1 /\ stack'[l + 1] = g
      /\ \A i \in 1..l : stack'[i] = stack[i]
  <2>1. stack \in Seq(Frames)
    BY <1>1 DEF TypeOK
  <2> QED
    BY <1>3, <2>1 DEF Push
<1>5. stack[l] = top /\ stack[l].kind \in {"list", "binary", "func"}
      /\ "list" \notin Clones /\ "binary" \notin Clones /\ "func" \notin Clones
      /\ "stmt" \notin Clones /\ "stmt" \notin Calls /\ "stmt" \notin Own
  BY <1>3 DEF top, Clones, Calls, Own
<1>6. \A i \in 1..(l - 1) : stack'[i] = stack[i]
  BY <1>3, <1>4
<1>7. ShapeInv'
  <2>1. stack'[1].kind = "run"
    BY <1>1, <1>3, <1>4, EmptySeq DEF ShapeInv
  <2>2. ASSUME NEW i \in 1..(l + 1 - 1)
        PROVE  MadeBy(stack'[i], stack'[i + 1])
    <3>1. i \in 1..l /\ (i = l \/ (i \in 1..(l - 1) /\ i + 1 \in 1..l))
      BY <1>3
    <3>2. CASE i = l
      BY <1>4, <1>5, <3>1, <3>2 DEF MadeBy
    <3>3. CASE i \in 1..(l - 1) /\ i + 1 \in 1..l
      <4>1. MadeBy(stack[i], stack[i + 1])
        BY <1>1, <1>3, <3>3 DEF ShapeInv
      <4> QED
        BY <1>4, <3>1, <3>3, <4>1
    <3> QED
      BY <3>1, <3>2, <3>3
  <2> QED
    BY <1>4, <2>1, <2>2 DEF ShapeInv
<1>8. \A K : "stmt" \notin K => Count(stack', K, l + 1) = Count(stack, K, l)
  <2>1. ASSUME NEW K, "stmt" \notin K
        PROVE  Count(stack', K, l + 1) = Count(stack, K, l)
    <3>1. \A i \in 1..l : stack'[i].kind \in K <=> stack[i].kind \in K
      BY <1>4
    <3>2. Count(stack', K, l) = Count(stack, K, l)
      BY <3>1, CountSame
    <3>3. \A i \in (l + 1)..(l + 1) : i = l + 1
      BY <1>3
    <3>4. \A i \in (l + 1)..(l + 1) : stack'[i].kind \notin K
      BY <1>4, <2>1, <3>3
    <3>5. l + 1 \in Nat /\ l <= l + 1
      BY <1>3
    <3>6. Count(stack', K, l + 1) = Count(stack', K, l)
      BY <3>4, <3>5, CountFlat
    <3> QED
      BY <3>2, <3>6
  <2> QED
    BY <2>1
<1>9. PICK k \in Nat : k = Len(shells) /\ k > 0 /\ Len(shells') = k /\ shells'[k] = t
  BY <1>1, ShellTop DEF Inner
<1>10. ShellAt(stack, l) = k /\ shells[k] = s /\ ShellAt(stack', l + 1) = k
  BY <1>1, <1>3, <1>5, <1>8, <1>9 DEF CallsInv, s, ShellAt
<1>11. s.depth = Count(stack, Calls, l) /\ ArgsAt(stack, l, s.args)
  <2>1. l \in 0..Len(stack) /\ EndsAt(stack, l)
    BY <1>3 DEF EndsAt
  <2> QED
    BY <1>1, <1>10, <2>1 DEF CallsInv
<1>12. ArgsAt(stack', l + 1, s.args)
  <2>1. PICK m \in Nat : m = l + 1 /\ l <= m
    BY <1>3
  <2>2. \A i \in (l + 1)..m : i = l + 1
    BY <1>3, <2>1
  <2>3. \A i \in (l + 1)..m : stack'[i].kind \notin Own
    BY <1>4, <1>5, <2>2
  <2>4. \A i \in 1..l : /\ stack'[i].kind = stack[i].kind
                        /\ stack[i].kind \in Own => stack'[i].mine = stack[i].mine
    BY <1>4
  <2>5. ArgsAt(stack', m, s.args)
    BY <1>11, <2>1, <2>3, <2>4, ArgsSame
  <2> QED
    BY <2>1, <2>5
<1>13. CallsInv'
  <2>1. ASSUME NEW n \in 0..(l + 1), EndsAt(stack', n)
        PROVE  /\ shells'[ShellAt(stack', n)].depth = Count(stack', Calls, n)
               /\ ArgsAt(stack', n, shells'[ShellAt(stack', n)].args)
    <3>1. n \in Nat /\ (n < l - 1 \/ n = l - 1 \/ n = l \/ n = l + 1)
      BY <1>3
    <3>2. CASE n = l + 1
      <4>1. Count(stack', Calls, l + 1) = Count(stack, Calls, l)
        BY <1>5, <1>8
      <4> QED
        BY <1>9, <1>10, <1>11, <1>12, <3>2, <4>1
    <3>3. CASE n # l + 1
      <4>1. stack'[n + 1].kind \in Clones
        BY <1>4, <2>1, <3>3 DEF EndsAt
      <4>2. n # l
        BY <1>4, <1>5, <4>1
      <4>3. n # l - 1
        <5>1. n = l - 1 => n + 1 = l
          BY <1>3
        <5>2. l \in 1..l
          BY <1>3
        <5>3. stack'[l].kind \notin Clones
          BY <1>4, <1>5, <5>2
        <5> QED
          BY <4>1, <5>1, <5>3
      <4>4. n < l - 1
        BY <3>1, <3>3, <4>2, <4>3
      <4> QED
        BY <1>1, <1>3, <1>6, <3>1, <4>1, <4>4, LowerCalls
    <3> QED
      BY <3>2, <3>3
  <2>2. ASSUME NEW i \in 1..(l + 1), stack'[i].kind = "func"
        PROVE  ArgsAt(stack', i - 1, stack'[i].old)
    <3>1. i \in 1..l \/ i = l + 1
      BY <1>3
    <3>2. i \in 1..l /\ stack'[i] = stack[i]
      BY <1>4, <2>2, <3>1
    <3>3. PICK j \in Nat : j = i - 1 /\ j < l
      BY <1>3, <3>2
    <3>4. PICK a : a = stack[i].old
      OBVIOUS
    <3>5. ArgsAt(stack, j, a)
      BY <1>1, <1>3, <2>2, <3>2, <3>3, <3>4 DEF CallsInv
    <3>6. \A x \in 1..j : /\ stack'[x].kind = stack[x].kind
                          /\ stack[x].kind \in Own => stack'[x].mine = stack[x].mine
      BY <1>3, <1>4, <3>3
    <3>7. ArgsAt(stack', j, a)
      BY <3>5, <3>6, ArgsKept
    <3> QED
      BY <3>2, <3>3, <3>4, <3>7
  <2> QED
    BY <1>4, <1>9, <1>10, <2>1, <2>2 DEF CallsInv
<1>14. StmtInv'
  <2>1. ASSUME NEW i \in 1..(l + 1), stack'[i].kind = "stmt"
        PROVE  StmtOK(stack'[i], shells'[ShellAt(stack', i)])
    <3>1. i \in 1..(l - 1) \/ (i = l /\ i \in 1..l) \/ i = l + 1
      BY <1>3
    <3>2. CASE i \in 1..(l - 1)
      BY <1>1, <1>3, <1>6, <2>1, <3>2, LowerStmts
    <3>3. CASE i = l /\ i \in 1..l
      BY <1>4, <1>5, <2>1, <3>3
    <3>4. CASE i = l + 1
      BY <1>4, <1>9, <1>10, <3>4
    <3> QED
      BY <3>1, <3>2, <3>3, <3>4
  <2> QED
    BY <1>4, <2>1 DEF StmtInv
<1>15. FilesClosed' /\ open' \in Nat
  <2>1. \A i \in 1..(l - 1) : FilesOf(stack'[i]) = FilesOf(stack[i])
    BY <1>6
  <2>2. \A i \in 1..(l + 1) : i > l => i = l + 1
    BY <1>3
  <2>3. \A i \in 1..Len(stack') : i > l => FilesOf(stack'[i]) = 0
    BY <1>4, <2>2
  <2>4. l \in 1..l /\ l + 1 >= l /\ l + 1 >= l - 1 /\ FilesOf(top) \in Nat /\ open \in Nat
    BY <1>1, <1>3, StackTop, FilesOfType DEF TypeOK
  <2>5. stack'[l] = top
    BY <1>4, <1>5, <2>4
  <2>6. open' = open - FilesOf(top) + FilesOf(stack'[l])
    BY <2>4, <2>5
  <2>7. open' = open - FilesOf(top) + (IF Len(stack') >= l THEN FilesOf(stack'[l]) ELSE 0)
    BY <1>4, <2>4, <2>6
  <2> QED
    BY <1>1, <1>3, <1>4, <2>1, <2>3, <2>4, <2>7, FilesMove
<1>16. TypeOK'
  <2>1. shells' \in Seq(Shell)
    BY DEF Inner
  <2> QED
    BY <1>4, <1>13, <1>15, <2>1, TypeNext
<1> QED
  BY <1>7, <1>13, <1>14, <1>15, <1>16 DEF StackInv

LEMMA SameStep ==
  ASSUME StackInv, UNCHANGED <<stack, shells, open>>, ScalarsOK'
  PROVE  StackInv'
<1>1. ShapeInv' /\ CallsInv' /\ StmtInv' /\ FilesClosed'
  <2>1. ShapeInv'
    BY DEF StackInv, ShapeInv
  <2>2. CallsInv'
    BY DEF StackInv, CallsInv
  <2>3. StmtInv'
    BY DEF StackInv, StmtInv
  <2>4. FilesClosed'
    BY DEF StackInv, FilesClosed
  <2> QED
    BY <2>1, <2>2, <2>3, <2>4
<1>2. TypeOK'
  BY DEF StackInv, TypeOK, ScalarsOK
<1> QED
  BY <1>1, <1>2 DEF StackInv

-----------------------------------------------------------------------------
(* What is on its way up *)

RetType == [code : Status, err : Err \cup {"pending"}, ran : BOOLEAN]

LEMMA NoneFields ==
  None \in RetType /\ None.err = "pending" /\ None.err \notin Failure /\ None.err # "exit"
BY DEF None, Results, RetType, Status, Err, Flow, Failure

LEMMA ResultsFields ==
  ASSUME NEW code \in Status, NEW err \in Err
  PROVE  /\ Results(code, err) \in RetType /\ Results(code, err) # None
         /\ Results(code, err).code = code /\ Results(code, err).err = err
         /\ Results(code, err).ran = TRUE /\ err # "pending"
<1>1. err # "pending"
  BY DEF Err, Flow, Failure
<1>2. /\ Results(code, err) \in RetType
      /\ Results(code, err).code = code /\ Results(code, err).err = err
      /\ Results(code, err).ran = TRUE
  BY DEF Results, RetType
<1> QED
  BY <1>1, <1>2, NoneFields

LEMMA RetFields ==
  ASSUME InterpInv
  PROVE  /\ ret \in RetType /\ ret.code \in Status /\ ret.err \in Err \cup {"pending"}
         /\ ret.ran \in BOOLEAN /\ (ret.err = "pending" <=> ret = None)
         /\ (ret # None => ret.err \in Err) /\ (ret = None => quit = {} \/ Idle)
<1>1. ret \in RetType
  BY DEF InterpInv, StackInv, TypeOK, RetType
<1>2. ret.code \in Status /\ ret.err \in Err \cup {"pending"} /\ ret.ran \in BOOLEAN
  BY <1>1 DEF RetType
<1>3. ret.err = "pending" <=> ret = None
  BY NoneFields DEF InterpInv, ResultInv, RetInv
<1>4. ret = None => quit = {} \/ Idle
  BY NoneFields DEF InterpInv, ResultInv, ExitInv
<1> QED
  BY <1>1, <1>2, <1>3, <1>4

\* While a call goes on nothing has failed and nothing is leaving.
LEMMA AtRunning ==
  ASSUME InterpInv, Running
  PROVE  /\ raised = "none" /\ quit = {} /\ ret = None /\ stack # <<>> /\ ~Idle
         /\ StackInv /\ TypeOK /\ ShapeInv /\ CallsInv /\ StmtInv /\ top \in Frames /\ s \in Shell
<1>1. ret = None /\ stack # <<>> /\ ~Idle
  BY DEF Running, Idle
<1>2. StackInv /\ TypeOK /\ ShapeInv /\ CallsInv /\ StmtInv
  BY DEF InterpInv, StackInv
<1>3. raised = "none"
  BY <1>1, NoneFields DEF InterpInv, ResultInv, RetInv, Failed
<1>4. quit = {}
  BY <1>1, RetFields
<1>5. top \in Frames /\ s \in Shell
  BY <1>1, <1>2, StackTop, ShellTop
<1> QED
  BY <1>1, <1>2, <1>3, <1>4, <1>5

LEMMA AtReturned ==
  ASSUME InterpInv, Returned
  PROVE  /\ ret.err \in Err /\ ret.code \in Status /\ ret.err # "pending" /\ stack # <<>> /\ ~Idle
         /\ raised = Failed(ret.err)
         /\ quit # {} => /\ Len(shells) = 1 /\ (top.kind = "stmt" => top.pc = "run")
                         /\ ret.err \in Failure \/ ret.err = "exit"
         /\ StackInv /\ TypeOK /\ ShapeInv /\ CallsInv /\ StmtInv /\ top \in Frames /\ s \in Shell
<1>1. ret # None /\ stack # <<>> /\ ~Idle
  BY DEF Returned, Idle
<1>2. StackInv /\ TypeOK /\ ShapeInv /\ CallsInv /\ StmtInv
  BY DEF InterpInv, StackInv
<1>3. ret.err \in Err /\ ret.code \in Status /\ ret.err # "pending"
  BY <1>1, RetFields
<1>4. raised = Failed(ret.err)
  BY <1>1 DEF InterpInv, ResultInv, RetInv
<1>5. quit # {} => /\ Len(shells) = 1 /\ (top.kind = "stmt" => top.pc = "run")
                   /\ ret.err \in Failure \/ ret.err = "exit"
  BY <1>1 DEF InterpInv, ResultInv, ExitInv
<1>6. top \in Frames /\ s \in Shell
  BY <1>1, <1>2, StackTop, ShellTop
<1> QED
  BY <1>1, <1>2, <1>3, <1>4, <1>5, <1>6

\* The interpreter goes on.
LEMMA GoesOn ==
  ASSUME InterpInv, ~Idle, ret.err \notin Failure, ret.err # "exit", Continue, stack' # <<>>,
         raised' = raised, quit' = quit
  PROVE  ResultInv'
<1>1. ~Idle' /\ ret' = None /\ ~Returned'
  BY DEF Idle, Continue, Returned
<1>2. raised = "none" /\ quit = {}
  BY DEF InterpInv, ResultInv, RetInv, ExitInv, Failed
<1>3. RetInv'
  BY <1>1, <1>2, NoneFields DEF RetInv, Failed
<1>4. FlowInv'
  BY <1>1 DEF FlowInv
<1>5. ExitInv'
  BY <1>1, <1>2, NoneFields DEF ExitInv
<1> QED
  BY <1>3, <1>4, <1>5 DEF ResultInv

\* A call returns while no exit is under way, and not with one.
LEMMA Returns ==
  ASSUME stack' # <<>>, NEW code \in Status, NEW err \in Err, err # "exit", Return(code, err),
         raised' = Failed(err), quit' = {}, err = "ctx" => canceled',
         top'.pc \in {"args", "redir"} => err # "none",
         err \in Failure \/ top'.kind \notin {"if", "for", "while", "binary"} \/ s'.status = code
  PROVE  ResultInv'
<1>1. ~Idle'
  BY DEF Idle
<1>2. ret'.code = code /\ ret'.err = err /\ ret' # None /\ err # "pending"
  BY ResultsFields DEF Return
<1>3. RetInv'
  BY <1>1, <1>2 DEF RetInv
<1>4. "none" \notin Failure
  BY DEF Failure
<1>5. FlowInv'
  BY <1>2, <1>4 DEF FlowInv
<1>6. ExitInv'
  BY <1>1, <1>2 DEF ExitInv
<1> QED
  BY <1>3, <1>5, <1>6 DEF ResultInv

\* The innermost call ends and the one below it looks at the results.
LEMMA BelowTop ==
  ASSUME StackInv, stack # <<>>, top.kind # "run", Becomes(<<>>)
  PROVE  /\ stack' # <<>> /\ top' = stack[Len(stack) - 1] /\ MadeBy(top', top)
<1>1. PICK l \in Nat : l = Len(stack) /\ l > 1
  BY Above, StackTop DEF StackInv
<1>2. MadeBy(stack[l - 1], top)
  BY <1>1, Above DEF StackInv
<1>3. /\ stack' \in Seq(Frames) /\ Len(stack') = l - 1
      /\ \A i \in 1..(l - 1) : stack'[i] = stack[i]
  <2>1. Len(<<>>) = 0
    BY EmptySeq
  <2> QED
    BY <1>1, <2>1 DEF Becomes
<1>4. stack' # <<>> /\ l - 1 \in 1..(l - 1)
  BY <1>1, <1>3, EmptySeq
<1>5. top' = stack[l - 1]
  BY <1>3, <1>4 DEF top
<1> QED
  BY <1>1, <1>2, <1>4, <1>5

LEMMA PassUp ==
  ASSUME InterpInv, ~Idle, top.kind \notin Clones \cup {"run"}, Becomes(<<>>), Len(shells') = Len(shells),
         quit' = quit, ret' \in RetType, ret'.err # "pending", raised' = Failed(ret'.err),
         ret'.err = "ctx" => canceled',
         quit # {} => ret'.err \in Failure \/ (ret'.err = "exit" /\ ret'.code = ret.code),
         ret'.err = "exit" => ret.err = "exit" /\ ret'.code = ret.code,
         top.kind = "list" /\ ret'.ran /\ ret'.err \notin Failure =>
           s'.status = ret'.code \/ top.empty,
         top.kind = "stmt" /\ ret'.ran /\ ret'.err = "none" => s'.status = ret'.code
  PROVE  ResultInv'
<1>1. StackInv /\ TypeOK /\ stack # <<>> /\ top \in Frames
  BY StackTop DEF InterpInv, StackInv, Idle
<1>2. stack' # <<>> /\ MadeBy(top', top)
  BY <1>1, BelowTop
<1>3. ~Idle' /\ ret' # None
  BY <1>2, NoneFields DEF Idle
<1>4. top.kind \in Plain \cup {"func"}
  BY <1>1, FrameKind DEF Calls, Clones, Plain
<1>5. top'.kind = "stmt" => top'.pc = "run"
  BY <1>2, <1>4 DEF MadeBy, Plain
<1>6. top' \in Frames
  <2>1. stack' \in Seq(Frames)
    BY DEF Becomes
  <2>2. Len(stack') \in 1..Len(stack')
    BY <1>2, <2>1, EmptySeq
  <2> QED
    BY <2>1, <2>2 DEF top
<1>7. RetInv'
  BY <1>3 DEF RetInv
<1>8. FlowInv'
  <2>1. top'.pc \notin {"args", "redir"}
    BY <1>5, <1>6, FrameKind
  <2>2. top'.kind \in {"if", "for", "while"} => top.kind = "list" /\ (top.empty => FALSE)
    BY <1>2, <1>4 DEF MadeBy, Plain
  <2>3. top'.kind = "binary" => top.kind = "stmt"
    BY <1>2, <1>4 DEF MadeBy, Plain
  <2> QED
    BY <2>1, <2>2, <2>3 DEF FlowInv
<1>9. ExitInv'
  <2>1. /\ quit # {} => Len(shells) = 1 /\ (ret.err = "exit" => quit = {ret.code})
        /\ ret.err = "exit" /\ Len(shells) = 1 => quit = {ret.code}
    BY DEF InterpInv, ResultInv, ExitInv
  <2>2. quit' # {} => /\ Len(shells') = 1 /\ (top'.kind = "stmt" => top'.pc = "run")
                      /\ ret'.err \in Failure \/ ret'.err = "exit"
    BY <1>5, <2>1
  <2>3. ret'.err = "exit" /\ Len(shells') = 1 => quit' = {ret'.code}
    BY <2>1
  <2> QED
    BY <1>3, <2>2, <2>3 DEF ExitInv
<1> QED
  BY <1>7, <1>8, <1>9 DEF ResultInv

-----------------------------------------------------------------------------
(* Steps of the innermost statement *)

\* It becomes f, its shell t, and either the interpreter goes on or the
\* statement has results.
LEMMA StmtStack ==
  ASSUME StackInv, stack # <<>>, top.kind = "stmt", NEW f \in Statements, Becomes(<<f>>),
         NEW t \in Shell, Inner(t), t.depth = s.depth, t.args = s.args, StmtOK(f, t),
         open' = open - top.files + f.files, ScalarsOK'
  PROVE  StackInv' /\ stack' # <<>> /\ top' = f /\ s' = t
<1>1. f \in Frames /\ f.kind = "stmt" /\ "stmt" \in Plain
  BY StatementFields DEF Plain
<1>2. MadeBy(stack[Len(stack) - 1], top)
  BY Above DEF StackInv
<1>3. MadeBy(stack[Len(stack) - 1], f)
  BY <1>1, <1>2 DEF MadeBy
<1>4. open' = open - FilesOf(top) + FilesOf(f)
  BY <1>1 DEF FilesOf
<1>5. StackInv'
  BY <1>1, <1>3, <1>4, UpdateStep
<1>6. PICK l \in Nat : l = Len(stack) /\ l > 0
  BY StackTop DEF StackInv
<1>7. stack' \in Seq(Frames) /\ Len(stack') = l /\ stack'[l] = f
  <2>1. Len(<<f>>) = 1 /\ <<f>>[1] = f /\ l - 1 + 1 = l /\ l \in l..l /\ l - l + 1 = 1
    BY <1>6
  <2>2. /\ stack' \in Seq(Frames) /\ Len(stack') = l
        /\ \A i \in l..l : stack'[i] = <<f>>[i - l + 1]
    BY <1>6, <2>1 DEF Becomes
  <2> QED
    BY <2>1, <2>2
<1>8. stack' # <<>> /\ top' = f
  BY <1>6, <1>7, EmptySeq DEF top
<1>9. s' = t
  BY DEF Inner, s
<1> QED
  BY <1>5, <1>8, <1>9

LEMMA StmtGoesOn ==
  ASSUME InterpInv, Running, top.kind = "stmt", NEW f \in Statements, Becomes(<<f>>),
         NEW t \in Shell, Inner(t), t.depth = s.depth, t.args = s.args, StmtOK(f, t),
         open' = open - top.files + f.files, ScalarsOK', Continue, raised' = raised, quit' = quit
  PROVE  InterpInv'
<1>1. StackInv' /\ stack' # <<>>
  BY AtRunning, StmtStack
<1>2. ret.err \notin Failure /\ ret.err # "exit" /\ ~Idle
  BY AtRunning, NoneFields
<1>3. ResultInv'
  BY <1>1, <1>2, GoesOn
<1> QED
  BY <1>1, <1>3 DEF InterpInv

LEMMA StmtReturns ==
  ASSUME InterpInv, Running, top.kind = "stmt", NEW f \in Statements, Becomes(<<f>>),
         NEW t \in Shell, Inner(t), t.depth = s.depth, t.args = s.args, StmtOK(f, t),
         open' = open - top.files + f.files, ScalarsOK',
         NEW code \in Status, NEW err \in Err, err # "exit", Return(code, err),
         raised' = Failed(err), quit' = quit, err = "ctx" => canceled',
         f.pc \in {"args", "redir"} => err # "none"
  PROVE  InterpInv'
<1>1. StackInv' /\ stack' # <<>> /\ top' = f
  BY AtRunning, StmtStack
<1>2. quit' = {}
  BY AtRunning
<1>3. f.kind = "stmt"
  BY StatementFields
<1>4. ResultInv'
  BY <1>1, <1>2, <1>3, Returns
<1> QED
  BY <1>1, <1>4 DEF InterpInv

LEMMA TopStatement ==
  ASSUME StackInv, stack # <<>>, top.kind = "stmt"
  PROVE  top \in Statements /\ StmtOK(top, s) /\ top.files \in Nat /\ open \in Nat
<1>1. TypeOK /\ StmtInv /\ CallsInv
  BY DEF StackInv
<1>2. Len(stack) \in 1..Len(stack)
  BY <1>1, StackTop
<1>3. StmtOK(top, s)
  BY <1>1, <1>2 DEF StmtInv, CallsInv, top, s
<1>4. top \in Statements
  BY <1>1, StackTop, FrameKind
<1>5. top.files \in Nat
  BY <1>4, StatementFields
<1> QED
  BY <1>1, <1>3, <1>4, <1>5 DEF TypeOK

\* The pcs of a statement are its own.
LEMMA StmtPc ==
  ASSUME TypeOK, stack # <<>>, top.pc \notin {"wait", "stmt", "loop"}
  PROVE  top.kind = "stmt"
BY StackTop, FrameKind

\* The counter and the ghost after a call to step.
LEMMA StepScalars ==
  ASSUME StackInv, steps' = Counted, Raise(StepErr), ret' \in RetType,
         UNCHANGED <<canceled, open, runs, exited, result, quit>>
  PROVE  /\ ScalarsOK' /\ StepErr \in {"none", "ctx", "limit"}
         /\ (StepErr = "ctx" => canceled') /\ (StepErr # "none" => StepErr \in Failure)
<1>1. StepErr \in {"none", "ctx", "limit"} /\ (StepErr = "ctx" => canceled)
  BY DEF StepErr
<1>2. steps \in 0..MaxSteps /\ MaxSteps \in Nat
  BY InterpAssumption DEF StackInv, TypeOK
<1>3. Counted \in 0..MaxSteps
  BY <1>2 DEF Counted, StepErr
<1>4. raised' \in {"none"} \cup Failure
  BY <1>1 DEF Raise, StackInv, TypeOK
<1>5. ScalarsOK'
  BY <1>3, <1>4 DEF ScalarsOK, StackInv, TypeOK, RetType
<1> QED
  BY <1>1, <1>5 DEF Failure

LEMMA SameScalars ==
  ASSUME StackInv, Same, ret' \in RetType
  PROVE  ScalarsOK' /\ open' = open /\ raised' = raised /\ quit' = quit /\ canceled' = canceled
BY DEF Same, ScalarsOK, StackInv, TypeOK, RetType

\* The same when a failure is raised.
LEMMA RaiseScalars ==
  ASSUME StackInv, NEW err \in Err, Raise(err), ret' \in RetType,
         UNCHANGED <<steps, canceled, runs, exited, result, quit>>
  PROVE  ScalarsOK'
<1>1. raised' \in {"none"} \cup Failure
  BY DEF Raise, StackInv, TypeOK
<1> QED
  BY <1>1 DEF ScalarsOK, StackInv, TypeOK, RetType

LEMMA RaiseNone ==
  ASSUME raised = "none", NEW err, Raise(err)
  PROVE  raised' = Failed(err)
BY DEF Raise, Failed

\* Unchanged frames and shells, as local steps.
LEMMA SameLocal ==
  ASSUME StackInv, stack # <<>>
  PROVE  /\ UNCHANGED stack => Becomes(<<top>>)
         /\ UNCHANGED shells => Inner(s)
         /\ s \in Shell
BY SameBecomes, SameInner, ShellTop DEF StackInv

\* Changing a shell's table of variables, or its statuses, only.
LEMMA ShellVars ==
  ASSUME NEW u \in Shell, NEW vs \in [Var -> Variable]
  PROVE  /\ [u EXCEPT !.vars = vs] \in Shell
         /\ [u EXCEPT !.vars = vs].vars = vs
         /\ [u EXCEPT !.vars = vs].subStatus = u.subStatus
         /\ [u EXCEPT !.vars = vs].depth = u.depth /\ [u EXCEPT !.vars = vs].args = u.args
BY DEF Shell

LEMMA SetType ==
  ASSUME NEW vs \in [Var -> Variable], NEW k \in Var, NEW v \in Variable
  PROVE  /\ Set(vs, k, v) \in [Var -> Variable]
         /\ \A j \in Var : j # k => Set(vs, k, v)[j] = vs[j]
<1>1. [v EXCEPT !.exported = v.exported \/ vs[k].exported] \in Variable
  BY DEF Variable
<1> QED
  BY <1>1 DEF Set

LEMMA VariableType ==
  ASSUME NEW v \in Value, NEW e \in BOOLEAN
  PROVE  variable(v, e) \in Variable
BY DEF variable, Variable

LEMMA AtStmt ==
  ASSUME InterpInv, Running, top.pc \notin {"wait", "stmt", "loop"}
  PROVE  /\ StackInv /\ TypeOK /\ CallsInv /\ stack # <<>> /\ top.kind = "stmt" /\ top \in Statements
         /\ StmtOK(top, s) /\ top.files \in Nat /\ open \in Nat /\ open = open - top.files + top.files
         /\ raised = "none" /\ quit = {} /\ s \in Shell
<1>1. /\ StackInv /\ TypeOK /\ CallsInv /\ stack # <<>> /\ raised = "none" /\ quit = {} /\ s \in Shell
  BY AtRunning
<1>2. top.kind = "stmt"
  BY <1>1, StmtPc
<1>3. top \in Statements /\ StmtOK(top, s) /\ top.files \in Nat /\ open \in Nat
  BY <1>1, <1>2, TopStatement
<1>4. open = open - top.files + top.files
  BY <1>3
<1> QED
  BY <1>1, <1>2, <1>3, <1>4

\* The command of a statement has been called.
LEMMA CalledFields ==
  ASSUME top \in Statements, StmtOK(top, s)
  PROVE  /\ called \in Statements /\ called.pc = "run" /\ called.files = top.files
         /\ called.kind = "stmt" /\ \A t : StmtOK(called, t)
<1>1. PICK f \in Statements : f = called
  BY DEF called, Statements
<1>2. /\ f.pc = "run" /\ f.files = top.files /\ f.mode = top.mode /\ f.before = top.before
      /\ f.orig = top.orig /\ f.kind = "stmt"
  BY <1>1 DEF called, Statements
<1>3. \A t : StmtOK(f, t)
  BY <1>2 DEF StmtOK
<1> QED
  BY <1>1, <1>2, <1>3

\* An expansion or assignment of a statement is counted.
LEMMA CountedFields ==
  ASSUME top \in Statements, More
  PROVE  /\ counted \in Statements /\ counted.pc = top.pc /\ counted.files = top.files
         /\ counted.kind = "stmt" /\ counted.mode = top.mode /\ counted.name = top.name
         /\ counted.before = top.before /\ counted.orig = top.orig /\ counted.sub = top.sub
         /\ \A t : StmtOK(top, t) => StmtOK(counted, t)
<1>1. top.parts \in 0..MaxParts /\ MaxParts \in Nat /\ top.parts < MaxParts
  BY StatementFields, InterpAssumption DEF More
<1>2. top.parts + 1 \in 0..MaxParts
  BY <1>1
<1>3. PICK n \in 0..MaxParts : n = top.parts + 1
  BY <1>2
<1>4. PICK f \in Statements : f = [top EXCEPT !.parts = n]
  BY DEF Statements
<1>5. counted = f
  BY <1>3, <1>4 DEF counted
<1>6. /\ f.pc = top.pc /\ f.files = top.files /\ f.kind = "stmt" /\ f.mode = top.mode
      /\ f.name = top.name /\ f.before = top.before /\ f.orig = top.orig /\ f.sub = top.sub
  BY <1>4 DEF Statements
<1>7. \A t : StmtOK(top, t) => StmtOK(f, t)
  BY <1>6 DEF StmtOK
<1> QED
  BY <1>5, <1>6, <1>7

LEMMA CalledReturns ==
  ASSUME InterpInv, Running, top.pc \notin {"wait", "stmt", "loop"}, Update(called),
         NEW t \in Shell, Inner(t), t.depth = s.depth, t.args = s.args, open' = open, ScalarsOK',
         NEW code \in Status, NEW err \in Err, err # "exit", Return(code, err),
         raised' = Failed(err), quit' = quit, err = "ctx" => canceled'
  PROVE  InterpInv'
<1>1. /\ StackInv /\ TypeOK /\ stack # <<>> /\ top.kind = "stmt" /\ top \in Statements
      /\ StmtOK(top, s) /\ open = open - top.files + top.files
  BY AtStmt
<1>2. PICK f \in Statements : f = called /\ f.files = top.files /\ f.pc = "run" /\ StmtOK(f, t)
  BY <1>1, CalledFields
<1>3. Becomes(<<f>>)
  BY <1>1, <1>2, StatementFields, UpdateBecomes
<1>4. open' = open - top.files + f.files
  BY <1>1, <1>2
<1>5. f.pc \notin {"args", "redir"}
  BY <1>2
<1> QED
  BY <1>1, <1>2, <1>3, <1>4, <1>5, StmtReturns

\* The statement stays as it is and has failed.
LEMMA StmtFails ==
  ASSUME InterpInv, Running, top.pc \notin {"wait", "stmt", "loop"}, UNCHANGED <<stack, shells, open>>,
         ScalarsOK', NEW err \in Failure, Return(1, err), raised' = Failed(err), quit' = quit,
         err = "ctx" => canceled'
  PROVE  InterpInv'
<1>1. /\ StackInv /\ TypeOK /\ stack # <<>> /\ top.kind = "stmt" /\ top \in Statements
      /\ StmtOK(top, s) /\ open = open - top.files + top.files /\ s \in Shell
  BY AtStmt
<1>2. Becomes(<<top>>) /\ Inner(s)
  BY <1>1, SameLocal
<1>3. 1 \in Status /\ err \in Err /\ err # "exit" /\ err # "none"
  BY DEF Status, Err, Failure
<1>4. PICK f \in Statements : f = top
  BY <1>1
<1>5. Becomes(<<f>>) /\ StmtOK(f, s) /\ open' = open - top.files + f.files
  BY <1>1, <1>2, <1>4
<1> QED
  BY <1>1, <1>2, <1>3, <1>5, StmtReturns

-----------------------------------------------------------------------------
(* Every action keeps the invariant: statements that return *)

LEMMA ReturnType ==
  ASSUME NEW code \in Status, NEW err \in Err, Return(code, err)
  PROVE  ret' \in RetType
BY ResultsFields DEF Return

LEMMA Statuses == 0 \in Status /\ 1 \in Status /\ "none" \in Err /\ Failure \subseteq Err
                  /\ Flow \subseteq Err /\ "none" \notin Failure /\ "exit" \notin Failure
                  /\ "limit" \in Failure /\ "ctx" \in Failure /\ "fail" \in Failure
BY DEF Status, Err, Failure, Flow

\* A failure is raised and the statement stays as it is.
LEMMA FailsHere ==
  ASSUME InterpInv, Running, top.pc \notin {"wait", "stmt", "loop"}, NEW err \in Failure,
         err = "ctx" => canceled, Return(1, err), Raise(err),
         UNCHANGED <<stack, shells, steps, canceled, open, runs, exited, result, quit>>
  PROVE  InterpInv'
<1>1. ret' \in RetType /\ err \in Err
  BY Statuses, ReturnType
<1>2. ScalarsOK'
  BY <1>1, RaiseScalars DEF InterpInv
<1>3. raised' = Failed(err)
  BY AtRunning, RaiseNone
<1> QED
  BY <1>2, <1>3, StmtFails

LEMMA ExpandFailKeeps ==
  ASSUME InterpInv, NEW err \in Failure, ExpandFail(err)
  PROVE  InterpInv'
<1>1. Running /\ top.pc \notin {"wait", "stmt", "loop"}
  BY DEF ExpandFail, Expanding
<1> QED
  BY <1>1, FailsHere DEF ExpandFail

LEMMA ExportDynamicKeeps ==
  ASSUME InterpInv, ExportDynamic
  PROVE  InterpInv'
<1>1. Running /\ top.pc \notin {"wait", "stmt", "loop"}
  BY DEF ExportDynamic
<1>2. "fail" \in Failure /\ "fail" # "ctx"
  BY Statuses
<1> QED
  BY <1>1, <1>2, FailsHere DEF ExportDynamic

\* The command has been called and has returned, in the same shell.
LEMMA ReturnsHere ==
  ASSUME InterpInv, Running, top.pc \notin {"wait", "stmt", "loop"}, Update(called),
         NEW code \in Status, NEW err \in Err, err # "exit", err = "ctx" => canceled,
         Return(code, err), raised' = Failed(err), NEW t \in Shell, Inner(t),
         t.depth = s.depth, t.args = s.args, steps' \in 0..MaxSteps,
         UNCHANGED <<canceled, open, runs, exited, result, quit>>
  PROVE  InterpInv'
<1>1. ret' \in RetType
  BY ReturnType
<1>2. raised' \in {"none"} \cup Failure
  BY DEF Failed
<1>3. ScalarsOK'
  BY <1>1, <1>2 DEF ScalarsOK, InterpInv, StackInv, TypeOK, RetType
<1> QED
  BY <1>3, CalledReturns

\* The same without a failure, when all that is left is the same.
LEMMA EndsHere ==
  ASSUME InterpInv, Running, top.pc \notin {"wait", "stmt", "loop"}, Update(called),
         NEW code \in Status, NEW err \in Err \ Failure, err # "exit", Return(code, err),
         NEW t \in Shell, Inner(t), t.depth = s.depth, t.args = s.args, Same
  PROVE  InterpInv'
<1>1. raised' = Failed(err)
  BY AtRunning DEF Same, Failed
<1>2. steps' \in 0..MaxSteps /\ UNCHANGED <<canceled, open, runs, exited, result, quit>>
  BY DEF Same, InterpInv, StackInv, TypeOK
<1>3. err # "ctx"
  BY Statuses
<1> QED
  BY <1>1, <1>2, <1>3, ReturnsHere

LEMMA InnerHere ==
  ASSUME InterpInv, Running, UNCHANGED shells
  PROVE  Inner(s) /\ s \in Shell
BY AtRunning, SameInner

LEMMA CommandKeeps ==
  ASSUME InterpInv, NEW code \in Status, NEW err \in {"none"} \cup Failure, Command(code, err)
  PROVE  InterpInv'
<1>1. Running /\ top.pc \notin {"wait", "stmt", "loop"} /\ UNCHANGED shells
  BY DEF Command
<1>2. Inner(s) /\ s \in Shell
  BY <1>1, InnerHere
<1>3. err \in Err /\ err # "exit"
  BY Statuses
<1>4. raised' = Failed(err)
  BY <1>1, AtRunning, RaiseNone DEF Command
<1>5. steps' \in 0..MaxSteps
  BY DEF Command, InterpInv, StackInv, TypeOK
<1> QED
  BY <1>1, <1>2, <1>3, <1>4, <1>5, ReturnsHere DEF Command

LEMMA CdKeeps ==
  ASSUME InterpInv, NEW d \in Dir, cd(d)
  PROVE  InterpInv'
<1>1. Running /\ top.pc \notin {"wait", "stmt", "loop"}
  BY DEF cd
<1>2. s \in Shell /\ TypeOK /\ CallsInv
  BY <1>1, AtRunning
<1>3. s.cwd \in Value /\ d \in Value
  BY <1>2, InterpAssumption DEF Shell
<1>4. PICK vs : vs = [k \in Var |->
         IF k = "OLDPWD" THEN variable(s.cwd, TRUE) ELSE IF k = "PWD" THEN variable(d, TRUE) ELSE s.vars[k]]
  OBVIOUS
<1>5. vs \in [Var -> Variable]
  <2>1. variable(s.cwd, TRUE) \in Variable /\ variable(d, TRUE) \in Variable
    BY <1>3, VariableType
  <2>2. \A k \in Var : s.vars[k] \in Variable
    BY <1>2 DEF Shell
  <2> QED
    BY <1>4, <2>1, <2>2
<1>6. PICK t \in Shell : t = [s EXCEPT !.cwd = d, !.vars = vs]
  BY <1>2, <1>5 DEF Shell
<1>7. t.depth = s.depth /\ t.args = s.args
  BY <1>2, <1>6 DEF Shell
<1>8. Inner(t)
  BY <1>2, <1>4, <1>6, ChangeInner DEF cd
<1>9. Update(called) /\ Return(0, "none") /\ Same
  BY DEF cd
<1>10. 0 \in Status /\ "none" \in Err \ Failure /\ "none" # "exit"
  BY Statuses
<1> QED
  BY <1>1, <1>7, <1>8, <1>9, <1>10, EndsHere

LEMMA UnsetKeeps ==
  ASSUME InterpInv, NEW k \in Var, unset(k)
  PROVE  InterpInv'
<1>1. Running /\ top.pc \notin {"wait", "stmt", "loop"}
  BY DEF unset
<1>2. s \in Shell /\ TypeOK /\ CallsInv
  BY <1>1, AtRunning
<1>3. Zero \in Variable
  BY InterpAssumption DEF Zero, Variable
<1>4. PICK t \in Shell : t = [s EXCEPT !.vars[k] = Zero]
  BY <1>2, <1>3 DEF Shell
<1>5. t.depth = s.depth /\ t.args = s.args
  BY <1>2, <1>4 DEF Shell
<1>6. Inner(t)
  BY <1>2, <1>4, ChangeInner DEF unset
<1>7. Update(called) /\ Return(0, "none") /\ Same
  BY DEF unset
<1>8. 0 \in Status /\ "none" \in Err \ Failure /\ "none" # "exit"
  BY Statuses
<1> QED
  BY <1>1, <1>5, <1>6, <1>7, <1>8, EndsHere

LEMMA BreakContinueKeeps ==
  ASSUME InterpInv, NEW kind \in {"break", "continue"}, BreakContinue(kind)
  PROVE  InterpInv'
<1>1. Running /\ top.pc \notin {"wait", "stmt", "loop"} /\ UNCHANGED shells
  BY DEF BreakContinue
<1>2. Inner(s) /\ s \in Shell
  BY <1>1, InnerHere
<1>3. kind \in Err \ Failure /\ kind # "exit" /\ 0 \in Status
  BY DEF Err, Flow, Failure, Status
<1> QED
  BY <1>1, <1>2, <1>3, EndsHere DEF BreakContinue

LEMMA NilKeeps ==
  ASSUME InterpInv, Nil
  PROVE  InterpInv'
<1>1. Running /\ top.pc \notin {"wait", "stmt", "loop"} /\ UNCHANGED shells
  BY DEF Nil, AtCommand
<1>2. Inner(s) /\ s \in Shell
  BY <1>1, InnerHere
<1>3. s.subStatus \in Status /\ "none" \in Err \ Failure /\ "none" # "exit"
  BY <1>2, Statuses DEF Shell
<1> QED
  BY <1>1, <1>2, <1>3, EndsHere DEF Nil

LEMMA ArithmKeeps ==
  ASSUME InterpInv, NEW code \in Status, Arithm(code)
  PROVE  InterpInv'
<1>1. Running /\ top.pc \notin {"wait", "stmt", "loop"} /\ UNCHANGED shells
  BY DEF Arithm
<1>2. Inner(s) /\ s \in Shell
  BY <1>1, InnerHere
<1>3. "none" \in Err \ Failure /\ "none" # "exit"
  BY Statuses
<1> QED
  BY <1>1, <1>2, <1>3, EndsHere DEF Arithm

LEMMA FuncDeclKeeps ==
  ASSUME InterpInv, NEW f \in Func, FuncDecl(f)
  PROVE  InterpInv'
<1>1. Running /\ top.pc \notin {"wait", "stmt", "loop"} /\ Update(called)
  BY DEF FuncDecl, AtCommand
<1>2. s \in Shell /\ TypeOK /\ CallsInv /\ raised = "none"
  BY <1>1, AtRunning
<1>3. steps' \in 0..MaxSteps /\ UNCHANGED <<canceled, open, runs, exited, result, quit>>
  BY DEF FuncDecl, InterpInv, StackInv, TypeOK
<1>4. CASE Cardinality(s.funcs) >= MaxFuncs
  <2>1. Return(1, "limit") /\ Raise("limit") /\ UNCHANGED shells
    BY <1>4 DEF FuncDecl
  <2>2. 1 \in Status /\ "limit" \in Err /\ "limit" # "exit" /\ "limit" # "ctx"
    BY Statuses
  <2>3. Inner(s) /\ raised' = Failed("limit")
    BY <1>1, <1>2, <2>1, InnerHere, RaiseNone
  <2> QED
    BY <1>1, <1>2, <1>3, <2>1, <2>2, <2>3, ReturnsHere
<1>5. CASE ~(Cardinality(s.funcs) >= MaxFuncs)
  <2>1. Return(0, "none") /\ Change([s EXCEPT !.funcs = @ \cup {f}]) /\ UNCHANGED raised
    BY <1>5 DEF FuncDecl
  <2>2. PICK t \in Shell : t = [s EXCEPT !.funcs = @ \cup {f}]
    BY <1>2 DEF Shell
  <2>3. t.depth = s.depth /\ t.args = s.args
    BY <1>2, <2>2 DEF Shell
  <2>4. Inner(t)
    BY <1>2, <2>1, <2>2, ChangeInner
  <2>5. 0 \in Status /\ "none" \in Err /\ "none" # "exit" /\ "none" # "ctx"
    BY Statuses
  <2>6. raised' = Failed("none")
    BY <1>2, <2>1 DEF Failed
  <2> QED
    BY <1>1, <1>3, <2>1, <2>3, <2>4, <2>5, <2>6, ReturnsHere
<1> QED
  BY <1>4, <1>5

\* The stages of a pipeline take a step each and leave as one result.
LEMMA PipeKeeps ==
  ASSUME InterpInv, NEW code \in Status, NEW err \in Err \ {"exit", "ctx"}, Pipe(code, err)
  PROVE  InterpInv'
<1>1. Running /\ top.pc \notin {"wait", "stmt", "loop"} /\ Update(called) /\ UNCHANGED shells
  BY DEF Pipe, AtCommand
<1>2. Inner(s) /\ s \in Shell /\ raised = "none"
  BY <1>1, InnerHere, AtRunning
<1>3. UNCHANGED <<canceled, open, runs, exited, result, quit>> /\ Raise(ret'.err)
  BY DEF Pipe
<1>4. steps \in 0..MaxSteps /\ MaxSteps \in Nat
  BY InterpAssumption DEF InterpInv, StackInv, TypeOK
<1>5. CASE canceled \/ steps + 2 > MaxSteps
  <2>1. PICK e \in {"ctx", "limit"} : e = IF canceled THEN "ctx" ELSE "limit"
    OBVIOUS
  <2>2. Return(1, e) /\ UNCHANGED steps
    BY <1>5, <2>1 DEF Pipe
  <2>3. 1 \in Status /\ e \in Err /\ e # "exit" /\ (e = "ctx" => canceled)
    BY <2>1, Statuses
  <2>4. ret'.err = e
    BY <2>2, <2>3, ResultsFields DEF Return
  <2>5. raised' = Failed(e)
    BY <1>2, <1>3, <2>4, RaiseNone
  <2> QED
    BY <1>1, <1>2, <1>3, <1>4, <2>2, <2>3, <2>5, ReturnsHere
<1>6. CASE ~(canceled \/ steps + 2 > MaxSteps)
  <2>1. Return(code, err) /\ steps' = steps + 2
    BY <1>6 DEF Pipe
  <2>2. steps' \in 0..MaxSteps
    BY <1>4, <1>6, <2>1
  <2>3. err \in Err /\ err # "exit" /\ err # "ctx"
    OBVIOUS
  <2>4. ret'.err = err
    BY <2>1, <2>3, ResultsFields DEF Return
  <2>5. raised' = Failed(err)
    BY <1>2, <1>3, <2>4, RaiseNone
  <2> QED
    BY <1>1, <1>2, <1>3, <2>1, <2>2, <2>3, <2>5, ReturnsHere
<1> QED
  BY <1>5, <1>6

\* exit and return: the only steps that ask for an exit.
LEMMA ExitReturnKeeps ==
  ASSUME InterpInv, NEW kind \in {"exit", "return"}, NEW code \in Status, ExitReturn(kind, code)
  PROVE  InterpInv'
<1>1. Running /\ top.pc \notin {"wait", "stmt", "loop"} /\ Update(called) /\ UNCHANGED shells
  BY DEF ExitReturn
<1>2. /\ StackInv /\ TypeOK /\ stack # <<>> /\ top.kind = "stmt" /\ top \in Statements
      /\ StmtOK(top, s) /\ open = open - top.files + top.files /\ raised = "none" /\ quit = {}
  BY <1>1, AtStmt
<1>3. Inner(s) /\ s \in Shell
  BY <1>1, InnerHere
<1>4. PICK f \in Statements : f = called /\ f.files = top.files /\ f.pc = "run" /\ StmtOK(f, s)
  BY <1>2, CalledFields
<1>5. Becomes(<<f>>)
  BY <1>1, <1>2, <1>4, StatementFields, UpdateBecomes
<1>6. open' = open - top.files + f.files
  BY <1>2, <1>4 DEF ExitReturn
<1>7. kind \in Err /\ kind \notin Failure
  BY DEF Err, Flow, Failure
<1>8. ret' = Results(code, kind) /\ ret' \in RetType /\ ret' # None /\ ret'.code = code /\ ret'.err = kind
  BY <1>7, ResultsFields DEF ExitReturn, Return
<1>9. quit' = IF kind = "exit" /\ Len(shells) = 1 THEN {code} ELSE {}
  BY <1>2 DEF ExitReturn
<1>10. ScalarsOK'
  <2>1. quit' \subseteq Status
    BY <1>9
  <2> QED
    BY <1>8, <2>1 DEF ScalarsOK, ExitReturn, StackInv, TypeOK, RetType, InterpInv
<1>11. StackInv' /\ stack' # <<>> /\ top' = f
  BY <1>2, <1>3, <1>4, <1>5, <1>6, <1>10, StmtStack
<1>12. ~Idle'
  BY <1>11 DEF Idle
<1>13. raised' = "none"
  BY <1>2 DEF ExitReturn
<1>14. RetInv'
  <2>1. kind # "pending" /\ kind # "ctx"
    OBVIOUS
  <2>2. Failed(ret'.err) = "none"
    BY <1>7, <1>8 DEF Failed
  <2> QED
    BY <1>8, <1>12, <1>13, <2>1, <2>2 DEF RetInv
<1>15. FlowInv'
  <2>1. top'.kind = "stmt" /\ top'.pc = "run"
    BY <1>4, <1>11, StatementFields
  <2> QED
    BY <2>1 DEF FlowInv
<1>16. ExitInv'
  <2>1. Len(shells') = Len(shells)
    BY <1>1
  <2>2. top'.pc = "run"
    BY <1>4, <1>11
  <2>3. quit' # {} => kind = "exit" /\ Len(shells) = 1
    BY <1>9
  <2>4. kind = "exit" /\ Len(shells) = 1 => quit' = {code}
    BY <1>9
  <2> QED
    BY <1>8, <1>12, <2>1, <2>2, <2>3, <2>4 DEF ExitInv
<1> QED
  BY <1>11, <1>14, <1>15, <1>16 DEF InterpInv, ResultInv

-----------------------------------------------------------------------------
(* Statements that go on *)

LEMMA GoesOnHere ==
  ASSUME InterpInv, Running, top.pc \notin {"wait", "stmt", "loop"},
         NEW f \in Statements, Update(f), f.files = top.files,
         NEW t \in Shell, Inner(t), t.depth = s.depth, t.args = s.args, StmtOK(f, t),
         Continue, Same
  PROVE  InterpInv'
<1>1. /\ StackInv /\ TypeOK /\ stack # <<>> /\ top.kind = "stmt" /\ open = open - top.files + top.files
  BY AtStmt
<1>2. Becomes(<<f>>)
  BY <1>1, StatementFields, UpdateBecomes
<1>3. ret' \in RetType
  BY NoneFields DEF Continue
<1>4. ScalarsOK' /\ open' = open /\ raised' = raised /\ quit' = quit
  BY <1>1, <1>3, SameScalars
<1>5. open' = open - top.files + f.files
  BY <1>1, <1>4
<1> QED
  BY <1>1, <1>2, <1>4, <1>5, StmtGoesOn

\* A call to step that lets the statement go on as f.
LEMMA StepGoesOn ==
  ASSUME InterpInv, Running, top.pc \notin {"wait", "stmt", "loop"}, UNCHANGED shells,
         NEW f \in Statements, Update(f), f.files = top.files, StmtOK(f, s), Continue,
         steps' = Counted, Raise(StepErr), StepErr = "none",
         UNCHANGED <<canceled, open, runs, exited, result, quit>>
  PROVE  InterpInv'
<1>1. /\ StackInv /\ TypeOK /\ stack # <<>> /\ top.kind = "stmt" /\ open = open - top.files + top.files
      /\ raised = "none"
  BY AtStmt
<1>2. Becomes(<<f>>) /\ Inner(s) /\ s \in Shell
  BY <1>1, StatementFields, UpdateBecomes, InnerHere
<1>3. ret' \in RetType
  BY NoneFields DEF Continue
<1>4. ScalarsOK'
  BY <1>1, <1>3, StepScalars
<1>5. raised' = raised
  BY Statuses DEF Raise
<1>6. open' = open - top.files + f.files
  BY <1>1
<1> QED
  BY <1>1, <1>2, <1>4, <1>5, <1>6, StmtGoesOn

\* A call to step that does not.
LEMMA StepFails ==
  ASSUME InterpInv, Running, steps' = Counted, Raise(StepErr), StepErr # "none", Return(1, StepErr),
         UNCHANGED <<canceled, open, runs, exited, result, quit>>
  PROVE  /\ ScalarsOK' /\ steps' \in 0..MaxSteps /\ StepErr \in Failure /\ StepErr \in Err
         /\ StepErr # "exit" /\ (StepErr = "ctx" => canceled) /\ raised' = Failed(StepErr)
<1>1. StepErr \in {"ctx", "limit"} /\ (StepErr = "ctx" => canceled)
  BY DEF StepErr
<1>2. StepErr \in Failure /\ StepErr \in Err /\ StepErr # "exit"
  BY <1>1, Statuses
<1>3. ret' \in RetType
  BY <1>2, Statuses, ResultsFields DEF Return
<1>4. ScalarsOK'
  BY <1>3, StepScalars DEF InterpInv
<1>5. raised = "none"
  BY AtRunning
<1>6. raised' = Failed(StepErr)
  BY <1>5 DEF Raise, Failed
<1> QED
  BY <1>1, <1>2, <1>4, <1>6 DEF ScalarsOK

LEMMA GlobKeeps ==
  ASSUME InterpInv, Glob
  PROVE  InterpInv'
<1>1. Running /\ top.pc \notin {"wait", "stmt", "loop"} /\ More /\ UNCHANGED shells
  BY DEF Glob, Expanding
<1>2. /\ steps' = Counted /\ Raise(StepErr)
      /\ UNCHANGED <<canceled, open, runs, exited, result, quit>>
  BY DEF Glob, Step
<1>3. top \in Statements /\ StmtOK(top, s)
  BY <1>1, AtStmt
<1>4. CASE StepErr = "none"
  <2>1. Update(counted) /\ Continue
    BY <1>4 DEF Glob, Step
  <2>2. PICK f \in Statements : f = counted /\ f.files = top.files /\ StmtOK(f, s)
    BY <1>1, <1>3, CountedFields
  <2> QED
    BY <1>1, <1>2, <1>4, <2>1, <2>2, StepGoesOn
<1>5. CASE StepErr # "none"
  <2>1. UNCHANGED stack /\ Return(1, StepErr)
    BY <1>5 DEF Glob, Step
  <2>2. PICK e \in Failure : e = StepErr
    BY <1>1, <1>2, <1>5, <2>1, StepFails
  <2>3. ScalarsOK' /\ (e = "ctx" => canceled) /\ raised' = Failed(e) /\ Return(1, e)
    BY <1>1, <1>2, <1>5, <2>1, <2>2, StepFails
  <2> QED
    BY <1>1, <1>2, <2>1, <2>3, StmtFails
<1> QED
  BY <1>4, <1>5

LEMMA XargsBatchKeeps ==
  ASSUME InterpInv, XargsBatch
  PROVE  InterpInv'
<1>1. Running /\ top.pc \in {"call", "xargs"} /\ UNCHANGED shells
  BY DEF XargsBatch
<1>2. /\ steps' = Counted /\ Raise(StepErr)
      /\ UNCHANGED <<canceled, open, runs, exited, result, quit>>
  BY DEF XargsBatch, Step
<1>3. top \in Statements /\ StmtOK(top, s) /\ top.pc \notin {"wait", "stmt", "loop"}
  BY <1>1, AtStmt
<1>4. CASE StepErr = "none"
  <2>1. Update([top EXCEPT !.pc = "xargs"]) /\ Continue
    BY <1>4 DEF XargsBatch, Step
  <2>2. PICK f \in Statements : f = [top EXCEPT !.pc = "xargs"]
    BY <1>3 DEF Statements
  <2>3. /\ f.pc = "xargs" /\ f.files = top.files /\ f.mode = top.mode /\ f.before = top.before
        /\ f.orig = top.orig /\ f.sub = top.sub /\ f.name = top.name
    BY <1>3, <2>2 DEF Statements
  <2>4. StmtOK(f, s)
    BY <1>1, <1>3, <2>3 DEF StmtOK
  <2> QED
    BY <1>1, <1>2, <1>3, <1>4, <2>1, <2>2, <2>3, <2>4, StepGoesOn
<1>5. CASE StepErr # "none"
  <2>1. Update(called) /\ Return(1, StepErr)
    BY <1>5 DEF XargsBatch, Step
  <2>2. PICK e \in Err : e = StepErr
    BY <1>1, <1>2, <1>5, <2>1, StepFails
  <2>3. /\ steps' \in 0..MaxSteps /\ (e = "ctx" => canceled) /\ raised' = Failed(e) /\ Return(1, e)
        /\ e # "exit"
    BY <1>1, <1>2, <1>5, <2>1, <2>2, StepFails
  <2>4. Inner(s) /\ s \in Shell /\ 1 \in Status
    BY <1>1, InnerHere, Statuses
  <2> QED
    BY <1>1, <1>2, <1>3, <2>1, <2>3, <2>4, ReturnsHere
<1> QED
  BY <1>4, <1>5

\* A statement that has made no prefix assignment moves on.
LEMMA MovesOn ==
  ASSUME InterpInv, Running, top.pc \notin {"wait", "stmt", "loop", "run"}, UNCHANGED shells,
         Continue, Same, DOMAIN top.before = {} /\ DOMAIN top.orig = {},
         NEW pc \in {"redir", "assign", "words", "command"},
         NEW mode \in {"plain", "prefix", "export", "other"},
         NEW f, f = [top EXCEPT !.pc = pc, !.mode = mode], Update(f)
  PROVE  InterpInv'
<1>1. top \in Statements /\ StmtOK(top, s)
  BY AtStmt
<1>2. f \in Statements
  BY <1>1 DEF Statements
<1>3. /\ f.pc = pc /\ f.mode = mode /\ f.files = top.files /\ f.before = top.before
      /\ f.orig = top.orig /\ f.sub = top.sub
  BY <1>1, <1>2 DEF Statements
<1>4. top.sub = s.subStatus
  BY <1>1 DEF StmtOK
<1>5. Inner(s) /\ s \in Shell
  BY InnerHere
<1>6. StmtOK(f, s)
  BY <1>3, <1>4 DEF StmtOK
<1> QED
  BY <1>2, <1>3, <1>5, <1>6, GoesOnHere

LEMMA ArgsDoneKeeps ==
  ASSUME InterpInv, NEW words \in BOOLEAN, ArgsDone(words)
  PROVE  InterpInv'
<1>1. /\ Running /\ top.pc = "args" /\ top.pc \notin {"wait", "stmt", "loop", "run"}
      /\ UNCHANGED shells /\ Continue /\ Same
  BY DEF ArgsDone
<1>2. PICK mode \in {"plain", "prefix", "export", "other"} : mode = IF words THEN "prefix" ELSE "plain"
  OBVIOUS
<1>3. PICK f : f = [top EXCEPT !.pc = "redir", !.mode = mode]
  OBVIOUS
<1>4. Update(f)
  BY <1>2, <1>3 DEF ArgsDone
<1>5. DOMAIN top.before = {} /\ DOMAIN top.orig = {}
  BY <1>1, AtStmt DEF StmtOK
<1> QED
  BY <1>1, <1>3, <1>4, <1>5, MovesOn

LEMMA RedirectDoneKeeps ==
  ASSUME InterpInv, RedirectDone
  PROVE  InterpInv'
<1>1. /\ Running /\ top.pc = "redir" /\ top.pc \notin {"wait", "stmt", "loop", "run"}
      /\ UNCHANGED shells /\ Continue /\ Same
  BY DEF RedirectDone
<1>2. top \in Statements /\ StmtOK(top, s)
  BY <1>1, AtStmt
<1>3. top.mode \in {"plain", "prefix", "export", "other"}
  BY <1>2, StatementFields
<1>4. PICK mode \in {"plain", "prefix", "export", "other"} : mode = top.mode
  BY <1>3
<1>5. PICK pc \in {"redir", "assign", "words", "command"} :
         pc = IF top.mode = "other" THEN "command" ELSE "assign"
  OBVIOUS
<1>6. PICK f : f = [top EXCEPT !.pc = pc, !.mode = mode]
  OBVIOUS
<1>7. f = [top EXCEPT !.pc = pc]
  BY <1>2, <1>4, <1>6 DEF Statements
<1>8. Update(f)
  BY <1>5, <1>7 DEF RedirectDone
<1>9. DOMAIN top.before = {} /\ DOMAIN top.orig = {}
  BY <1>1, <1>2 DEF StmtOK
<1> QED
  BY <1>1, <1>6, <1>8, <1>9, MovesOn

LEMMA DeclKeeps ==
  ASSUME InterpInv, Decl
  PROVE  InterpInv'
<1>1. /\ Running /\ top.pc = "command" /\ top.pc \notin {"wait", "stmt", "loop", "run"}
      /\ UNCHANGED shells /\ Continue /\ Same
  BY DEF Decl, AtCommand
<1>2. PICK f : f = [top EXCEPT !.pc = "assign", !.mode = "export"]
  OBVIOUS
<1>3. Update(f)
  BY <1>2 DEF Decl
<1>4. DOMAIN top.before = {} /\ DOMAIN top.orig = {}
  BY <1>1, AtStmt DEF StmtOK
<1> QED
  BY <1>1, <1>2, <1>3, <1>4, MovesOn

LEMMA WordsKeeps ==
  ASSUME InterpInv, Words
  PROVE  InterpInv'
<1>1. /\ Running /\ top.pc = "command" /\ top.pc \notin {"wait", "stmt", "loop", "run"}
      /\ UNCHANGED shells /\ Continue /\ Same
  BY DEF Words, AtCommand
<1>2. top \in Statements /\ StmtOK(top, s)
  BY <1>1, AtStmt
<1>3. PICK mode \in {"plain", "prefix", "export", "other"} : mode = top.mode
  BY <1>2, StatementFields
<1>4. PICK f : f = [top EXCEPT !.pc = "words", !.mode = mode]
  OBVIOUS
<1>5. f = [top EXCEPT !.pc = "words"]
  BY <1>2, <1>3, <1>4 DEF Statements
<1>6. Update(f)
  BY <1>5 DEF Words
<1>7. DOMAIN top.before = {} /\ DOMAIN top.orig = {}
  BY <1>1, <1>2 DEF StmtOK
<1> QED
  BY <1>1, <1>4, <1>6, <1>7, MovesOn

LEMMA OpenFileKeeps ==
  ASSUME InterpInv, NEW writer \in BOOLEAN, OpenFile(writer)
  PROVE  InterpInv'
<1>1. /\ Running /\ top.pc = "redir" /\ top.pc \notin {"wait", "stmt", "loop"} /\ top.files < MaxFiles
      /\ UNCHANGED <<shells, steps, canceled, runs, exited, result, quit>> /\ open' = open + 1
  BY DEF OpenFile
<1>2. /\ StackInv /\ TypeOK /\ stack # <<>> /\ top.kind = "stmt" /\ top \in Statements
      /\ StmtOK(top, s) /\ raised = "none" /\ open \in Nat
  BY <1>1, AtStmt
<1>3. Inner(s) /\ s \in Shell
  BY <1>1, InnerHere
<1>4. top.files \in 0..MaxFiles /\ MaxFiles \in Nat
  BY <1>2, StatementFields, InterpAssumption
<1>5. PICK n \in 0..MaxFiles : n = top.files + 1
  BY <1>1, <1>4
<1>6. PICK f \in Statements : f = [top EXCEPT !.files = n]
  BY <1>2 DEF Statements
<1>7. /\ f.pc = "redir" /\ f.files = n /\ f.mode = top.mode /\ f.before = top.before
      /\ f.orig = top.orig /\ f.sub = top.sub
  BY <1>1, <1>2, <1>6 DEF Statements
<1>8. StmtOK(f, s)
  BY <1>1, <1>2, <1>7 DEF StmtOK
<1>9. Becomes(<<f>>)
  <2>1. Update(f)
    BY <1>5, <1>6 DEF OpenFile
  <2> QED
    BY <1>2, <2>1, StatementFields, UpdateBecomes
<1>10. open' = open - top.files + f.files
  BY <1>1, <1>2, <1>4, <1>5, <1>7
<1>11. CASE writer
  <2>1. Continue /\ UNCHANGED raised
    BY <1>11 DEF OpenFile
  <2>2. ret' \in RetType
    BY <2>1, NoneFields DEF Continue
  <2>3. ScalarsOK'
    BY <1>1, <1>2, <2>1, <2>2 DEF ScalarsOK, StackInv, TypeOK, RetType
  <2> QED
    BY <1>1, <1>2, <1>3, <1>8, <1>9, <1>10, <2>1, <2>3, StmtGoesOn
<1>12. CASE ~writer
  <2>1. Return(1, "fail") /\ Raise("fail")
    BY <1>12 DEF OpenFile
  <2>2. 1 \in Status /\ "fail" \in Err /\ "fail" # "exit" /\ "fail" # "ctx" /\ "fail" # "none"
    BY Statuses
  <2>3. ret' \in RetType
    BY <2>1, <2>2, ReturnType
  <2>4. ScalarsOK' /\ raised' = Failed("fail")
    BY <1>1, <1>2, <2>1, <2>2, <2>3, RaiseScalars, RaiseNone
  <2> QED
    BY <1>1, <1>2, <1>3, <1>8, <1>9, <1>10, <2>1, <2>2, <2>4, StmtReturns
<1> QED
  BY <1>11, <1>12

\* The variables a statement has saved, for its fields before and orig.
Saved == UNION {[D -> Variable] : D \in SUBSET Var}

LEMMA SavedType ==
  ASSUME NEW f, DOMAIN f \subseteq Var, f = [k \in DOMAIN f |-> f[k]],
         \A k \in DOMAIN f : f[k] \in Variable
  PROVE  f \in Saved
<1>1. f \in [DOMAIN f -> Variable]
  OBVIOUS
<1> QED
  BY <1>1 DEF Saved

LEMMA SavedFields ==
  ASSUME NEW f \in Statements
  PROVE  f.before \in Saved /\ f.orig \in Saved
BY DEF Statements, Saved

\* The name that is assigned next is saved, once.
LEMMA AssignStartKeeps ==
  ASSUME InterpInv, NEW k \in Var, AssignStart(k)
  PROVE  InterpInv'
<1>1. /\ Running /\ top.pc = "assign" /\ top.pc \notin {"wait", "stmt", "loop"} /\ More
      /\ UNCHANGED shells /\ Continue /\ Same
  BY DEF AssignStart
<1>2. top \in Statements /\ StmtOK(top, s)
  BY <1>1, AtStmt
<1>3. Inner(s) /\ s \in Shell
  BY <1>1, InnerHere
<1>4. PICK c \in Statements : c = counted
  BY <1>1, <1>2, CountedFields
<1>5. /\ c.pc = "assign" /\ c.files = top.files /\ c.mode = top.mode /\ c.name = top.name
      /\ c.before = top.before /\ c.orig = top.orig /\ c.sub = top.sub
  BY <1>1, <1>2, <1>4, CountedFields
<1>6. s.vars \in [Var -> Variable]
  BY <1>3 DEF Shell
<1>7. c.sub = s.subStatus
  BY <1>1, <1>2, <1>5 DEF StmtOK
<1>8. CASE top.mode # "prefix"
  <2>1. PICK f \in Statements : f = [c EXCEPT !.pc = "value", !.name = k]
    BY DEF Statements
  <2>2. /\ f.pc = "value" /\ f.files = c.files /\ f.mode = c.mode /\ f.before = c.before
        /\ f.orig = c.orig /\ f.sub = c.sub
    BY <2>1 DEF Statements
  <2>3. Update(f)
    BY <1>4, <1>8, <2>1 DEF AssignStart
  <2>4. DOMAIN top.before = {} /\ DOMAIN top.orig = {}
    BY <1>2, <1>8 DEF StmtOK
  <2>5. StmtOK(f, s)
    BY <1>5, <1>7, <1>8, <2>2, <2>4 DEF StmtOK
  <2> QED
    BY <1>1, <1>3, <1>5, <2>2, <2>3, <2>5, GoesOnHere
<1>9. CASE top.mode = "prefix"
  <2>1. PICK b : b = IF k \in DOMAIN c.before THEN c.before
                     ELSE [j \in DOMAIN c.before \cup {k} |-> IF j = k THEN s.vars[k] ELSE c.before[j]]
    OBVIOUS
  <2>2. PICK o : o = IF DOMAIN c.orig = {} THEN s.vars ELSE c.orig
    OBVIOUS
  <2>3. /\ DOMAIN c.before \subseteq Var /\ \A j \in DOMAIN c.before : c.before[j] \in Variable
        /\ c.before \in Saved /\ c.orig \in Saved
    BY StatementFields, SavedFields
  <2>4. DOMAIN b = DOMAIN c.before \cup {k}
    BY <2>1
  <2>5. \A j \in DOMAIN c.before : b[j] = c.before[j]
    BY <2>1
  <2>6. k \notin DOMAIN c.before => b[k] = s.vars[k]
    BY <2>1
  <2>7. b \in Saved
    <3>1. CASE k \in DOMAIN c.before
      BY <2>1, <2>3, <3>1
    <3>2. CASE k \notin DOMAIN c.before
      <4>1. b = [j \in DOMAIN b |-> b[j]]
        BY <2>1, <3>2
      <4>2. DOMAIN b \subseteq Var
        BY <2>3, <2>4
      <4>3. \A j \in DOMAIN b : b[j] \in Variable
        BY <1>6, <2>3, <2>4, <2>5, <2>6, <3>2
      <4> QED
        BY <4>1, <4>2, <4>3, SavedType
    <3> QED
      BY <3>1, <3>2
  <2>8. o \in Saved
    <3>1. s.vars \in Saved
      BY <1>6 DEF Saved
    <3> QED
      BY <2>2, <2>3, <3>1
  <2>9. PICK f \in Statements : f = [c EXCEPT !.pc = "value", !.name = k, !.before = b, !.orig = o]
    BY <2>7, <2>8 DEF Statements, Saved
  <2>10. /\ f.pc = "value" /\ f.files = c.files /\ f.mode = c.mode /\ f.before = b
         /\ f.orig = o /\ f.sub = c.sub /\ f.name = k
    BY <2>9 DEF Statements
  <2>11. Update(f)
    <3>1. f = [counted EXCEPT !.pc = "value", !.name = k,
                 !.before = IF k \in DOMAIN @ THEN @
                            ELSE [j \in DOMAIN @ \cup {k} |-> IF j = k THEN s.vars[k] ELSE @[j]],
                 !.orig = IF DOMAIN @ = {} THEN s.vars ELSE @]
      <4>1. PICK d : d = [c EXCEPT !.pc = "value", !.name = k]
        OBVIOUS
      <4>2. d \in Statements /\ d.before = c.before /\ d.orig = c.orig
        BY <4>1 DEF Statements
      <4>3. f = [d EXCEPT !.before = b, !.orig = o]
        BY <2>9, <4>1 DEF Statements
      <4>4. f = [d EXCEPT !.before = IF k \in DOMAIN @ THEN @
                            ELSE [j \in DOMAIN @ \cup {k} |-> IF j = k THEN s.vars[k] ELSE @[j]],
                          !.orig = IF DOMAIN @ = {} THEN s.vars ELSE @]
        BY <2>1, <2>2, <4>2, <4>3
      <4> QED
        BY <1>4, <4>1, <4>4
    <3> QED
      BY <1>9, <3>1 DEF AssignStart
  <2>12. DOMAIN o = Var
    BY <1>2, <1>5, <1>6, <2>2 DEF StmtOK
  <2>13. \A j \in DOMAIN b : o[j] = b[j]
    <3>1. CASE DOMAIN c.orig = {}
      <4>1. DOMAIN c.before = {}
        BY <1>2, <1>5, <3>1 DEF StmtOK
      <4> QED
        BY <2>2, <2>4, <2>6, <3>1, <4>1
    <3>2. CASE DOMAIN c.orig # {}
      <4>1. DOMAIN c.orig = Var /\ o = c.orig
        BY <1>2, <1>5, <2>2, <3>2 DEF StmtOK
      <4>2. \A j \in DOMAIN c.before : c.orig[j] = c.before[j]
        BY <1>2, <1>5 DEF StmtOK
      <4>3. k \notin DOMAIN c.before => c.orig[k] = s.vars[k]
        BY <1>1, <1>2, <1>5, <4>1 DEF StmtOK
      <4> QED
        BY <2>4, <2>5, <2>6, <4>1, <4>2, <4>3
    <3> QED
      BY <3>1, <3>2
  <2>14. \A j \in Var \ DOMAIN b : o[j] = s.vars[j]
    <3>1. CASE DOMAIN c.orig = {}
      BY <2>2, <3>1
    <3>2. CASE DOMAIN c.orig # {}
      <4>1. DOMAIN c.orig = Var /\ o = c.orig
        BY <1>2, <1>5, <2>2, <3>2 DEF StmtOK
      <4>2. \A j \in Var \ DOMAIN c.before : c.orig[j] = s.vars[j]
        BY <1>1, <1>2, <1>5, <4>1 DEF StmtOK
      <4> QED
        BY <2>4, <4>1, <4>2
    <3> QED
      BY <3>1, <3>2
  <2>15. StmtOK(f, s)
    <3>1. DOMAIN f.before \subseteq DOMAIN f.orig
      BY <2>3, <2>4, <2>10, <2>12
    <3>2. f.name \in DOMAIN f.before
      BY <2>4, <2>10
    <3>3. \A j \in DOMAIN f.before : f.orig[j] = f.before[j]
      BY <2>10, <2>13
    <3>4. \A j \in DOMAIN f.orig \ DOMAIN f.before : f.orig[j] = s.vars[j]
      BY <2>10, <2>12, <2>14
    <3>5. f.mode = "prefix" /\ f.pc = "value" /\ DOMAIN f.orig = Var /\ f.sub = s.subStatus
      BY <1>5, <1>7, <1>9, <2>10, <2>12
    <3> QED
      BY <3>1, <3>2, <3>3, <3>4, <3>5 DEF StmtOK
  <2> QED
    BY <1>1, <1>3, <1>5, <2>10, <2>11, <2>15, GoesOnHere
<1> QED
  BY <1>8, <1>9

\* The value is stored; a prefix has saved the old one.
LEMMA AssignEndKeeps ==
  ASSUME InterpInv, NEW v \in Value, AssignEnd(v)
  PROVE  InterpInv'
<1>1. /\ Running /\ top.pc = "value" /\ top.pc \notin {"wait", "stmt", "loop"} /\ Continue /\ Same
  BY DEF AssignEnd
<1>2. top \in Statements /\ StmtOK(top, s) /\ s \in Shell /\ TypeOK /\ CallsInv
  BY <1>1, AtStmt
<1>3. top.name \in Var /\ s.vars \in [Var -> Variable]
  BY <1>2, StatementFields DEF Shell
<1>4. PICK w \in Variable : w = variable(v, top.mode # "plain")
  BY VariableType
<1>5. PICK vs : vs = Set(s.vars, top.name, w)
  OBVIOUS
<1>6. vs \in [Var -> Variable] /\ \A j \in Var : j # top.name => vs[j] = s.vars[j]
  BY <1>3, <1>5, SetType
<1>7. PICK t \in Shell : t = [s EXCEPT !.vars = vs]
  BY <1>2, <1>6, ShellVars
<1>8. t.vars = vs /\ t.subStatus = s.subStatus /\ t.depth = s.depth /\ t.args = s.args
  BY <1>2, <1>6, <1>7, ShellVars
<1>9. Inner(t)
  <2>1. Change(t)
    BY <1>4, <1>5, <1>7 DEF AssignEnd
  <2> QED
    BY <1>2, <2>1, ChangeInner
<1>10. PICK f \in Statements : f = [top EXCEPT !.pc = "assign"]
  BY <1>2 DEF Statements
<1>11. /\ f.pc = "assign" /\ f.files = top.files /\ f.mode = top.mode /\ f.before = top.before
       /\ f.orig = top.orig /\ f.sub = top.sub
  BY <1>2, <1>10 DEF Statements
<1>12. Update(f)
  BY <1>10 DEF AssignEnd
<1>13. \A j \in DOMAIN top.orig \ DOMAIN top.before : top.orig[j] = vs[j]
  <2>1. \A j \in DOMAIN top.orig \ DOMAIN top.before : top.orig[j] = s.vars[j] /\ j \in Var
    BY <1>1, <1>2, StatementFields DEF StmtOK
  <2>2. DOMAIN top.orig = {} \/ top.name \in DOMAIN top.before
    BY <1>1, <1>2 DEF StmtOK
  <2> QED
    BY <1>6, <2>1, <2>2
<1>14. StmtOK(f, t)
  <2>1. \A j \in DOMAIN f.orig \ DOMAIN f.before : f.orig[j] = t.vars[j]
    BY <1>8, <1>11, <1>13
  <2>2. f.sub = t.subStatus
    BY <1>1, <1>2, <1>8, <1>11 DEF StmtOK
  <2>3. f.mode # "prefix" => DOMAIN f.before = {} /\ DOMAIN f.orig = {}
    BY <1>2, <1>11 DEF StmtOK
  <2>4. /\ DOMAIN f.orig = {} \/ DOMAIN f.orig = Var
        /\ \A j \in DOMAIN f.before : j \in DOMAIN f.orig /\ f.orig[j] = f.before[j]
    BY <1>2, <1>11 DEF StmtOK
  <2> QED
    BY <1>11, <2>1, <2>2, <2>3, <2>4 DEF StmtOK
<1> QED
  BY <1>1, <1>8, <1>9, <1>11, <1>12, <1>14, GoesOnHere

LEMMA ExportNameKeeps ==
  ASSUME InterpInv, NEW k \in Var, ExportName(k)
  PROVE  InterpInv'
<1>1. /\ Running /\ top.pc = "assign" /\ top.pc \notin {"wait", "stmt", "loop"} /\ Continue /\ Same
      /\ More /\ top.mode = "export"
  BY DEF ExportName
<1>2. top \in Statements /\ StmtOK(top, s) /\ s \in Shell /\ TypeOK /\ CallsInv
  BY <1>1, AtStmt
<1>3. PICK vs : vs = [s.vars EXCEPT ![k].exported = TRUE]
  OBVIOUS
<1>4. vs \in [Var -> Variable]
  <2>1. s.vars \in [Var -> Variable]
    BY <1>2 DEF Shell
  <2>2. PICK w \in Variable : w = [s.vars[k] EXCEPT !.exported = TRUE]
    BY <2>1 DEF Variable
  <2>3. vs = [s.vars EXCEPT ![k] = w]
    BY <1>3, <2>2
  <2> QED
    BY <2>1, <2>3
<1>5. PICK t \in Shell : t = [s EXCEPT !.vars = vs]
  BY <1>2, <1>4, ShellVars
<1>6. t.vars = vs /\ t.subStatus = s.subStatus /\ t.depth = s.depth /\ t.args = s.args
  BY <1>2, <1>4, <1>5, ShellVars
<1>7. Inner(t)
  <2>1. t = [s EXCEPT !.vars[k].exported = TRUE]
    BY <1>3, <1>5
  <2>2. Change(t)
    BY <2>1 DEF ExportName
  <2> QED
    BY <1>2, <2>2, ChangeInner
<1>8. PICK f \in Statements : f = counted /\ f.pc = top.pc /\ f.files = top.files /\ f.mode = top.mode
                              /\ f.before = top.before /\ f.orig = top.orig /\ f.sub = top.sub
  BY <1>1, <1>2, CountedFields
<1>9. Update(f)
  BY <1>8 DEF ExportName
<1>10. StmtOK(f, t)
  <2>1. DOMAIN f.before = {} /\ DOMAIN f.orig = {}
    BY <1>1, <1>2, <1>8 DEF StmtOK
  <2>2. f.sub = t.subStatus
    BY <1>1, <1>2, <1>6, <1>8 DEF StmtOK
  <2> QED
    BY <1>1, <1>8, <2>1, <2>2 DEF StmtOK
<1> QED
  BY <1>1, <1>6, <1>7, <1>8, <1>9, <1>10, GoesOnHere

\* The assignments are done: the statement ends, or its command is next.
LEMMA AssignDoneKeeps ==
  ASSUME InterpInv, AssignDone
  PROVE  InterpInv'
<1>1. /\ Running /\ top.pc = "assign" /\ top.pc \notin {"wait", "stmt", "loop"}
      /\ UNCHANGED shells /\ Same
  BY DEF AssignDone
<1>2. /\ StackInv /\ TypeOK /\ stack # <<>> /\ top.kind = "stmt" /\ top \in Statements
      /\ StmtOK(top, s) /\ open = open - top.files + top.files /\ raised = "none" /\ quit = {}
  BY <1>1, AtStmt
<1>3. Inner(s) /\ s \in Shell
  BY <1>1, InnerHere
<1>4. ASSUME NEW code \in Status, UNCHANGED stack, Return(code, "none")
      PROVE  InterpInv'
  <2>1. ret' \in RetType /\ "none" \in Err /\ "none" # "exit" /\ "none" # "ctx"
    BY <1>4, Statuses, ReturnType
  <2>2. ScalarsOK' /\ open' = open /\ raised' = raised /\ quit' = quit
    BY <1>1, <1>2, <2>1, SameScalars
  <2>3. raised' = Failed("none")
    BY <1>2, <2>2 DEF Failed
  <2>4. PICK f \in Statements : f = top
    BY <1>2
  <2>5. Becomes(<<f>>) /\ StmtOK(f, s) /\ open' = open - top.files + f.files
        /\ f.pc \notin {"args", "redir"}
    BY <1>1, <1>2, <1>4, <2>2, <2>4, SameLocal
  <2> QED
    BY <1>1, <1>2, <1>3, <1>4, <2>1, <2>2, <2>3, <2>5, StmtReturns
<1>5. CASE top.mode = "plain"
  <2>1. UNCHANGED stack /\ Return(s.subStatus, "none")
    BY <1>5 DEF AssignDone
  <2>2. s.subStatus \in Status
    BY <1>3 DEF Shell
  <2> QED
    BY <1>4, <2>1, <2>2
<1>6. CASE top.mode = "export"
  <2>1. UNCHANGED stack /\ Return(0, "none")
    BY <1>6 DEF AssignDone
  <2> QED
    BY <1>4, <2>1, Statuses
<1>7. CASE top.mode \notin {"plain", "export"}
  <2>1. Update([top EXCEPT !.pc = "call"]) /\ Continue
    BY <1>7 DEF AssignDone
  <2>2. PICK f \in Statements : f = [top EXCEPT !.pc = "call"]
    BY <1>2 DEF Statements
  <2>3. /\ f.pc = "call" /\ f.files = top.files /\ f.mode = top.mode /\ f.before = top.before
        /\ f.orig = top.orig /\ f.sub = top.sub
    BY <1>2, <2>2 DEF Statements
  <2>4. StmtOK(f, s)
    BY <1>1, <1>2, <2>3 DEF StmtOK
  <2> QED
    BY <1>1, <1>3, <2>1, <2>2, <2>3, <2>4, GoesOnHere
<1> QED
  BY <1>5, <1>6, <1>7

\* An expansion that assigns: what a prefix has not saved yet is not as it was
\* when the prefix began, but as the expansion left it.
LEMMA ExpandSetKeeps ==
  ASSUME InterpInv, NEW k \in Var, NEW v \in Value, ExpandSet(k, v)
  PROVE  InterpInv'
<1>1. /\ Running /\ top.pc \in {"args", "redir", "value", "words"}
      /\ top.pc \notin {"wait", "stmt", "loop"} /\ Continue /\ Same /\ More
  BY DEF ExpandSet, Expanding
<1>2. top \in Statements /\ StmtOK(top, s) /\ s \in Shell /\ TypeOK /\ CallsInv
  BY <1>1, AtStmt
<1>3. s.vars \in [Var -> Variable]
  BY <1>2 DEF Shell
<1>4. PICK w \in Variable : w = variable(v, FALSE)
  BY VariableType
<1>5. PICK vs : vs = Set(s.vars, k, w)
  OBVIOUS
<1>6. vs \in [Var -> Variable] /\ \A j \in Var : j # k => vs[j] = s.vars[j]
  BY <1>3, <1>5, SetType
<1>7. PICK t \in Shell : t = [s EXCEPT !.vars = vs]
  BY <1>2, <1>6, ShellVars
<1>8. t.vars = vs /\ t.subStatus = s.subStatus /\ t.depth = s.depth /\ t.args = s.args
  BY <1>2, <1>6, <1>7, ShellVars
<1>9. PICK c \in Statements : c = counted /\ c.pc = top.pc /\ c.files = top.files /\ c.mode = top.mode
                              /\ c.before = top.before /\ c.orig = top.orig /\ c.sub = top.sub
                              /\ c.name = top.name
  BY <1>1, <1>2, CountedFields
<1>10. PICK o : o = IF k \in DOMAIN top.orig \ DOMAIN top.before
                    THEN [top.orig EXCEPT ![k] = vs[k]] ELSE top.orig
  OBVIOUS
<1>11. Change(t) /\ Update([c EXCEPT !.orig = o])
  BY <1>4, <1>5, <1>7, <1>9, <1>10 DEF ExpandSet
<1>12. Inner(t)
  BY <1>2, <1>11, ChangeInner
<1>13. /\ DOMAIN top.orig \subseteq Var /\ \A j \in DOMAIN top.orig : top.orig[j] \in Variable
       /\ top.orig \in Saved
  BY <1>2, StatementFields, SavedFields
<1>14. /\ DOMAIN o = DOMAIN top.orig
       /\ \A j \in DOMAIN top.orig : j # k \/ j \in DOMAIN top.before => o[j] = top.orig[j]
       /\ k \in DOMAIN top.orig \ DOMAIN top.before => o[k] = vs[k]
  BY <1>10
<1>15. o \in Saved
  <2>1. CASE k \in DOMAIN top.orig \ DOMAIN top.before
    <3>1. vs[k] \in Variable
      BY <1>6
    <3>2. PICK D \in SUBSET Var : top.orig \in [D -> Variable]
      BY <1>13 DEF Saved
    <3>3. o \in [D -> Variable]
      BY <1>10, <2>1, <3>1, <3>2
    <3> QED
      BY <3>3 DEF Saved
  <2>2. CASE ~(k \in DOMAIN top.orig \ DOMAIN top.before)
    BY <1>10, <1>13, <2>2
  <2> QED
    BY <2>1, <2>2
<1>16. PICK f \in Statements : f = [c EXCEPT !.orig = o]
  BY <1>15 DEF Statements, Saved
<1>17. /\ f.pc = top.pc /\ f.files = top.files /\ f.mode = top.mode /\ f.before = top.before
       /\ f.orig = o /\ f.sub = top.sub /\ f.name = top.name
  BY <1>9, <1>16 DEF Statements
<1>18. StmtOK(f, t)
  <2>1. top.pc = "value" => \A j \in DOMAIN f.orig \ DOMAIN f.before : f.orig[j] = t.vars[j]
    <3>1. top.pc = "value" => \A j \in DOMAIN top.orig \ DOMAIN top.before : top.orig[j] = s.vars[j]
      BY <1>2 DEF StmtOK
    <3> QED
      BY <1>6, <1>8, <1>13, <1>14, <1>17, <3>1
  <2>2. f.sub = t.subStatus
    BY <1>1, <1>2, <1>8, <1>17 DEF StmtOK
  <2>3. f.pc = "args" => f.files = 0
    BY <1>2, <1>17 DEF StmtOK
  <2>4. f.pc \in {"args", "redir", "command"} \/ f.mode # "prefix" =>
          DOMAIN f.before = {} /\ DOMAIN f.orig = {}
    BY <1>2, <1>14, <1>17 DEF StmtOK
  <2>5. DOMAIN f.orig = {} \/ DOMAIN f.orig = Var
    BY <1>2, <1>14, <1>17 DEF StmtOK
  <2>6. \A j \in DOMAIN f.before : j \in DOMAIN f.orig /\ f.orig[j] = f.before[j]
    <3>1. \A j \in DOMAIN top.before : j \in DOMAIN top.orig /\ top.orig[j] = top.before[j]
      BY <1>2 DEF StmtOK
    <3> QED
      BY <1>14, <1>17, <3>1
  <2>7. f.pc = "value" /\ f.mode = "prefix" => f.name \in DOMAIN f.before
    BY <1>2, <1>17 DEF StmtOK
  <2> QED
    BY <1>1, <1>17, <2>1, <2>2, <2>3, <2>4, <2>5, <2>6, <2>7 DEF StmtOK
<1> QED
  BY <1>1, <1>8, <1>11, <1>12, <1>16, <1>17, <1>18, GoesOnHere

-----------------------------------------------------------------------------
(* Calls that end *)

\* The innermost call ends, and what it returns is well formed.
LEMMA PopHere ==
  ASSUME InterpInv, ~Idle, top.kind \in Plain \ {"run"}, Pop,
         NEW t \in Shell, Inner(t), t.depth = s.depth, t.args = s.args,
         open' = open - FilesOf(top), ScalarsOK', quit' = quit,
         ret'.err # "pending", raised' = Failed(ret'.err), ret'.err = "ctx" => canceled',
         quit # {} => ret'.err \in Failure \/ (ret'.err = "exit" /\ ret'.code = ret.code),
         ret'.err = "exit" => ret.err = "exit" /\ ret'.code = ret.code,
         top.kind = "list" /\ ret'.ran /\ ret'.err \notin Failure => t.status = ret'.code \/ top.empty,
         top.kind = "stmt" /\ ret'.ran /\ ret'.err = "none" => t.status = ret'.code
  PROVE  InterpInv'
<1>1. StackInv /\ TypeOK /\ stack # <<>>
  BY DEF InterpInv, StackInv, Idle
<1>2. Becomes(<<>>)
  BY <1>1, PopBecomes
<1>3. StackInv'
  BY <1>1, <1>2, PopStep
<1>4. top.kind \notin Clones \cup {"run"}
  BY Kinds
<1>5. Len(shells') = Len(shells) /\ s' = t
  BY DEF Inner, s
<1>6. ret' \in RetType
  BY DEF ScalarsOK, RetType
<1>7. ResultInv'
  BY <1>2, <1>4, <1>5, <1>6, PassUp
<1> QED
  BY <1>3, <1>7 DEF InterpInv

\* With the results of the call it made, or with others if there was neither a
\* failure nor an exit.
LEMMA PopSame ==
  ASSUME InterpInv, Returned, top.kind \in {"binary", "if", "for", "while"}, Pop, UNCHANGED shells, Same,
         \/ Pass
         \/ \E code \in Status, err \in Err \ Failure :
              Return(code, err) /\ err # "exit" /\ ret.err \notin Failure /\ ret.err # "exit"
  PROVE  InterpInv'
<1>1. /\ ret.err \in Err /\ ret.code \in Status /\ ret.err # "pending" /\ ~Idle /\ raised = Failed(ret.err)
      /\ StackInv /\ TypeOK /\ CallsInv /\ stack # <<>>
      /\ quit # {} => ret.err \in Failure \/ ret.err = "exit"
  BY AtReturned
<1>2. Inner(s) /\ s \in Shell
  BY <1>1, SameInner
<1>3. top.kind \in Plain \ {"run"} /\ top.kind \notin {"list", "stmt"}
  BY DEF Plain
<1>4. open' = open - FilesOf(top)
  <2>1. FilesOf(top) = 0 /\ open \in Nat
    BY <1>1, <1>3 DEF FilesOf, TypeOK
  <2> QED
    BY <2>1 DEF Same
<1>5. CASE Pass
  <2>1. ret' = ret /\ ret' \in RetType
    BY <1>5, RetFields DEF Pass
  <2>2. ScalarsOK' /\ raised' = raised /\ quit' = quit /\ canceled' = canceled
    BY <1>1, <2>1, SameScalars
  <2>3. ret.err = "ctx" => canceled
    BY DEF InterpInv, ResultInv, RetInv
  <2> QED
    BY <1>1, <1>2, <1>3, <1>4, <2>1, <2>2, <2>3, PopHere
<1>6. ASSUME NEW code \in Status, NEW err \in Err \ Failure, Return(code, err), err # "exit",
             ret.err \notin Failure, ret.err # "exit"
      PROVE  InterpInv'
  <2>1. ret' \in RetType /\ ret'.err = err /\ err # "pending"
    BY <1>6, ResultsFields DEF Return
  <2>2. ScalarsOK' /\ raised' = raised /\ quit' = quit
    BY <1>1, <2>1, SameScalars
  <2>3. quit = {} /\ raised' = Failed(ret'.err) /\ ret'.err # "ctx"
    BY <1>1, <1>6, <2>1, <2>2, Statuses DEF Failed
  <2> QED
    BY <1>1, <1>2, <1>3, <1>4, <1>6, <2>1, <2>2, <2>3, PopHere
<1> QED
  BY <1>5, <1>6

\* The words of a simple command failed.
LEMMA ArgsFailKeeps ==
  ASSUME InterpInv, ArgsFail
  PROVE  InterpInv'
<1>1. Returned /\ top.pc = "args" /\ Pop /\ UNCHANGED shells /\ Pass /\ Same
  BY DEF ArgsFail
<1>2. /\ ret.err \in Err /\ ret.err # "pending" /\ ~Idle /\ raised = Failed(ret.err)
      /\ StackInv /\ TypeOK /\ CallsInv /\ stack # <<>>
      /\ quit # {} => ret.err \in Failure \/ ret.err = "exit"
  BY <1>1, AtReturned
<1>3. top.kind = "stmt"
  BY <1>1, <1>2, StmtPc
<1>4. Inner(s) /\ s \in Shell
  BY <1>1, <1>2, SameInner
<1>5. open' = open - FilesOf(top)
  <2>1. FilesOf(top) = 0 /\ open \in Nat
    BY <1>1, <1>2, <1>3, TopStatement DEF FilesOf, StmtOK
  <2> QED
    BY <1>1, <2>1 DEF Same
<1>6. ret' = ret /\ ret' \in RetType
  BY <1>1, RetFields DEF Pass
<1>7. ScalarsOK' /\ raised' = raised /\ quit' = quit /\ canceled' = canceled
  BY <1>1, <1>2, <1>6, SameScalars
<1>8. (ret.err = "ctx" => canceled) /\ ret.err # "none"
  BY <1>1 DEF InterpInv, ResultInv, RetInv, FlowInv
<1>9. top.kind \in Plain \ {"run"} /\ top.kind # "list"
  BY <1>3 DEF Plain
<1> QED
  BY <1>1, <1>2, <1>3, <1>4, <1>5, <1>6, <1>7, <1>8, <1>9, PopHere

\* The deferred function of a statement, with the shell t.
LEMMA CloseAllKeeps ==
  ASSUME InterpInv, Returned, top.kind = "stmt", NEW out \in RetType, NEW pending, NEW bad \in BOOLEAN,
         CloseAll(out, pending, bad), NEW t \in Shell, Inner(t), t.depth = s.depth, t.args = s.args,
         out.err # "pending", pending = Failed(out.err), out.err = "ctx" => canceled,
         quit # {} => out.err \in Failure \/ (out.err = "exit" /\ out.code = ret.code),
         out.err = "exit" => ret.err = "exit" /\ out.code = ret.code,
         out.ran /\ out.err = "none" => t.status = out.code,
         UNCHANGED <<steps, canceled, runs, exited, result, quit>>
  PROVE  InterpInv'
<1>1. ~Idle /\ StackInv /\ TypeOK /\ stack # <<>>
  BY AtReturned
<1>2. Pop /\ open' = open - top.files
  BY DEF CloseAll
<1>3. top.kind \in Plain \ {"run"} /\ top.kind # "list" /\ open' = open - FilesOf(top)
  BY <1>2 DEF Plain, FilesOf
<1>4. CASE bad /\ out.err \notin Failure
  <2>1. Return(1, "fail") /\ raised' = "fail"
    BY <1>4 DEF CloseAll
  <2>2. ret' \in RetType /\ ret'.err = "fail"
    BY <2>1, Statuses, ResultsFields DEF Return
  <2>3. ScalarsOK'
    BY <1>1, <2>1, <2>2, Statuses DEF ScalarsOK, StackInv, TypeOK, RetType
  <2>4. "fail" \in Failure /\ raised' = Failed(ret'.err)
    BY <2>1, <2>2, Statuses DEF Failed
  <2>5. "fail" # "pending" /\ "fail" # "ctx" /\ "fail" # "exit" /\ "fail" # "none"
    OBVIOUS
  <2> QED
    BY <1>1, <1>2, <1>3, <2>2, <2>3, <2>4, <2>5, PopHere
<1>5. CASE ~(bad /\ out.err \notin Failure)
  <2>1. ret' = out /\ raised' = pending
    BY <1>5 DEF CloseAll
  <2>2. raised' \in {"none"} \cup Failure
    BY <2>1 DEF Failed
  <2>3. ScalarsOK'
    BY <1>1, <2>1, <2>2 DEF ScalarsOK, StackInv, TypeOK, RetType
  <2> QED
    BY <1>1, <1>2, <1>3, <2>1, <2>3, PopHere
<1> QED
  BY <1>4, <1>5

LEMMA RedirectFailKeeps ==
  ASSUME InterpInv, NEW bad \in BOOLEAN, RedirectFail(bad)
  PROVE  InterpInv'
<1>1. Returned /\ top.pc = "redir" /\ UNCHANGED <<shells, steps, canceled, runs, exited, result, quit>>
  BY DEF RedirectFail
<1>2. /\ ret.err \in Err /\ ret.err # "pending" /\ ~Idle /\ raised = Failed(ret.err)
      /\ StackInv /\ TypeOK /\ CallsInv /\ stack # <<>>
      /\ quit # {} /\ top.kind = "stmt" => top.pc = "run"
  BY <1>1, AtReturned
<1>3. top.kind = "stmt" /\ quit = {}
  BY <1>1, <1>2, StmtPc
<1>4. Inner(s) /\ s \in Shell
  BY <1>1, <1>2, SameInner
<1>5. (ret.err = "ctx" => canceled) /\ ret.err # "none" /\ ret \in RetType
  BY <1>1, RetFields DEF InterpInv, ResultInv, RetInv, FlowInv
<1>6. CASE ret.err = "limit" \/ canceled
  <2>1. CloseAll(ret, raised, bad)
    BY <1>6 DEF RedirectFail
  <2>2. PICK out \in RetType : out = ret
    BY <1>5
  <2> QED
    BY <1>1, <1>2, <1>3, <1>4, <1>5, <2>1, <2>2, CloseAllKeeps
<1>7. CASE ~(ret.err = "limit" \/ canceled)
  <2>1. PICK out : out = [Results(1, "none") EXCEPT !.ran = FALSE]
    OBVIOUS
  <2>2. PICK pending : pending = IF raised = "fail" THEN "none" ELSE raised
    OBVIOUS
  <2>3. CloseAll(out, pending, bad)
    BY <1>7, <2>1, <2>2 DEF RedirectFail
  <2>4. out \in RetType /\ out.err = "none" /\ ~out.ran
    BY <2>1 DEF Results, RetType, Status, Err
  <2>5. pending = Failed(out.err)
    <3>1. raised \in {"none", "fail"}
      BY <1>2, <1>5, <1>7 DEF Failed, Failure
    <3> QED
      BY <2>2, <2>4, <3>1, Statuses DEF Failed
  <2>6. out.err # "pending" /\ out.err # "ctx" /\ out.err # "exit"
    BY <2>4
  <2> QED
    BY <1>1, <1>3, <1>4, <2>3, <2>4, <2>5, <2>6, CloseAllKeeps
<1> QED
  BY <1>6, <1>7

LEMMA FinishKeeps ==
  ASSUME InterpInv, NEW negated \in BOOLEAN, NEW bad \in BOOLEAN, Finish(negated, bad)
  PROVE  InterpInv'
<1>1. /\ Returned /\ top.pc \in {"assign", "value", "words", "run"}
      /\ UNCHANGED <<steps, canceled, runs, exited, result, quit>>
  BY DEF Finish
<1>2. /\ ret.err \in Err /\ ret.code \in Status /\ ret.err # "pending" /\ ~Idle
      /\ raised = Failed(ret.err) /\ StackInv /\ TypeOK /\ CallsInv /\ stack # <<>> /\ s \in Shell
      /\ quit # {} => ret.err \in Failure \/ ret.err = "exit"
  BY <1>1, AtReturned
<1>3. top.kind = "stmt"
  BY <1>1, <1>2, StmtPc
<1>4. top \in Statements
  BY <1>2, <1>3, TopStatement
<1>5. PICK code \in Status : code = IF negated /\ ret.err = "none" THEN 1 - ret.code ELSE ret.code
  BY <1>2 DEF Status
<1>6. PICK out : out = Results(code, ret.err)
  OBVIOUS
<1>7. out \in RetType /\ out.code = code /\ out.err = ret.err
  BY <1>2, <1>6, ResultsFields
<1>8. PICK vs : vs = [k \in Var |-> IF k \in DOMAIN top.before THEN top.before[k] ELSE s.vars[k]]
  OBVIOUS
<1>9. vs \in [Var -> Variable]
  BY <1>2, <1>4, <1>8, StatementFields DEF Shell
<1>10. PICK t \in Shell : t = [s EXCEPT !.vars = vs, !.status = code]
  BY <1>2, <1>9 DEF Shell
<1>11. t.depth = s.depth /\ t.args = s.args /\ t.status = code
  BY <1>2, <1>10 DEF Shell
<1>12. Change(t) /\ CloseAll(out, raised, bad)
  BY <1>5, <1>6, <1>8, <1>10 DEF Finish
<1>13. Inner(t)
  BY <1>2, <1>12, ChangeInner
<1>14. ret.err = "ctx" => canceled
  BY DEF InterpInv, ResultInv, RetInv
<1>15. ret.err = "exit" => code = ret.code
  BY <1>5
<1> QED
  BY <1>1, <1>2, <1>3, <1>7, <1>11, <1>12, <1>13, <1>14, <1>15, CloseAllKeeps

-----------------------------------------------------------------------------
(* Calls that make calls *)

LEMMA ListFrame ==
  ASSUME NEW e \in BOOLEAN
  PROVE  list(e) \in Frames /\ list(e).kind = "list" /\ list(e).empty = e /\ FilesOf(list(e)) = 0
<1>1. list(e) \in [kind : {"list"}, pc : {"stmt"}, empty : BOOLEAN]
  BY DEF list
<1>2. list(e) \in Frames
  BY <1>1 DEF Frames
<1>3. list(e).kind = "list" /\ list(e).empty = e
  BY DEF list
<1> QED
  BY <1>2, <1>3 DEF FilesOf

\* The other frames that calls begin with.
LEMMA CallFrames ==
  /\ [kind |-> "if", pc |-> "wait"] \in Frames
  /\ \A k \in {"subst", "subshell"} : [kind |-> k, pc |-> "wait"] \in Frames
  /\ \A op \in {"and", "or"} : [kind |-> "binary", pc |-> "stmt", op |-> op, left |-> TRUE] \in Frames
  /\ \A until \in BOOLEAN :
       [kind |-> "while", pc |-> "loop", until |-> until, body |-> FALSE, code |-> 0] \in Frames
  /\ \A n \in 0..MaxItems : [kind |-> "for", pc |-> "loop", items |-> n, code |-> 0] \in Frames
  /\ \A a, b \in 0..MaxItems : [kind |-> "func", pc |-> "stmt", old |-> a, mine |-> b] \in Frames
  /\ \A a \in 0..MaxItems : [kind |-> "bash", pc |-> "wait", mine |-> a] \in Frames
<1>1. /\ [kind |-> "if", pc |-> "wait"] \in Frames
      /\ \A k \in {"subst", "subshell"} : [kind |-> k, pc |-> "wait"] \in Frames
  <2>1. \A k \in {"subst", "subshell", "if"} :
          [kind |-> k, pc |-> "wait"] \in [kind : {"run", "subst", "subshell", "if"}, pc : {"wait"}]
    OBVIOUS
  <2> QED
    BY <2>1 DEF Frames
<1>2. \A op \in {"and", "or"} : [kind |-> "binary", pc |-> "stmt", op |-> op, left |-> TRUE] \in Frames
  <2>1. \A op \in {"and", "or"} : [kind |-> "binary", pc |-> "stmt", op |-> op, left |-> TRUE]
          \in [kind : {"binary"}, pc : {"stmt"}, op : {"and", "or"}, left : BOOLEAN]
    OBVIOUS
  <2> QED
    BY <2>1 DEF Frames
<1>3. \A until \in BOOLEAN :
        [kind |-> "while", pc |-> "loop", until |-> until, body |-> FALSE, code |-> 0] \in Frames
  <2>1. \A until \in BOOLEAN :
          [kind |-> "while", pc |-> "loop", until |-> until, body |-> FALSE, code |-> 0]
          \in [kind : {"while"}, pc : {"loop"}, until : BOOLEAN, body : BOOLEAN, code : Status]
    BY DEF Status
  <2> QED
    BY <2>1 DEF Frames
<1>4. \A n \in 0..MaxItems : [kind |-> "for", pc |-> "loop", items |-> n, code |-> 0] \in Frames
  <2>1. \A n \in 0..MaxItems : [kind |-> "for", pc |-> "loop", items |-> n, code |-> 0]
          \in [kind : {"for"}, pc : {"loop"}, items : 0..MaxItems, code : Status]
    BY DEF Status
  <2> QED
    BY <2>1 DEF Frames
<1>5. \A a, b \in 0..MaxItems : [kind |-> "func", pc |-> "stmt", old |-> a, mine |-> b] \in Frames
  <2>1. \A a, b \in 0..MaxItems : [kind |-> "func", pc |-> "stmt", old |-> a, mine |-> b]
          \in [kind : {"func"}, pc : {"stmt"}, old : 0..MaxItems, mine : 0..MaxItems]
    OBVIOUS
  <2> QED
    BY <2>1 DEF Frames
<1>6. \A a \in 0..MaxItems : [kind |-> "bash", pc |-> "wait", mine |-> a] \in Frames
  <2>1. \A a \in 0..MaxItems : [kind |-> "bash", pc |-> "wait", mine |-> a]
          \in [kind : {"bash"}, pc : {"wait"}, mine : 0..MaxItems]
    OBVIOUS
  <2> QED
    BY <2>1 DEF Frames
<1> QED
  BY <1>1, <1>2, <1>3, <1>4, <1>5, <1>6

\* A frame before others.
LEMMA JoinOne ==
  ASSUME NEW f \in Frames, NEW g \in Frames
  PROVE  <<f>> \o <<g>> = <<f, g>>
<1>1. <<f>> \in Seq(Frames) /\ <<g>> \in Seq(Frames) /\ <<f, g>> \in Seq(Frames)
  OBVIOUS
<1>2. PICK q \in Seq(Frames) : q = <<f>> \o <<g>>
  BY <1>1, ConcatProperties
<1>3. Len(q) = 2 /\ q[1] = f /\ q[2] = g
  BY <1>1, <1>2, ConcatProperties
<1>4. Len(<<f, g>>) = 2 /\ <<f, g>>[1] = f /\ <<f, g>>[2] = g
  OBVIOUS
<1>5. \A i \in 1..2 : i = 1 \/ i = 2
  OBVIOUS
<1> QED
  BY <1>1, <1>2, <1>3, <1>4, <1>5, SeqEqual

LEMMA JoinTwo ==
  ASSUME NEW f \in Frames, NEW g \in Frames, NEW h \in Frames
  PROVE  <<f>> \o <<g, h>> = <<f, g, h>>
<1>1. <<f>> \in Seq(Frames) /\ <<g, h>> \in Seq(Frames) /\ <<f, g, h>> \in Seq(Frames)
  OBVIOUS
<1>2. PICK q \in Seq(Frames) : q = <<f>> \o <<g, h>>
  BY <1>1, ConcatProperties
<1>3. Len(q) = 3 /\ q[1] = f /\ q[2] = g /\ q[3] = h
  BY <1>1, <1>2, ConcatProperties
<1>4. Len(<<f, g, h>>) = 3 /\ <<f, g, h>>[1] = f /\ <<f, g, h>>[2] = g /\ <<f, g, h>>[3] = h
  OBVIOUS
<1>5. \A i \in 1..3 : i = 1 \/ i = 2 \/ i = 3
  OBVIOUS
<1> QED
  BY <1>1, <1>2, <1>3, <1>4, <1>5, SeqEqual

\* A statement makes the call g in its own shell.
LEMMA CallOne ==
  ASSUME InterpInv, Running, top.pc \notin {"wait", "stmt", "loop"}, NEW g \in Frames,
         g.kind \in {"list", "binary", "for", "while"}, g.kind = "list" => ~g.empty,
         stack' = below \o <<called, g>>, UNCHANGED shells, Continue, Same
  PROVE  InterpInv'
<1>1. /\ StackInv /\ TypeOK /\ ShapeInv /\ stack # <<>> /\ top.kind = "stmt" /\ top \in Statements
      /\ StmtOK(top, s) /\ open = open - top.files + top.files
  BY AtStmt DEF StackInv
<1>2. PICK f \in Statements : f = called /\ f.files = top.files /\ f.pc = "run" /\ f.kind = "stmt"
                              /\ StmtOK(f, s)
  BY <1>1, CalledFields
<1>3. f \in Frames
  BY StatementFields
<1>4. Inner(s) /\ s \in Shell
  BY InnerHere
<1>5. <<f, g>> \in Seq(Frames)
  BY <1>3
<1>6. Becomes(<<f, g>>)
  BY <1>1, <1>2, <1>5, SpliceBecomes
<1>7. MadeBy(stack[Len(stack) - 1], f) /\ MadeBy(f, g)
  <2>1. MadeBy(stack[Len(stack) - 1], top)
    BY <1>1, Above
  <2>2. MadeBy(stack[Len(stack) - 1], f)
    BY <1>1, <1>2, <2>1 DEF MadeBy
  <2>3. MadeBy(f, g)
    BY <1>2 DEF MadeBy
  <2> QED
    BY <2>2, <2>3
<1>8. ret' \in RetType
  BY NoneFields DEF Continue
<1>9. ScalarsOK' /\ open' = open /\ raised' = raised /\ quit' = quit
  BY <1>1, <1>8, SameScalars
<1>10. open' = open - FilesOf(top) + FilesOf(f) /\ FilesOf(g) = 0
  BY <1>1, <1>2, <1>9 DEF FilesOf
<1>11. top.kind \in Plain \ {"run"} /\ f.kind \in Plain /\ g.kind \in Plain /\ g.kind # "stmt"
  BY <1>1, <1>2 DEF Plain
<1>12. StackInv'
  BY <1>1, <1>2, <1>3, <1>4, <1>6, <1>7, <1>9, <1>10, <1>11, PushStep
<1>13. stack' # <<>>
  <2>1. PICK l \in Nat : l = Len(stack) /\ l > 0
    BY <1>1, StackTop
  <2>2. stack' \in Seq(Frames) /\ Len(stack') = l - 1 + 2
    BY <1>6, <2>1 DEF Becomes
  <2> QED
    BY <2>1, <2>2, EmptySeq
<1>14. ret.err \notin Failure /\ ret.err # "exit" /\ ~Idle
  BY AtRunning, NoneFields
<1>15. ResultInv'
  BY <1>9, <1>13, <1>14, GoesOn
<1> QED
  BY <1>12, <1>15 DEF InterpInv

\* The calls of a compound command, as one sequence of frames.
LEMMA CompoundCalls ==
  ASSUME InterpInv, AtCommand, NEW fs \in Seq(Frames), Compound(fs)
  PROVE  /\ stack' = below \o (<<called>> \o fs) /\ Continue /\ Same
         /\ Running /\ top.pc = "command" /\ called \in Frames
<1>1. Running /\ top.pc = "command" /\ Continue /\ Same /\ stack' = below \o <<called>> \o fs
  BY DEF Compound, AtCommand
<1>2. TypeOK /\ stack # <<>> /\ top \in Statements /\ StmtOK(top, s)
  BY <1>1, AtStmt
<1>3. called \in Frames
  BY <1>2, CalledFields, StatementFields
<1>4. below \in Seq(Frames) /\ <<called>> \in Seq(Frames)
  BY <1>2, <1>3, BelowSeq
<1>5. (below \o <<called>>) \o fs = below \o (<<called>> \o fs)
  BY <1>4, ConcatAssociative
<1> QED
  BY <1>1, <1>3, <1>5

LEMMA CompoundOne ==
  ASSUME InterpInv, NEW g \in Frames, Compound(<<g>>), UNCHANGED shells,
         g.kind \in {"list", "binary", "for", "while"}, g.kind = "list" => ~g.empty
  PROVE  InterpInv'
<1>1. <<g>> \in Seq(Frames) /\ AtCommand
  BY DEF Compound
<1>2. /\ stack' = below \o (<<called>> \o <<g>>) /\ Continue /\ Same
      /\ Running /\ top.pc = "command" /\ called \in Frames
  BY <1>1, CompoundCalls
<1>3. <<called>> \o <<g>> = <<called, g>>
  BY <1>2, JoinOne
<1> QED
  BY <1>2, <1>3, CallOne

LEMMA BlockKeeps ==
  ASSUME InterpInv, Block
  PROVE  InterpInv'
<1>1. PICK g \in Frames : g = list(FALSE) /\ g.kind = "list" /\ ~g.empty
  BY ListFrame
<1> QED
  BY <1>1, CompoundOne DEF Block

LEMMA BinaryKeeps ==
  ASSUME InterpInv, NEW op \in {"and", "or"}, Binary(op)
  PROVE  InterpInv'
<1>1. PICK g \in Frames :
        g = [kind |-> "binary", pc |-> "stmt", op |-> op, left |-> TRUE] /\ g.kind = "binary"
  BY CallFrames
<1> QED
  BY <1>1, CompoundOne DEF Binary

LEMMA WhileKeeps ==
  ASSUME InterpInv, NEW until \in BOOLEAN, While(until)
  PROVE  InterpInv'
<1>1. PICK g \in Frames :
        g = [kind |-> "while", pc |-> "loop", until |-> until, body |-> FALSE, code |-> 0]
        /\ g.kind = "while"
  BY CallFrames
<1> QED
  BY <1>1, CompoundOne DEF While

LEMMA ForKeeps ==
  ASSUME InterpInv, NEW n \in 0..MaxItems, For(n)
  PROVE  InterpInv'
<1>1. PICK g \in Frames :
        g = [kind |-> "for", pc |-> "loop", items |-> n, code |-> 0] /\ g.kind = "for"
  BY CallFrames
<1>2. /\ Running /\ top.pc \notin {"wait", "stmt", "loop"} /\ UNCHANGED shells /\ Continue /\ Same
      /\ stack' = below \o <<called, g>>
  BY <1>1 DEF For
<1> QED
  BY <1>1, <1>2, CallOne

\* if evaluates a condition: a call within a call.
LEMMA IfKeeps ==
  ASSUME InterpInv, If
  PROVE  InterpInv'
<1>1. PICK g \in Frames : g = [kind |-> "if", pc |-> "wait"] /\ g.kind = "if"
  BY CallFrames
<1>2. PICK h \in Frames : h = list(FALSE) /\ h.kind = "list" /\ ~h.empty
  BY ListFrame
<1>3. <<g, h>> \in Seq(Frames) /\ AtCommand /\ Compound(<<g, h>>) /\ UNCHANGED shells
  <2>1. Compound(<<g, h>>) /\ UNCHANGED shells
    BY <1>1, <1>2 DEF If
  <2> QED
    BY <2>1 DEF Compound
<1>4. /\ stack' = below \o (<<called>> \o <<g, h>>) /\ Continue /\ Same
      /\ Running /\ top.pc = "command" /\ called \in Frames
  BY <1>3, CompoundCalls
<1>5. /\ StackInv /\ TypeOK /\ ShapeInv /\ stack # <<>> /\ top.kind = "stmt" /\ top \in Statements
      /\ StmtOK(top, s) /\ open = open - top.files + top.files
  BY <1>4, AtStmt DEF StackInv
<1>6. PICK f \in Frames : f = called /\ f.files = top.files /\ f.pc = "run" /\ f.kind = "stmt"
                          /\ StmtOK(f, s)
  BY <1>4, <1>5, CalledFields
<1>7. <<f>> \o <<g, h>> = <<f, g, h>> /\ <<f, g, h>> \in Seq(Frames)
  BY JoinTwo
<1>8. Becomes(<<f, g, h>>)
  BY <1>4, <1>5, <1>6, <1>7, SpliceBecomes
<1>9. MadeBy(stack[Len(stack) - 1], f) /\ MadeBy(f, g) /\ MadeBy(g, h)
  <2>1. MadeBy(stack[Len(stack) - 1], top)
    BY <1>5, Above
  <2>2. MadeBy(stack[Len(stack) - 1], f)
    BY <1>5, <1>6, <2>1 DEF MadeBy
  <2>3. MadeBy(f, g)
    BY <1>1, <1>6 DEF MadeBy
  <2>4. MadeBy(g, h)
    BY <1>1, <1>2 DEF MadeBy
  <2> QED
    BY <2>2, <2>3, <2>4
<1>10. Inner(s) /\ s \in Shell
  BY <1>3, <1>4, InnerHere
<1>11. ret' \in RetType
  BY <1>4, NoneFields DEF Continue
<1>12. ScalarsOK' /\ open' = open /\ raised' = raised /\ quit' = quit
  BY <1>4, <1>5, <1>11, SameScalars
<1>13. open' = open - FilesOf(top) + FilesOf(f)
  BY <1>5, <1>6, <1>12 DEF FilesOf
<1>14. top.kind \in Plain \ {"run"} /\ f.kind \in Plain /\ g.kind \in Plain \ {"stmt"}
       /\ h.kind \in Plain \ {"stmt"}
  BY <1>1, <1>2, <1>5, <1>6 DEF Plain
<1>15. StackInv'
  BY <1>5, <1>6, <1>8, <1>9, <1>10, <1>12, <1>13, <1>14, PushTwoStep
<1>16. stack' # <<>>
  <2>1. PICK l \in Nat : l = Len(stack) /\ l > 0
    BY <1>5, StackTop
  <2>2. stack' \in Seq(Frames) /\ Len(stack') = l - 1 + 3
    BY <1>8, <2>1 DEF Becomes
  <2> QED
    BY <2>1, <2>2, EmptySeq
<1>17. ret.err \notin Failure /\ ret.err # "exit" /\ ~Idle
  BY <1>4, AtRunning, NoneFields
<1>18. ResultInv'
  BY <1>4, <1>12, <1>16, <1>17, GoesOn
<1> QED
  BY <1>15, <1>18 DEF InterpInv

\* A construct goes on as f, in the shell t.
LEMMA KeepsOn ==
  ASSUME InterpInv, ~Idle, ret.err \notin Failure, ret.err # "exit", top.kind \in Plain \ {"run", "stmt"},
         NEW f \in Frames, f.kind \in Plain \ {"stmt"}, Update(f), MadeBy(stack[Len(stack) - 1], f),
         NEW t \in Shell, Inner(t), t.depth = s.depth, t.args = s.args, Continue, Same
  PROVE  InterpInv'
<1>1. StackInv /\ TypeOK /\ stack # <<>>
  BY DEF InterpInv, StackInv, Idle
<1>2. Becomes(<<f>>)
  BY <1>1, UpdateBecomes
<1>3. ret' \in RetType
  BY NoneFields DEF Continue
<1>4. ScalarsOK' /\ open' = open /\ raised' = raised /\ quit' = quit
  BY <1>1, <1>3, SameScalars
<1>5. open' = open - FilesOf(top) + FilesOf(f)
  BY <1>1, <1>4 DEF FilesOf, TypeOK
<1>6. StackInv'
  BY <1>1, <1>2, <1>4, <1>5, UpdateStep
<1>7. stack' # <<>>
  <2>1. PICK l \in Nat : l = Len(stack) /\ l > 0
    BY <1>1, StackTop
  <2>2. stack' \in Seq(Frames) /\ Len(stack') = l - 1 + 1
    BY <1>2, <2>1 DEF Becomes
  <2> QED
    BY <2>1, <2>2, EmptySeq
<1>8. ResultInv'
  BY <1>4, <1>7, GoesOn
<1> QED
  BY <1>6, <1>8 DEF InterpInv

\* A construct calls a list of statements.
LEMMA CallsList ==
  ASSUME InterpInv, ~Idle, ret.err \notin Failure, ret.err # "exit", top.kind \in {"if", "for", "while"},
         NEW f \in Frames, f.kind = top.kind, NEW g \in Frames, g = list(FALSE), Becomes(<<f, g>>),
         NEW t \in Shell, Inner(t), t.depth = s.depth, t.args = s.args, Continue,
         ScalarsOK', open' = open, raised' = raised, quit' = quit
  PROVE  InterpInv'
<1>1. StackInv /\ TypeOK /\ ShapeInv /\ stack # <<>> /\ open \in Nat
  BY DEF InterpInv, StackInv, Idle, TypeOK
<1>2. g.kind = "list" /\ ~g.empty /\ FilesOf(g) = 0
  BY ListFrame
<1>3. MadeBy(stack[Len(stack) - 1], top) /\ top.kind # "run"
  BY <1>1, Above
<1>4. MadeBy(stack[Len(stack) - 1], f) /\ MadeBy(f, g)
  BY <1>2, <1>3 DEF MadeBy
<1>5. open' = open - FilesOf(top) + FilesOf(f)
  BY <1>1 DEF FilesOf
<1>6. top.kind \in Plain \ {"run"} /\ f.kind \in Plain /\ g.kind \in Plain /\ f.kind # "stmt" /\ g.kind # "stmt"
  BY <1>2 DEF Plain
<1>7. StackInv'
  BY <1>1, <1>2, <1>4, <1>5, <1>6, PushStep
<1>8. stack' # <<>>
  <2>1. PICK l \in Nat : l = Len(stack) /\ l > 0
    BY <1>1, StackTop
  <2>2. stack' \in Seq(Frames) /\ Len(stack') = l - 1 + 2
    BY <2>1 DEF Becomes
  <2> QED
    BY <2>1, <2>2, EmptySeq
<1>9. ResultInv'
  BY <1>8, GoesOn
<1> QED
  BY <1>7, <1>9 DEF InterpInv

\* What the constructs below have in common.
LEMMA AtConstruct ==
  ASSUME InterpInv, Returned \/ Running, top.kind \in {"binary", "if", "for", "while", "list"}
  PROVE  /\ ~Idle /\ TypeOK /\ CallsInv /\ stack # <<>> /\ top \in Frames /\ s \in Shell
         /\ MadeBy(stack[Len(stack) - 1], top) /\ top.kind \in Plain \ {"run", "stmt"}
         /\ UNCHANGED shells => Inner(s)
<1>1. ~Idle /\ TypeOK /\ CallsInv /\ ShapeInv /\ stack # <<>> /\ top \in Frames /\ s \in Shell
  BY AtReturned, AtRunning
<1>2. MadeBy(stack[Len(stack) - 1], top)
  BY <1>1, Above
<1>3. UNCHANGED shells => Inner(s)
  BY <1>1, SameInner
<1> QED
  BY <1>1, <1>2, <1>3 DEF Plain

LEMMA BinaryDoneKeeps ==
  ASSUME InterpInv, BinaryDone
  PROVE  InterpInv'
<1>1. Returned /\ top.kind = "binary" /\ UNCHANGED shells /\ Same
  BY DEF BinaryDone
<1>2. /\ ~Idle /\ top \in Frames /\ s \in Shell /\ MadeBy(stack[Len(stack) - 1], top)
      /\ top.kind \in Plain \ {"run", "stmt"} /\ Inner(s)
  BY <1>1, AtConstruct
<1>3. CASE top.left /\ ret.err = "none" /\ (top.op = "and") = (ret.code = 0)
  <2>1. Update([top EXCEPT !.left = FALSE]) /\ Continue
    BY <1>3 DEF BinaryDone
  <2>2. top \in [kind : {"binary"}, pc : {"stmt"}, op : {"and", "or"}, left : BOOLEAN]
    BY <1>1, <1>2, FrameKind
  <2>3. PICK f \in [kind : {"binary"}, pc : {"stmt"}, op : {"and", "or"}, left : BOOLEAN] :
          f = [top EXCEPT !.left = FALSE]
    BY <2>2
  <2>4. f \in Frames /\ f.kind = "binary"
    BY <2>3 DEF Frames
  <2>5. MadeBy(stack[Len(stack) - 1], f)
    BY <1>1, <1>2, <2>4 DEF MadeBy
  <2>6. ret.err \notin Failure /\ ret.err # "exit" /\ f.kind \in Plain \ {"stmt"}
    BY <1>3, <2>4, Statuses DEF Plain
  <2> QED
    BY <1>1, <1>2, <2>1, <2>3, <2>4, <2>5, <2>6, KeepsOn
<1>4. CASE ~(top.left /\ ret.err = "none" /\ (top.op = "and") = (ret.code = 0))
  <2>1. Pop /\ Pass
    BY <1>4 DEF BinaryDone
  <2> QED
    BY <1>1, <2>1, PopSame
<1> QED
  BY <1>3, <1>4

LEMMA IfDoneKeeps ==
  ASSUME InterpInv, NEW branch \in {"else", "elif", "none"}, IfDone(branch)
  PROVE  InterpInv'
<1>1. Returned /\ top.kind = "if" /\ UNCHANGED shells /\ Same
  BY DEF IfDone
<1>2. /\ ~Idle /\ TypeOK /\ stack # <<>> /\ top \in Frames /\ s \in Shell
      /\ MadeBy(stack[Len(stack) - 1], top) /\ top.kind \in Plain \ {"run", "stmt"} /\ Inner(s)
  BY <1>1, AtConstruct
<1>3. PICK g \in Frames : g = list(FALSE) /\ g.kind = "list" /\ ~g.empty
  BY ListFrame
<1>4. CASE ret.err # "none"
  <2>1. Pop /\ Pass
    BY <1>4 DEF IfDone
  <2> QED
    BY <1>1, <2>1, PopSame
<1>5. CASE ret.err = "none" /\ (ret.code = 0 \/ branch = "else")
  <2>1. Update(g) /\ Continue
    BY <1>3, <1>5 DEF IfDone
  <2>2. MadeBy(stack[Len(stack) - 1], g)
    BY <1>1, <1>2, <1>3 DEF MadeBy
  <2>3. ret.err \notin Failure /\ ret.err # "exit" /\ g.kind \in Plain \ {"stmt"}
    BY <1>3, <1>5, Statuses DEF Plain
  <2> QED
    BY <1>1, <1>2, <2>1, <2>2, <2>3, KeepsOn
<1>6. CASE ret.err = "none" /\ ~(ret.code = 0 \/ branch = "else") /\ branch = "elif"
  <2>1. Push(g) /\ Continue
    BY <1>3, <1>6 DEF IfDone
  <2>2. Becomes(<<top, g>>)
    BY <1>2, <2>1, PushBecomes
  <2>3. ret' \in RetType
    BY <2>1, NoneFields DEF Continue
  <2>4. ScalarsOK' /\ open' = open /\ raised' = raised /\ quit' = quit
    BY <1>1, <2>3, SameScalars DEF InterpInv
  <2>5. ret.err \notin Failure /\ ret.err # "exit"
    BY <1>6, Statuses
  <2>6. PICK f \in Frames : f = top
    BY <1>2
  <2> QED
    BY <1>1, <1>2, <1>3, <2>1, <2>2, <2>4, <2>5, <2>6, CallsList
<1>7. CASE ret.err = "none" /\ ~(ret.code = 0 \/ branch = "else") /\ branch # "elif"
  <2>1. Pop /\ Return(0, "none")
    BY <1>7 DEF IfDone
  <2>2. 0 \in Status /\ "none" \in Err \ Failure /\ "none" # "exit"
    BY Statuses
  <2> QED
    BY <1>1, <1>7, <2>1, <2>2, PopSame
<1> QED
  BY <1>4, <1>5, <1>6, <1>7

\* A loop, or a list without statements, ends by itself.
LEMMA PopRunning ==
  ASSUME InterpInv, Running, top.kind \in {"for", "while", "list"}, top.kind = "list" => top.empty,
         Pop, UNCHANGED shells, NEW code \in Status, NEW err \in Err, err # "exit", Return(code, err),
         err = "ctx" => canceled, raised' = Failed(err), steps' \in 0..MaxSteps,
         UNCHANGED <<canceled, open, runs, exited, result, quit>>
  PROVE  InterpInv'
<1>1. ~Idle /\ s \in Shell /\ top.kind \in Plain \ {"run", "stmt"} /\ Inner(s)
  BY AtConstruct
<1>2. quit = {}
  BY AtRunning
<1>3. ret' \in RetType /\ ret'.err = err /\ err # "pending"
  BY ResultsFields DEF Return
<1>4. raised' \in {"none"} \cup Failure
  BY DEF Failed
<1>5. ScalarsOK'
  BY <1>3, <1>4 DEF ScalarsOK, InterpInv, StackInv, TypeOK, RetType
<1>6. open' = open - FilesOf(top)
  BY <1>1 DEF FilesOf, InterpInv, StackInv, TypeOK
<1> QED
  BY <1>1, <1>2, <1>3, <1>5, <1>6, PopHere

\* A call to step by a loop that does not let it go on.
LEMMA StepPops ==
  ASSUME InterpInv, Running, top.kind \in {"for", "while"}, Pop, UNCHANGED shells,
         steps' = Counted, Raise(StepErr), StepErr # "none", Return(1, StepErr),
         UNCHANGED <<canceled, open, runs, exited, result, quit>>
  PROVE  InterpInv'
<1>1. PICK e \in Err : e = StepErr
  BY StepFails
<1>2. steps' \in 0..MaxSteps /\ e # "exit" /\ (e = "ctx" => canceled) /\ raised' = Failed(e)
  BY <1>1, StepFails
<1>3. top.kind # "list" /\ 1 \in Status /\ Return(1, e)
  BY <1>1, Statuses
<1> QED
  BY <1>2, <1>3, PopRunning

\* One that does.
LEMMA StepOn ==
  ASSUME InterpInv, Running, steps' = Counted, Raise(StepErr), StepErr = "none", Continue,
         UNCHANGED <<canceled, open, runs, exited, result, quit>>
  PROVE  /\ ScalarsOK' /\ open' = open /\ raised' = raised /\ quit' = quit
         /\ ret.err \notin Failure /\ ret.err # "exit" /\ ~Idle
<1>1. ret' \in RetType
  BY NoneFields DEF Continue
<1>2. ScalarsOK'
  BY <1>1, StepScalars DEF InterpInv
<1>3. raised' = raised
  BY Statuses DEF Raise
<1>4. ret.err \notin Failure /\ ret.err # "exit" /\ ~Idle
  BY AtRunning, NoneFields
<1> QED
  BY <1>2, <1>3, <1>4

LEMMA ForNextKeeps ==
  ASSUME InterpInv, NEW k \in Var, NEW v \in Value, ForNext(k, v)
  PROVE  InterpInv'
<1>1. /\ Running /\ top.kind = "for" /\ top.items > 0 /\ steps' = Counted /\ Raise(StepErr)
      /\ UNCHANGED <<canceled, open, runs, exited, result, quit>>
  BY DEF ForNext, Step
<1>2. ~Idle /\ TypeOK /\ CallsInv /\ stack # <<>> /\ top \in Frames /\ s \in Shell
  BY <1>1, AtConstruct
<1>3. CASE StepErr = "none"
  <2>1. PICK g \in Frames : g = list(FALSE)
    BY ListFrame
  <2>2. top \in [kind : {"for"}, pc : {"loop"}, items : 0..MaxItems, code : Status]
    BY <1>1, <1>2, FrameKind
  <2>3. PICK n \in 0..MaxItems : n = top.items - 1
    BY <1>1, <2>2, InterpAssumption
  <2>4. PICK f \in [kind : {"for"}, pc : {"loop"}, items : 0..MaxItems, code : Status] :
          f = [top EXCEPT !.items = n]
    BY <2>2
  <2>5. f \in Frames /\ f.kind = top.kind
    BY <1>1, <2>4 DEF Frames
  <2>6. stack' = below \o <<f, g>> /\ Continue
    BY <1>3, <2>1, <2>3, <2>4 DEF ForNext, Step
  <2>7. <<f, g>> \in Seq(Frames)
    BY <2>5
  <2>8. Becomes(<<f, g>>)
    BY <1>2, <2>6, <2>7, SpliceBecomes
  <2>9. s.vars \in [Var -> Variable]
    BY <1>2 DEF Shell
  <2>10. PICK w \in Variable : w = variable(v, FALSE)
    BY VariableType
  <2>11. PICK vs \in [Var -> Variable] : vs = Set(s.vars, k, w)
    BY <2>9, SetType
  <2>12. PICK t \in Shell : t = [s EXCEPT !.vars = vs] /\ t.depth = s.depth /\ t.args = s.args
    BY <1>2, ShellVars
  <2>13. Change(t)
    BY <1>3, <2>10, <2>11, <2>12 DEF ForNext, Step
  <2>14. Inner(t)
    BY <1>2, <2>13, ChangeInner
  <2>15. /\ ScalarsOK' /\ open' = open /\ raised' = raised /\ quit' = quit
         /\ ret.err \notin Failure /\ ret.err # "exit"
    BY <1>1, <1>3, <2>6, StepOn
  <2> QED
    BY <1>1, <1>2, <2>1, <2>5, <2>6, <2>8, <2>12, <2>14, <2>15, CallsList
<1>4. CASE StepErr # "none"
  <2>1. Pop /\ UNCHANGED shells /\ Return(1, StepErr)
    BY <1>4 DEF ForNext, Step
  <2> QED
    BY <1>1, <1>4, <2>1, StepPops
<1> QED
  BY <1>3, <1>4

LEMMA ForFullKeeps ==
  ASSUME InterpInv, ForFull
  PROVE  InterpInv'
<1>1. /\ Running /\ top.kind = "for" /\ Pop /\ Return(1, "limit") /\ Raise("limit") /\ steps' = Counted
      /\ UNCHANGED <<shells, canceled, open, runs, exited, result, quit>> /\ StepErr = "none"
  BY DEF ForFull
<1>2. 1 \in Status /\ "limit" \in Err /\ "limit" # "exit" /\ "limit" # "ctx" /\ top.kind # "list"
  BY <1>1, Statuses
<1>3. raised' = Failed("limit")
  BY <1>1, AtRunning, RaiseNone
<1>4. steps \in 0..MaxSteps /\ MaxSteps \in Nat
  BY InterpAssumption DEF InterpInv, StackInv, TypeOK
<1>5. steps' \in 0..MaxSteps
  BY <1>1, <1>4 DEF Counted, StepErr
<1> QED
  BY <1>1, <1>2, <1>3, <1>5, PopRunning

LEMMA SamePop ==
  ASSUME InterpInv, Running, top.kind \in {"for", "while", "list"}, top.kind = "list" => top.empty,
         Pop, UNCHANGED shells, NEW code \in Status, Return(code, "none"), Same
  PROVE  InterpInv'
<1>1. raised = "none"
  BY AtRunning
<1>2. raised' = Failed("none") /\ "none" \in Err /\ "none" # "exit" /\ "none" # "ctx"
  BY <1>1, Statuses DEF Failed, Same
<1>3. steps' \in 0..MaxSteps /\ UNCHANGED <<canceled, open, runs, exited, result, quit>>
  BY DEF Same, InterpInv, StackInv, TypeOK
<1> QED
  BY <1>2, <1>3, PopRunning

LEMMA ForEndKeeps ==
  ASSUME InterpInv, ForEnd
  PROVE  InterpInv'
<1>1. /\ Running /\ top.kind = "for" /\ top.kind # "list" /\ Pop /\ Return(top.code, "none")
      /\ UNCHANGED shells /\ Same
  BY DEF ForEnd
<1>2. top.code \in Status
  BY <1>1, AtConstruct, FrameKind
<1> QED
  BY <1>1, <1>2, SamePop

LEMMA ListEmptyKeeps ==
  ASSUME InterpInv, ListEmpty
  PROVE  InterpInv'
<1>1. Running /\ top.kind = "list" /\ top.empty /\ Pop /\ Return(0, "none") /\ UNCHANGED shells /\ Same
  BY DEF ListEmpty
<1> QED
  BY <1>1, Statuses, SamePop

LEMMA WhileNextKeeps ==
  ASSUME InterpInv, WhileNext
  PROVE  InterpInv'
<1>1. /\ Running /\ top.kind = "while" /\ steps' = Counted /\ Raise(StepErr) /\ UNCHANGED shells
      /\ UNCHANGED <<canceled, open, runs, exited, result, quit>>
  BY DEF WhileNext, Step
<1>2. ~Idle /\ TypeOK /\ stack # <<>> /\ top \in Frames /\ s \in Shell /\ Inner(s)
  BY <1>1, AtConstruct
<1>3. CASE StepErr = "none"
  <2>1. PICK g \in Frames : g = list(FALSE)
    BY ListFrame
  <2>2. top \in [kind : {"while"}, pc : {"loop"}, until : BOOLEAN, body : BOOLEAN, code : Status]
    BY <1>1, <1>2, FrameKind
  <2>3. PICK f \in [kind : {"while"}, pc : {"loop"}, until : BOOLEAN, body : BOOLEAN, code : Status] :
          f = [top EXCEPT !.body = FALSE]
    BY <2>2
  <2>4. f \in Frames /\ f.kind = top.kind
    BY <1>1, <2>3 DEF Frames
  <2>5. stack' = below \o <<f, g>> /\ Continue
    BY <1>3, <2>1, <2>3 DEF WhileNext, Step
  <2>6. <<f, g>> \in Seq(Frames)
    BY <2>4
  <2>7. Becomes(<<f, g>>)
    BY <1>2, <2>5, <2>6, SpliceBecomes
  <2>8. /\ ScalarsOK' /\ open' = open /\ raised' = raised /\ quit' = quit
        /\ ret.err \notin Failure /\ ret.err # "exit"
    BY <1>1, <1>3, <2>5, StepOn
  <2> QED
    BY <1>1, <1>2, <2>1, <2>4, <2>5, <2>7, <2>8, CallsList
<1>4. CASE StepErr # "none"
  <2>1. Pop /\ Return(1, StepErr)
    BY <1>4 DEF WhileNext, Step
  <2> QED
    BY <1>1, <1>4, <2>1, StepPops
<1> QED
  BY <1>3, <1>4

LEMMA WhileCondKeeps ==
  ASSUME InterpInv, WhileCond
  PROVE  InterpInv'
<1>1. Returned /\ top.kind = "while" /\ UNCHANGED shells /\ Same
  BY DEF WhileCond
<1>2. ~Idle /\ TypeOK /\ stack # <<>> /\ top \in Frames /\ s \in Shell /\ Inner(s)
  BY <1>1, AtConstruct
<1>3. top \in [kind : {"while"}, pc : {"loop"}, until : BOOLEAN, body : BOOLEAN, code : Status]
  BY <1>1, <1>2, FrameKind
<1>4. CASE ret.err # "none"
  <2>1. Pop /\ Pass
    BY <1>4 DEF WhileCond
  <2> QED
    BY <1>1, <2>1, PopSame
<1>5. CASE ret.err = "none" /\ (ret.code = 0) = top.until
  <2>1. Pop /\ Return(top.code, "none")
    BY <1>5 DEF WhileCond
  <2>2. top.code \in Status /\ "none" \in Err \ Failure /\ "none" # "exit"
    BY <1>3, Statuses
  <2> QED
    BY <1>1, <1>5, <2>1, <2>2, PopSame
<1>6. CASE ret.err = "none" /\ ~((ret.code = 0) = top.until)
  <2>1. PICK g \in Frames : g = list(FALSE)
    BY ListFrame
  <2>2. PICK f \in [kind : {"while"}, pc : {"loop"}, until : BOOLEAN, body : BOOLEAN, code : Status] :
          f = [top EXCEPT !.body = TRUE]
    BY <1>3
  <2>3. f \in Frames /\ f.kind = top.kind
    BY <1>1, <2>2 DEF Frames
  <2>4. stack' = below \o <<f, g>> /\ Continue
    BY <1>6, <2>1, <2>2 DEF WhileCond
  <2>5. <<f, g>> \in Seq(Frames)
    BY <2>3
  <2>6. Becomes(<<f, g>>)
    BY <1>2, <2>4, <2>5, SpliceBecomes
  <2>7. ret' \in RetType
    BY <2>4, NoneFields DEF Continue
  <2>8. ScalarsOK' /\ open' = open /\ raised' = raised /\ quit' = quit
    BY <1>1, <2>7, SameScalars DEF InterpInv
  <2>9. ret.err \notin Failure /\ ret.err # "exit"
    BY <1>6, Statuses
  <2> QED
    BY <1>1, <1>2, <2>1, <2>3, <2>4, <2>6, <2>8, <2>9, CallsList
<1> QED
  BY <1>4, <1>5, <1>6

LEMMA BodyDoneKeeps ==
  ASSUME InterpInv, BodyDone
  PROVE  InterpInv'
<1>1. Returned /\ top.kind \in {"for", "while"} /\ UNCHANGED shells /\ Same
  BY DEF BodyDone
<1>2. /\ ~Idle /\ TypeOK /\ stack # <<>> /\ top \in Frames /\ s \in Shell /\ Inner(s)
      /\ MadeBy(stack[Len(stack) - 1], top) /\ top.kind \in Plain \ {"run", "stmt"}
  BY <1>1, AtConstruct
<1>3. CASE ret.err = "break"
  <2>1. Pop /\ Return(0, "none")
    BY <1>3 DEF BodyDone
  <2>2. 0 \in Status /\ "none" \in Err \ Failure /\ "none" # "exit" /\ ret.err \notin Failure
    BY <1>3, Statuses DEF Failure
  <2> QED
    BY <1>1, <1>3, <2>1, <2>2, PopSame
<1>4. CASE ret.err \in {"none", "continue"}
  <2>1. Update([top EXCEPT !.code = ret.code]) /\ Continue
    BY <1>4 DEF BodyDone
  <2>2. ret.code \in Status /\ ret.err \notin Failure /\ ret.err # "exit"
    BY <1>4, RetFields DEF Failure
  <2>3. PICK f \in Frames : f = [top EXCEPT !.code = ret.code] /\ f.kind = top.kind
    <3>1. CASE top.kind = "for"
      <4>1. top \in [kind : {"for"}, pc : {"loop"}, items : 0..MaxItems, code : Status]
        BY <1>2, <3>1, FrameKind
      <4>2. PICK f \in [kind : {"for"}, pc : {"loop"}, items : 0..MaxItems, code : Status] :
              f = [top EXCEPT !.code = ret.code]
        BY <2>2, <4>1
      <4>3. f.kind = "for" /\ f \in Frames
        BY <4>2 DEF Frames
      <4> QED
        BY <3>1, <4>2, <4>3
    <3>2. CASE top.kind = "while"
      <4>1. top \in [kind : {"while"}, pc : {"loop"}, until : BOOLEAN, body : BOOLEAN, code : Status]
        BY <1>2, <3>2, FrameKind
      <4>2. PICK f \in [kind : {"while"}, pc : {"loop"}, until : BOOLEAN, body : BOOLEAN, code : Status] :
              f = [top EXCEPT !.code = ret.code]
        BY <2>2, <4>1
      <4>3. f.kind = "while" /\ f \in Frames
        BY <4>2 DEF Frames
      <4> QED
        BY <3>2, <4>2, <4>3
    <3> QED
      BY <1>1, <3>1, <3>2
  <2>4. MadeBy(stack[Len(stack) - 1], f)
    BY <1>1, <1>2, <2>3 DEF MadeBy
  <2>5. f.kind \in Plain \ {"stmt"}
    BY <1>2, <2>3
  <2> QED
    BY <1>1, <1>2, <2>1, <2>2, <2>3, <2>4, <2>5, KeepsOn
<1>5. CASE ret.err \notin {"none", "continue", "break"}
  <2>1. Pop /\ Pass
    BY <1>5 DEF BodyDone
  <2> QED
    BY <1>1, <2>1, PopSame
<1> QED
  BY <1>3, <1>4, <1>5

-----------------------------------------------------------------------------
(* Lists of statements *)

LEMMA ListNextKeeps ==
  ASSUME InterpInv, NEW more \in BOOLEAN, ListNext(more)
  PROVE  InterpInv'
<1>1. Returned /\ top.kind = "list" /\ Same
  BY DEF ListNext
<1>2. /\ ~Idle /\ TypeOK /\ CallsInv /\ stack # <<>> /\ top \in Frames /\ s \in Shell
      /\ MadeBy(stack[Len(stack) - 1], top) /\ top.kind \in Plain \ {"run", "stmt"}
  BY <1>1, AtConstruct
<1>3. /\ ret.err \in Err /\ ret.code \in Status /\ ret.err # "pending" /\ raised = Failed(ret.err)
      /\ quit # {} => ret.err \in Failure \/ ret.err = "exit"
  BY <1>1, AtReturned
<1>4. PICK t \in Shell : t = [s EXCEPT !.status = ret.code]
  BY <1>2, <1>3 DEF Shell
<1>5. t.depth = s.depth /\ t.args = s.args /\ t.status = ret.code
  BY <1>2, <1>4 DEF Shell
<1>6. Inner(t)
  <2>1. Change(t)
    BY <1>4 DEF ListNext
  <2> QED
    BY <1>2, <2>1, ChangeInner
<1>7. CASE more /\ ret.err = "none"
  <2>1. Update([top EXCEPT !.empty = FALSE]) /\ Continue
    BY <1>7 DEF ListNext
  <2>2. top \in [kind : {"list"}, pc : {"stmt"}, empty : BOOLEAN]
    BY <1>1, <1>2, FrameKind
  <2>3. PICK f \in [kind : {"list"}, pc : {"stmt"}, empty : BOOLEAN] : f = [top EXCEPT !.empty = FALSE]
    BY <2>2
  <2>4. f \in Frames /\ f.kind = "list" /\ ~f.empty
    BY <2>2, <2>3 DEF Frames
  <2>5. MadeBy(stack[Len(stack) - 1], f)
    BY <1>1, <1>2, <2>4 DEF MadeBy
  <2>6. ret.err \notin Failure /\ ret.err # "exit" /\ f.kind \in Plain \ {"stmt"}
    BY <1>7, <2>4, Statuses DEF Plain
  <2> QED
    BY <1>1, <1>2, <1>5, <1>6, <2>1, <2>3, <2>4, <2>5, <2>6, KeepsOn
<1>8. CASE ~(more /\ ret.err = "none")
  <2>1. Pop /\ Return(ret.code, ret.err)
    BY <1>8 DEF ListNext
  <2>2. ret' \in RetType /\ ret'.err = ret.err /\ ret'.code = ret.code
    BY <1>3, <2>1, ResultsFields DEF Return
  <2>3. ScalarsOK' /\ open' = open /\ raised' = raised /\ quit' = quit /\ canceled' = canceled
    BY <1>1, <2>2, SameScalars DEF InterpInv
  <2>4. open' = open - FilesOf(top)
    BY <1>1, <1>2, <2>3 DEF FilesOf, TypeOK
  <2>5. ret.err = "ctx" => canceled
    BY DEF InterpInv, ResultInv, RetInv
  <2>6. top.kind # "stmt" /\ top.kind \in Plain \ {"run"}
    BY <1>2
  <2> QED
    BY <1>2, <1>3, <1>5, <1>6, <2>1, <2>2, <2>3, <2>4, <2>5, <2>6, PopHere
<1> QED
  BY <1>7, <1>8

LEMMA StatementFrame ==
  ASSUME NEW simple \in BOOLEAN, NEW t, t.subStatus = 0
  PROVE  /\ statement(simple) \in Statements /\ statement(simple).files = 0
         /\ statement(simple).kind = "stmt" /\ StmtOK(statement(simple), t)
<1>1. PICK pc \in {"args", "redir"} : pc = IF simple THEN "args" ELSE "redir"
  OBVIOUS
<1>2. PICK mode \in {"plain", "other"} : mode = IF simple THEN "plain" ELSE "other"
  OBVIOUS
<1>3. PICK e : e = <<>>
  OBVIOUS
<1>4. DOMAIN e = {} /\ e \in Saved
  <2>1. e \in [{} -> Variable]
    BY <1>3
  <2> QED
    BY <2>1 DEF Saved
<1>5. PICK f : f = [kind |-> "stmt", pc |-> pc, parts |-> 0, files |-> 0, mode |-> mode, name |-> "PWD",
                    before |-> e, orig |-> e, sub |-> 0]
  OBVIOUS
<1>6. f = statement(simple)
  BY <1>1, <1>2, <1>3, <1>5 DEF statement
<1>7. f \in Statements
  <2>1. 0 \in 0..MaxParts /\ 0 \in 0..MaxFiles /\ 0 \in Status /\ "PWD" \in Var
    BY InterpAssumption DEF Status
  <2>2. PICK zp \in 0..MaxParts : zp = 0
    BY <2>1
  <2>3. PICK zf \in 0..MaxFiles : zf = 0
    BY <2>1
  <2>4. f = [kind |-> "stmt", pc |-> pc, parts |-> zp, files |-> zf, mode |-> mode, name |-> "PWD",
             before |-> e, orig |-> e, sub |-> 0]
    BY <1>5, <2>2, <2>3
  <2> QED
    BY <1>4, <2>1, <2>4 DEF Statements, Saved
<1>8. /\ f.pc = pc /\ f.files = 0 /\ f.before = e /\ f.orig = e /\ f.sub = 0 /\ f.kind = "stmt"
  BY <1>5
<1>9. StmtOK(f, t)
  BY <1>4, <1>8 DEF StmtOK
<1> QED
  BY <1>6, <1>7, <1>8, <1>9

\* A statement begins, within the budget.
LEMMA StmtStartKeeps ==
  ASSUME InterpInv, NEW simple \in BOOLEAN, StmtStart(simple)
  PROVE  InterpInv'
<1>1. /\ Running /\ top.pc = "stmt" /\ steps' = Counted /\ Raise(StepErr)
      /\ UNCHANGED <<canceled, open, runs, exited, result, quit>>
  BY DEF StmtStart, Step
<1>2. StackInv /\ TypeOK /\ CallsInv /\ stack # <<>> /\ top \in Frames /\ s \in Shell /\ quit = {}
  BY <1>1, AtRunning
<1>3. top.kind \in {"list", "binary", "func"}
  BY <1>1, <1>2, FrameKind
<1>4. CASE StepErr = "none"
  <2>1. Push(statement(simple)) /\ Continue /\ Change([s EXCEPT !.subStatus = 0])
    BY <1>4 DEF StmtStart, Step
  <2>2. PICK t \in Shell : t = [s EXCEPT !.subStatus = 0]
    BY <1>2 DEF Shell, Status
  <2>3. t.depth = s.depth /\ t.args = s.args /\ t.subStatus = 0
    BY <1>2, <2>2 DEF Shell
  <2>4. Inner(t)
    BY <1>2, <2>1, <2>2, ChangeInner
  <2>5. PICK g \in Statements : g = statement(simple) /\ g.files = 0 /\ g.kind = "stmt" /\ StmtOK(g, t)
    BY <2>3, StatementFrame
  <2>6. g \in Frames /\ FilesOf(g) = 0
    BY <2>5, StatementFields DEF FilesOf
  <2>7. /\ ScalarsOK' /\ open' = open /\ raised' = raised /\ quit' = quit
        /\ ret.err \notin Failure /\ ret.err # "exit" /\ ~Idle
    BY <1>1, <1>4, <2>1, StepOn
  <2>8. StackInv'
    BY <1>2, <1>3, <2>1, <2>3, <2>4, <2>5, <2>6, <2>7, AppendStep
  <2>9. stack' # <<>>
    <3>1. stack \in Seq(Frames) /\ stack' = Append(stack, g)
      BY <1>2, <2>1, <2>5 DEF TypeOK, Push
    <3>2. PICK l \in Nat : l = Len(stack)
      BY <3>1, LenProperties
    <3>3. stack' \in Seq(Frames) /\ Len(stack') = l + 1
      BY <2>6, <3>1, <3>2
    <3> QED
      BY <3>2, <3>3, EmptySeq
  <2>10. ResultInv'
    BY <2>1, <2>7, <2>9, GoesOn
  <2> QED
    BY <2>8, <2>10 DEF InterpInv
<1>5. CASE StepErr # "none"
  <2>1. UNCHANGED <<stack, shells>> /\ Return(1, StepErr)
    BY <1>5 DEF StmtStart, Step
  <2>2. PICK e \in Err : e = StepErr
    BY <1>1, <1>5, <2>1, StepFails
  <2>3. ScalarsOK' /\ e \in Failure /\ e # "exit" /\ (e = "ctx" => canceled') /\ raised' = Failed(e)
    BY <1>1, <1>5, <2>1, <2>2, StepFails
  <2>4. StackInv'
    BY <1>1, <1>2, <2>1, <2>3, SameStep
  <2>5. stack' # <<>> /\ top' = top /\ quit' = {} /\ Return(1, e) /\ 1 \in Status
    BY <1>1, <1>2, <2>1, <2>2, Statuses DEF top
  <2>6. top'.pc \notin {"args", "redir"}
    BY <1>1, <2>5
  <2>7. ResultInv'
    BY <2>3, <2>5, <2>6, Returns
  <2> QED
    BY <2>4, <2>7 DEF InterpInv
<1> QED
  BY <1>4, <1>5

-----------------------------------------------------------------------------
(* Calls: substitutions, functions, nested shells and subshells *)

\* A statement begins a call in a shell of its own.
LEMMA Enters ==
  ASSUME InterpInv, Running, top.pc \notin {"wait", "stmt", "loop"},
         NEW f \in Statements, f.files = top.files, StmtOK(f, s),
         NEW g \in Frames, g.kind \in Clones, MadeBy(f, g), NEW e \in BOOLEAN, g.kind = "subshell" => ~e,
         NEW h \in Frames, h = list(e), stack' = below \o <<f, g, h>>,
         NEW t \in Shell, shells' = Append(shells, t),
         t.depth = IF g.kind \in Calls THEN s.depth + 1 ELSE s.depth,
         t.args = IF g.kind = "bash" THEN g.mine ELSE s.args, Continue, Same
  PROVE  InterpInv'
<1>1. StackInv /\ TypeOK /\ stack # <<>> /\ top.kind = "stmt"
  BY AtStmt
<1>2. f \in Frames /\ f.kind = "stmt"
  BY StatementFields
<1>3. <<f, g, h>> \in Seq(Frames)
  BY <1>2
<1>4. Becomes(<<f, g, h>>)
  BY <1>1, <1>3, SpliceBecomes
<1>5. h.kind = "list" /\ h.empty = e
  BY ListFrame
<1>6. MadeBy(g, h)
  BY <1>5 DEF MadeBy, Clones
<1>7. FilesOf(f) = FilesOf(top)
  BY <1>1, <1>2 DEF FilesOf
<1>8. Extended(t)
  BY <1>1, AppendExtended
<1>9. ret' \in RetType
  BY NoneFields DEF Continue
<1>10. ScalarsOK' /\ open' = open /\ raised' = raised /\ quit' = quit
  BY <1>1, <1>9, SameScalars
<1>11. StackInv'
  BY <1>1, <1>2, <1>4, <1>5, <1>6, <1>7, <1>8, <1>10, EnterStep
<1>12. stack' # <<>>
  <2>1. PICK l \in Nat : l = Len(stack) /\ l > 0
    BY <1>1, StackTop
  <2>2. stack' \in Seq(Frames) /\ Len(stack') = l - 1 + 3
    BY <1>4, <2>1 DEF Becomes
  <2> QED
    BY <2>1, <2>2, EmptySeq
<1>13. ret.err \notin Failure /\ ret.err # "exit" /\ ~Idle
  BY AtRunning, NoneFields
<1>14. ResultInv'
  BY <1>10, <1>12, <1>13, GoesOn
<1> QED
  BY <1>11, <1>14 DEF InterpInv

LEMMA DepthNext ==
  ASSUME s \in Shell, ~(s.depth >= MaxDepth)
  PROVE  s.depth + 1 \in 0..MaxDepth
BY InterpAssumption DEF Shell

LEMMA SubstKeeps ==
  ASSUME InterpInv, Subst
  PROVE  InterpInv'
<1>1. /\ Running /\ top.pc \in {"args", "redir", "value", "words"}
      /\ top.pc \notin {"wait", "stmt", "loop"} /\ More
      /\ UNCHANGED <<steps, canceled, open, runs, exited, result, quit>>
  BY DEF Subst, Expanding
<1>2. top \in Statements /\ StmtOK(top, s) /\ s \in Shell
  BY <1>1, AtStmt
<1>3. CASE s.depth >= MaxDepth
  <2>1. Return(1, "limit") /\ Raise("limit") /\ UNCHANGED <<stack, shells>>
    BY <1>3 DEF Subst
  <2>2. "limit" \in Failure /\ "limit" # "ctx"
    BY Statuses
  <2> QED
    BY <1>1, <2>1, <2>2, FailsHere
<1>4. CASE ~(s.depth >= MaxDepth)
  <2>1. PICK f \in Statements : f = counted /\ f.pc = top.pc /\ f.files = top.files /\ StmtOK(f, s)
    BY <1>1, <1>2, CountedFields
  <2>2. PICK g \in Frames : g = [kind |-> "subst", pc |-> "wait"] /\ g.kind = "subst"
    BY CallFrames
  <2>3. PICK h \in Frames : h = list(TRUE)
    BY ListFrame
  <2>4. PICK d \in 0..MaxDepth : d = s.depth + 1
    BY <1>2, <1>4, DepthNext
  <2>5. PICK t \in Shell : t = [s EXCEPT !.depth = d]
    BY <1>2 DEF Shell
  <2>6. t.depth = s.depth + 1 /\ t.args = s.args
    BY <1>2, <2>4, <2>5 DEF Shell
  <2>7. /\ stack' = below \o <<f, g, h>> /\ shells' = Append(shells, t) /\ Continue /\ UNCHANGED raised
    BY <1>4, <2>1, <2>2, <2>3, <2>4, <2>5 DEF Subst
  <2>8. Same
    BY <1>1, <2>7 DEF Same
  <2>9. MadeBy(f, g)
    BY <1>1, <2>1, <2>2, StatementFields DEF MadeBy
  <2>10. g.kind \in Clones /\ g.kind \in Calls /\ g.kind # "bash" /\ g.kind # "subshell"
    BY <2>2, Kinds
  <2> QED
    BY <1>1, <2>1, <2>3, <2>6, <2>7, <2>8, <2>9, <2>10, Enters
<1> QED
  BY <1>3, <1>4

LEMMA SubshellKeeps ==
  ASSUME InterpInv, Subshell
  PROVE  InterpInv'
<1>1. PICK g \in Frames : g = [kind |-> "subshell", pc |-> "wait"] /\ g.kind = "subshell"
  BY CallFrames
<1>2. PICK h \in Frames : h = list(FALSE)
  BY ListFrame
<1>3. Compound(<<g, h>>) /\ shells' = Append(shells, s)
  BY <1>1, <1>2 DEF Subshell
<1>4. <<g, h>> \in Seq(Frames) /\ AtCommand
  BY <1>3 DEF Compound
<1>5. /\ stack' = below \o (<<called>> \o <<g, h>>) /\ Continue /\ Same
      /\ Running /\ top.pc = "command" /\ called \in Frames
  BY <1>3, <1>4, CompoundCalls
<1>6. top \in Statements /\ StmtOK(top, s) /\ s \in Shell
  BY <1>5, AtStmt
<1>7. PICK f \in Statements : f = called /\ f.files = top.files /\ f.pc = "run" /\ f.kind = "stmt"
                              /\ StmtOK(f, s)
  BY <1>6, CalledFields
<1>8. f \in Frames
  BY StatementFields
<1>9. stack' = below \o <<f, g, h>>
  BY <1>5, <1>7, <1>8, JoinTwo
<1>10. MadeBy(f, g)
  BY <1>1, <1>7 DEF MadeBy
<1>11. g.kind \in Clones /\ g.kind \notin Calls /\ g.kind # "bash"
  BY <1>1, Kinds
<1> QED
  BY <1>2, <1>3, <1>5, <1>6, <1>7, <1>9, <1>10, <1>11, Enters

\* What the depth limit refuses.
LEMMA TooDeep ==
  ASSUME InterpInv, Running, top.pc = "call", Update(called), Return(1, "limit"), Raise("limit"),
         UNCHANGED shells, UNCHANGED <<steps, canceled, open, runs, exited, result, quit>>
  PROVE  InterpInv'
<1>1. Inner(s) /\ s \in Shell /\ raised = "none"
  BY InnerHere, AtRunning
<1>2. 1 \in Status /\ "limit" \in Err /\ "limit" # "exit" /\ "limit" # "ctx"
  BY Statuses
<1>3. raised' = Failed("limit")
  BY <1>1, RaiseNone
<1>4. steps' \in 0..MaxSteps
  BY DEF InterpInv, StackInv, TypeOK
<1> QED
  BY <1>1, <1>2, <1>3, <1>4, ReturnsHere

\* The shell that bash -c starts from: the exported variables only.
LEMMA NewType ==
  ASSUME NEW u \in Shell, NEW d \in 0..MaxDepth, NEW a \in 0..MaxItems
  PROVE  /\ New(u.cwd, exported(u.vars), d, a) \in Shell
         /\ New(u.cwd, exported(u.vars), d, a).depth = d /\ New(u.cwd, exported(u.vars), d, a).args = a
<1>1. u.vars \in [Var -> Variable] /\ u.cwd \in Dir /\ u.cwd \in Value
  BY InterpAssumption DEF Shell
<1>2. Zero \in Variable
  BY InterpAssumption DEF Zero, Variable
<1>3. PICK env \in [Var -> Variable] : env = exported(u.vars)
  BY <1>1, <1>2 DEF exported
<1>4. PICK w \in Variable : w = variable(u.cwd, TRUE)
  BY <1>1, VariableType
<1>5. PICK vs \in [Var -> Variable] : vs = [env EXCEPT !["PWD"] = w]
  OBVIOUS
<1>6. New(u.cwd, exported(u.vars), d, a) =
        [vars |-> vs, funcs |-> {}, cwd |-> u.cwd, status |-> 0, subStatus |-> 0, args |-> a, depth |-> d]
  BY <1>3, <1>4, <1>5 DEF New
<1> QED
  BY <1>1, <1>6 DEF Shell, Status

LEMMA BashKeeps ==
  ASSUME InterpInv, NEW args \in 0..MaxItems, Bash(args)
  PROVE  InterpInv'
<1>1. /\ Running /\ top.pc = "call" /\ top.pc \notin {"wait", "stmt", "loop"}
      /\ UNCHANGED <<steps, canceled, open, runs, exited, result, quit>>
  BY DEF Bash, Deeper
<1>2. top \in Statements /\ StmtOK(top, s) /\ s \in Shell
  BY <1>1, AtStmt
<1>3. CASE s.depth >= MaxDepth
  <2>1. Update(called) /\ Return(1, "limit") /\ Raise("limit") /\ UNCHANGED shells
    BY <1>3 DEF Bash, Deeper
  <2> QED
    BY <1>1, <2>1, TooDeep
<1>4. CASE ~(s.depth >= MaxDepth)
  <2>1. PICK f \in Statements : f = called /\ f.files = top.files /\ f.pc = "run" /\ f.kind = "stmt"
                                /\ StmtOK(f, s)
    BY <1>2, CalledFields
  <2>2. PICK g \in Frames :
          g = [kind |-> "bash", pc |-> "wait", mine |-> args] /\ g.kind = "bash" /\ g.mine = args
    BY CallFrames
  <2>3. PICK h \in Frames : h = list(TRUE)
    BY ListFrame
  <2>4. PICK d \in 0..MaxDepth : d = s.depth + 1
    BY <1>2, <1>4, DepthNext
  <2>5. PICK t \in Shell : t = New(s.cwd, exported(s.vars), d, args) /\ t.depth = d /\ t.args = args
    BY <1>2, NewType
  <2>6. /\ stack' = below \o <<f, g, h>> /\ shells' = Append(shells, t) /\ Continue /\ UNCHANGED raised
    BY <1>4, <2>1, <2>2, <2>3, <2>4, <2>5 DEF Bash, Deeper
  <2>7. Same
    BY <1>1, <2>6 DEF Same
  <2>8. MadeBy(f, g)
    BY <2>1, <2>2 DEF MadeBy
  <2>9. g.kind \in Clones /\ g.kind \in Calls /\ g.kind # "subshell"
    BY <2>2, Kinds
  <2> QED
    BY <1>1, <2>1, <2>2, <2>3, <2>4, <2>5, <2>6, <2>7, <2>8, <2>9, Enters
<1> QED
  BY <1>3, <1>4

LEMMA CallFuncKeeps ==
  ASSUME InterpInv, NEW args \in 0..MaxItems, CallFunc(args)
  PROVE  InterpInv'
<1>1. /\ Running /\ top.pc = "call" /\ top.pc \notin {"wait", "stmt", "loop"}
      /\ UNCHANGED <<steps, canceled, open, runs, exited, result, quit>>
  BY DEF CallFunc, Deeper
<1>2. /\ StackInv /\ TypeOK /\ CallsInv /\ stack # <<>> /\ top.kind = "stmt" /\ top \in Statements
      /\ StmtOK(top, s) /\ s \in Shell
  BY <1>1, AtStmt
<1>3. CASE s.depth >= MaxDepth
  <2>1. Update(called) /\ Return(1, "limit") /\ Raise("limit") /\ UNCHANGED shells
    BY <1>3 DEF CallFunc, Deeper
  <2> QED
    BY <1>1, <2>1, TooDeep
<1>4. CASE ~(s.depth >= MaxDepth)
  <2>1. PICK f \in Statements : f = called /\ f.files = top.files /\ f.pc = "run" /\ f.kind = "stmt"
                                /\ StmtOK(f, s)
    BY <1>2, CalledFields
  <2>2. PICK a \in 0..MaxItems : a = s.args
    BY <1>2 DEF Shell
  <2>3. PICK g \in Frames : g = [kind |-> "func", pc |-> "stmt", old |-> a, mine |-> args]
                            /\ g.kind = "func" /\ g.old = s.args /\ g.mine = args
    BY <2>2, CallFrames
  <2>4. PICK d \in 0..MaxDepth : d = s.depth + 1
    BY <1>2, <1>4, DepthNext
  <2>5. PICK t \in Shell : t = [s EXCEPT !.args = args, !.depth = d]
    BY <1>2 DEF Shell
  <2>6. t.depth = s.depth + 1 /\ t.args = g.mine
    BY <1>2, <2>3, <2>4, <2>5 DEF Shell
  <2>7. stack' = below \o <<f, g>> /\ Continue /\ UNCHANGED raised
    BY <1>4, <2>1, <2>2, <2>3 DEF CallFunc, Deeper
  <2>8. Inner(t)
    <3>1. t = [s EXCEPT !.args = args, !.depth = @ + 1]
      BY <2>4, <2>5
    <3>2. Change(t)
      BY <1>4, <3>1 DEF CallFunc, Deeper
    <3> QED
      BY <1>2, <3>2, ChangeInner
  <2>9. f \in Frames /\ <<f, g>> \in Seq(Frames)
    BY StatementFields
  <2>10. Becomes(<<f, g>>)
    BY <1>2, <2>7, <2>9, SpliceBecomes
  <2>11. Same
    BY <1>1, <2>7 DEF Same
  <2>12. ret' \in RetType
    BY <2>7, NoneFields DEF Continue
  <2>13. ScalarsOK' /\ open' = open /\ raised' = raised /\ quit' = quit
    BY <1>2, <2>11, <2>12, SameScalars
  <2>14. FilesOf(f) = FilesOf(top)
    BY <1>2, <2>1 DEF FilesOf
  <2>15. StackInv'
    BY <1>2, <2>1, <2>3, <2>6, <2>8, <2>9, <2>10, <2>13, <2>14, FuncEnterStep
  <2>16. stack' # <<>>
    <3>1. PICK l \in Nat : l = Len(stack) /\ l > 0
      BY <1>2, StackTop
    <3>2. stack' \in Seq(Frames) /\ Len(stack') = l - 1 + 2
      BY <2>10, <3>1 DEF Becomes
    <3> QED
      BY <3>1, <3>2, EmptySeq
  <2>17. ret.err \notin Failure /\ ret.err # "exit" /\ ~Idle
    BY <1>1, AtRunning, NoneFields
  <2>18. ResultInv'
    BY <2>7, <2>13, <2>16, <2>17, GoesOn
  <2> QED
    BY <2>15, <2>18 DEF InterpInv
<1> QED
  BY <1>3, <1>4

\* A function ends.
LEMMA FuncDoneKeeps ==
  ASSUME InterpInv, FuncDone
  PROVE  InterpInv'
<1>1. Returned /\ top.kind = "func" /\ Pop /\ Same
  BY DEF FuncDone
<1>2. /\ ret.err \in Err /\ ret.code \in Status /\ ret.err # "pending" /\ ~Idle
      /\ raised = Failed(ret.err) /\ StackInv /\ TypeOK /\ CallsInv /\ stack # <<>>
      /\ top \in Frames /\ s \in Shell
      /\ quit # {} => ret.err \in Failure \/ ret.err = "exit"
  BY <1>1, AtReturned
<1>3. top.old \in 0..MaxItems
  BY <1>1, <1>2, FrameKind
<1>4. s.depth - 1 \in 0..MaxDepth
  <2>1. PICK l \in Nat : l = Len(stack) /\ l > 0
    BY <1>2, StackTop
  <2>2. PICK m \in Nat : m + 1 = l
    BY <2>1
  <2>3. Count(stack, Calls, m + 1) = Count(stack, Calls, m) + 1
    <3>1. stack[m + 1].kind \in Calls
      BY <1>1, <2>1, <2>2, Kinds DEF top
    <3> QED
      BY <3>1, CountNext
  <2>4. Count(stack, Calls, m) \in Nat
    BY CountType
  <2>5. s.depth = Count(stack, Calls, l)
    BY <1>2, <2>1 DEF CallsInv, EndsAt, s
  <2>6. s.depth \in 0..MaxDepth
    BY <1>2 DEF Shell
  <2> QED
    BY <2>2, <2>3, <2>4, <2>5, <2>6, InterpAssumption
<1>5. PICK d \in 0..MaxDepth : d = s.depth - 1
  BY <1>4
<1>6. PICK t \in Shell : t = [s EXCEPT !.args = top.old, !.depth = d]
  BY <1>2, <1>3 DEF Shell
<1>7. t.depth = s.depth - 1 /\ t.args = top.old
  BY <1>2, <1>5, <1>6 DEF Shell
<1>8. Inner(t)
  <2>1. t = [s EXCEPT !.args = top.old, !.depth = @ - 1]
    BY <1>5, <1>6
  <2>2. Change(t)
    BY <2>1 DEF FuncDone
  <2> QED
    BY <1>2, <2>2, ChangeInner
<1>9. Becomes(<<>>)
  BY <1>1, <1>2, PopBecomes
<1>10. PICK e \in Err : e = IF ret.err = "return" THEN "none" ELSE ret.err
  BY <1>2, Statuses
<1>11. ret' \in RetType /\ ret'.err = e /\ ret'.code = ret.code
  <2>1. ret' = Results(ret.code, e)
    BY <1>10 DEF FuncDone, Return
  <2> QED
    BY <1>2, <2>1, ResultsFields
<1>12. ScalarsOK' /\ open' = open /\ raised' = raised /\ quit' = quit /\ canceled' = canceled
  BY <1>1, <1>2, <1>11, SameScalars
<1>13. StackInv'
  BY <1>1, <1>2, <1>7, <1>8, <1>9, <1>12, FuncLeaveStep
<1>14. Len(shells') = Len(shells)
  BY <1>8 DEF Inner
<1>15. raised' = Failed(ret'.err)
  <2>1. Failed(e) = Failed(ret.err)
    BY <1>10 DEF Failed, Failure
  <2> QED
    BY <1>2, <1>11, <1>12, <2>1
<1>16. ret'.err = "ctx" => canceled'
  BY <1>10, <1>11, <1>12 DEF InterpInv, ResultInv, RetInv
<1>17. quit # {} => e \in Failure \/ e = "exit"
  BY <1>2, <1>10 DEF Failure
<1>18. e = "exit" => ret.err = "exit"
  BY <1>10
<1>19. e # "pending" /\ top.kind \notin Clones \cup {"run"}
  BY <1>1, <1>2, <1>10, Kinds
<1>20. ResultInv'
  BY <1>1, <1>2, <1>9, <1>11, <1>12, <1>14, <1>15, <1>16, <1>17, <1>18, <1>19, PassUp
<1> QED
  BY <1>13, <1>20 DEF InterpInv

\* The interpreter goes on after a call that ended in a shell of its own.
LEMMA Resumes ==
  ASSUME stack' # <<>>, Continue, raised' = "none", quit' = {}
  PROVE  ResultInv'
<1>1. ~Idle' /\ ret' = None /\ ~Returned'
  BY DEF Idle, Continue, Returned
<1>2. RetInv'
  BY <1>1, NoneFields DEF RetInv, Failed
<1>3. FlowInv'
  BY <1>1 DEF FlowInv
<1>4. ExitInv'
  BY <1>1, NoneFields DEF ExitInv
<1> QED
  BY <1>2, <1>3, <1>4 DEF ResultInv

\* The frames and shells below a call that worked on a shell of its own.
LEMMA CallerBelow ==
  ASSUME StackInv, stack # <<>>, top.kind \in Clones
  PROVE  /\ below \in Seq(Frames) /\ Len(below) = Len(stack) - 1 /\ Len(stack) - 1 \in 1..Len(below)
         /\ \A i \in 1..(Len(stack) - 1) : below[i] = stack[i]
         /\ outer \in Seq(Shell) /\ Len(outer) = Len(shells) - 1 /\ Len(shells) - 1 \in 1..Len(outer)
         /\ \A i \in 1..(Len(shells) - 1) : outer[i] = shells[i]
<1>1. PICK l \in Nat : l = Len(stack) /\ l > 2
  BY Caller
<1>2. PICK n \in Nat : n = Len(shells) /\ n > 1
  BY Caller
<1>3. below \in Seq(Frames) /\ Len(below) = l - 1 /\ \A i \in 1..(l - 1) : below[i] = stack[i]
  BY <1>1, BelowSeq DEF StackInv
<1>4. \A i \in 1..(n - 1) : shells[i] \in Shell
  BY <1>2, ShellTop DEF StackInv
<1>5. /\ SubSeq(shells, 1, n - 1) \in Seq(Shell)
      /\ Len(SubSeq(shells, 1, n - 1)) = IF 1 <= n - 1 THEN n - 1 - 1 + 1 ELSE 0
      /\ \A i \in 1..(n - 1 - 1 + 1) : SubSeq(shells, 1, n - 1)[i] = shells[1 + i - 1]
  <2>1. shells \in Seq(Shell)
    BY DEF StackInv, TypeOK
  <2> QED
    BY <1>2, <1>4, <2>1, SubSeqProperties
<1>6. /\ outer \in Seq(Shell) /\ Len(outer) = n - 1
      /\ \A i \in 1..(n - 1) : outer[i] = shells[i]
  BY <1>2, <1>5 DEF outer
<1>7. l - 1 \in 1..(l - 1) /\ n - 1 \in 1..(n - 1)
  BY <1>1, <1>2
<1> QED
  BY <1>1, <1>2, <1>3, <1>6, <1>7

\* A call in a shell of its own ends and the statement below it is f, its
\* shell t.
LEMMA LeaveTop ==
  ASSUME StackInv, stack # <<>>, top.kind \in Clones, NEW f \in Frames, NEW t \in Shell, Shortened(f, t)
  PROVE  stack' # <<>> /\ top' = f /\ s' = t
<1>1. PICK l \in Nat : l = Len(stack) /\ l > 2
  BY Caller
<1>2. PICK n \in Nat : n = Len(shells) /\ n > 1
  BY Caller
<1>3. stack' \in Seq(Frames) /\ Len(stack') = l - 1 /\ stack'[l - 1] = f
  BY <1>1 DEF Shortened
<1>4. Len(shells') = n - 1 /\ shells'[n - 1] = t
  BY <1>2 DEF Shortened
<1> QED
  BY <1>1, <1>3, <1>4, EmptySeq DEF top, s

LEMMA ChildDoneKeeps ==
  ASSUME InterpInv, ChildDone
  PROVE  InterpInv'
<1>1. Returned /\ top.kind \in {"bash", "subshell"} /\ Pop /\ shells' = outer /\ Same
  BY DEF ChildDone
<1>2. /\ ret.err \in Err /\ ret.code \in Status /\ ~Idle /\ raised = Failed(ret.err)
      /\ StackInv /\ stack # <<>> /\ (quit # {} => Len(shells) = 1)
  BY <1>1, AtReturned
<1>3. top.kind \in Clones
  BY <1>1, Kinds
<1>4. PICK l \in Nat : l = Len(stack) /\ l > 2
  BY <1>2, <1>3, Caller
<1>5. PICK n \in Nat : n = Len(shells) /\ n > 1
  BY <1>2, <1>3, Caller
<1>6. PICK f \in Statements : f = stack[l - 1]
  BY <1>2, <1>3, <1>4, Caller
<1>7. PICK t \in Shell : t = shells[n - 1]
  BY <1>2, <1>5, ShellTop DEF StackInv
<1>8. f \in Frames /\ f.kind = "stmt" /\ MadeBy(f, top) /\ StmtOK(f, t)
  BY <1>2, <1>3, <1>4, <1>5, <1>6, <1>7, Caller, StatementFields
<1>9. /\ below \in Seq(Frames) /\ Len(below) = l - 1 /\ \A i \in 1..(l - 1) : below[i] = stack[i]
      /\ outer \in Seq(Shell) /\ Len(outer) = n - 1 /\ \A i \in 1..(n - 1) : outer[i] = shells[i]
  BY <1>2, <1>3, <1>4, <1>5, CallerBelow
<1>10. Shortened(f, t)
  <2>1. stack' = below /\ shells' = outer
    BY <1>1 DEF Pop
  <2>2. /\ l - 1 \in 1..(l - 1) /\ n - 1 \in 1..(n - 1)
        /\ \A i \in 1..(l - 2) : i \in 1..(l - 1)
        /\ \A i \in 1..(n - 2) : i \in 1..(n - 1)
    BY <1>4, <1>5
  <2>3. /\ stack' \in Seq(Frames) /\ Len(stack') = l - 1 /\ \A i \in 1..(l - 2) : stack'[i] = stack[i]
        /\ stack'[l - 1] = f
    BY <1>6, <1>9, <2>1, <2>2
  <2>4. /\ shells' \in Seq(Shell) /\ Len(shells') = n - 1 /\ \A i \in 1..(n - 2) : shells'[i] = shells[i]
        /\ shells'[n - 1] = t
    BY <1>7, <1>9, <2>1, <2>2
  <2> QED
    BY <1>4, <1>5, <2>3, <2>4 DEF Shortened
<1>11. PICK e \in Err : e = IF ret.err = "exit" THEN "none" ELSE ret.err
  BY <1>2, Statuses
<1>12. Return(ret.code, e)
  BY <1>11 DEF ChildDone
<1>13. ret' \in RetType
  BY <1>2, <1>12, ReturnType
<1>14. ScalarsOK' /\ open' = open /\ raised' = raised /\ quit' = quit /\ canceled' = canceled
  BY <1>1, <1>2, <1>13, SameScalars
<1>15. StackInv'
  BY <1>2, <1>3, <1>4, <1>5, <1>6, <1>7, <1>8, <1>10, <1>14, LeaveStep
<1>16. stack' # <<>> /\ top' = f
  BY <1>2, <1>3, <1>8, <1>10, LeaveTop
<1>17. f.pc = "run"
  BY <1>1, <1>8 DEF MadeBy
<1>18. quit' = {}
  BY <1>2, <1>5, <1>14
<1>19. raised' = Failed(e) /\ e # "exit"
  BY <1>2, <1>11, <1>14 DEF Failed, Failure
<1>20. e = "ctx" => canceled'
  BY <1>11, <1>14 DEF InterpInv, ResultInv, RetInv
<1>21. ResultInv'
  BY <1>2, <1>8, <1>12, <1>16, <1>17, <1>18, <1>19, <1>20, Returns
<1> QED
  BY <1>15, <1>21 DEF InterpInv

\* A substitution ends: its status is what the statement and the shell keep.
LEMMA SubstDoneKeeps ==
  ASSUME InterpInv, NEW overflow \in BOOLEAN, SubstDone(overflow)
  PROVE  InterpInv'
<1>1. Returned /\ top.kind = "subst" /\ UNCHANGED <<steps, canceled, open, runs, exited, result, quit>>
  BY DEF SubstDone
<1>2. /\ ret.err \in Err /\ ret.code \in Status /\ ~Idle /\ raised = Failed(ret.err)
      /\ StackInv /\ stack # <<>> /\ (quit # {} => Len(shells) = 1)
  BY <1>1, AtReturned
<1>3. top.kind \in Clones
  BY <1>1, Kinds
<1>4. PICK l \in Nat : l = Len(stack) /\ l > 2
  BY <1>2, <1>3, Caller
<1>5. PICK n \in Nat : n = Len(shells) /\ n > 1
  BY <1>2, <1>3, Caller
<1>6. PICK f0 \in Statements : f0 = stack[l - 1]
  BY <1>2, <1>3, <1>4, Caller
<1>7. PICK t0 \in Shell : t0 = shells[n - 1]
  BY <1>2, <1>5, ShellTop DEF StackInv
<1>8. MadeBy(f0, top) /\ StmtOK(f0, t0)
  BY <1>2, <1>3, <1>4, <1>5, <1>6, <1>7, Caller
<1>9. PICK f \in Statements : f = [f0 EXCEPT !.sub = ret.code]
  BY <1>2 DEF Statements
<1>10. /\ f.pc = f0.pc /\ f.files = f0.files /\ f.mode = f0.mode /\ f.before = f0.before
       /\ f.orig = f0.orig /\ f.name = f0.name /\ f.sub = ret.code
  BY <1>9 DEF Statements
<1>11. PICK t \in Shell : t = [t0 EXCEPT !.subStatus = ret.code]
  BY <1>2 DEF Shell
<1>12. t.vars = t0.vars /\ t.depth = t0.depth /\ t.args = t0.args /\ t.subStatus = ret.code
  BY <1>11 DEF Shell
<1>13. f \in Frames /\ f.kind = "stmt" /\ f0.kind = "stmt"
  BY StatementFields
<1>14. StmtOK(f, t)
  BY <1>8, <1>10, <1>12 DEF StmtOK
<1>15. /\ below \in Seq(Frames) /\ Len(below) = l - 1 /\ \A i \in 1..(l - 1) : below[i] = stack[i]
       /\ outer \in Seq(Shell) /\ Len(outer) = n - 1 /\ \A i \in 1..(n - 1) : outer[i] = shells[i]
       /\ l - 1 \in 1..(l - 1) /\ n - 1 \in 1..(n - 1)
  BY <1>2, <1>3, <1>4, <1>5, CallerBelow
<1>16. Shortened(f, t)
  <2>1. below[l - 1] = f0 /\ outer[n - 1] = t0
    BY <1>6, <1>7, <1>15
  <2>2. stack' = [below EXCEPT ![l - 1] = f] /\ shells' = [outer EXCEPT ![n - 1] = t]
    <3>1. /\ stack' = [below EXCEPT ![l - 1].sub = ret.code]
          /\ shells' = [outer EXCEPT ![n - 1].subStatus = ret.code]
      BY <1>4, <1>5 DEF SubstDone
    <3> QED
      BY <1>9, <1>11, <2>1, <3>1
  <2>3. /\ \A i \in 1..(l - 2) : i \in 1..(l - 1) /\ i # l - 1
        /\ \A i \in 1..(n - 2) : i \in 1..(n - 1) /\ i # n - 1
    BY <1>4, <1>5
  <2>4. /\ stack' \in Seq(Frames) /\ Len(stack') = l - 1 /\ \A i \in 1..(l - 1) : i # l - 1 => stack'[i] = below[i]
        /\ stack'[l - 1] = f
    BY <1>13, <1>15, <2>2, ExceptSeq
  <2>5. /\ shells' \in Seq(Shell) /\ Len(shells') = n - 1 /\ \A i \in 1..(n - 1) : i # n - 1 => shells'[i] = outer[i]
        /\ shells'[n - 1] = t
    BY <1>15, <2>2, ExceptSeq
  <2>6. \A i \in 1..(l - 2) : stack'[i] = stack[i]
    BY <1>15, <2>3, <2>4
  <2>7. \A i \in 1..(n - 2) : shells'[i] = shells[i]
    BY <1>15, <2>3, <2>5
  <2> QED
    BY <1>4, <1>5, <2>4, <2>5, <2>6, <2>7 DEF Shortened
<1>17. PICK e \in Err : e = IF overflow THEN "limit" ELSE IF ret.err = "exit" THEN "none" ELSE ret.err
  BY <1>2, Statuses
<1>18. ret' = (IF e = "none" THEN None ELSE Results(1, e)) /\ Raise(e)
  BY <1>17 DEF SubstDone
<1>19. ret' \in RetType
  BY <1>18, NoneFields, ResultsFields, Statuses
<1>20. ScalarsOK'
  BY <1>1, <1>2, <1>18, <1>19, RaiseScalars
<1>21. FilesOf(f) = FilesOf(stack[l - 1])
  BY <1>6, <1>10, <1>13 DEF FilesOf
<1>22. StackInv'
  BY <1>1, <1>2, <1>3, <1>4, <1>5, <1>7, <1>12, <1>13, <1>14, <1>16, <1>20, <1>21, LeaveStep
<1>23. stack' # <<>> /\ top' = f
  BY <1>2, <1>3, <1>13, <1>16, LeaveTop
<1>24. quit' = {}
  BY <1>1, <1>2, <1>5
<1>25. raised' = Failed(e)
  BY <1>2, <1>17, <1>18 DEF Raise, Failed, Failure
<1>26. (e = "ctx" => canceled') /\ e # "exit"
  BY <1>1, <1>17 DEF InterpInv, ResultInv, RetInv
<1>27. ResultInv'
  <2>1. CASE e = "none"
    BY <1>18, <1>23, <1>24, <1>25, <2>1, Statuses, Resumes DEF Continue, Failed
  <2>2. CASE e # "none"
    <3>1. Return(1, e) /\ 1 \in Status
      BY <1>18, <2>2, Statuses DEF Return
    <3> QED
      BY <1>13, <1>23, <1>24, <1>25, <1>26, <2>2, <3>1, Returns
  <2> QED
    BY <2>1, <2>2
<1> QED
  BY <1>22, <1>27 DEF InterpInv

-----------------------------------------------------------------------------
(* Run, and the sessions *)

\* A session that has just been opened.
LEMMA InitKeeps == Init => InterpInv
<1> SUFFICES ASSUME Init PROVE InterpInv
  OBVIOUS
<1>1. PICK fs \in SUBSET Func : shells = <<NewShell(fs)>>
  BY DEF Init
<1>2. PICK t \in Shell : t = NewShell(fs) /\ t.depth = 0 /\ t.args = 0
  BY NewShellType
<1>3. shells \in Seq(Shell) /\ Len(shells) = 1 /\ shells[1].depth = 0 /\ shells[1].args = 0
  BY <1>1, <1>2
<1>4. ScalarsOK
  <2>1. ret \in RetType
    BY NoneFields DEF Init
  <2>2. steps \in 0..MaxSteps /\ runs \in 0..MaxRuns
    BY InterpAssumption DEF Init
  <2>3. canceled \in BOOLEAN /\ exited \in BOOLEAN /\ raised \in {"none"} \cup Failure /\ quit \subseteq Status
    BY DEF Init
  <2> QED
    BY <2>1, <2>2, <2>3 DEF ScalarsOK, RetType
<1>5. stack = <<>> /\ stack \in Seq(Frames) /\ Len(stack) = 0 /\ Idle
  BY EmptySeq DEF Init, Idle
<1>6. ShapeInv
  BY <1>5 DEF ShapeInv
<1>7. Quiet
  BY <1>3, <1>4, <1>5, <1>6 DEF Quiet, Init
<1>8. StackInv
  BY <1>7, QuietStack
<1>9. RetInv
  BY <1>5, NoneFields DEF RetInv, Init, Failed
<1>10. FlowInv /\ ExitInv
  BY <1>5 DEF FlowInv, Returned, ExitInv, Init
<1> QED
  BY <1>8, <1>9, <1>10 DEF InterpInv, ResultInv

\* Between scripts.
LEMMA AtIdle ==
  ASSUME InterpInv, Idle
  PROVE  /\ ret = None /\ stack = <<>> /\ StackInv /\ Quiet /\ ScalarsOK /\ Len(stack) = 0
<1>1. ret = None /\ stack = <<>> /\ StackInv
  BY DEF InterpInv, ResultInv, RetInv, Idle
<1>2. Len(stack) = 0
  BY <1>1, EmptySeq
<1>3. Quiet
  BY <1>1, <1>2, QuietEnd
<1> QED
  BY <1>1, <1>2, <1>3 DEF Quiet

LEMMA RunKeeps ==
  ASSUME InterpInv, Run
  PROVE  InterpInv'
<1>1. /\ Idle /\ runs < MaxRuns /\ runs' = runs + 1 /\ raised' = "none" /\ quit' = {} /\ exited' = FALSE
      /\ UNCHANGED <<shells, ret, steps, canceled, open>>
  BY DEF Run
<1>2. ret = None /\ Quiet /\ ScalarsOK
  BY <1>1, AtIdle
<1>3. PICK f \in Frames : f = [kind |-> "run", pc |-> "wait"] /\ f.kind = "run"
  <2>1. [kind |-> "run", pc |-> "wait"] \in [kind : {"run", "subst", "subshell", "if"}, pc : {"wait"}]
    OBVIOUS
  <2> QED
    BY <2>1 DEF Frames
<1>4. PICK g \in Frames : g = list(TRUE) /\ g.kind = "list"
  BY ListFrame
<1>5. stack' = <<f, g>>
  BY <1>3, <1>4 DEF Run
<1>6. stack' \in Seq(Frames) /\ Len(stack') = 2 /\ stack'[1] = f /\ stack'[2] = g
  BY <1>5
<1>7. stack' # <<>>
  BY <1>6, EmptySeq
<1>8. MadeBy(f, g)
  BY <1>3, <1>4 DEF MadeBy
<1>9. ShapeInv'
  <2>1. \A i \in 1..(2 - 1) : i = 1 /\ i + 1 = 2
    OBVIOUS
  <2> QED
    BY <1>3, <1>6, <1>8, <2>1 DEF ShapeInv
<1>10. \A i \in 1..Len(stack') : stack'[i].kind \in {"run", "list"}
  <2>1. \A i \in 1..2 : i = 1 \/ i = 2
    OBVIOUS
  <2> QED
    BY <1>3, <1>4, <1>6, <2>1
<1>11. ScalarsOK'
  <2>1. runs' \in 0..MaxRuns
    BY <1>1, <1>2, InterpAssumption DEF ScalarsOK
  <2> QED
    BY <1>1, <1>2, <2>1 DEF ScalarsOK
<1>12. Quiet'
  BY <1>1, <1>2, <1>6, <1>9, <1>10, <1>11 DEF Quiet
<1>13. StackInv'
  BY <1>12, QuietStack, PTL
<1>14. ResultInv'
  BY <1>1, <1>2, <1>7, Resumes DEF Continue
<1> QED
  BY <1>13, <1>14 DEF InterpInv

LEMMA RunRefusedKeeps ==
  ASSUME InterpInv, NEW err \in {"fail", "limit"}, RunRefused(err)
  PROVE  InterpInv'
<1>1. /\ Idle /\ runs < MaxRuns /\ runs' = runs + 1 /\ raised' = err /\ quit' = {} /\ exited' = FALSE
      /\ result' = Results(1, err) /\ UNCHANGED <<stack, shells, ret, steps, canceled, open>>
  BY DEF RunRefused
<1>2. ret = None /\ ScalarsOK /\ StackInv
  BY <1>1, AtIdle
<1>3. err \in Failure /\ err \in Err
  BY Statuses
<1>4. ScalarsOK'
  <2>1. runs' \in 0..MaxRuns
    BY <1>1, <1>2, InterpAssumption DEF ScalarsOK
  <2> QED
    BY <1>1, <1>2, <1>3, <2>1 DEF ScalarsOK
<1>5. StackInv'
  BY <1>1, <1>2, <1>4, SameStep
<1>6. Idle' /\ ret' = None
  BY <1>1, <1>2 DEF Idle
<1>7. RetInv'
  <2>1. result'.err = err
    BY <1>1, <1>3, Statuses, ResultsFields
  <2> QED
    BY <1>1, <1>3, <1>6, <2>1, NoneFields DEF RetInv, Failed
<1>8. FlowInv'
  BY <1>6 DEF FlowInv, Returned
<1>9. ExitInv'
  BY <1>1, <1>6 DEF ExitInv
<1> QED
  BY <1>5, <1>7, <1>8, <1>9 DEF InterpInv, ResultInv

LEMMA RunDoneKeeps ==
  ASSUME InterpInv, RunDone
  PROVE  InterpInv'
<1>1. /\ Returned /\ top.kind = "run" /\ Pop /\ ret' = None /\ exited' = (ret.err = "exit")
      /\ steps' = 0 /\ canceled' = FALSE /\ UNCHANGED <<shells, open, runs, raised, quit>>
  BY DEF RunDone, Continue
<1>2. /\ ret.err \in Err /\ ret.code \in Status /\ raised = Failed(ret.err)
      /\ StackInv /\ TypeOK /\ stack # <<>> /\ ~Idle
      /\ quit # {} => ret.err \in Failure \/ ret.err = "exit"
  BY <1>1, AtReturned
<1>3. Len(stack) = 1 /\ Quiet
  BY <1>1, <1>2, BottomFrame
<1>4. stack' = <<>> /\ stack' \in Seq(Frames) /\ Len(stack') = 0
  <2>1. below \in Seq(Frames) /\ Len(below) = 0
    BY <1>2, <1>3, BelowSeq
  <2> QED
    BY <1>1, <2>1, EmptySeq DEF Pop
<1>5. Idle' /\ ShapeInv'
  BY <1>4 DEF Idle, ShapeInv
<1>6. ScalarsOK'
  <2>1. ret' \in RetType
    BY <1>1, NoneFields
  <2>2. steps' \in 0..MaxSteps /\ runs' \in 0..MaxRuns
    BY <1>1, <1>3, InterpAssumption DEF ScalarsOK, Quiet
  <2>3. canceled' \in BOOLEAN /\ exited' \in BOOLEAN
    BY <1>1
  <2>4. raised' \in {"none"} \cup Failure /\ quit' \subseteq Status
    BY <1>1, <1>3 DEF ScalarsOK, Quiet
  <2> QED
    BY <2>1, <2>2, <2>3, <2>4 DEF ScalarsOK, RetType
<1>7. Quiet'
  BY <1>1, <1>3, <1>4, <1>5, <1>6 DEF Quiet
<1>8. StackInv'
  BY <1>7, QuietStack, PTL
<1>9. PICK e \in Err : e = IF ret.err = "exit" THEN "none" ELSE ret.err
  BY <1>2, Statuses
<1>10. result' = Results(ret.code, e) /\ result'.err = e
  BY <1>2, <1>9, ResultsFields DEF RunDone
<1>11. RetInv'
  <2>1. Failed(e) = Failed(ret.err)
    BY <1>9 DEF Failed, Failure
  <2> QED
    BY <1>1, <1>2, <1>5, <1>10, <2>1, NoneFields DEF RetInv
<1>12. FlowInv'
  BY <1>5 DEF FlowInv, Returned
<1>13. ret.err = "exit" => quit = {ret.code} /\ raised = "none"
  <2>1. Len(shells) = 1
    BY <1>3 DEF Quiet
  <2> QED
    BY <1>2, <2>1, Statuses DEF InterpInv, ResultInv, ExitInv, Failed
<1>14. exited' = (quit' # {} /\ raised' = "none")
  BY <1>1, <1>2, <1>13, Statuses DEF Failed
<1>15. exited' => result' = Results(CHOOSE c \in quit' : TRUE, "none")
  BY <1>1, <1>9, <1>10, <1>13
<1>16. ExitInv'
  BY <1>5, <1>14, <1>15 DEF ExitInv
<1> QED
  BY <1>8, <1>11, <1>12, <1>16 DEF InterpInv, ResultInv

LEMMA NewSessionKeeps ==
  ASSUME InterpInv, NewSession
  PROVE  InterpInv'
<1>1. /\ Idle /\ runs' = 0 /\ raised' = "none" /\ quit' = {} /\ exited' = FALSE /\ result' = None
      /\ UNCHANGED <<stack, ret, steps, canceled, open>>
  BY DEF NewSession
<1>2. ret = None /\ Quiet /\ ScalarsOK
  BY <1>1, AtIdle
<1>3. PICK fs \in SUBSET Func : shells' = <<NewShell(fs)>>
  BY DEF NewSession
<1>4. PICK t \in Shell : t = NewShell(fs) /\ t.depth = 0 /\ t.args = 0
  BY NewShellType
<1>5. shells' \in Seq(Shell) /\ Len(shells') = 1 /\ shells'[1].depth = 0 /\ shells'[1].args = 0
  BY <1>3, <1>4
<1>6. ScalarsOK'
  <2>1. 0 \in 0..MaxRuns
    BY InterpAssumption
  <2>2. /\ runs' \in 0..MaxRuns /\ exited' \in BOOLEAN /\ raised' \in {"none"} \cup Failure
        /\ quit' \subseteq Status
    BY <1>1, <2>1
  <2> QED
    BY <1>1, <1>2, <2>1, <2>2 DEF ScalarsOK
<1>7. ShapeInv'
  BY <1>1, <1>2 DEF ShapeInv, Quiet
<1>8. Quiet'
  BY <1>1, <1>2, <1>5, <1>6, <1>7 DEF Quiet
<1>9. StackInv'
  BY <1>8, QuietStack, PTL
<1>10. Idle' /\ ret' = None
  BY <1>1, <1>2 DEF Idle
<1>11. RetInv' /\ FlowInv' /\ ExitInv'
  BY <1>1, <1>10, NoneFields DEF RetInv, Failed, FlowInv, Returned, ExitInv
<1> QED
  BY <1>9, <1>11 DEF InterpInv, ResultInv

LEMMA CancelKeeps ==
  ASSUME InterpInv, Cancel
  PROVE  InterpInv'
<1>1. /\ canceled' = TRUE
      /\ UNCHANGED <<stack, shells, ret, steps, open, runs, exited, result, raised, quit>>
  BY DEF Cancel
<1>2. ScalarsOK'
  BY <1>1 DEF ScalarsOK, InterpInv, StackInv, TypeOK
<1>3. StackInv'
  BY <1>1, <1>2, SameStep DEF InterpInv
<1>4. RetInv'
  BY <1>1 DEF RetInv, InterpInv, ResultInv, Idle
<1>5. FlowInv' /\ ExitInv'
  BY <1>1 DEF FlowInv, ExitInv, InterpInv, ResultInv, Idle, Returned, top, s
<1> QED
  BY <1>3, <1>4, <1>5 DEF InterpInv, ResultInv

LEMMA StutterKeeps ==
  ASSUME InterpInv, UNCHANGED vars
  PROVE  InterpInv'
<1>1. UNCHANGED <<stack, shells, ret, steps, canceled, open, runs, exited, result, raised, quit>>
  BY DEF vars
<1>2. ScalarsOK'
  BY <1>1 DEF ScalarsOK, InterpInv, StackInv, TypeOK
<1>3. StackInv'
  BY <1>1, <1>2, SameStep DEF InterpInv
<1>4. RetInv'
  BY <1>1 DEF RetInv, InterpInv, ResultInv, Idle
<1>5. FlowInv' /\ ExitInv'
  BY <1>1 DEF FlowInv, ExitInv, InterpInv, ResultInv, Idle, Returned, top, s
<1> QED
  BY <1>3, <1>4, <1>5 DEF InterpInv, ResultInv

-----------------------------------------------------------------------------
(* The theorems *)

LEMMA ExpandKeeps ==
  ASSUME InterpInv, Expand
  PROVE  InterpInv'
BY ExpandFailKeeps, ExpandSetKeeps, GlobKeeps, SubstKeeps, SubstDoneKeeps DEF Expand

LEMMA StmtKeeps ==
  ASSUME InterpInv, Stmt
  PROVE  InterpInv'
<1>1. CASE \/ \E simple \in BOOLEAN : StmtStart(simple)
           \/ \E words \in BOOLEAN : ArgsDone(words)
           \/ ArgsFail
           \/ \E writer \in BOOLEAN : OpenFile(writer)
           \/ RedirectDone
  BY <1>1, StmtStartKeeps, ArgsDoneKeeps, ArgsFailKeeps, OpenFileKeeps, RedirectDoneKeeps
<1>2. CASE \/ \E bad \in BOOLEAN : RedirectFail(bad)
           \/ \E negated, bad \in BOOLEAN : Finish(negated, bad)
  BY <1>2, RedirectFailKeeps, FinishKeeps
<1>3. CASE \/ \E k \in Var : AssignStart(k) \/ ExportName(k)
           \/ \E v \in Value : AssignEnd(v)
           \/ ExportDynamic \/ AssignDone
  BY <1>3, AssignStartKeeps, ExportNameKeeps, AssignEndKeeps, ExportDynamicKeeps, AssignDoneKeeps
<1> QED
  BY <1>1, <1>2, <1>3 DEF Stmt

LEMMA InvokeKeeps ==
  ASSUME InterpInv, Invoke
  PROVE  InterpInv'
<1>1. CASE \/ \E code \in Status, err \in {"none"} \cup Failure : Command(code, err)
           \/ XargsBatch
           \/ \E d \in Dir : cd(d)
           \/ \E k \in Var : unset(k)
  BY <1>1, CommandKeeps, XargsBatchKeeps, CdKeeps, UnsetKeeps
<1>2. CASE \/ \E kind \in {"exit", "return"}, code \in Status : ExitReturn(kind, code)
           \/ \E kind \in {"break", "continue"} : BreakContinue(kind)
  BY <1>2, ExitReturnKeeps, BreakContinueKeeps
<1>3. CASE (\E args \in 0..MaxItems : CallFunc(args) \/ Bash(args)) \/ FuncDone \/ ChildDone
  BY <1>3, CallFuncKeeps, BashKeeps, FuncDoneKeeps, ChildDoneKeeps
<1> QED
  BY <1>1, <1>2, <1>3 DEF Invoke

LEMMA ConstructKeeps ==
  ASSUME InterpInv, Construct
  PROVE  InterpInv'
<1>1. CASE \/ Nil \/ Decl \/ Words \/ Block \/ Subshell \/ If
           \/ \E f \in Func : FuncDecl(f)
           \/ \E code \in Status : Arithm(code)
  BY <1>1, NilKeeps, DeclKeeps, WordsKeeps, BlockKeeps, SubshellKeeps, IfKeeps, FuncDeclKeeps, ArithmKeeps
<1>2. CASE \/ \E code \in Status, err \in Err \ {"exit", "ctx"} : Pipe(code, err)
           \/ \E op \in {"and", "or"} : Binary(op)
           \/ BinaryDone
           \/ \E branch \in {"else", "elif", "none"} : IfDone(branch)
  BY <1>2, PipeKeeps, BinaryKeeps, BinaryDoneKeeps, IfDoneKeeps
<1>3. CASE \/ \E n \in 0..MaxItems : For(n)
           \/ \E k \in Var, v \in Value : ForNext(k, v)
           \/ ForFull \/ ForEnd
  BY <1>3, ForKeeps, ForNextKeeps, ForFullKeeps, ForEndKeeps
<1>4. CASE \/ \E until \in BOOLEAN : While(until)
           \/ WhileNext \/ WhileCond \/ BodyDone
           \/ ListEmpty
           \/ \E more \in BOOLEAN : ListNext(more)
  BY <1>4, WhileKeeps, WhileNextKeeps, WhileCondKeeps, BodyDoneKeeps, ListEmptyKeeps, ListNextKeeps
<1> QED
  BY <1>1, <1>2, <1>3, <1>4 DEF Construct

LEMMA NextKeeps == InterpInv /\ [Next]_vars => InterpInv'
<1> SUFFICES ASSUME InterpInv, [Next]_vars PROVE InterpInv'
  OBVIOUS
<1>1. CASE Interpret
  BY <1>1, ExpandKeeps, StmtKeeps, InvokeKeeps, ConstructKeeps, RunDoneKeeps DEF Interpret
<1>2. CASE Run \/ (\E err \in {"fail", "limit"} : RunRefused(err)) \/ NewSession \/ Cancel
  BY <1>2, RunKeeps, RunRefusedKeeps, NewSessionKeeps, CancelKeeps
<1>3. CASE UNCHANGED vars
  BY <1>3, StutterKeeps
<1> QED
  BY <1>1, <1>2, <1>3 DEF Next

\* The invariant holds throughout: frames and shells are of the right shape,
\* the calls balance, the files are those of the statements in progress, and
\* what is on its way up is what was raised.
THEOREM InterpInvariant == Spec => []InterpInv
BY InitKeeps, NextKeeps, PTL DEF Spec

\* The interpreter's state has its types, the budget of steps and the depth are
\* kept, and there is a shell for each subshell, substitution and nested shell.
THEOREM InterpTypes == Spec => []TypeOK
<1>1. InterpInv => TypeOK
  BY DEF InterpInv, StackInv
<1> QED
  BY <1>1, InterpInvariant, PTL

LEMMA BalancedNow == InterpInv => CallsBalanced
<1> SUFFICES ASSUME InterpInv PROVE CallsBalanced
  OBVIOUS
<1>1. TypeOK /\ CallsInv
  BY DEF InterpInv, StackInv
<1>2. PICK l \in Nat : l = Len(stack)
  BY <1>1, LenProperties DEF TypeOK
<1>3. DOMAIN stack = 1..l
  BY <1>1, <1>2, LenProperties DEF TypeOK
<1>4. l \in 0..Len(stack) /\ EndsAt(stack, l) /\ s = shells[ShellAt(stack, l)]
  BY <1>1, <1>2 DEF EndsAt, CallsInv, s
<1>5. s.depth = Count(stack, Calls, l) /\ ArgsAt(stack, l, s.args)
  BY <1>1, <1>4 DEF CallsInv
<1>6. s.depth = Cardinality({i \in DOMAIN stack : stack[i].kind \in Calls})
  BY <1>3, <1>5 DEF Count
<1> DEFINE own == {i \in DOMAIN stack : stack[i].kind \in {"func", "bash"}}
<1>7. \/ own = {} /\ s.args = 0
      \/ \E i \in own : (\A j \in own : j <= i) /\ s.args = stack[i].mine
  <2>1. own = {i \in 1..l : stack[i].kind \in Own}
    BY <1>3 DEF Own
  <2> HIDE DEF own
  <2>2. CASE (\A i \in 1..l : stack[i].kind \notin Own) /\ s.args = 0
    BY <2>1, <2>2
  <2>3. CASE \E i \in 1..l : /\ stack[i].kind \in Own /\ s.args = stack[i].mine
                             /\ \A j \in 1..l : stack[j].kind \in Own => j <= i
    BY <2>1, <2>3
  <2> QED
    BY <1>5, <2>2, <2>3 DEF ArgsAt
<1> QED
  BY <1>6, <1>7 DEF CallsBalanced

\* On every path out of a function, substitution or nested shell the depth and
\* the arguments are taken back.
THEOREM CallsStayBalanced == Spec => []CallsBalanced
BY BalancedNow, InterpInvariant, PTL

\* Every file that a redirection opened is closed when its statement ends.
THEOREM FilesAreClosed == Spec => []FilesClosed
<1>1. InterpInv => FilesClosed
  BY DEF InterpInv, StackInv
<1> QED
  BY <1>1, InterpInvariant, PTL

\* A failure is what Run returns, and nothing else is reported as one.
THEOREM FailuresSurface == Spec => []FailureSurfaces
<1>1. InterpInv => FailureSurfaces
  BY DEF InterpInv, ResultInv, RetInv, Failed, FailureSurfaces
<1> QED
  BY <1>1, InterpInvariant, PTL

\* Exited is told exactly when the session's own shell executed exit.
THEOREM ExitIsTold == Spec => []ExitTold
<1>1. InterpInv => ExitTold
  BY DEF InterpInv, ResultInv, ExitInv, ExitTold
<1> QED
  BY <1>1, InterpInvariant, PTL

\* The steps that look at results.
LEMMA ReturnedStep ==
  ASSUME Returned, Next
  PROVE  \/ \E overflow \in BOOLEAN : SubstDone(overflow)
         \/ ArgsFail \/ (\E bad \in BOOLEAN : RedirectFail(bad))
         \/ \E negated, bad \in BOOLEAN : Finish(negated, bad)
         \/ FuncDone \/ ChildDone \/ BinaryDone \/ (\E branch \in {"else", "elif", "none"} : IfDone(branch))
         \/ WhileCond \/ BodyDone \/ (\E more \in BOOLEAN : ListNext(more)) \/ RunDone \/ Cancel
<1>1. ~Running /\ ~Idle
  BY DEF Returned, Running
<1>2. CASE Expand
  <2>1. \A err \in Failure : ~ExpandFail(err)
    BY <1>1 DEF ExpandFail, Expanding
  <2>2. \A k \in Var, v \in Value : ~ExpandSet(k, v)
    BY <1>1 DEF ExpandSet, Expanding
  <2>3. ~Glob /\ ~Subst
    BY <1>1 DEF Glob, Subst, Expanding
  <2> QED
    BY <1>2, <2>1, <2>2, <2>3 DEF Expand
<1>3. CASE Stmt
  <2>1. /\ \A simple \in BOOLEAN : ~StmtStart(simple) /\ ~ArgsDone(simple) /\ ~OpenFile(simple)
        /\ ~RedirectDone /\ ~ExportDynamic /\ ~AssignDone
    BY <1>1 DEF StmtStart, ArgsDone, OpenFile, RedirectDone, ExportDynamic, AssignDone
  <2>2. /\ \A k \in Var : ~AssignStart(k) /\ ~ExportName(k)
        /\ \A v \in Value : ~AssignEnd(v)
    BY <1>1 DEF AssignStart, ExportName, AssignEnd
  <2> QED
    BY <1>3, <2>1, <2>2 DEF Stmt
<1>4. CASE Invoke
  <2>1. /\ \A code \in Status, err \in {"none"} \cup Failure : ~Command(code, err)
        /\ ~XargsBatch /\ (\A d \in Dir : ~cd(d)) /\ (\A k \in Var : ~unset(k))
    BY <1>1 DEF Command, XargsBatch, cd, unset
  <2>2. /\ \A kind \in {"exit", "return"}, code \in Status : ~ExitReturn(kind, code)
        /\ \A kind \in {"break", "continue"} : ~BreakContinue(kind)
        /\ \A args \in 0..MaxItems : ~CallFunc(args) /\ ~Bash(args)
    BY <1>1 DEF ExitReturn, BreakContinue, CallFunc, Bash, Deeper
  <2> QED
    BY <1>4, <2>1, <2>2 DEF Invoke
<1>5. CASE Construct
  <2>1. /\ ~Nil /\ ~Decl /\ ~Words /\ ~Block /\ ~Subshell /\ ~If
        /\ \A f \in Func : ~FuncDecl(f)
        /\ \A code \in Status : ~Arithm(code)
    BY <1>1 DEF Nil, Decl, Words, Block, Subshell, If, FuncDecl, Arithm, Compound, AtCommand
  <2>2. /\ \A code \in Status, err \in Err \ {"exit", "ctx"} : ~Pipe(code, err)
        /\ (\A op \in {"and", "or"} : ~Binary(op)) /\ (\A until \in BOOLEAN : ~While(until))
        /\ \A n \in 0..MaxItems : ~For(n)
    BY <1>1 DEF Pipe, Binary, While, For, Compound, AtCommand
  <2>3. /\ \A k \in Var, v \in Value : ~ForNext(k, v)
        /\ ~ForFull /\ ~ForEnd /\ ~WhileNext /\ ~ListEmpty
    BY <1>1 DEF ForNext, ForFull, ForEnd, WhileNext, ListEmpty
  <2> QED
    BY <1>5, <2>1, <2>2, <2>3 DEF Construct
<1>6. /\ ~Run /\ ~NewSession /\ \A err \in {"fail", "limit"} : ~RunRefused(err)
  BY <1>1 DEF Run, NewSession, RunRefused
<1> QED
  BY <1>2, <1>3, <1>4, <1>5, <1>6 DEF Next, Interpret

\* What PrefixRestored and StatusTold say of one step.
Restores ==
  \A k \in Var : Returned /\ top.kind = "stmt" /\ Len(stack') < Len(stack) /\ k \in DOMAIN top.before
                   => s'.vars[k] = top.orig[k]
TellsStatus ==
  Returned /\ ret.ran /\ ret' = None /\ stack' # <<>> /\ Len(shells') = Len(shells)
    => s'.status = ret.code
TellsSubst == Running /\ ret' # None /\ top.pc = "assign" /\ top.mode = "plain" => ret'.code = top.sub

LEMMA FinishRestores ==
  ASSUME InterpInv, NEW negated \in BOOLEAN, NEW bad \in BOOLEAN, Finish(negated, bad),
         NEW k \in Var, k \in DOMAIN top.before, top.kind = "stmt"
  PROVE  s'.vars[k] = top.orig[k]
<1>1. Returned
  BY DEF Finish
<1>2. StackInv /\ TypeOK /\ CallsInv /\ stack # <<>> /\ s \in Shell /\ ret.code \in Status
  BY <1>1, AtReturned
<1>3. top \in Statements /\ StmtOK(top, s)
  BY <1>2, TopStatement
<1>4. PICK code \in Status : code = IF negated /\ ret.err = "none" THEN 1 - ret.code ELSE ret.code
  BY <1>2 DEF Status
<1>5. PICK vs : vs = [j \in Var |-> IF j \in DOMAIN top.before THEN top.before[j] ELSE s.vars[j]]
  OBVIOUS
<1>6. vs \in [Var -> Variable]
  BY <1>2, <1>3, <1>5, StatementFields DEF Shell
<1>7. PICK t \in Shell : t = [s EXCEPT !.vars = vs, !.status = code]
  BY <1>2, <1>6 DEF Shell
<1>8. t.vars = vs
  BY <1>2, <1>7 DEF Shell
<1>9. Change(t)
  BY <1>4, <1>5, <1>7 DEF Finish
<1>10. s' = t
  BY <1>2, <1>9, ChangeInner DEF Inner, s
<1>11. vs[k] = top.before[k]
  BY <1>5
<1> QED
  BY <1>3, <1>8, <1>10, <1>11 DEF StmtOK

LEMMA StepRestores == InterpInv /\ [Next]_vars => Restores
<1> SUFFICES ASSUME InterpInv, [Next]_vars, NEW k \in Var, Returned, top.kind = "stmt",
                    Len(stack') < Len(stack), k \in DOMAIN top.before
             PROVE  s'.vars[k] = top.orig[k]
  BY DEF Restores
<1>1. StackInv /\ TypeOK /\ stack # <<>>
  BY AtReturned
<1>2. StmtOK(top, s) /\ Len(stack) \in Nat
  BY <1>1, TopStatement, StackTop
<1>3. top.pc \notin {"args", "redir"}
  BY <1>2 DEF StmtOK
<1>4. ~UNCHANGED stack
  BY <1>2
<1>5. Next /\ ~Cancel
  BY <1>4 DEF vars, Cancel
<1>6. ~ArgsFail /\ \A bad \in BOOLEAN : ~RedirectFail(bad)
  BY <1>3 DEF ArgsFail, RedirectFail
<1>7. /\ \A overflow \in BOOLEAN : ~SubstDone(overflow)
      /\ ~FuncDone /\ ~ChildDone /\ ~BinaryDone /\ (\A branch \in {"else", "elif", "none"} : ~IfDone(branch))
      /\ ~WhileCond /\ ~BodyDone /\ (\A more \in BOOLEAN : ~ListNext(more)) /\ ~RunDone
  BY DEF SubstDone, FuncDone, ChildDone, BinaryDone, IfDone, WhileCond, BodyDone, ListNext, RunDone
<1>8. \E negated, bad \in BOOLEAN : Finish(negated, bad)
  BY <1>5, <1>6, <1>7, ReturnedStep
<1> QED
  BY <1>8, FinishRestores

\* Prefix assignments are undone however the command ends.
THEOREM PrefixIsRestored == Spec => PrefixRestored
<1>1. InterpInv /\ [Next]_vars => [Restores]_vars
  BY StepRestores
<1>2. [][Restores]_vars => PrefixRestored
  BY PTL DEF Restores, PrefixRestored
<1> QED
  BY <1>1, <1>2, InterpInvariant, PTL DEF Spec

\* A statement's results are recorded before another statement begins.
LEMMA StepTellsStatus == InterpInv /\ [Next]_vars => TellsStatus
<1> SUFFICES ASSUME InterpInv, [Next]_vars, Returned, ret.ran, ret' = None, stack' # <<>>,
                    Len(shells') = Len(shells)
             PROVE  s'.status = ret.code
  BY DEF TellsStatus
<1>1. /\ ret.err \in Err /\ ret.code \in Status /\ StackInv /\ TypeOK /\ CallsInv /\ stack # <<>>
      /\ top \in Frames /\ s \in Shell /\ ret # None
  BY AtReturned DEF Returned
<1>2. Next /\ ~Cancel
  BY <1>1 DEF vars, Cancel
<1>3. /\ top.kind \in {"if", "for", "while"} /\ ret.err \notin Failure => s.status = ret.code
      /\ top.kind = "binary" /\ ret.err = "none" => s.status = ret.code
  BY DEF InterpInv, ResultInv, FlowInv
<1>4. UNCHANGED shells => s' = s
  BY DEF s
<1>5. ASSUME NEW code \in Status, NEW err \in Err, Return(code, err)
      PROVE  FALSE
  <2>1. Results(code, err) # None
    BY ResultsFields
  <2> QED
    BY <1>5, <2>1 DEF Return
<1>6. \A overflow \in BOOLEAN : ~SubstDone(overflow)
  <2> SUFFICES ASSUME NEW overflow \in BOOLEAN, SubstDone(overflow) PROVE FALSE
    OBVIOUS
  <2>1. top.kind \in Clones
    BY Kinds DEF SubstDone
  <2>2. PICK n \in Nat : n = Len(shells) /\ n > 1
    BY <1>1, <2>1, Caller
  <2>3. outer \in Seq(Shell) /\ Len(outer) = n - 1
    BY <1>1, <2>1, <2>2, CallerBelow
  <2>4. Len(shells') = n - 1
    BY <2>2, <2>3 DEF SubstDone
  <2> QED
    BY <2>2, <2>4
<1>7. ~ArgsFail /\ ~FuncDone /\ ~ChildDone
  <2>1. ~ArgsFail
    BY <1>1 DEF ArgsFail, Pass
  <2>2. ~FuncDone
    <3>1. PICK e \in Err : e = IF ret.err = "return" THEN "none" ELSE ret.err
      BY <1>1, Statuses
    <3> QED
      BY <1>1, <1>5, <3>1 DEF FuncDone
  <2>3. ~ChildDone
    <3>1. PICK e \in Err : e = IF ret.err = "exit" THEN "none" ELSE ret.err
      BY <1>1, Statuses
    <3> QED
      BY <1>1, <1>5, <3>1 DEF ChildDone
  <2> QED
    BY <2>1, <2>2, <2>3
<1>8. ASSUME NEW out, NEW pending, NEW bad, CloseAll(out, pending, bad), out # None
      PROVE  FALSE
  BY <1>5, <1>8, Statuses DEF CloseAll
<1>9. \A bad \in BOOLEAN : ~RedirectFail(bad)
  <2>1. PICK out : out = [Results(1, "none") EXCEPT !.ran = FALSE]
    OBVIOUS
  <2>2. out.err = "none"
    BY <2>1 DEF Results
  <2>3. out # None
    BY <2>2, NoneFields
  <2> QED
    BY <1>1, <1>8, <2>1, <2>3 DEF RedirectFail
<1>10. \A negated, bad \in BOOLEAN : ~Finish(negated, bad)
  <2> SUFFICES ASSUME NEW negated \in BOOLEAN, NEW bad \in BOOLEAN, Finish(negated, bad) PROVE FALSE
    OBVIOUS
  <2>1. PICK code \in Status : code = IF negated /\ ret.err = "none" THEN 1 - ret.code ELSE ret.code
    BY <1>1 DEF Status
  <2>2. CloseAll(Results(code, ret.err), raised, bad)
    BY <2>1 DEF Finish
  <2>3. Results(code, ret.err) # None
    BY <1>1, ResultsFields
  <2> QED
    BY <1>8, <2>2, <2>3
<1>11. ~RunDone
  <2> SUFFICES ASSUME RunDone PROVE FALSE
    OBVIOUS
  <2>1. Len(stack) = 1
    BY <1>1, BottomFrame DEF RunDone
  <2>2. stack' \in Seq(Frames) /\ Len(stack') = 0
    BY <1>1, <2>1, BelowSeq DEF RunDone, Pop
  <2> QED
    BY <2>2, EmptySeq
<1>12. CASE BinaryDone
  <2>1. UNCHANGED shells /\ top.kind = "binary"
    BY <1>12 DEF BinaryDone
  <2>2. ret.err = "none"
    BY <1>1, <1>12 DEF BinaryDone, Pass
  <2> QED
    BY <1>3, <1>4, <2>1, <2>2
<1>13. CASE \E branch \in {"else", "elif", "none"} : IfDone(branch)
  <2>1. UNCHANGED shells /\ top.kind = "if"
    BY <1>13 DEF IfDone
  <2>2. ret.err = "none"
    BY <1>1, <1>13 DEF IfDone, Pass
  <2> QED
    BY <1>3, <1>4, <2>1, <2>2, Statuses
<1>14. CASE WhileCond
  <2>1. UNCHANGED shells /\ top.kind = "while"
    BY <1>14 DEF WhileCond
  <2>2. ret.err = "none"
    BY <1>1, <1>14 DEF WhileCond, Pass
  <2> QED
    BY <1>3, <1>4, <2>1, <2>2, Statuses
<1>15. CASE BodyDone
  <2>1. UNCHANGED shells /\ top.kind \in {"for", "while"}
    BY <1>15 DEF BodyDone
  <2>2. ret.err \in {"none", "continue", "break"}
    BY <1>1, <1>15 DEF BodyDone, Pass
  <2>3. ret.err \notin Failure
    BY <2>2 DEF Failure
  <2> QED
    BY <1>3, <1>4, <2>1, <2>3
<1>16. CASE \E more \in BOOLEAN : ListNext(more)
  <2>1. PICK t \in Shell : t = [s EXCEPT !.status = ret.code]
    BY <1>1 DEF Shell
  <2>2. t.status = ret.code
    BY <1>1, <2>1 DEF Shell
  <2>3. Change(t)
    BY <1>16, <2>1 DEF ListNext
  <2>4. s' = t
    BY <1>1, <2>3, ChangeInner DEF Inner, s
  <2> QED
    BY <2>2, <2>4
<1> QED
  BY <1>2, <1>6, <1>7, <1>9, <1>10, <1>11, <1>12, <1>13, <1>14, <1>15, <1>16, ReturnedStep

\* The steps of a statement that assigns.
LEMMA AssigningStep ==
  ASSUME Running, top.pc = "assign", top.kind = "stmt", Next
  PROVE  \/ \E k \in Var : AssignStart(k) \/ ExportName(k)
         \/ ExportDynamic \/ AssignDone \/ Cancel
<1>1. ~Returned /\ ~Idle
  BY DEF Returned, Running
<1>2. ~Expand
  <2>1. ~Expanding
    BY DEF Expanding
  <2>2. /\ \A err \in Failure : ~ExpandFail(err)
        /\ \A k \in Var, v \in Value : ~ExpandSet(k, v)
        /\ ~Glob /\ ~Subst
    BY <2>1 DEF ExpandFail, ExpandSet, Glob, Subst
  <2>3. \A overflow \in BOOLEAN : ~SubstDone(overflow)
    BY <1>1 DEF SubstDone
  <2> QED
    BY <2>2, <2>3 DEF Expand
<1>3. CASE Stmt
  <2>1. /\ \A simple \in BOOLEAN : ~StmtStart(simple) /\ ~ArgsDone(simple) /\ ~OpenFile(simple)
        /\ ~RedirectDone
    BY DEF StmtStart, ArgsDone, OpenFile, RedirectDone
  <2>2. ~ArgsFail /\ (\A bad \in BOOLEAN : ~RedirectFail(bad))
        /\ \A negated, bad \in BOOLEAN : ~Finish(negated, bad)
    BY <1>1 DEF ArgsFail, RedirectFail, Finish
  <2>3. \A v \in Value : ~AssignEnd(v)
    BY DEF AssignEnd
  <2> QED
    BY <1>3, <2>1, <2>2, <2>3 DEF Stmt
<1>4. ~Invoke
  <2>1. /\ \A code \in Status, err \in {"none"} \cup Failure : ~Command(code, err)
        /\ ~XargsBatch /\ (\A d \in Dir : ~cd(d)) /\ (\A k \in Var : ~unset(k))
    BY DEF Command, XargsBatch, cd, unset
  <2>2. /\ \A kind \in {"exit", "return"}, code \in Status : ~ExitReturn(kind, code)
        /\ \A kind \in {"break", "continue"} : ~BreakContinue(kind)
        /\ \A args \in 0..MaxItems : ~CallFunc(args) /\ ~Bash(args)
    BY DEF ExitReturn, BreakContinue, CallFunc, Bash, Deeper
  <2>3. ~FuncDone /\ ~ChildDone
    BY <1>1 DEF FuncDone, ChildDone
  <2> QED
    BY <2>1, <2>2, <2>3 DEF Invoke
<1>5. ~Construct
  <2>1. /\ ~Nil /\ ~Decl /\ ~Words /\ ~Block /\ ~Subshell /\ ~If
        /\ \A f \in Func : ~FuncDecl(f)
        /\ \A code \in Status : ~Arithm(code)
    BY DEF Nil, Decl, Words, Block, Subshell, If, FuncDecl, Arithm, Compound, AtCommand
  <2>2. /\ \A code \in Status, err \in Err \ {"exit", "ctx"} : ~Pipe(code, err)
        /\ (\A op \in {"and", "or"} : ~Binary(op)) /\ (\A until \in BOOLEAN : ~While(until))
        /\ \A n \in 0..MaxItems : ~For(n)
    BY DEF Pipe, Binary, While, For, Compound, AtCommand
  <2>3. /\ \A k \in Var, v \in Value : ~ForNext(k, v)
        /\ ~ForFull /\ ~ForEnd /\ ~WhileNext /\ ~ListEmpty
    BY DEF ForNext, ForFull, ForEnd, WhileNext, ListEmpty
  <2>4. /\ ~BinaryDone /\ (\A branch \in {"else", "elif", "none"} : ~IfDone(branch))
        /\ ~WhileCond /\ ~BodyDone /\ (\A more \in BOOLEAN : ~ListNext(more))
    BY <1>1 DEF BinaryDone, IfDone, WhileCond, BodyDone, ListNext
  <2> QED
    BY <2>1, <2>2, <2>3, <2>4 DEF Construct
<1>6. /\ ~Run /\ ~NewSession /\ ~RunDone /\ \A err \in {"fail", "limit"} : ~RunRefused(err)
  BY <1>1 DEF Run, NewSession, RunDone, RunRefused
<1> QED
  BY <1>2, <1>3, <1>4, <1>5, <1>6 DEF Next, Interpret

LEMMA StepTellsSubst == InterpInv /\ [Next]_vars => TellsSubst
<1> SUFFICES ASSUME InterpInv, [Next]_vars, Running, ret' # None, top.pc = "assign", top.mode = "plain"
             PROVE  ret'.code = top.sub
  BY DEF TellsSubst
<1>1. top.kind = "stmt" /\ StmtOK(top, s) /\ s \in Shell
  BY AtStmt
<1>2. ret = None
  BY AtRunning
<1>3. Next /\ ~Cancel
  BY <1>2 DEF vars, Cancel
<1>4. ~ExportDynamic /\ \A k \in Var : ~AssignStart(k) /\ ~ExportName(k)
  BY DEF ExportDynamic, AssignStart, ExportName, Continue
<1>5. AssignDone
  BY <1>1, <1>3, <1>4, AssigningStep
<1>6. Return(s.subStatus, "none")
  BY <1>5 DEF AssignDone
<1>7. s.subStatus \in Status
  BY <1>1 DEF Shell
<1>8. ret'.code = s.subStatus
  BY <1>6, <1>7, Statuses, ResultsFields DEF Return
<1>9. top.sub = s.subStatus
  BY <1>1 DEF StmtOK
<1> QED
  BY <1>8, <1>9

\* $? is the status of the statement before, and that of an assignment is the
\* status of its last substitution.
THEOREM StatusIsTold == Spec => StatusTold
<1>1. InterpInv /\ [Next]_vars => [TellsStatus /\ TellsSubst]_vars
  BY StepTellsStatus, StepTellsSubst
<1>2. [][TellsStatus /\ TellsSubst]_vars => StatusTold
  BY PTL DEF TellsStatus, TellsSubst, StatusTold
<1> QED
  BY <1>1, <1>2, InterpInvariant, PTL DEF Spec

=============================================================================
