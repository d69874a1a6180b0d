------------------------------- MODULE Interp -------------------------------
(***************************************************************************)
(* internal/shell/shell.go: the control flow of the interpreter.  stack    *)
(* holds the Go calls in progress, the innermost last, and shells the      *)
(* Shell structs they work on: the session's, then one for each subshell,  *)
(* command substitution and nested shell.  A call that has ended leaves    *)
(* its results in ret for the call below it.                               *)
(*                                                                         *)
(* The script is not a parameter: wherever the syntax tree decides what    *)
(* comes next, every possibility is a step, so that the behaviours are     *)
(* those of all scripts of the supported language.  Status 1 stands for    *)
(* every nonzero status.                                                   *)
(***************************************************************************)
EXTENDS Integers, Sequences, FiniteSets

CONSTANTS
  Var,       \* names of variables, "PWD" among them
  Value,     \* what they can hold, the directories among them
  Dir,       \* directories
  Home,      \* the session's first working directory
  Func,      \* names of functions
  MaxSteps,  \* run.maxSteps
  MaxDepth,  \* calls within calls (64 in the code)
  MaxFuncs,  \* functions of a shell (1000 in the code)
  MaxNest,   \* syntactic nesting (the code bounds the depth of the tree, 128)
  MaxParts,  \* bound of the model: expansions and assignments of a statement
  MaxFiles,  \* bound of the model: files opened by a statement
  MaxItems,  \* bound of the model: arguments, and words of a for loop
  MaxRuns    \* bound of the model: scripts of a session after those that only
             \* define functions

ASSUME InterpAssumption ==
  /\ "PWD" \in Var /\ Home \in Dir /\ Dir \subseteq Value
  /\ MaxSteps \in Nat /\ MaxDepth \in Nat /\ MaxFuncs \in Nat /\ MaxNest \in Nat
  /\ MaxParts \in Nat /\ MaxFiles \in Nat /\ MaxItems \in Nat /\ MaxRuns \in Nat

VARIABLES
  stack,     \* the calls in progress
  shells,    \* the shells they work on
  ret,       \* the results of the call that has just ended
  steps,     \* run.steps
  canceled,  \* run.ctx has ended
  open,      \* files that redirections hold open
  runs,      \* the number of scripts run
  exited,    \* Shell.Exited of the session
  result,    \* the results of the last Run
  raised,    \* ghost: the failure that is being passed up
  quit       \* ghost: the status an exit in the session's own shell asked for

vars == <<stack, shells, ret, steps, canceled, open, runs, exited, result, raised, quit>>

Status == {0, 1}

\* type flow, and the other errors: a failure of a command, ErrLimit, ctx.Err().
Flow == {"exit", "return", "break", "continue"}
Failure == {"fail", "limit", "ctx"}
Err == {"none"} \cup Flow \cup Failure

\* ran is a ghost: FALSE when redirections kept the statement from running.
Results(code, err) == [code |-> code, err |-> err, ran |-> TRUE]
None == Results(0, "pending")

\* expand.Variable.  A missing key of the map reads as the zero value, and no
\* reader tells the two apart.
Zero == [set |-> FALSE, exported |-> FALSE, val |-> Home]
variable(v, exported) == [set |-> TRUE, exported |-> exported, val |-> v]

\* variables.Set keeps the export mark of the old value.
Set(t, k, v) == [t EXCEPT ![k] = [v EXCEPT !.exported = v.exported \/ t[k].exported]]

\* The exported map that a nested shell starts from.
exported(t) == [k \in Var |-> IF t[k].exported /\ t[k].set THEN t[k] ELSE Zero]

New(cwd, env, depth, args) ==
  [vars |-> [env EXCEPT !["PWD"] = variable(cwd, TRUE)], funcs |-> {}, cwd |-> cwd,
   status |-> 0, subStatus |-> 0, args |-> args, depth |-> depth]

-----------------------------------------------------------------------------
(* Calls *)

Idle == stack = <<>>
Running == ~Idle /\ ret = None
Returned == ~Idle /\ ret # None

top == stack[Len(stack)]
below == SubSeq(stack, 1, Len(stack) - 1)
s == shells[Len(shells)]
outer == SubSeq(shells, 1, Len(shells) - 1)

Push(f) == stack' = Append(stack, f)
Pop == stack' = below
Update(f) == stack' = Append(below, f)
Change(t) == shells' = Append(outer, t)
Return(code, err) == ret' = Results(code, err)
Pass == ret' = ret
Continue == ret' = None
Raise(err) == raised' = IF err \in Failure THEN err ELSE raised
Same == UNCHANGED <<steps, canceled, open, runs, exited, result, raised, quit>>

\* A list may be empty only as a whole script or substitution.
list(mayBeEmpty) == [kind |-> "list", pc |-> "stmt", empty |-> mayBeEmpty]

\* parts counts expansions and assignments, files the closers.  mode says what
\* the assignments are for, name the variable being assigned and before what
\* prefix assignments must put back.  orig and sub are ghosts: the variables
\* when they began, and the status of the last substitution.
statement(simple) ==
  [kind |-> "stmt", pc |-> IF simple THEN "args" ELSE "redir", parts |-> 0, files |-> 0,
   mode |-> IF simple THEN "plain" ELSE "other", name |-> "PWD", before |-> <<>>,
   orig |-> <<>>, sub |-> 0]

\* Statements around the innermost call, up to the function or script whose
\* text they belong to.
Nest == Cardinality({i \in DOMAIN stack :
          /\ stack[i].kind = "stmt"
          /\ \A j \in i..Len(stack) : stack[j].kind \notin {"func", "bash"}})

-----------------------------------------------------------------------------
(* run.step *)

StepErr == IF canceled THEN "ctx" ELSE IF steps + 1 > MaxSteps THEN "limit" ELSE "none"

\* Seeded fault: the counter is compared and not advanced.
Counted_Not == steps

\* Add goes past the maximum; a step that is refused is not counted here, which
\* nothing can tell as every later one is refused too.
Counted == IF StepErr = "none" THEN steps + 1 ELSE steps

\* A call to step, which goes on with ok or makes the caller return (1, err).
Step(ok, failed) ==
  /\ steps' = Counted
  /\ Raise(StepErr)
  /\ IF StepErr = "none" THEN ok ELSE failed /\ Return(1, StepErr)
  /\ UNCHANGED <<canceled, open, runs, exited, result, quit>>

-----------------------------------------------------------------------------
(* Expansion: fields, Literal, Document and Arithm, all of them for a        *)
(* statement.  An error stays in ret for the statement to look at.           *)

Expanding == Running /\ top.pc \in {"args", "redir", "value", "words"}
More == top.parts < MaxParts
counted == [top EXCEPT !.parts = @ + 1]

\* What cannot be expanded, opened or stored: ${x?}, an ambiguous redirection, a
\* file that does not open, a value that is too long.
ExpandFail(err) ==
  /\ Expanding
  /\ err = "ctx" => canceled
  /\ Return(1, err) /\ Raise(err)
  /\ UNCHANGED <<stack, shells, steps, canceled, open, runs, exited, result, quit>>

\* ${k:=v} and arithmetic assignments.
ExpandSet(k, v) ==
  /\ Expanding /\ More
  /\ LET t == Set(s.vars, k, variable(v, FALSE)) IN
     /\ Change([s EXCEPT !.vars = t])
     /\ Update([counted EXCEPT !.orig = IF k \in DOMAIN top.orig \ DOMAIN top.before
                                        THEN [top.orig EXCEPT ![k] = t[k]] ELSE top.orig])
  /\ Continue /\ Same

\* Globbing takes a step for every directory it reads.
Glob ==
  /\ Expanding /\ More
  /\ Step(Update(counted) /\ Continue, UNCHANGED stack)
  /\ UNCHANGED shells

Subst ==
  /\ Expanding /\ More /\ Nest < MaxNest
  /\ IF s.depth >= MaxDepth
     THEN Return(1, "limit") /\ Raise("limit") /\ UNCHANGED <<stack, shells>>
     ELSE /\ stack' = below \o <<counted, [kind |-> "subst", pc |-> "wait"], list(TRUE)>>
          /\ shells' = Append(shells, [s EXCEPT !.depth = @ + 1])
          /\ Continue /\ UNCHANGED raised
  /\ UNCHANGED <<steps, canceled, open, runs, exited, result, quit>>

\* The end of CmdSubst.  overflow: the bounded writer refused output.
SubstDone(overflow) ==
  /\ Returned /\ top.kind = "subst"
  /\ LET err == IF overflow THEN "limit" ELSE IF ret.err = "exit" THEN "none" ELSE ret.err
         n == Len(stack) - 1
         m == Len(shells) - 1
     IN /\ stack' = [below EXCEPT ![n].sub = ret.code]
        /\ shells' = [outer EXCEPT ![m].subStatus = ret.code]
        /\ ret' = IF err = "none" THEN None ELSE Results(1, err)
        /\ Raise(err)
  /\ UNCHANGED <<steps, canceled, open, runs, exited, result, quit>>

-----------------------------------------------------------------------------
(* stmtWithPipe *)

\* A list, an && or ||, or a function calls stmt.  The statement is a simple
\* command or another one.
StmtStart(simple) ==
  /\ Running /\ top.pc = "stmt"
  /\ Step(/\ Push(statement(simple)) /\ Continue
          /\ Change([s EXCEPT !.subStatus = 0]),
          UNCHANGED <<stack, shells>>)

\* The arguments are expanded.  fields looks at the context for every word.
ArgsDone(words) ==
  /\ Running /\ top.pc = "args"
  /\ words => ~canceled
  /\ Update([top EXCEPT !.pc = "redir", !.mode = IF words THEN "prefix" ELSE "plain"])
  /\ UNCHANGED shells /\ Continue /\ Same

ArgsFail ==
  /\ Returned /\ top.pc = "args"
  /\ Pop /\ UNCHANGED shells /\ Pass /\ Same

\* redirect opens a file, after fields has expanded its name; one that is no
\* io.Writer is refused afterwards.
OpenFile(writer) ==
  /\ Running /\ top.pc = "redir" /\ top.files < MaxFiles /\ ~canceled
  /\ Update([top EXCEPT !.files = @ + 1])
  /\ open' = open + 1
  /\ IF writer THEN Continue /\ UNCHANGED raised ELSE Return(1, "fail") /\ Raise("fail")
  /\ UNCHANGED <<shells, steps, canceled, runs, exited, result, quit>>

RedirectDone ==
  /\ Running /\ top.pc = "redir"
  /\ Update([top EXCEPT !.pc = IF top.mode = "other" THEN "command" ELSE "assign"])
  /\ UNCHANGED shells /\ Continue /\ Same

\* The deferred function: every file is closed, and a failure to close one
\* (bad) replaces success and flow, not another failure.  pending is for the
\* ghost: the failure that is still on its way up.
CloseAll(out, pending, bad) ==
  /\ bad => top.files > 0
  /\ Pop
  /\ open' = open - top.files
  /\ IF bad /\ out.err \notin Failure THEN Return(1, "fail") /\ raised' = "fail"
     ELSE ret' = out /\ raised' = pending

\* Seeded fault: the deferred close is set up after the check of the error.
RedirectFail_Leak(bad) ==
  /\ Returned /\ top.pc = "redir"
  /\ Pop
  /\ IF ret.err = "limit" \/ canceled THEN Pass /\ UNCHANGED raised
     ELSE Return(1, "none") /\ raised' = IF raised = "fail" THEN "none" ELSE raised
  /\ UNCHANGED <<shells, steps, canceled, open, runs, exited, result, quit>>

\* A failed redirection is printed and is the status of the statement, unless
\* it is a limit or the context has ended.  The error of a command substituted in
\* its word is not told apart from one of the redirection (module InterpErrors).
RedirectFail(bad) ==
  /\ Returned /\ top.pc = "redir"
  /\ IF ret.err = "limit" \/ canceled THEN CloseAll(ret, raised, bad)
     ELSE CloseAll([Results(1, "none") EXCEPT !.ran = FALSE],
                   IF raised = "fail" THEN "none" ELSE raised, bad)
  /\ UNCHANGED <<shells, steps, canceled, runs, exited, result, quit>>

\* Seeded fault: only list records the status.
Finish_NoStatus(negated, bad) ==
  /\ Returned /\ top.pc \in {"assign", "value", "words", "run"}
  /\ CloseAll(Results(IF negated /\ ret.err = "none" THEN 1 - ret.code ELSE ret.code, ret.err),
              raised, bad)
  /\ Change([s EXCEPT
       !.vars = [k \in Var |-> IF k \in DOMAIN top.before THEN top.before[k] ELSE @[k]]])
  /\ UNCHANGED <<steps, canceled, runs, exited, result, quit>>

\* The command has returned: prefix assignments are undone, the status is
\* negated and recorded, the redirections are closed.
Finish(negated, bad) ==
  /\ Returned /\ top.pc \in {"assign", "value", "words", "run"}
  /\ LET code == IF negated /\ ret.err = "none" THEN 1 - ret.code ELSE ret.code IN
     /\ CloseAll(Results(code, ret.err), raised, bad)
     /\ Change([s EXCEPT
          !.vars = [k \in Var |-> IF k \in DOMAIN top.before THEN top.before[k] ELSE @[k]],
          !.status = code])
  /\ UNCHANGED <<steps, canceled, runs, exited, result, quit>>

-----------------------------------------------------------------------------
(* assign and call *)

\* Seeded fault: every assignment saves the value it replaces.
AssignStart_SaveAgain(k) ==
  /\ Running /\ top.pc = "assign" /\ More
  /\ Update(IF top.mode # "prefix" THEN [counted EXCEPT !.pc = "value", !.name = k]
            ELSE [counted EXCEPT !.pc = "value", !.name = k,
                    !.before = [j \in DOMAIN @ \cup {k} |-> IF j = k THEN s.vars[k] ELSE @[j]],
                    !.orig = IF DOMAIN @ = {} THEN s.vars ELSE @])
  /\ UNCHANGED shells /\ Continue /\ Same

AssignStart(k) ==
  /\ Running /\ top.pc = "assign" /\ More
  /\ Update(IF top.mode # "prefix" THEN [counted EXCEPT !.pc = "value", !.name = k]
            ELSE [counted EXCEPT !.pc = "value", !.name = k,
                    !.before = IF k \in DOMAIN @ THEN @
                               ELSE [j \in DOMAIN @ \cup {k} |-> IF j = k THEN s.vars[k] ELSE @[j]],
                    !.orig = IF DOMAIN @ = {} THEN s.vars ELSE @])
  /\ UNCHANGED shells /\ Continue /\ Same

\* Plain assignments keep the export mark as it is, the others set it.
AssignEnd(v) ==
  /\ Running /\ top.pc = "value"
  /\ Update([top EXCEPT !.pc = "assign"])
  /\ Change([s EXCEPT !.vars = Set(@, top.name, variable(v, top.mode # "plain"))])
  /\ Continue /\ Same

\* export k, without a value.
ExportName(k) ==
  /\ Running /\ top.pc = "assign" /\ top.mode = "export" /\ More
  /\ Update(counted)
  /\ Change([s EXCEPT !.vars[k].exported = TRUE])
  /\ Continue /\ Same

ExportDynamic ==
  /\ Running /\ top.pc = "assign" /\ top.mode = "export"
  /\ Return(1, "fail") /\ Raise("fail")
  /\ UNCHANGED <<stack, shells, steps, canceled, open, runs, exited, result, quit>>

\* Without a command the status is the one of the last substitution.
AssignDone ==
  /\ Running /\ top.pc = "assign"
  /\ CASE top.mode = "plain" -> UNCHANGED stack /\ Return(s.subStatus, "none")
       [] top.mode = "export" -> UNCHANGED stack /\ Return(0, "none")
       [] OTHER -> Update([top EXCEPT !.pc = "call"]) /\ Continue
  /\ UNCHANGED shells /\ Same

-----------------------------------------------------------------------------
(* invoke *)

called == [top EXCEPT !.pc = "run"]

\* A builtin or external command that changes no shell ends.
Command(code, err) ==
  /\ Running /\ top.pc \in {"call", "xargs"}
  /\ err = "ctx" => canceled
  /\ err \in {"limit", "ctx"} => code = 1
  /\ Update(called) /\ Return(code, err) /\ Raise(err)
  /\ UNCHANGED <<shells, steps, canceled, open, runs, exited, result, quit>>

\* xargs takes a step for every command line.
XargsBatch ==
  /\ Running /\ top.pc \in {"call", "xargs"}
  /\ Step(Update([top EXCEPT !.pc = "xargs"]) /\ Continue, Update(called))
  /\ UNCHANGED shells

cd(d) ==
  /\ Running /\ top.pc = "call"
  /\ Update(called) /\ Return(0, "none")
  /\ Change([s EXCEPT !.cwd = d, !.vars = [k \in Var |->
       IF k = "OLDPWD" THEN variable(s.cwd, TRUE) ELSE IF k = "PWD" THEN variable(d, TRUE) ELSE @[k]]])
  /\ Same

unset(k) ==
  /\ Running /\ top.pc = "call"
  /\ Update(called) /\ Return(0, "none")
  /\ Change([s EXCEPT !.vars[k] = Zero])
  /\ Same

\* exit and return, with the status given or the last one.
ExitReturn(kind, code) ==
  /\ Running /\ top.pc = "call"
  /\ Update(called) /\ Return(code, kind)
  /\ quit' = IF kind = "exit" /\ Len(shells) = 1 THEN {code} ELSE quit
  /\ UNCHANGED <<shells, steps, canceled, open, runs, exited, result, raised>>

BreakContinue(kind) ==
  /\ Running /\ top.pc = "call"
  /\ Update(called) /\ Return(0, kind)
  /\ UNCHANGED shells /\ Same

\* What the depth limit refuses returns (1, ErrLimit).
Deeper(ok) ==
  /\ Running /\ top.pc = "call"
  /\ IF s.depth >= MaxDepth
     THEN Update(called) /\ Return(1, "limit") /\ Raise("limit") /\ UNCHANGED shells
     ELSE ok /\ Continue /\ UNCHANGED raised
  /\ UNCHANGED <<steps, canceled, open, runs, exited, result, quit>>

\* mine is a ghost: the arguments of the function or script.
CallFunc(args) ==
  /\ s.funcs # {}
  /\ Deeper(/\ stack' = below \o <<called, [kind |-> "func", pc |-> "stmt", old |-> s.args, mine |-> args]>>
            /\ Change([s EXCEPT !.args = args, !.depth = @ + 1]))

\* Seeded fault: the arguments are put back only when the function succeeds.
FuncDone_EarlyReturn ==
  /\ Returned /\ top.kind = "func"
  /\ Pop
  /\ Change([s EXCEPT !.args = IF ret.err \in {"none", "return"} THEN top.old ELSE @, !.depth = @ - 1])
  /\ Return(ret.code, IF ret.err = "return" THEN "none" ELSE ret.err)
  /\ Same

FuncDone ==
  /\ Returned /\ top.kind = "func"
  /\ Pop
  /\ Change([s EXCEPT !.args = top.old, !.depth = @ - 1])
  /\ Return(ret.code, IF ret.err = "return" THEN "none" ELSE ret.err)
  /\ Same

\* bash -c and sh -c; what does not parse fails like a command.
Bash(args) ==
  Deeper(/\ stack' = below \o <<called, [kind |-> "bash", pc |-> "wait", mine |-> args], list(TRUE)>>
         /\ shells' = Append(shells, New(s.cwd, exported(s.vars), s.depth + 1, args)))

\* Seeded fault: a subshell swallows every error.
ChildDone_Swallow ==
  /\ Returned /\ top.kind \in {"bash", "subshell"}
  /\ Pop /\ shells' = outer /\ Return(ret.code, "none") /\ Same

\* Seeded fault: exit in a nested shell or subshell ends the session's script.
ChildDone_KeepExit ==
  /\ Returned /\ top.kind \in {"bash", "subshell"}
  /\ Pop /\ shells' = outer /\ Pass /\ Same

\* A nested shell or subshell ends; exit ends it and nothing else.
ChildDone ==
  /\ Returned /\ top.kind \in {"bash", "subshell"}
  /\ Pop
  /\ shells' = outer
  /\ Return(ret.code, IF ret.err = "exit" THEN "none" ELSE ret.err)
  /\ Same

-----------------------------------------------------------------------------
(* command *)

AtCommand == Running /\ top.pc = "command"

Nil ==
  /\ AtCommand
  /\ Update(called) /\ Return(s.subStatus, "none") /\ UNCHANGED shells /\ Same

FuncDecl(f) ==
  /\ AtCommand
  /\ Update(called)
  /\ IF Cardinality(s.funcs) >= MaxFuncs
     THEN Return(1, "limit") /\ Raise("limit") /\ UNCHANGED shells
     ELSE Return(0, "none") /\ Change([s EXCEPT !.funcs = @ \cup {f}]) /\ UNCHANGED raised
  /\ UNCHANGED <<steps, canceled, open, runs, exited, result, quit>>

Decl ==
  /\ AtCommand
  /\ Update([top EXCEPT !.pc = "assign", !.mode = "export"])
  /\ UNCHANGED shells /\ Continue /\ Same

\* An arithmetic command, or a for loop over words, expands them.
Words ==
  /\ AtCommand
  /\ Update([top EXCEPT !.pc = "words"]) /\ UNCHANGED shells /\ Continue /\ Same

Arithm(code) ==
  /\ Running /\ top.pc = "words"
  /\ Update(called) /\ Return(code, "none") /\ UNCHANGED shells /\ Same

\* A pipeline, by what module Pipeline shows of it: its stages work on clones,
\* take a step each, and exit does not leave it.
Pipe(code, err) ==
  /\ AtCommand /\ Nest < MaxNest
  /\ Update(called)
  /\ IF canceled \/ steps + 2 > MaxSteps
     THEN Return(1, IF canceled THEN "ctx" ELSE "limit") /\ UNCHANGED steps
     ELSE Return(code, err) /\ steps' = steps + 2
  /\ Raise(ret'.err)
  /\ UNCHANGED <<shells, canceled, open, runs, exited, result, quit>>

\* A compound command that makes the calls fs.
Compound(fs) ==
  /\ AtCommand /\ Nest < MaxNest
  /\ stack' = below \o <<called>> \o fs
  /\ Continue /\ Same

Block == Compound(<<list(FALSE)>>) /\ UNCHANGED shells

\* Seeded fault: a subshell works on the shell itself.
Subshell_NoClone ==
  /\ Compound(<<[kind |-> "subshell", pc |-> "wait"], list(FALSE)>>)
  /\ UNCHANGED shells

Subshell ==
  /\ Compound(<<[kind |-> "subshell", pc |-> "wait"], list(FALSE)>>)
  /\ shells' = Append(shells, s)

Binary(op) == Compound(<<[kind |-> "binary", pc |-> "stmt", op |-> op, left |-> TRUE]>>) /\ UNCHANGED shells

BinaryDone ==
  /\ Returned /\ top.kind = "binary"
  /\ IF top.left /\ ret.err = "none" /\ (top.op = "and") = (ret.code = 0)
     THEN Update([top EXCEPT !.left = FALSE]) /\ Continue
     ELSE Pop /\ Pass
  /\ UNCHANGED shells /\ Same

If == Compound(<<[kind |-> "if", pc |-> "wait"], list(FALSE)>>) /\ UNCHANGED shells

\* The condition has been evaluated: then, or else, elif or nothing.
IfDone(branch) ==
  /\ Returned /\ top.kind = "if"
  /\ CASE ret.err # "none" -> Pop /\ Pass
       [] ret.err = "none" /\ (ret.code = 0 \/ branch = "else") -> Update(list(FALSE)) /\ Continue
       [] ret.err = "none" /\ ret.code # 0 /\ branch = "elif" -> Push(list(FALSE)) /\ Continue
       [] OTHER -> Pop /\ Return(0, "none")
  /\ UNCHANGED shells /\ Same

\* for x in words, or over the arguments.
For(n) ==
  /\ Running /\ Nest < MaxNest
  /\ \/ top.pc = "words" /\ (n > 0 => ~canceled)
     \/ top.pc = "command" /\ n = s.args
  /\ stack' = below \o <<called, [kind |-> "for", pc |-> "loop", items |-> n, code |-> 0]>>
  /\ UNCHANGED shells /\ Continue /\ Same

ForNext(k, v) ==
  /\ Running /\ top.kind = "for" /\ top.items > 0
  /\ Step(/\ stack' = below \o <<[top EXCEPT !.items = @ - 1], list(FALSE)>> /\ Continue
          /\ Change([s EXCEPT !.vars = Set(@, k, variable(v, FALSE))]),
          Pop /\ UNCHANGED shells)

\* The table of variables is full, or the word too long.
ForFull ==
  /\ Running /\ top.kind = "for" /\ top.items > 0 /\ StepErr = "none"
  /\ Pop /\ Return(1, "limit") /\ Raise("limit") /\ steps' = Counted
  /\ UNCHANGED <<shells, canceled, open, runs, exited, result, quit>>

ForEnd ==
  /\ Running /\ top.kind = "for" /\ top.items = 0
  /\ Pop /\ Return(top.code, "none") /\ UNCHANGED shells /\ Same

While(until) ==
  /\ Compound(<<[kind |-> "while", pc |-> "loop", until |-> until, body |-> FALSE, code |-> 0]>>)
  /\ UNCHANGED shells

WhileNext ==
  /\ Running /\ top.kind = "while"
  /\ Step(stack' = below \o <<[top EXCEPT !.body = FALSE], list(FALSE)>> /\ Continue, Pop)
  /\ UNCHANGED shells

WhileCond ==
  /\ Returned /\ top.kind = "while" /\ ~top.body
  /\ CASE ret.err # "none" -> Pop /\ Pass
       [] ret.err = "none" /\ (ret.code = 0) = top.until -> Pop /\ Return(top.code, "none")
       [] OTHER -> stack' = below \o <<[top EXCEPT !.body = TRUE], list(FALSE)>> /\ Continue
  /\ UNCHANGED shells /\ Same

\* The body of a loop ends: break, continue, an error, or the next iteration.
BodyDone ==
  /\ Returned
  /\ top.kind = "for" \/ (top.kind = "while" /\ top.body)
  /\ CASE ret.err = "break" -> Pop /\ Return(0, "none")
       [] ret.err \in {"none", "continue"} -> Update([top EXCEPT !.code = ret.code]) /\ Continue
       [] OTHER -> Pop /\ Pass
  /\ UNCHANGED shells /\ Same

-----------------------------------------------------------------------------
(* list and Run *)

ListEmpty ==
  /\ Running /\ top.kind = "list" /\ top.empty
  /\ Pop /\ Return(0, "none") /\ UNCHANGED shells /\ Same

\* A statement of the list has returned; more says that another one follows.
ListNext(more) ==
  /\ Returned /\ top.kind = "list"
  /\ Change([s EXCEPT !.status = ret.code])
  /\ IF more /\ ret.err = "none" THEN Update([top EXCEPT !.empty = FALSE]) /\ Continue
     ELSE Pop /\ Return(ret.code, ret.err)
  /\ Same

Run ==
  /\ Idle /\ runs < MaxRuns
  /\ runs' = runs + 1
  /\ stack' = <<[kind |-> "run", pc |-> "wait"], list(TRUE)>>
  /\ exited' = FALSE /\ result' = None /\ raised' = "none" /\ quit' = {}
  /\ UNCHANGED <<shells, ret, steps, canceled, open>>

\* Parse refuses the script.
RunRefused(err) ==
  /\ Idle /\ runs < MaxRuns
  /\ runs' = runs + 1
  /\ exited' = FALSE /\ result' = Results(1, err) /\ raised' = err /\ quit' = {}
  /\ UNCHANGED <<stack, shells, ret, steps, canceled, open>>

RunDone ==
  /\ Returned /\ top.kind = "run"
  /\ Pop /\ Continue
  /\ exited' = (ret.err = "exit")
  /\ result' = Results(ret.code, IF ret.err = "exit" THEN "none" ELSE ret.err)
  /\ steps' = 0 /\ canceled' = FALSE
  /\ UNCHANGED <<shells, open, runs, raised, quit>>

Cancel ==
  /\ ~Idle /\ ~canceled
  /\ canceled' = TRUE
  /\ UNCHANGED <<stack, shells, ret, steps, open, runs, exited, result, raised, quit>>

-----------------------------------------------------------------------------
\* A new session, and then scripts that define the functions fs.
NewShell(fs) == [New(Home, [k \in Var |-> Zero], 0, 0) EXCEPT !.funcs = fs]

Init ==
  /\ stack = <<>>
  /\ \E fs \in SUBSET Func : shells = <<NewShell(fs)>>
  /\ ret = None /\ steps = 0 /\ canceled = FALSE /\ open = 0 /\ runs = 0
  /\ exited = FALSE /\ result = None /\ raised = "none" /\ quit = {}

\* The session is closed and another one opened.
NewSession ==
  /\ Idle /\ runs = MaxRuns
  /\ \E fs \in SUBSET Func : shells' = <<NewShell(fs)>>
  /\ runs' = 0 /\ exited' = FALSE /\ result' = None /\ raised' = "none" /\ quit' = {}
  /\ UNCHANGED <<stack, ret, steps, canceled, open>>

Expand ==
  \/ \E err \in Failure : ExpandFail(err)
  \/ \E k \in Var, v \in Value : ExpandSet(k, v)
  \/ Glob
  \/ Subst
  \/ \E overflow \in BOOLEAN : SubstDone(overflow)

Stmt ==
  \/ \E simple \in BOOLEAN : StmtStart(simple)
  \/ \E words \in BOOLEAN : ArgsDone(words)
  \/ ArgsFail
  \/ \E writer \in BOOLEAN : OpenFile(writer)
  \/ RedirectDone
  \/ \E bad \in BOOLEAN : RedirectFail(bad)
  \/ \E negated, bad \in BOOLEAN : Finish(negated, bad)
  \/ \E k \in Var : AssignStart(k) \/ ExportName(k)
  \/ \E v \in Value : AssignEnd(v)
  \/ ExportDynamic \/ AssignDone

Invoke ==
  \/ \E code \in Status, err \in {"none"} \cup Failure : Command(code, err)
  \/ XargsBatch
  \/ \E d \in Dir : cd(d)
  \/ \E k \in Var : unset(k)
  \/ \E kind \in {"exit", "return"}, code \in Status : ExitReturn(kind, code)
  \/ \E kind \in {"break", "continue"} : BreakContinue(kind)
  \/ \E args \in 0..MaxItems : CallFunc(args) \/ Bash(args)
  \/ FuncDone \/ ChildDone

Construct ==
  \/ Nil \/ Decl \/ Words \/ Block \/ Subshell \/ If
  \/ \E f \in Func : FuncDecl(f)
  \/ \E code \in Status : Arithm(code)
  \/ \E code \in Status, err \in Err \ {"exit", "ctx"} : Pipe(code, err)
  \/ \E op \in {"and", "or"} : Binary(op)
  \/ BinaryDone
  \/ \E branch \in {"else", "elif", "none"} : IfDone(branch)
  \/ \E n \in 0..MaxItems : For(n)
  \/ \E k \in Var, v \in Value : ForNext(k, v)
  \/ ForFull \/ ForEnd
  \/ \E until \in BOOLEAN : While(until)
  \/ WhileNext \/ WhileCond \/ BodyDone
  \/ ListEmpty
  \/ \E more \in BOOLEAN : ListNext(more)

Interpret == Expand \/ Stmt \/ Invoke \/ Construct \/ RunDone

Next == Interpret \/ Run \/ (\E err \in {"fail", "limit"} : RunRefused(err)) \/ NewSession \/ Cancel

Spec == Init /\ [][Next]_vars

\* The goroutine that runs the script is scheduled, and every single command ends.
\* The runtime stops a module when the context ends; that handlers and the
\* operations of mounted filesystems return is assumed (BackendsReturn in Session).
FairSpec == Spec /\ WF_vars(Interpret)

-----------------------------------------------------------------------------
(* Properties *)

\* Calls that count as one, and those that work on a shell of their own.
Calls == {"func", "subst", "bash"}
Clones == {"subshell", "subst", "bash"}

Variable == [set : BOOLEAN, exported : BOOLEAN, val : Value]

Statements ==
  LET saved == UNION {[D -> Variable] : D \in SUBSET Var} IN
  [kind : {"stmt"},
   pc : {"args", "redir", "assign", "value", "words", "command", "call", "xargs", "run"},
   parts : 0..MaxParts, files : 0..MaxFiles, mode : {"plain", "prefix", "export", "other"},
   name : Var, before : saved, orig : saved, sub : Status]

Frames ==
  [kind : {"run", "subst", "subshell", "if"}, pc : {"wait"}]
  \cup [kind : {"list"}, pc : {"stmt"}, empty : BOOLEAN]
  \cup [kind : {"binary"}, pc : {"stmt"}, op : {"and", "or"}, left : BOOLEAN]
  \cup [kind : {"func"}, pc : {"stmt"}, old : 0..MaxItems, mine : 0..MaxItems]
  \cup [kind : {"bash"}, pc : {"wait"}, mine : 0..MaxItems]
  \cup [kind : {"for"}, pc : {"loop"}, items : 0..MaxItems, code : Status]
  \cup [kind : {"while"}, pc : {"loop"}, until : BOOLEAN, body : BOOLEAN, code : Status]
  \cup Statements

Shell == [vars : [Var -> Variable], funcs : SUBSET Func, cwd : Dir, status : Status,
          subStatus : Status, args : 0..MaxItems, depth : 0..MaxDepth]

\* The types of the interpreter's state.  The counter stays within the budget,
\* the depth within its limit, and there is one shell for the session and one
\* for each subshell, substitution and nested shell in progress.
TypeOK ==
  /\ stack \in Seq(Frames) /\ shells \in Seq(Shell)
  /\ Len(shells) = 1 + Cardinality({i \in DOMAIN stack : stack[i].kind \in Clones})
  /\ ret \in [code : Status, err : Err \cup {"pending"}, ran : BOOLEAN]
  /\ steps \in 0..MaxSteps /\ canceled \in BOOLEAN /\ open \in Nat /\ runs \in 0..MaxRuns
  /\ exited \in BOOLEAN /\ raised \in {"none"} \cup Failure /\ quit \subseteq Status

\* invoke and CmdSubst raise the depth and replace the arguments, and deferred
\* functions and clones take it back on every path: the depth is always the
\* number of calls in progress, and $@ is that of the innermost function or
\* nested shell, the session's own being empty.
CallsBalanced ==
  /\ s.depth = Cardinality({i \in DOMAIN stack : stack[i].kind \in Calls})
  /\ LET own == {i \in DOMAIN stack : stack[i].kind \in {"func", "bash"}} IN
     \/ own = {} /\ s.args = 0
     \/ \E i \in own : (\A j \in own : j <= i) /\ s.args = stack[i].mine

\* stmtWithPipe closes what redirect has opened, whether the rest of the
\* redirections, the command or another close fails: the open files are those
\* of the statements in progress, and after a script there is none.
FilesClosed ==
  open = Cardinality({p \in (DOMAIN stack) \X (1..MaxFiles) :
                        stack[p[1]].kind = "stmt" /\ p[2] <= stack[p[1]].files})

\* A prefix assignment lasts as long as its command, however that ends and
\* whatever it does to the variable, and however often the prefix assigns it.
PrefixRestored ==
  [][\A k \in Var :
       Returned /\ top.kind = "stmt" /\ Len(stack') < Len(stack) /\ k \in DOMAIN top.before
         => s'.vars[k] = top.orig[k]]_vars

\* Wherever a statement follows another in the same shell, $? is what the
\* other one returned, unless its redirections failed: then stmtWithPipe leaves
\* the old status to the right side of || .  A statement that only assigns, and
\* one without a command, returns the status of its own last substitution.
StatusTold ==
  [][/\ Returned /\ ret.ran /\ ret'= None /\ stack' # <<>> /\ Len(shells') = Len(shells)
          => s'.status = ret.code
     /\ Running /\ ret' # None /\ top.pc = "assign" /\ top.mode = "plain" => ret'.code = top.sub
     ]_vars

\* A failure ends the script and is what Run returns, and nothing else is reported
\* as one: no construct, close, subshell or nested shell swallows it.  Outside is
\* what fails while a redirection is set up, which is printed; for a file that does
\* not open that is the shell's rule, for a command in the redirection's word it is
\* against command.go, as HandlerErrorAborts in module InterpErrors shows.
FailureSurfaces ==
  Idle /\ runs > 0 => raised = IF result.err \in Failure THEN result.err ELSE "none"

\* Exited is set exactly when the script executed exit in the session's own
\* shell (not in a subshell, substitution, nested shell or pipeline) and no
\* redirection failed to close on the way out; the result is then its status.
ExitTold ==
  Idle /\ runs > 0 => /\ exited = (quit # {} /\ raised = "none")
                      /\ exited => result = Results(CHOOSE c \in quit : TRUE, "none")

\* Every script ends: each statement and iteration takes a step of the budget.
ScriptEnds == ~Idle ~> Idle

=============================================================================
