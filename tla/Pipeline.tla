------------------------------ MODULE Pipeline ------------------------------
(***************************************************************************)
(* internal/shell/shell.go, pipeline: a pipeline of N commands.  The parser *)
(* nests to the left, so a | b | c is a pipeline of (a | b) and c.  Level k *)
(* is the call of pipeline whose right side is stage k + 1, connected to    *)
(* its left side (stage 1, or level k - 1) by pipe k.  The left side runs   *)
(* in a goroutine of its own, the right side in the caller's.               *)
(***************************************************************************)
EXTENDS Integers

CONSTANTS
  N,         \* the number of commands
  MaxSteps,  \* run.maxSteps, shared by all stages of the script
  Chunk,     \* the length of the buffer a command writes at once
  OwnErr     \* what commands return of their own accord

ASSUME PipelineAssumption ==
  /\ N \in Nat /\ N >= 2
  /\ MaxSteps \in Nat
  /\ Chunk \in Nat \ {0}
  /\ OwnErr \subseteq {"none", "exit", "break", "fail"}

Stages == 1..N
Levels == 1..(N - 1)

VARIABLES
  canceled,  \* r.ctx has ended
  steps,     \* run.steps
  stage,     \* the commands
  level,     \* the calls of pipeline
  pipe,      \* the io.Pipe of each level
  after      \* the context.AfterFunc of each level

vars == <<canceled, steps, stage, level, pipe, after>>

\* What a statement can return: no error, a flow (exit, break), an error of
\* its own, ErrLimit, ctx.Err() or the io.ErrClosedPipe of a write.
Failure == {"fail", "ErrLimit", "break"}
Err == {"none", "exit", "ctx", "ErrClosedPipe"} \cup Failure

Pending == [code |-> 0, err |-> "pending"]
Outcome(code, err) == [code |-> code, err |-> err]

\* The exit status of a command says which one it was; 1 is the status of
\* every failure.
Status(k) == k + 1

\* rest is what is left of the buffer being written, io the error of the last
\* read or write.  short is a ghost: some of a buffer was never delivered.
IdleStage == [pc |-> "idle", out |-> Pending, rest |-> 0, io |-> "none", short |-> FALSE]
IdleLevel == [pc |-> "idle", left |-> Pending, right |-> Pending, out |-> Pending,
              torn |-> FALSE]
OpenPipe == [rerr |-> "none", werr |-> "none"]

-----------------------------------------------------------------------------
(* run.step, and the ends of an io.Pipe *)

\* step() counts before it compares.  Grants says that it returns nil.
Grants == ~canceled /\ steps + 1 <= MaxSteps
StepErr == IF canceled THEN "ctx" ELSE "ErrLimit"
Stepped == IF canceled THEN steps ELSE steps + 1

\* The first error given to an end of a pipe stays.
CloseRead(p, err) == IF p.rerr = "none" THEN [p EXCEPT !.rerr = err] ELSE p
CloseWrite(p, err) ==
  IF p.werr # "none" THEN p
  ELSE [p EXCEPT !.werr = IF err = "none" THEN "EOF" ELSE err]

Closed(p) == p.rerr # "none" \/ p.werr # "none"
ReadErr(p) == IF p.rerr = "none" THEN p.werr ELSE "ErrClosedPipe"
WriteErr(p) == IF p.werr = "none" THEN p.rerr ELSE "ErrClosedPipe"

-----------------------------------------------------------------------------
(* Commands *)

\* The level whose call runs the stage.
LevelOf(k) == IF k = 1 THEN 1 ELSE k - 1

StageEnds(k, out) == stage' = [stage EXCEPT ![k] = [@ EXCEPT !.pc = "done", !.out = out]]

\* The statement of a stage begins, or a compound command executes a further
\* statement.
Step(k) ==
  /\ \/ stage[k].pc = "idle" /\ level[LevelOf(k)].pc = "open"
     \/ stage[k].pc = "ready"
  /\ steps' = Stepped
  /\ IF Grants THEN stage' = [stage EXCEPT ![k].pc = "ready"]
     ELSE StageEnds(k, Outcome(1, StepErr))
  /\ UNCHANGED <<canceled, level, pipe, after>>

\* A command may go on after the end of its input, not after a failed read or
\* write.
CanRead(k) == stage[k].pc = "ready" /\ stage[k].io = "none" /\ k > 1
CanWrite(k) == stage[k].pc = "ready" /\ stage[k].io \in {"none", "EOF"} /\ k < N

BeginRead(k) ==
  /\ CanRead(k)
  /\ stage' = [stage EXCEPT ![k].pc = "read"]
  /\ UNCHANGED <<canceled, steps, level, pipe, after>>

BeginWrite(k) ==
  /\ CanWrite(k)
  /\ stage' = [stage EXCEPT ![k] = [@ EXCEPT !.pc = "write", !.rest = Chunk]]
  /\ UNCHANGED <<canceled, steps, level, pipe, after>>

\* A writer and a reader meet; the reader's buffer may be the shorter one, and
\* the writer then stays for the rest.
Transfer(k, n) ==
  /\ ~Closed(pipe[k])
  /\ stage[k].pc = "write" /\ stage[k + 1].pc = "read"
  /\ n <= stage[k].rest
  /\ stage' = [stage EXCEPT
       ![k] = [stage[k] EXCEPT !.rest = stage[k].rest - n,
                               !.pc = IF stage[k].rest = n THEN "ready" ELSE "write"],
       ![k + 1].pc = "ready"]
  /\ UNCHANGED <<canceled, steps, level, pipe, after>>

ReadFails(k) ==
  /\ stage[k].pc = "read" /\ Closed(pipe[k - 1])
  /\ stage' = [stage EXCEPT ![k] = [@ EXCEPT !.pc = "ready", !.io = ReadErr(pipe[k - 1])]]
  /\ UNCHANGED <<canceled, steps, level, pipe, after>>

WriteFails(k) ==
  /\ stage[k].pc = "write" /\ Closed(pipe[k])
  /\ stage' = [stage EXCEPT ![k] = [@ EXCEPT !.pc = "ready", !.io = WriteErr(pipe[k]),
                                             !.rest = 0, !.short = TRUE]]
  /\ UNCHANGED <<canceled, steps, level, pipe, after>>

\* The command returns: with a status, with exit, break or an error of its
\* own, or with the error of its last read or write.  A command that finds
\* the context ended returns its error.
Finish(k, err) ==
  /\ stage[k].pc = "ready"
  /\ err \in OwnErr \/ err = stage[k].io \/ (err = "ctx" /\ canceled)
  /\ StageEnds(k, Outcome(IF err \in {"none", "exit"} THEN Status(k) ELSE 1, err))
  /\ UNCHANGED <<canceled, steps, level, pipe, after>>

-----------------------------------------------------------------------------
(* The calls of pipeline *)

\* Seeded fault: the pipe is not closed when the context ends.
Open_NoAfterFunc(k) ==
  /\ level[k].pc = "idle"
  /\ k < N - 1 => level[k + 1].pc = "open"
  /\ steps' = Stepped
  /\ IF Grants THEN level' = [level EXCEPT ![k].pc = "open"]
     ELSE level' = [level EXCEPT ![k] = [@ EXCEPT !.pc = "done", !.out = Outcome(1, StepErr)]]
  /\ UNCHANGED <<canceled, stage, pipe, after>>

\* The statement of a level begins: the outermost one first, each inner one
\* in the goroutine of its outer level.
Open(k) ==
  /\ level[k].pc = "idle"
  /\ k < N - 1 => level[k + 1].pc = "open"
  /\ steps' = Stepped
  /\ IF Grants
     THEN /\ level' = [level EXCEPT ![k].pc = "open"]
          /\ after' = [after EXCEPT ![k] = "armed"]
     ELSE /\ level' = [level EXCEPT ![k] = [@ EXCEPT !.pc = "done", !.out = Outcome(1, StepErr)]]
          /\ UNCHANGED after
  /\ UNCHANGED <<canceled, stage, pipe>>

pipelineFlow(err) == IF err = "exit" THEN "none" ELSE err

\* What the left side of a level has returned.
LeftSide(k) == IF k = 1 THEN stage[1].out ELSE level[k - 1].out
LeftEnded(k) == IF k = 1 THEN stage[1].pc = "done" ELSE level[k - 1].pc = "done"

\* Seeded fault: the reader is told of a regular end whatever happened.
LeftDone_PlainClose(k) ==
  /\ level[k].pc = "open" /\ level[k].left = Pending
  /\ LeftEnded(k)
  /\ pipe' = [pipe EXCEPT ![k] = CloseWrite(@, "none")]
  /\ level' = [level EXCEPT ![k].left =
                 Outcome(LeftSide(k).code, pipelineFlow(LeftSide(k).err))]
  /\ UNCHANGED <<canceled, steps, stage, after>>

\* The goroutine of the left side: its error becomes the reader's.
LeftDone(k) ==
  LET err == pipelineFlow(LeftSide(k).err) IN
  /\ level[k].pc = "open" /\ level[k].left = Pending
  /\ LeftEnded(k)
  /\ pipe' = [pipe EXCEPT ![k] = CloseWrite(@, err)]
  /\ level' = [level EXCEPT ![k].left = Outcome(LeftSide(k).code, err)]
  /\ UNCHANGED <<canceled, steps, stage, after>>

\* Seeded fault: the reading end stays open.
RightDone_NoClose(k) ==
  /\ level[k].pc = "open" /\ level[k].right = Pending
  /\ stage[k + 1].pc = "done"
  /\ level' = [level EXCEPT ![k].right =
                 Outcome(stage[k + 1].out.code, pipelineFlow(stage[k + 1].out.err))]
  /\ UNCHANGED <<canceled, steps, stage, pipe, after>>

\* The right side has returned: writers are told that nobody reads.
RightDone(k) ==
  /\ level[k].pc = "open" /\ level[k].right = Pending
  /\ stage[k + 1].pc = "done"
  /\ pipe' = [pipe EXCEPT ![k] = CloseRead(@, "ErrClosedPipe")]
  /\ level' = [level EXCEPT ![k].right =
                 Outcome(stage[k + 1].out.code, pipelineFlow(stage[k + 1].out.err))]
  /\ UNCHANGED <<canceled, steps, stage, after>>

\* Seeded fault: the outcome of the left side is not looked at.
Verdict_RightOnly(k) == IF canceled THEN Outcome(1, "ctx") ELSE level[k].right

\* Seeded fault: the context is not looked at.
Verdict_NoCtx(k) ==
  IF level[k].right.err # "none" THEN level[k].right
  ELSE IF level[k].left.err \notin {"none", "ErrClosedPipe"} THEN level[k].left
  ELSE level[k].right

\* The context first, then the right side, then the left side unless it only
\* found that nobody reads.
Verdict(k) ==
  IF canceled THEN Outcome(1, "ctx")
  ELSE IF level[k].right.err # "none" THEN level[k].right
  ELSE IF level[k].left.err \notin {"none", "ErrClosedPipe"} THEN level[k].left
  ELSE level[k].right

\* Seeded fault: the left side is not waited for.
Join_NoWait(k) ==
  /\ level[k].pc = "open"
  /\ level[k].right # Pending
  /\ level' = [level EXCEPT ![k] = [@ EXCEPT !.pc = "done", !.out = Verdict(k)]]
  /\ after' = [after EXCEPT ![k] = IF @ = "armed" THEN "stopped" ELSE @]
  /\ UNCHANGED <<canceled, steps, stage, pipe>>

\* Both sides have returned.  The deferred stop() disarms the AfterFunc unless
\* it has started.
Join(k) ==
  /\ level[k].pc = "open"
  /\ level[k].left # Pending /\ level[k].right # Pending
  /\ level' = [level EXCEPT ![k] = [@ EXCEPT !.pc = "done", !.out = Verdict(k)]]
  /\ after' = [after EXCEPT ![k] = IF @ = "armed" THEN "stopped" ELSE @]
  /\ UNCHANGED <<canceled, steps, stage, pipe>>

Cancel ==
  /\ ~canceled
  /\ canceled' = TRUE
  /\ UNCHANGED <<steps, stage, level, pipe, after>>

\* The AfterFunc runs in a goroutine of its own; it closes the reading end and
\* then the writing end.
AfterRead(k) ==
  /\ canceled
  /\ after[k] = "armed"
  /\ after' = [after EXCEPT ![k] = "half"]
  /\ pipe' = [pipe EXCEPT ![k] = CloseRead(@, "ctx")]
  /\ level' = [level EXCEPT ![k].torn = level[k].pc = "open"]
  /\ UNCHANGED <<canceled, steps, stage>>

AfterWrite(k) ==
  /\ after[k] = "half"
  /\ after' = [after EXCEPT ![k] = "ran"]
  /\ pipe' = [pipe EXCEPT ![k] = CloseWrite(@, "ctx")]
  /\ UNCHANGED <<canceled, steps, stage, level>>

-----------------------------------------------------------------------------

Top == level[N - 1]
Returned == Top.pc = "done"

Init ==
  /\ canceled = FALSE
  /\ steps = 0
  /\ stage = [k \in Stages |-> IdleStage]
  /\ level = [k \in Levels |-> IdleLevel]
  /\ pipe = [k \in Levels |-> OpenPipe]
  /\ after = [k \in Levels |-> "off"]

\* A command that is not blocked does something.
Proceed(k) ==
  \/ BeginRead(k)
  \/ BeginWrite(k)
  \/ \E err \in Err : Finish(k, err)

Unblock(k) ==
  \/ k > 1 /\ ReadFails(k)
  \/ k < N /\ WriteFails(k)
  \/ k < N /\ \E n \in 1..Chunk : Transfer(k, n)

LevelStep(k) == Open(k) \/ LeftDone(k) \/ RightDone(k) \/ Join(k)

AfterFunc(k) == AfterRead(k) \/ AfterWrite(k)

\* The caller goes on with the script.
Terminated == Returned /\ UNCHANGED vars

Next ==
  \/ \E k \in Stages : Step(k) \/ Proceed(k) \/ Unblock(k)
  \/ \E k \in Levels : LevelStep(k) \/ AfterFunc(k)
  \/ Cancel
  \/ Terminated

Spec == Init /\ [][Next]_vars

\* Goroutines are scheduled, and commands that can run do.  Nothing is assumed
\* about Cancel, nor that a command ends before a read or a write has failed.
Fairness ==
  /\ \A k \in Stages :
       WF_vars((stage[k].pc = "idle" /\ Step(k)) \/ Proceed(k) \/ Unblock(k))
  /\ \A k \in Levels : WF_vars(LevelStep(k)) /\ WF_vars(AfterFunc(k))

FairSpec == Spec /\ Fairness

-----------------------------------------------------------------------------
(* Properties *)

OutcomeType == {Pending} \cup [code: 1..Status(N), err: Err]

StageType == [pc: {"idle", "ready", "read", "write", "done"}, out: OutcomeType,
              rest: 0..Chunk, io: (Err \cup {"EOF"}) \ {"exit"}, short: BOOLEAN]
LevelType == [pc: {"idle", "open", "done"}, left: OutcomeType, right: OutcomeType,
              out: OutcomeType, torn: BOOLEAN]
PipeType == [rerr: {"none", "ErrClosedPipe", "ctx"}, werr: (Err \cup {"EOF"}) \ {"exit"}]

\* The types of the state.
TypeOK ==
  /\ canceled \in BOOLEAN
  /\ steps \in Nat
  /\ stage \in [Stages -> StageType]
  /\ level \in [Levels -> LevelType]
  /\ pipe \in [Levels -> PipeType]
  /\ after \in [Levels -> {"off", "armed", "half", "ran", "stopped"}]

\* A command that sees the end of its input has received everything its
\* producer wrote, and the producer ended without an error: neither a failed
\* producer nor a cancellation passes for a complete input.
CleanEOF ==
  \A k \in Levels : stage[k + 1].io = "EOF" =>
    /\ stage[k].pc = "done"
    /\ stage[k].out.err \in {"none", "exit"}
    /\ ~stage[k].short

\* When pipeline returns, none of its commands is still running, so nothing
\* uses the streams, the files or the session's runtime behind the caller's
\* back, and none is started later.
NoOrphans ==
  \A k \in Levels : level[k].pc = "done" =>
    /\ \A j \in 1..(k + 1) : stage[j].pc \in {"idle", "done"}
    /\ \A i \in 1..k : level[i].pc \in {"idle", "done"}

\* The verdict accounts for every command: exit ends the stage that executes
\* it and never the script around the pipeline; a pipeline that returns no
\* error returns the status of its last command, and a failure of another
\* command was hidden only by a command to its right that stopped at a closed
\* pipe.
FailuresSurface ==
  /\ \A k \in Levels : level[k].out.err # "exit"
  /\ Returned /\ Top.out.err = "none" =>
    /\ Top.out.code = stage[N].out.code
    /\ stage[N].out.err \in {"none", "exit"}
    /\ \A j \in Stages : stage[j].out.err \in Failure =>
         \E i \in (j + 1)..(N - 1) : stage[i].out.err = "ErrClosedPipe"

\* A pipeline whose pipe was closed under its commands by the end of the
\* context reports the context's error, never a status.
TornIsReported ==
  \A k \in Levels : level[k].torn /\ Returned => Top.out.err = "ctx"

\* The end of the context ends the pipeline, even when every command would
\* read and write forever: the pipes fail under them.
CancelReturns == canceled /\ Top.pc = "open" ~> Returned

\* One side of the pipe is blocked and the other one has ended.
BlockedByTheDead(k) ==
  \/ stage[k].pc = "write" /\ stage[k + 1].pc = "done"
  \/ stage[k].pc = "done" /\ stage[k + 1].pc = "read"

\* Nobody stays blocked on a pipe whose other side has ended.
NoneBlockedByTheDead == \A k \in Levels : BlockedByTheDead(k) ~> ~BlockedByTheDead(k)

\* "An error aborts the script" (command.go, CommandFunc): a pipeline one of
\* whose commands returned an error returns an error.
ErrorAborts ==
  Returned => \A j \in Stages : stage[j].out.err = "fail" => Top.out.err # "none"
=============================================================================
