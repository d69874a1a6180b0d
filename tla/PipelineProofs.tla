--------------------------- MODULE PipelineProofs ---------------------------
(***************************************************************************)
(* Proofs about Pipeline, for pipelines of any length, every step budget    *)
(* and every size of the buffers.                                           *)
(***************************************************************************)
EXTENDS Pipeline, TLAPS

-----------------------------------------------------------------------------
(* The inductive invariant *)

\* Nothing inside a level that has not begun has begun.
OrderInv ==
  \A k \in Levels : level[k].pc = "idle" =>
    /\ \A i \in 1..k : level[i].pc = "idle"
    /\ \A j \in 1..(k + 1) : stage[j].pc = "idle"

\* An outcome is there exactly when its owner has returned.
OutcomeInv ==
  /\ \A j \in Stages : stage[j].out = Pending <=> stage[j].pc # "done"
  /\ \A k \in Levels : level[k].out = Pending <=> level[k].pc # "done"

\* What a level knows of its sides is what they returned, an exit left out.
SidesInv ==
  \A k \in Levels :
    /\ level[k].left # Pending =>
         LeftEnded(k) /\ level[k].left = Outcome(LeftSide(k).code, pipelineFlow(LeftSide(k).err))
    /\ level[k].right # Pending =>
         /\ stage[k + 1].pc = "done"
         /\ level[k].right = Outcome(stage[k + 1].out.code, pipelineFlow(stage[k + 1].out.err))

\* What the verdict of a level says about its sides.
VerdictInv ==
  \A k \in Levels : level[k].pc = "done" =>
    /\ level[k].out.err # "exit"
    /\ level[k].out.err = "none" =>
         /\ level[k].left # Pending /\ level[k].left.err \in {"none", "ErrClosedPipe"}
         /\ level[k].right # Pending /\ level[k].right.err = "none"
         /\ level[k].out = level[k].right
    /\ level[k].out.err = "ErrClosedPipe" =>
         level[k].right # Pending /\ level[k].right.err = "ErrClosedPipe"

\* A pipe ends with EOF only after its writer returned without an error, and a
\* pipe that has cut a write short can no longer end with EOF.
PipeInv ==
  \A k \in Levels :
    /\ pipe[k].werr = "EOF" => stage[k].pc = "done" /\ stage[k].out.err \in {"none", "exit"}
    /\ stage[k].short => pipe[k].rerr # "none" \/ pipe[k].werr \notin {"none", "EOF"}

\* A pipe is torn only after the cancellation, while the outermost level waits.
TornInv ==
  \A k \in Levels : level[k].torn => canceled /\ (Returned => Top.out.err = "ctx")

\* FailuresSurface for every level: a failure inside it is hidden only by a
\* stage to its right that stopped at a closed pipe.
HiddenInv ==
  \A k \in Levels : level[k].pc = "done" /\ level[k].out.err = "none" =>
    \A j \in 1..(k + 1) : stage[j].out.err \in Failure =>
      \E i \in (j + 1)..k : stage[i].out.err = "ErrClosedPipe"

PipelineInv ==
  /\ TypeOK
  /\ OrderInv
  /\ NoOrphans
  /\ OutcomeInv
  /\ SidesInv
  /\ VerdictInv
  /\ PipeInv
  /\ CleanEOF
  /\ TornInv
  /\ HiddenInv

-----------------------------------------------------------------------------
(* Commands *)

LEMMA Places ==
  /\ \A k \in Stages : LevelOf(k) \in Levels
  /\ \A k \in Levels : k \in Stages /\ k + 1 \in Stages /\ N - 1 \in Levels /\ k <= N - 1
  /\ \A k \in Levels : k # 1 => k - 1 \in Levels
BY PipelineAssumption DEF Stages, Levels, LevelOf

\* What a step of a command may do to stage j: it goes on or returns, it is cut
\* short by a closed pipe, it sees the end of a pipe.
Advances(j) ==
  LET r == stage[j]
      t == stage'[j] IN
  /\ r.pc # "done"
  /\ r.pc = "idle" => level[LevelOf(j)].pc = "open"
  /\ t.pc # "idle"
  /\ t.out = Pending <=> t.pc # "done"
  /\ t.short /\ ~r.short => j < N /\ Closed(pipe[j])
  /\ t.io = "EOF" /\ r.io # "EOF" =>
       j > 1 /\ pipe[j - 1].rerr = "none" /\ pipe[j - 1].werr = "EOF"

CommandMoves ==
  /\ stage' \in [Stages -> StageType]
  /\ steps' \in Nat
  /\ UNCHANGED <<canceled, level, pipe, after>>
  /\ \A j \in Stages : stage'[j] = stage[j] \/ Advances(j)

\* The command of stage j becomes t.
Turns(j, t) == t \in StageType /\ stage' = [stage EXCEPT ![j] = t]

LEMMA OneCommand ==
  ASSUME TypeOK, NEW k \in Stages, NEW t, Turns(k, t), Advances(k),
         steps' \in Nat, UNCHANGED <<canceled, level, pipe, after>>
  PROVE  CommandMoves
BY DEF TypeOK, Turns, CommandMoves

\* An outcome of a command that returned.
LEMMA OutcomeIsType ==
  ASSUME NEW code \in 1..Status(N), NEW err \in Err
  PROVE  Outcome(code, err) \in OutcomeType /\ Outcome(code, err) # Pending
BY DEF Outcome, OutcomeType, Pending, Err, Failure

LEMMA StatusType ==
  ASSUME NEW k \in Stages
  PROVE  Status(k) \in 1..Status(N) /\ 1 \in 1..Status(N)
BY PipelineAssumption DEF Stages, Status

LEMMA EndsMove ==
  ASSUME TypeOK, OutcomeInv, NEW k \in Stages, NEW out \in OutcomeType \ {Pending}, StageEnds(k, out),
         stage[k].pc # "done", stage[k].pc = "idle" => level[LevelOf(k)].pc = "open",
         steps' \in Nat, UNCHANGED <<canceled, level, pipe, after>>
  PROVE  CommandMoves
<1>1. PICK r \in StageType : r = stage[k]
  BY DEF TypeOK
<1> DEFINE t == [r EXCEPT !.pc = "done", !.out = out]
<1>2. t \in StageType
  BY DEF StageType
<1>3. t.pc = "done" /\ t.out = out /\ t.short = r.short /\ t.io = r.io
  BY DEF StageType
<1>4. Turns(k, t)
  BY <1>1, <1>2 DEF StageEnds, Turns
<1> HIDE DEF t
<1>5. stage'[k] = t
  BY <1>4 DEF Turns, TypeOK
<1>6. Advances(k)
  BY <1>1, <1>3, <1>5 DEF Advances
<1> QED
  BY <1>4, <1>6, OneCommand

\* step() refuses with an error, or counts.
LEMMA SteppedType ==
  ASSUME TypeOK
  PROVE  Stepped \in Nat /\ StepErr \in {"ctx", "ErrLimit"}
BY DEF TypeOK, Stepped, StepErr

LEMMA StepMoves ==
  ASSUME TypeOK, OutcomeInv, NEW k \in Stages, Step(k)
  PROVE  CommandMoves
<1>1. /\ steps' \in Nat
      /\ UNCHANGED <<canceled, level, pipe, after>>
      /\ stage[k].pc \in {"idle", "ready"}
      /\ stage[k].pc = "idle" => level[LevelOf(k)].pc = "open"
  BY SteppedType DEF Step
<1>2. CASE Grants
  <2>1. PICK r \in StageType : r = stage[k]
    BY DEF TypeOK
  <2> DEFINE t == [r EXCEPT !.pc = "ready"]
  <2>2. t \in StageType
    BY DEF StageType
  <2>3. t.pc = "ready" /\ t.out = r.out /\ t.short = r.short /\ t.io = r.io
    BY DEF StageType
  <2>4. Turns(k, t)
    BY <1>2, <2>1, <2>2 DEF Step, Turns
  <2> HIDE DEF t
  <2>5. stage'[k] = t
    BY <2>4 DEF Turns, TypeOK
  <2>6. Advances(k)
    BY <1>1, <2>1, <2>3, <2>5 DEF Advances, OutcomeInv
  <2> QED
    BY <1>1, <2>4, <2>6, OneCommand
<1>3. CASE ~Grants
  <2>1. PICK e \in Err : e = StepErr
    BY SteppedType DEF Err, Failure
  <2>2. Outcome(1, e) \in OutcomeType \ {Pending}
    BY OutcomeIsType, StatusType
  <2>3. StageEnds(k, Outcome(1, e))
    BY <1>3, <2>1 DEF Step
  <2> QED
    BY <1>1, <2>2, <2>3, EndsMove
<1> QED
  BY <1>2, <1>3

LEMMA FinishMoves ==
  ASSUME TypeOK, OutcomeInv, NEW k \in Stages, NEW err \in Err, Finish(k, err)
  PROVE  CommandMoves
<1>1. PICK code \in 1..Status(N) : StageEnds(k, Outcome(code, err))
  BY StatusType DEF Finish
<1>2. Outcome(code, err) \in OutcomeType \ {Pending}
  BY OutcomeIsType
<1>3. stage[k].pc = "ready" /\ steps' \in Nat /\ UNCHANGED <<canceled, level, pipe, after>>
  BY DEF Finish, TypeOK
<1> QED
  BY <1>1, <1>2, <1>3, EndsMove

\* A command that is not done and stays so.
LEMMA GoesOn ==
  ASSUME TypeOK, OutcomeInv, NEW k \in Stages, stage[k].pc \in {"ready", "read", "write"},
         NEW t \in StageType, t.pc \in {"ready", "read", "write"},
         t.out = stage[k].out,
         t.short => stage[k].short \/ (k < N /\ Closed(pipe[k])),
         t.io = "EOF" => \/ stage[k].io = "EOF"
                         \/ k > 1 /\ pipe[k - 1].rerr = "none" /\ pipe[k - 1].werr = "EOF",
         stage'[k] = t
  PROVE  Advances(k)
BY DEF Advances, OutcomeInv

LEMMA ReadWriteMoves ==
  ASSUME TypeOK, OutcomeInv, NEW k \in Stages,
         BeginRead(k) \/ BeginWrite(k) \/ (k > 1 /\ ReadFails(k)) \/ (k < N /\ WriteFails(k))
  PROVE  CommandMoves
<1>1. PICK r \in StageType : r = stage[k]
  BY DEF TypeOK
<1>2. steps' \in Nat /\ UNCHANGED <<canceled, level, pipe, after>>
  BY DEF BeginRead, BeginWrite, ReadFails, WriteFails, TypeOK
<1>3. ASSUME NEW t \in StageType, r.pc \in {"ready", "read", "write"},
             t.pc \in {"ready", "read", "write"}, t.out = r.out,
             t.short => r.short \/ (k < N /\ Closed(pipe[k])),
             t.io = "EOF" => \/ r.io = "EOF"
                             \/ k > 1 /\ pipe[k - 1].rerr = "none" /\ pipe[k - 1].werr = "EOF",
             stage' = [stage EXCEPT ![k] = t]
      PROVE  CommandMoves
  <2>1. stage'[k] = t
    BY <1>3 DEF TypeOK
  <2>2. Advances(k)
    BY <1>1, <1>3, <2>1, GoesOn
  <2> QED
    BY <1>2, <1>3, <2>2, OneCommand DEF Turns
<1>4. CASE BeginRead(k)
  <2> DEFINE t == [r EXCEPT !.pc = "read"]
  <2>1. t \in StageType /\ t.pc = "read" /\ t.out = r.out /\ t.short = r.short /\ t.io = r.io
    BY DEF StageType
  <2>2. stage' = [stage EXCEPT ![k] = t] /\ r.pc = "ready"
    BY <1>1, <1>4 DEF BeginRead, CanRead
  <2> QED
    BY <1>3, <2>1, <2>2
<1>5. CASE BeginWrite(k)
  <2> DEFINE t == [r EXCEPT !.pc = "write", !.rest = Chunk]
  <2>1. t \in StageType
    <3>1. Chunk \in 0..Chunk
      BY PipelineAssumption
    <3> QED
      BY <3>1 DEF StageType
  <2>2. t.pc = "write" /\ t.out = r.out /\ t.short = r.short /\ t.io = r.io
    BY DEF StageType
  <2>3. stage' = [stage EXCEPT ![k] = t] /\ r.pc = "ready"
    BY <1>1, <1>5 DEF BeginWrite, CanWrite
  <2> QED
    BY <1>3, <2>1, <2>2, <2>3
<1>6. CASE k > 1 /\ ReadFails(k)
  <2>1. k - 1 \in Levels
    BY <1>6, PipelineAssumption DEF Stages, Levels
  <2>2. PICK p \in PipeType : p = pipe[k - 1]
    BY <2>1 DEF TypeOK
  <2>3. PICK e \in (Err \cup {"EOF"}) \ {"exit"} :
          e = ReadErr(p) /\ (e = "EOF" => p.rerr = "none" /\ p.werr = "EOF")
    BY DEF ReadErr, PipeType, Err, Failure
  <2> DEFINE t == [r EXCEPT !.pc = "ready", !.io = e]
  <2>4. t \in StageType
    BY DEF StageType
  <2>5. t.pc = "ready" /\ t.out = r.out /\ t.short = r.short /\ t.io = e
    BY DEF StageType
  <2>6. stage' = [stage EXCEPT ![k] = t] /\ r.pc = "read"
    BY <1>1, <1>6, <2>2, <2>3 DEF ReadFails
  <2> QED
    BY <1>3, <1>6, <2>2, <2>3, <2>4, <2>5, <2>6
<1>7. CASE k < N /\ WriteFails(k)
  <2>1. k \in Levels
    BY <1>7, PipelineAssumption DEF Stages, Levels
  <2>2. PICK p \in PipeType : p = pipe[k]
    BY <2>1 DEF TypeOK
  <2>3. PICK e \in Err \ {"exit"} : e = WriteErr(p)
    BY DEF WriteErr, PipeType, Err, Failure
  <2> DEFINE t == [r EXCEPT !.pc = "ready", !.io = e, !.rest = 0, !.short = TRUE]
  <2>4. t \in StageType
    <3>1. 0 \in 0..Chunk /\ e \in (Err \cup {"EOF"}) \ {"exit"}
      BY PipelineAssumption
    <3> QED
      BY <3>1 DEF StageType
  <2>5. t.pc = "ready" /\ t.out = r.out /\ t.io = e /\ e # "EOF"
    BY DEF StageType, Err, Failure
  <2>6. stage' = [stage EXCEPT ![k] = t] /\ r.pc = "write" /\ Closed(pipe[k])
    BY <1>1, <1>7, <2>2, <2>3 DEF WriteFails
  <2> QED
    BY <1>3, <1>7, <2>4, <2>5, <2>6
<1> QED
  BY <1>4, <1>5, <1>6, <1>7

LEMMA TransferMoves ==
  ASSUME TypeOK, OutcomeInv, NEW k \in Levels, NEW n \in 1..Chunk, Transfer(k, n)
  PROVE  CommandMoves
<1>1. k \in Stages /\ k + 1 \in Stages /\ k # k + 1
  BY Places DEF Levels
<1>2. PICK r \in StageType, s \in StageType : r = stage[k] /\ s = stage[k + 1]
  BY <1>1 DEF TypeOK
<1>3. r.pc = "write" /\ s.pc = "read" /\ n <= r.rest
  BY <1>2 DEF Transfer
<1>4. PICK pc \in {"ready", "write"} : pc = IF r.rest = n THEN "ready" ELSE "write"
  OBVIOUS
<1> DEFINE t == [r EXCEPT !.rest = r.rest - n, !.pc = pc]
           u == [s EXCEPT !.pc = "ready"]
<1>5. r.rest - n \in 0..Chunk
  BY <1>3, PipelineAssumption DEF StageType
<1>6. t \in StageType /\ u \in StageType
  BY <1>5 DEF StageType
<1>7. /\ t.pc \in {"ready", "write"} /\ t.out = r.out /\ t.short = r.short /\ t.io = r.io
      /\ u.pc = "ready" /\ u.out = s.out /\ u.short = s.short /\ u.io = s.io
  BY <1>4 DEF StageType
<1>8. stage' = [stage EXCEPT ![k] = t, ![k + 1] = u]
  BY <1>1, <1>2, <1>4 DEF Transfer, TypeOK
<1> HIDE DEF t, u
<1>9. /\ stage' \in [Stages -> StageType] /\ stage'[k] = t /\ stage'[k + 1] = u
      /\ \A j \in Stages \ {k, k + 1} : stage'[j] = stage[j]
  BY <1>1, <1>6, <1>8 DEF TypeOK
<1>10. Advances(k) /\ Advances(k + 1)
  <2>1. Advances(k)
    BY <1>1, <1>2, <1>3, <1>6, <1>7, <1>9, GoesOn
  <2>2. Advances(k + 1)
    BY <1>1, <1>2, <1>3, <1>6, <1>7, <1>9, GoesOn
  <2> QED
    BY <2>1, <2>2
<1> QED
  BY <1>9, <1>10 DEF CommandMoves, Transfer, TypeOK

\* A step of commands keeps the invariant.
LEMMA CommandStep ==
  ASSUME PipelineInv, CommandMoves
  PROVE  PipelineInv'
<1>1. TypeOK'
  BY DEF PipelineInv, TypeOK, CommandMoves
<1>2. \A j \in Stages : stage[j].pc = "done" => stage'[j] = stage[j]
  BY DEF CommandMoves, Advances
<1>3. /\ level' = level /\ pipe' = pipe /\ canceled' = canceled
      /\ \A j \in Stages : stage'[j] = stage[j] \/ Advances(j)
  BY DEF CommandMoves
<1>4. ASSUME NEW k \in Levels, NEW j \in 1..(k + 1)
      PROVE  /\ j \in Stages /\ LevelOf(j) \in 1..k
             /\ level[k].pc # "open" => stage'[j] = stage[j]
  <2>1. j \in Stages /\ LevelOf(j) \in 1..k /\ LevelOf(j) \in Levels
    BY PipelineAssumption DEF Stages, Levels, LevelOf
  <2>2. level[k].pc # "open" => level[LevelOf(j)].pc # "open" /\ stage[j].pc \in {"idle", "done"}
    BY <2>1 DEF PipelineInv, OrderInv, NoOrphans, TypeOK, LevelType
  <2>3. level[k].pc # "open" => ~Advances(j)
    BY <2>2 DEF Advances
  <2> QED
    BY <1>3, <2>1, <2>3
<1>5. OrderInv'
  BY <1>3, <1>4 DEF PipelineInv, OrderInv
<1>6. NoOrphans'
  BY <1>3, <1>4 DEF PipelineInv, NoOrphans
<1>7. OutcomeInv'
  BY <1>3 DEF PipelineInv, OutcomeInv, Advances
<1>8. SidesInv'
  <2> SUFFICES ASSUME NEW k \in Levels
               PROVE  /\ level[k].left # Pending =>
                           /\ LeftEnded(k)'
                           /\ level[k].left = Outcome(LeftSide(k)'.code, pipelineFlow(LeftSide(k)'.err))
                      /\ level[k].right # Pending =>
                           /\ stage'[k + 1].pc = "done"
                           /\ level[k].right = Outcome(stage'[k + 1].out.code,
                                                       pipelineFlow(stage'[k + 1].out.err))
    BY <1>3 DEF SidesInv, Outcome, pipelineFlow
  <2>1. 1 \in Stages /\ k + 1 \in Stages
    BY Places, PipelineAssumption DEF Stages
  <2>2. LeftEnded(k) => LeftEnded(k)' /\ LeftSide(k)' = LeftSide(k)
    BY <1>2, <1>3, <2>1 DEF LeftEnded, LeftSide
  <2> QED
    BY <1>2, <2>1, <2>2 DEF PipelineInv, SidesInv
<1>9. VerdictInv'
  BY <1>3 DEF PipelineInv, VerdictInv
<1>10. PipeInv'
  <2> SUFFICES ASSUME NEW k \in Levels
               PROVE  /\ pipe[k].werr = "EOF" =>
                           stage'[k].pc = "done" /\ stage'[k].out.err \in {"none", "exit"}
                      /\ stage'[k].short =>
                           pipe[k].rerr # "none" \/ pipe[k].werr \notin {"none", "EOF"}
    BY <1>3 DEF PipeInv
  <2>1. k \in Stages
    BY Places
  <2>2. stage'[k].short /\ ~stage[k].short => Closed(pipe[k]) /\ stage[k].pc # "done"
    BY <1>3, <2>1 DEF Advances
  <2> QED
    BY <1>2, <2>1, <2>2 DEF PipelineInv, PipeInv, Closed
<1>11. CleanEOF'
  <2> SUFFICES ASSUME NEW k \in Levels, stage'[k + 1].io = "EOF"
               PROVE  stage'[k].pc = "done" /\ stage'[k].out.err \in {"none", "exit"} /\ ~stage'[k].short
    BY DEF CleanEOF
  <2>1. k \in Stages
    BY Places
  <2>2. PICK j \in Stages : j = k + 1 /\ j - 1 = k
    BY Places DEF Levels
  <2>3. \/ stage[j].io = "EOF"
        \/ pipe[k].rerr = "none" /\ pipe[k].werr = "EOF"
    BY <1>3, <2>2 DEF Advances
  <2>4. stage[k].pc = "done" /\ stage[k].out.err \in {"none", "exit"} /\ ~stage[k].short
    BY <2>2, <2>3 DEF PipelineInv, CleanEOF, PipeInv
  <2> QED
    BY <1>2, <2>1, <2>4
<1>12. TornInv'
  BY <1>3 DEF PipelineInv, TornInv, Returned, Top
<1>13. HiddenInv'
  <2> SUFFICES ASSUME NEW k \in Levels, level[k].pc = "done", level[k].out.err = "none",
                      NEW j \in 1..(k + 1), stage'[j].out.err \in Failure
               PROVE  \E i \in (j + 1)..k : stage'[i].out.err = "ErrClosedPipe"
    BY <1>3 DEF HiddenInv
  <2>1. \A i \in 1..(k + 1) : stage'[i] = stage[i]
    BY <1>4
  <2>2. PICK i \in (j + 1)..k : stage[i].out.err = "ErrClosedPipe"
    BY <2>1 DEF PipelineInv, HiddenInv
  <2>3. i \in 1..(k + 1)
    BY DEF Levels
  <2> QED
    BY <2>1, <2>2, <2>3
<1> QED
  BY <1>1, <1>5, <1>6, <1>7, <1>8, <1>9, <1>10, <1>11, <1>12, <1>13 DEF PipelineInv

-----------------------------------------------------------------------------
(* The calls of pipeline *)

\* What level k has to satisfy to take the state m.
LevelOK(k, m) ==
  /\ m.pc # "idle"
  /\ m.out = Pending <=> m.pc # "done"
  /\ m.torn = level[k].torn
  /\ m.left # Pending =>
       LeftEnded(k) /\ m.left = Outcome(LeftSide(k).code, pipelineFlow(LeftSide(k).err))
  /\ m.right # Pending =>
       /\ stage[k + 1].pc = "done"
       /\ m.right = Outcome(stage[k + 1].out.code, pipelineFlow(stage[k + 1].out.err))
  /\ m.pc = "done" =>
       /\ \A i \in 1..(k - 1) : level[i].pc \in {"idle", "done"}
       /\ \A j \in 1..(k + 1) : stage[j].pc \in {"idle", "done"}
       /\ canceled => m.out.err = "ctx"
       /\ m.out.err # "exit"
       /\ m.out.err = "none" =>
            /\ m.left # Pending /\ m.left.err \in {"none", "ErrClosedPipe"}
            /\ m.right # Pending /\ m.right.err = "none"
            /\ m.out = m.right
            /\ \A j \in 1..(k + 1) : stage[j].out.err \in Failure =>
                 \E i \in (j + 1)..k : stage[i].out.err = "ErrClosedPipe"
       /\ m.out.err = "ErrClosedPipe" => m.right # Pending /\ m.right.err = "ErrClosedPipe"

\* A level that is not done takes a step.
LEMMA LevelMoves ==
  ASSUME PipelineInv, NEW k \in Levels, level[k].pc # "done",
         level[k].pc = "idle" /\ k < N - 1 => level[k + 1].pc = "open",
         NEW m \in LevelType, LevelOK(k, m), level' = [level EXCEPT ![k] = m],
         pipe' \in [Levels -> PipeType], PipeInv',
         after' \in [Levels -> {"off", "armed", "half", "ran", "stopped"}], steps' \in Nat,
         UNCHANGED <<stage, canceled>>
  PROVE  PipelineInv'
<1>1. TypeOK'
  BY DEF PipelineInv, TypeOK
<1>2. level'[k] = m /\ \A i \in Levels \ {k} : level'[i] = level[i]
  BY DEF PipelineInv, TypeOK
<1>3. ASSUME NEW l \in Levels, l > k, level[l].pc # "open"
      PROVE  FALSE
  <2>1. \A i \in 1..l : level[i].pc # "open"
    BY <1>3 DEF PipelineInv, OrderInv, NoOrphans, TypeOK, LevelType
  <2>2. k \in 1..l /\ k + 1 \in 1..l /\ k < N - 1
    BY <1>3, PipelineAssumption DEF Levels
  <2> QED
    BY <2>1, <2>2 DEF PipelineInv, TypeOK, LevelType
<1>4. \A l \in Levels : l = k \/ level[l].pc = "open" \/ \A i \in 1..l : i \in Levels /\ i # k
  BY <1>3, PipelineAssumption DEF Levels
<1>5. OrderInv'
  <2> SUFFICES ASSUME NEW l \in Levels, level'[l].pc = "idle"
               PROVE  /\ \A i \in 1..l : level'[i].pc = "idle"
                      /\ \A j \in 1..(l + 1) : stage'[j].pc = "idle"
    BY DEF OrderInv
  <2>1. l # k /\ level[l].pc = "idle"
    BY <1>2 DEF LevelOK
  <2>2. \A i \in 1..l : i \in Levels /\ i # k
    BY <1>4, <2>1
  <2>3. \A i \in 1..l : i \in Levels /\ level'[i] = level[i]
    BY <1>2, <2>2
  <2> QED
    BY <2>1, <2>3 DEF PipelineInv, OrderInv
<1>6. NoOrphans'
  <2> SUFFICES ASSUME NEW l \in Levels, level'[l].pc = "done"
               PROVE  /\ \A j \in 1..(l + 1) : stage'[j].pc \in {"idle", "done"}
                      /\ \A i \in 1..l : level'[i].pc \in {"idle", "done"}
    BY DEF NoOrphans
  <2>1. CASE l = k
    <3>1. \A i \in 1..k : i = k \/ (i \in 1..(k - 1) /\ i \in Levels)
      BY PipelineAssumption DEF Levels
    <3>2. \A i \in 1..k : level'[i].pc \in {"idle", "done"}
      BY <1>2, <2>1, <3>1 DEF LevelOK
    <3> QED
      BY <1>2, <2>1, <3>2 DEF LevelOK
  <2>2. CASE l # k
    <3>1. level[l].pc = "done"
      BY <1>2, <2>2
    <3>2. \A i \in 1..l : i \in Levels /\ i # k
      BY <1>4, <2>2, <3>1
    <3>3. \A i \in 1..l : i \in Levels /\ level'[i] = level[i]
      BY <1>2, <3>2
    <3> QED
      BY <3>1, <3>3 DEF PipelineInv, NoOrphans
  <2> QED
    BY <2>1, <2>2
<1>7. OutcomeInv'
  BY <1>2 DEF PipelineInv, OutcomeInv, LevelOK
<1>8. \A l \in Levels : LeftEnded(l) => LeftEnded(l)' /\ LeftSide(l)' = LeftSide(l)
  <2> SUFFICES ASSUME NEW l \in Levels, LeftEnded(l)
               PROVE  LeftEnded(l)' /\ LeftSide(l)' = LeftSide(l)
    OBVIOUS
  <2>1. CASE l = 1
    BY <2>1 DEF LeftEnded, LeftSide
  <2>2. CASE l # 1
    <3>1. l - 1 \in Levels /\ l - 1 # k
      BY <2>2, Places DEF LeftEnded
    <3> QED
      BY <1>2, <2>2, <3>1 DEF LeftEnded, LeftSide
  <2> QED
    BY <2>1, <2>2
<1>9. SidesInv'
  <2>1. ASSUME NEW l \in Levels, level'[l].left # Pending
        PROVE  /\ LeftEnded(l)'
               /\ level'[l].left = Outcome(LeftSide(l)'.code, pipelineFlow(LeftSide(l)'.err))
    <3>1. /\ LeftEnded(l)
          /\ level'[l].left = Outcome(LeftSide(l).code, pipelineFlow(LeftSide(l).err))
      BY <1>2, <2>1 DEF PipelineInv, SidesInv, LevelOK
    <3> QED
      BY <1>8, <3>1
  <2>2. ASSUME NEW l \in Levels, level'[l].right # Pending
        PROVE  /\ stage'[l + 1].pc = "done"
               /\ level'[l].right = Outcome(stage'[l + 1].out.code,
                                            pipelineFlow(stage'[l + 1].out.err))
    <3>1. /\ stage[l + 1].pc = "done"
          /\ level'[l].right = Outcome(stage[l + 1].out.code, pipelineFlow(stage[l + 1].out.err))
      BY <1>2, <2>2 DEF PipelineInv, SidesInv, LevelOK
    <3> QED
      BY <3>1
  <2> QED
    BY <2>1, <2>2 DEF SidesInv
<1>10. VerdictInv'
  BY <1>2 DEF PipelineInv, VerdictInv, LevelOK
<1>11. CleanEOF'
  BY DEF PipelineInv, CleanEOF
<1>12. TornInv'
  <2>1. \A l \in Levels : level'[l].torn = level[l].torn
    BY <1>2 DEF LevelOK
  <2>2. N - 1 \in Levels
    BY Places
  <2>3. Returned' => (k # N - 1 /\ Returned /\ Top' = Top) \/ (canceled => Top'.out.err = "ctx")
    BY <1>2, <2>2 DEF Returned, Top, LevelOK
  <2> QED
    BY <2>1, <2>3 DEF PipelineInv, TornInv
<1>13. HiddenInv'
  BY <1>2 DEF PipelineInv, HiddenInv, LevelOK
<1> QED
  BY <1>1, <1>5, <1>6, <1>7, <1>9, <1>10, <1>11, <1>12, <1>13 DEF PipelineInv

\* The first error of an end of a pipe stays.
LEMMA CloseEnds ==
  ASSUME NEW p \in PipeType
  PROVE  /\ \A e \in Err \ {"exit"} :
              /\ CloseWrite(p, e) \in PipeType /\ CloseWrite(p, e).rerr = p.rerr
              /\ p.werr # "none" => CloseWrite(p, e).werr = p.werr
              /\ CloseWrite(p, e).werr = "EOF" => p.werr = "EOF" \/ e = "none"
         /\ \A e \in {"ErrClosedPipe", "ctx"} :
              /\ CloseRead(p, e) \in PipeType /\ CloseRead(p, e).werr = p.werr
              /\ p.rerr # "none" => CloseRead(p, e).rerr = p.rerr
<1>1. ASSUME NEW e \in Err \ {"exit"}, p.werr = "none"
      PROVE  /\ CloseWrite(p, e) \in PipeType /\ CloseWrite(p, e).rerr = p.rerr
             /\ CloseWrite(p, e).werr = "EOF" => e = "none"
  <2>1. PICK w \in (Err \cup {"EOF"}) \ {"exit"} : w = IF e = "none" THEN "EOF" ELSE e
    BY DEF Err, Failure
  <2>2. CloseWrite(p, e) = [p EXCEPT !.werr = w]
    BY <1>1, <2>1 DEF CloseWrite
  <2> QED
    BY <2>1, <2>2 DEF PipeType, Err, Failure
<1>2. ASSUME NEW e \in {"ErrClosedPipe", "ctx"}
      PROVE  /\ CloseRead(p, e) \in PipeType /\ CloseRead(p, e).werr = p.werr
             /\ p.rerr # "none" => CloseRead(p, e).rerr = p.rerr
  BY DEF CloseRead, PipeType
<1>3. \A e \in Err \ {"exit"} : p.werr # "none" => CloseWrite(p, e) = p
  BY DEF CloseWrite
<1> QED
  BY <1>1, <1>2, <1>3

\* Pipe k becomes q.
Switches(k, q) == q \in PipeType /\ pipe' = [pipe EXCEPT ![k] = q]

\* An end of a pipe is closed.
LEMMA PipeMoves ==
  ASSUME PipelineInv, NEW k \in Levels, NEW q, Switches(k, q), stage' = stage,
         pipe[k].rerr # "none" => q.rerr = pipe[k].rerr,
         pipe[k].werr # "none" => q.werr = pipe[k].werr,
         q.werr = "EOF" => \/ pipe[k].werr = "EOF"
                           \/ stage[k].pc = "done" /\ stage[k].out.err \in {"none", "exit"}
  PROVE  pipe' \in [Levels -> PipeType] /\ PipeInv'
<1>1. /\ pipe' \in [Levels -> PipeType] /\ pipe'[k] = q
      /\ \A i \in Levels \ {k} : pipe'[i] = pipe[i]
  BY DEF PipelineInv, TypeOK, Switches
<1>2. PipeInv'
  BY <1>1 DEF PipelineInv, PipeInv
<1> QED
  BY <1>1, <1>2

\* What the left side of a level has returned.
LEMMA LeftReturns ==
  ASSUME PipelineInv, NEW k \in Levels, LeftEnded(k)
  PROVE  LeftSide(k) \in OutcomeType \ {Pending}
<1>1. 1 \in Stages
  BY Places, PipelineAssumption DEF Stages
<1>2. CASE k = 1
  BY <1>1, <1>2 DEF PipelineInv, TypeOK, StageType, OutcomeInv, LeftEnded, LeftSide
<1>3. CASE k # 1
  BY <1>3, Places DEF PipelineInv, TypeOK, LevelType, OutcomeInv, LeftEnded, LeftSide
<1> QED
  BY <1>2, <1>3

\* A left side without an error ends with a stage without an error.
LEMMA LeftClean ==
  ASSUME PipelineInv, NEW k \in Levels, LeftEnded(k), pipelineFlow(LeftSide(k).err) = "none"
  PROVE  /\ stage[k].pc = "done" /\ stage[k].out.err \in {"none", "exit"}
         /\ k # 1 => level[k - 1].pc = "done" /\ level[k - 1].out.err = "none"
<1>1. LeftSide(k).err \in {"none", "exit"}
  BY DEF pipelineFlow
<1>2. CASE k = 1
  BY <1>1, <1>2 DEF LeftEnded, LeftSide
<1>3. CASE k # 1
  <2>1. PICK l \in Levels : l = k - 1 /\ l + 1 = k
    BY <1>3, Places DEF Levels
  <2>2. level[l].pc = "done" /\ level[l].out.err = "none"
    BY <1>1, <1>3, <2>1 DEF LeftEnded, LeftSide, PipelineInv, VerdictInv
  <2>3. level[l].right # Pending /\ level[l].right.err = "none"
    BY <2>2 DEF PipelineInv, VerdictInv
  <2>4. stage[k].pc = "done" /\ pipelineFlow(stage[k].out.err) = "none"
    <3>1. /\ stage[l + 1].pc = "done"
          /\ level[l].right = Outcome(stage[l + 1].out.code, pipelineFlow(stage[l + 1].out.err))
      BY <2>3 DEF PipelineInv, SidesInv
    <3>2. level[l].right.err = pipelineFlow(stage[l + 1].out.err)
      BY <3>1 DEF Outcome
    <3> QED
      BY <2>1, <2>3, <3>1, <3>2
  <2> QED
    BY <2>1, <2>2, <2>4 DEF pipelineFlow
<1> QED
  BY <1>2, <1>3

\* A left side that found its reader gone ends with such a stage.
LEMMA LeftClosed ==
  ASSUME PipelineInv, NEW k \in Levels, LeftEnded(k),
         pipelineFlow(LeftSide(k).err) = "ErrClosedPipe"
  PROVE  stage[k].out.err = "ErrClosedPipe"
<1>1. LeftSide(k).err = "ErrClosedPipe"
  BY DEF pipelineFlow
<1>2. CASE k = 1
  BY <1>1, <1>2 DEF LeftEnded, LeftSide
<1>3. CASE k # 1
  <2>1. PICK l \in Levels : l = k - 1 /\ l + 1 = k
    BY <1>3, Places DEF Levels
  <2>2. level[l].pc = "done" /\ level[l].out.err = "ErrClosedPipe"
    BY <1>1, <1>3, <2>1 DEF LeftEnded, LeftSide
  <2>3. level[l].right # Pending /\ level[l].right.err = "ErrClosedPipe"
    BY <2>2 DEF PipelineInv, VerdictInv
  <2>4. pipelineFlow(stage[k].out.err) = "ErrClosedPipe"
    <3>1. /\ stage[l + 1].pc = "done"
          /\ level[l].right = Outcome(stage[l + 1].out.code, pipelineFlow(stage[l + 1].out.err))
      BY <2>3 DEF PipelineInv, SidesInv
    <3>2. level[l].right.err = pipelineFlow(stage[l + 1].out.err)
      BY <3>1 DEF Outcome
    <3> QED
      BY <2>1, <2>3, <3>1, <3>2
  <2> QED
    BY <2>4 DEF pipelineFlow
<1> QED
  BY <1>2, <1>3

\* The outcome of a side, an exit left out.
LEMMA FlowType ==
  ASSUME NEW out \in OutcomeType \ {Pending}
  PROVE  /\ Outcome(out.code, pipelineFlow(out.err)) \in OutcomeType \ {Pending}
         /\ pipelineFlow(out.err) \in Err \ {"exit"}
<1>1. out.code \in 1..Status(N) /\ pipelineFlow(out.err) \in Err \ {"exit"}
  BY DEF OutcomeType, pipelineFlow, Err, Failure
<1> QED
  BY <1>1, OutcomeIsType

\* The call of level k becomes m.
Proceeds(k, m) == m \in LevelType /\ level' = [level EXCEPT ![k] = m]

LEMMA SidesAt ==
  ASSUME PipelineInv, NEW k \in Levels
  PROVE  /\ level[k].left # Pending =>
              LeftEnded(k) /\ level[k].left = Outcome(LeftSide(k).code, pipelineFlow(LeftSide(k).err))
         /\ level[k].right # Pending =>
              /\ stage[k + 1].pc = "done"
              /\ level[k].right = Outcome(stage[k + 1].out.code, pipelineFlow(stage[k + 1].out.err))
BY DEF PipelineInv, SidesInv

LEMMA OpenStep ==
  ASSUME PipelineInv, NEW k \in Levels, Open(k)
  PROVE  PipelineInv'
<1>1. PICK l \in LevelType : l = level[k]
  BY DEF PipelineInv, TypeOK
<1>2. /\ l.pc = "idle" /\ l.out = Pending
      /\ k < N - 1 => level[k + 1].pc = "open"
      /\ UNCHANGED <<stage, canceled, pipe>>
  BY <1>1 DEF Open, PipelineInv, OutcomeInv
<1>3. /\ pipe' \in [Levels -> PipeType] /\ PipeInv' /\ steps' \in Nat
      /\ after' \in [Levels -> {"off", "armed", "half", "ran", "stopped"}]
  BY SteppedType DEF PipelineInv, TypeOK, PipeInv, Open
<1>4. ASSUME NEW m, Proceeds(k, m), LevelOK(k, m)
      PROVE  PipelineInv'
  BY <1>1, <1>2, <1>3, <1>4, LevelMoves DEF Proceeds
<1>5. CASE Grants
  <2> DEFINE m == [l EXCEPT !.pc = "open"]
  <2>1. m \in LevelType
    BY DEF LevelType
  <2>2. m.pc = "open" /\ m.out = l.out /\ m.left = l.left /\ m.right = l.right /\ m.torn = l.torn
    BY DEF LevelType
  <2>3. Proceeds(k, m)
    BY <1>1, <1>5, <2>1 DEF Open, Proceeds
  <2> HIDE DEF m
  <2>4. LevelOK(k, m)
    BY <1>1, <1>2, <2>2, SidesAt DEF LevelOK
  <2> QED
    BY <1>4, <2>3, <2>4
<1>6. CASE ~Grants
  <2>1. PICK e \in Err : e = StepErr /\ e \in {"ctx", "ErrLimit"} /\ (canceled => e = "ctx")
    BY SteppedType DEF Err, Failure, StepErr
  <2>2. PICK out \in OutcomeType \ {Pending} : out = Outcome(1, e)
    BY OutcomeIsType, StatusType, Places
  <2>3. out.err = e
    BY <2>2 DEF Outcome
  <2> DEFINE m == [l EXCEPT !.pc = "done", !.out = out]
  <2>4. m \in LevelType
    BY DEF LevelType
  <2>5. m.pc = "done" /\ m.out = out /\ m.left = l.left /\ m.right = l.right /\ m.torn = l.torn
    BY DEF LevelType
  <2>6. Proceeds(k, m)
    BY <1>1, <1>6, <2>1, <2>2, <2>4 DEF Open, Proceeds
  <2> HIDE DEF m
  <2>7. /\ \A i \in 1..(k - 1) : level[i].pc = "idle"
        /\ \A j \in 1..(k + 1) : stage[j].pc = "idle"
    <3>1. \A i \in 1..(k - 1) : i \in 1..k
      BY DEF Levels
    <3> QED
      BY <1>1, <1>2, <3>1 DEF PipelineInv, OrderInv
  <2>8. LevelOK(k, m)
    BY <1>1, <2>1, <2>3, <2>5, <2>7, SidesAt DEF LevelOK
  <2> QED
    BY <1>4, <2>6, <2>8
<1> QED
  BY <1>5, <1>6

\* A side of an open level has returned.
LEMMA LeftDoneStep ==
  ASSUME PipelineInv, NEW k \in Levels, LeftDone(k)
  PROVE  PipelineInv'
<1>1. PICK l \in LevelType, p \in PipeType : l = level[k] /\ p = pipe[k]
  BY DEF PipelineInv, TypeOK
<1>2. l.pc = "open" /\ l.out = Pending /\ LeftEnded(k) /\ UNCHANGED <<stage, canceled, steps, after>>
  BY <1>1 DEF LeftDone, PipelineInv, OutcomeInv
<1>3. PICK s \in OutcomeType \ {Pending} : s = LeftSide(k)
  BY <1>2, LeftReturns
<1>4. PICK e \in Err \ {"exit"} : e = pipelineFlow(s.err)
  BY FlowType
<1>5. PICK out \in OutcomeType \ {Pending} : out = Outcome(s.code, e)
  BY <1>4, FlowType
<1>6. e = "none" => stage[k].pc = "done" /\ stage[k].out.err \in {"none", "exit"}
  BY <1>2, <1>3, <1>4, LeftClean
<1>7. PICK q \in PipeType : q = CloseWrite(p, e)
  BY CloseEnds
<1>8. Switches(k, q)
  BY <1>1, <1>3, <1>4, <1>7 DEF LeftDone, Switches
<1>9. pipe' \in [Levels -> PipeType] /\ PipeInv'
  BY <1>1, <1>2, <1>6, <1>7, <1>8, CloseEnds, PipeMoves
<1> DEFINE m == [l EXCEPT !.left = out]
<1>10. m \in LevelType
  BY DEF LevelType
<1>11. m.pc = l.pc /\ m.out = l.out /\ m.left = out /\ m.right = l.right /\ m.torn = l.torn
  BY DEF LevelType
<1>12. Proceeds(k, m)
  BY <1>1, <1>3, <1>4, <1>5, <1>10 DEF LeftDone, Proceeds
<1> HIDE DEF m
<1>13. LevelOK(k, m)
  BY <1>1, <1>2, <1>3, <1>4, <1>5, <1>11, SidesAt DEF LevelOK
<1> QED
  BY <1>1, <1>2, <1>9, <1>12, <1>13, LevelMoves DEF Proceeds, PipelineInv, TypeOK

LEMMA RightDoneStep ==
  ASSUME PipelineInv, NEW k \in Levels, RightDone(k)
  PROVE  PipelineInv'
<1>1. PICK l \in LevelType, p \in PipeType : l = level[k] /\ p = pipe[k]
  BY DEF PipelineInv, TypeOK
<1>2. /\ l.pc = "open" /\ l.out = Pending /\ stage[k + 1].pc = "done"
      /\ UNCHANGED <<stage, canceled, steps, after>>
  BY <1>1 DEF RightDone, PipelineInv, OutcomeInv
<1>3. PICK s \in OutcomeType \ {Pending} : s = stage[k + 1].out
  BY <1>2, Places DEF PipelineInv, TypeOK, StageType, OutcomeInv
<1>4. PICK out \in OutcomeType \ {Pending} : out = Outcome(s.code, pipelineFlow(s.err))
  BY FlowType
<1>5. PICK q \in PipeType : q = CloseRead(p, "ErrClosedPipe")
  BY CloseEnds
<1>6. Switches(k, q)
  BY <1>1, <1>5 DEF RightDone, Switches
<1>7. pipe' \in [Levels -> PipeType] /\ PipeInv'
  BY <1>1, <1>2, <1>5, <1>6, CloseEnds, PipeMoves
<1> DEFINE m == [l EXCEPT !.right = out]
<1>8. m \in LevelType
  BY DEF LevelType
<1>9. m.pc = l.pc /\ m.out = l.out /\ m.left = l.left /\ m.right = out /\ m.torn = l.torn
  BY DEF LevelType
<1>10. Proceeds(k, m)
  BY <1>1, <1>3, <1>4, <1>8 DEF RightDone, Proceeds
<1> HIDE DEF m
<1>11. LevelOK(k, m)
  BY <1>1, <1>2, <1>3, <1>4, <1>9, SidesAt DEF LevelOK
<1> QED
  BY <1>1, <1>2, <1>7, <1>10, <1>11, LevelMoves DEF Proceeds, PipelineInv, TypeOK

LEMMA SidesErr ==
  ASSUME PipelineInv, NEW k \in Levels
  PROVE  /\ level[k].left # Pending => level[k].left.err = pipelineFlow(LeftSide(k).err)
         /\ level[k].right # Pending => level[k].right.err = pipelineFlow(stage[k + 1].out.err)
<1>1. \A code, err : Outcome(code, err).err = err
  BY DEF Outcome
<1> QED
  BY <1>1, SidesAt

\* What Join returns.
LEMMA VerdictSays ==
  ASSUME PipelineInv, NEW k \in Levels, level[k].left # Pending, level[k].right # Pending
  PROVE  /\ Verdict(k) \in OutcomeType \ {Pending}
         /\ canceled => Verdict(k).err = "ctx"
         /\ Verdict(k).err # "exit"
         /\ Verdict(k).err = "none" =>
              /\ level[k].left.err \in {"none", "ErrClosedPipe"}
              /\ level[k].right.err = "none"
              /\ Verdict(k) = level[k].right
         /\ Verdict(k).err = "ErrClosedPipe" => level[k].right.err = "ErrClosedPipe"
<1>1. /\ level[k].left \in OutcomeType \ {Pending}
      /\ level[k].right \in OutcomeType \ {Pending}
  BY DEF PipelineInv, TypeOK, LevelType
<1>2. /\ level[k].left.err = pipelineFlow(LeftSide(k).err)
      /\ level[k].right.err = pipelineFlow(stage[k + 1].out.err)
  BY SidesErr
<1>3. level[k].left.err # "exit" /\ level[k].right.err # "exit"
  BY <1>2 DEF pipelineFlow
<1>4. PICK out \in OutcomeType \ {Pending} : out = Outcome(1, "ctx")
  BY OutcomeIsType, StatusType, Places DEF Err
<1>5. out.err = "ctx"
  BY <1>4 DEF Outcome
<1> QED
  BY <1>1, <1>3, <1>4, <1>5 DEF Verdict

\* A failure of a stage of a level that returns no error.
LEMMA FailureHidden ==
  ASSUME PipelineInv, NEW k \in Levels, level[k].left # Pending, level[k].right # Pending,
         level[k].left.err \in {"none", "ErrClosedPipe"}, level[k].right.err = "none",
         NEW j \in 1..(k + 1), stage[j].out.err \in Failure
  PROVE  \E i \in (j + 1)..k : stage[i].out.err = "ErrClosedPipe"
<1>1. /\ LeftEnded(k)
      /\ level[k].left.err = pipelineFlow(LeftSide(k).err)
      /\ level[k].right.err = pipelineFlow(stage[k + 1].out.err)
  BY SidesAt, SidesErr
<1>2. j # k + 1
  BY <1>1 DEF pipelineFlow, Failure
<1>3. j \in 1..k
  BY <1>2 DEF Levels
<1>4. CASE level[k].left.err = "none"
  <2>1. stage[k].out.err \in {"none", "exit"} /\ (k # 1 => level[k - 1].pc = "done" /\ level[k - 1].out.err = "none")
    BY <1>1, <1>4, LeftClean
  <2>2. j # k
    BY <2>1 DEF Failure
  <2>3. PICK l \in Levels : l = k - 1 /\ j \in 1..(l + 1)
    BY <1>3, <2>2, PipelineAssumption DEF Levels
  <2>4. level[l].pc = "done" /\ level[l].out.err = "none"
    BY <2>1, <2>3 DEF Levels
  <2>5. PICK i \in (j + 1)..l : stage[i].out.err = "ErrClosedPipe"
    BY <2>3, <2>4 DEF PipelineInv, HiddenInv
  <2>6. i \in (j + 1)..k
    BY <2>3 DEF Levels
  <2> QED
    BY <2>5, <2>6
<1>5. CASE level[k].left.err = "ErrClosedPipe"
  <2>1. stage[k].out.err = "ErrClosedPipe"
    BY <1>1, <1>5, LeftClosed
  <2>2. j # k
    BY <2>1 DEF Failure
  <2>3. k \in (j + 1)..k
    BY <1>3, <2>2 DEF Levels
  <2> QED
    BY <2>1, <2>3
<1> QED
  BY <1>4, <1>5

\* A level whose sides have returned has nothing running.
LEMMA SidesOver ==
  ASSUME PipelineInv, NEW k \in Levels, level[k].left # Pending, level[k].right # Pending
  PROVE  /\ \A i \in 1..(k - 1) : level[i].pc \in {"idle", "done"}
         /\ \A j \in 1..(k + 1) : stage[j].pc \in {"idle", "done"}
<1>1. LeftEnded(k) /\ stage[k + 1].pc = "done"
  BY SidesAt
<1>2. CASE k = 1
  <2>1. (1..(k - 1)) = {} /\ \A j \in 1..(k + 1) : j = 1 \/ j = k + 1
    BY <1>2
  <2> QED
    BY <1>1, <1>2, <2>1 DEF LeftEnded
<1>3. CASE k # 1
  <2>1. PICK l \in Levels : l = k - 1 /\ \A j \in 1..(k + 1) : j \in 1..(l + 1) \/ j = k + 1
    BY <1>3, Places DEF Levels
  <2>2. level[l].pc = "done"
    BY <1>1, <1>3, <2>1 DEF LeftEnded
  <2> QED
    BY <1>1, <2>1, <2>2 DEF PipelineInv, NoOrphans
<1> QED
  BY <1>2, <1>3

LEMMA JoinStep ==
  ASSUME PipelineInv, NEW k \in Levels, Join(k)
  PROVE  PipelineInv'
<1>1. PICK l \in LevelType : l = level[k]
  BY DEF PipelineInv, TypeOK
<1>2. /\ l.pc = "open" /\ l.left # Pending /\ l.right # Pending
      /\ UNCHANGED <<stage, canceled, steps, pipe>>
  BY <1>1 DEF Join
<1>3. PICK out \in OutcomeType \ {Pending} : out = Verdict(k)
  BY <1>1, <1>2, VerdictSays
<1>4. /\ canceled => out.err = "ctx"
      /\ out.err # "exit"
      /\ out.err = "none" =>
           /\ l.left.err \in {"none", "ErrClosedPipe"} /\ l.right.err = "none" /\ out = l.right
           /\ \A j \in 1..(k + 1) : stage[j].out.err \in Failure =>
                \E i \in (j + 1)..k : stage[i].out.err = "ErrClosedPipe"
      /\ out.err = "ErrClosedPipe" => l.right.err = "ErrClosedPipe"
  BY <1>1, <1>2, <1>3, VerdictSays, FailureHidden
<1> DEFINE m == [l EXCEPT !.pc = "done", !.out = out]
<1>5. m \in LevelType
  BY DEF LevelType
<1>6. m.pc = "done" /\ m.out = out /\ m.left = l.left /\ m.right = l.right /\ m.torn = l.torn
  BY DEF LevelType
<1>7. Proceeds(k, m)
  BY <1>1, <1>3, <1>5 DEF Join, Proceeds
<1> HIDE DEF m
<1>8. LevelOK(k, m)
  BY <1>1, <1>2, <1>4, <1>6, SidesAt, SidesOver DEF LevelOK
<1>9. /\ pipe' \in [Levels -> PipeType] /\ PipeInv' /\ steps' \in Nat
      /\ after' \in [Levels -> {"off", "armed", "half", "ran", "stopped"}]
  BY <1>2 DEF PipelineInv, TypeOK, PipeInv, Join
<1> QED
  BY <1>1, <1>2, <1>7, <1>8, <1>9, LevelMoves DEF Proceeds

-----------------------------------------------------------------------------
(* The end of the context *)

\* A pipe is closed by its AfterFunc.
LEMMA AfterReadStep ==
  ASSUME PipelineInv, NEW k \in Levels, AfterRead(k)
  PROVE  PipelineInv'
<1>1. PICK l \in LevelType, p \in PipeType : l = level[k] /\ p = pipe[k]
  BY DEF PipelineInv, TypeOK
<1>2. PICK b \in BOOLEAN : b = (l.pc = "open")
  OBVIOUS
<1>3. canceled /\ UNCHANGED <<stage, canceled, steps>>
  BY DEF AfterRead
<1>4. PICK q \in PipeType : q = CloseRead(p, "ctx")
  BY CloseEnds
<1>5. Switches(k, q)
  BY <1>1, <1>4 DEF AfterRead, Switches
<1>6. pipe' \in [Levels -> PipeType] /\ PipeInv'
  BY <1>1, <1>3, <1>4, <1>5, CloseEnds, PipeMoves
<1> DEFINE m == [l EXCEPT !.torn = b]
<1>7. m \in LevelType
  BY DEF LevelType
<1>8. m.pc = l.pc /\ m.out = l.out /\ m.left = l.left /\ m.right = l.right /\ m.torn = b
  BY DEF LevelType
<1>9. Proceeds(k, m)
  BY <1>1, <1>2, <1>7 DEF AfterRead, Proceeds
<1> HIDE DEF m
<1>10. level'[k] = m /\ \A i \in Levels \ {k} : level'[i] = level[i]
  BY <1>9 DEF PipelineInv, TypeOK, Proceeds
<1>11. \A i \in Levels : /\ level'[i].pc = level[i].pc /\ level'[i].out = level[i].out
                         /\ level'[i].left = level[i].left /\ level'[i].right = level[i].right
  BY <1>1, <1>8, <1>10
<1>12. TypeOK'
  BY <1>3, <1>6, <1>9 DEF PipelineInv, TypeOK, Proceeds, AfterRead
<1>13. \A i \in Levels : \A j \in 1..i : j \in Levels
  BY PipelineAssumption DEF Levels
<1>14. OrderInv' /\ NoOrphans'
  BY <1>3, <1>11, <1>13 DEF PipelineInv, OrderInv, NoOrphans
<1>15. OutcomeInv' /\ VerdictInv' /\ HiddenInv' /\ CleanEOF'
  BY <1>3, <1>11 DEF PipelineInv, OutcomeInv, VerdictInv, HiddenInv, CleanEOF
<1>16. \A i \in Levels : LeftEnded(i)' = LeftEnded(i) /\ LeftSide(i)' = LeftSide(i)
  BY <1>3, <1>11, Places DEF LeftEnded, LeftSide
<1>17. SidesInv'
  BY <1>3, <1>11, <1>16 DEF PipelineInv, SidesInv, Outcome, pipelineFlow
<1>18. TornInv'
  <2>1. N - 1 \in Levels /\ k \in 1..(N - 1)
    BY Places DEF Levels
  <2>2. b => Top.pc # "done"
    BY <1>1, <1>2, <2>1 DEF PipelineInv, NoOrphans, Top
  <2>3. Top'.pc = Top.pc /\ Top'.out = Top.out
    BY <1>11, <2>1 DEF Top
  <2> QED
    BY <1>3, <1>8, <1>10, <2>2, <2>3 DEF PipelineInv, TornInv, Returned
<1> QED
  BY <1>6, <1>12, <1>14, <1>15, <1>17, <1>18 DEF PipelineInv

LEMMA AfterWriteStep ==
  ASSUME PipelineInv, NEW k \in Levels, AfterWrite(k)
  PROVE  PipelineInv'
<1>1. PICK p \in PipeType : p = pipe[k]
  BY DEF PipelineInv, TypeOK
<1>2. UNCHANGED <<canceled, steps, stage, level>>
  BY DEF AfterWrite
<1>3. "ctx" \in Err \ {"exit"}
  BY DEF Err
<1>4. PICK q \in PipeType : q = CloseWrite(p, "ctx")
  BY <1>3, CloseEnds
<1>5. Switches(k, q)
  BY <1>1, <1>4 DEF AfterWrite, Switches
<1>6. pipe' \in [Levels -> PipeType] /\ PipeInv'
  BY <1>1, <1>2, <1>3, <1>4, <1>5, CloseEnds, PipeMoves
<1>7. TypeOK'
  BY <1>2, <1>6 DEF PipelineInv, TypeOK, AfterWrite
<1>8. OrderInv' /\ NoOrphans' /\ OutcomeInv' /\ VerdictInv'
  BY <1>2 DEF PipelineInv, OrderInv, NoOrphans, OutcomeInv, VerdictInv
<1>9. CleanEOF' /\ TornInv' /\ HiddenInv'
  BY <1>2 DEF PipelineInv, CleanEOF, TornInv, HiddenInv, Returned, Top
<1>10. SidesInv'
  BY <1>2 DEF PipelineInv, SidesInv, LeftEnded, LeftSide, Outcome, pipelineFlow
<1> QED
  BY <1>6, <1>7, <1>8, <1>9, <1>10 DEF PipelineInv

\* Only what depends on whether the context has ended changes.
LEMMA CancelStep ==
  ASSUME PipelineInv, UNCHANGED vars \/ Cancel
  PROVE  PipelineInv'
<1>1. UNCHANGED <<steps, stage, level, pipe, after>> /\ (canceled => canceled') /\ canceled' \in BOOLEAN
  BY DEF vars, Cancel, PipelineInv, TypeOK
<1>2. TypeOK'
  BY <1>1 DEF PipelineInv, TypeOK
<1>3. OrderInv' /\ NoOrphans' /\ OutcomeInv' /\ VerdictInv' /\ PipeInv'
  BY <1>1 DEF PipelineInv, OrderInv, NoOrphans, OutcomeInv, VerdictInv, PipeInv
<1>4. CleanEOF' /\ TornInv' /\ HiddenInv'
  BY <1>1 DEF PipelineInv, CleanEOF, TornInv, HiddenInv, Returned, Top
<1>5. SidesInv'
  BY <1>1 DEF PipelineInv, SidesInv, LeftEnded, LeftSide, Outcome, pipelineFlow
<1> QED
  BY <1>2, <1>3, <1>4, <1>5 DEF PipelineInv

-----------------------------------------------------------------------------
(* Theorems *)

LEMMA PipelineInit ==
  ASSUME Init
  PROVE  PipelineInv
<1>1. /\ IdleStage \in StageType /\ IdleStage.pc = "idle" /\ IdleStage.out = Pending
      /\ IdleStage.io = "none" /\ IdleStage.short = FALSE
  BY PipelineAssumption DEF IdleStage, StageType, OutcomeType, Err
<1>2. /\ IdleLevel \in LevelType /\ IdleLevel.pc = "idle" /\ IdleLevel.out = Pending
      /\ IdleLevel.left = Pending /\ IdleLevel.right = Pending /\ IdleLevel.torn = FALSE
  BY DEF IdleLevel, LevelType, OutcomeType
<1>3. OpenPipe \in PipeType /\ OpenPipe.rerr = "none" /\ OpenPipe.werr = "none"
  BY DEF OpenPipe, PipeType, Err
<1>4. canceled \in BOOLEAN
  BY Zenon DEF Init
<1>5. TypeOK
  BY <1>1, <1>2, <1>3, <1>4 DEF Init, TypeOK
<1>6. /\ \A j \in Stages : stage[j] = IdleStage
      /\ \A k \in Levels : level[k] = IdleLevel /\ pipe[k] = OpenPipe
      /\ \A k \in Levels : k \in Stages /\ k + 1 \in Stages
      /\ \A k \in Levels : (\A i \in 1..k : i \in Levels) /\ (\A j \in 1..(k + 1) : j \in Stages)
  BY PipelineAssumption DEF Init, Stages, Levels
<1>7. OrderInv /\ NoOrphans
  BY <1>1, <1>2, <1>6 DEF OrderInv, NoOrphans
<1>8. OutcomeInv /\ SidesInv
  BY <1>1, <1>2, <1>6 DEF OutcomeInv, SidesInv
<1>9. VerdictInv /\ PipeInv /\ CleanEOF
  BY <1>1, <1>2, <1>3, <1>6 DEF VerdictInv, PipeInv, CleanEOF
<1>10. TornInv /\ HiddenInv
  BY <1>2, <1>6 DEF TornInv, HiddenInv
<1> QED
  BY <1>5, <1>7, <1>8, <1>9, <1>10 DEF PipelineInv

LEMMA PipelineStep ==
  ASSUME PipelineInv, [Next]_vars
  PROVE  PipelineInv'
<1> USE DEF PipelineInv
<1>1. ASSUME NEW k \in Stages, Step(k)
      PROVE  PipelineInv'
  BY <1>1, StepMoves, CommandStep
<1>2. ASSUME NEW k \in Stages, Proceed(k)
      PROVE  PipelineInv'
  BY <1>2, ReadWriteMoves, FinishMoves, CommandStep DEF Proceed
<1>3. ASSUME NEW k \in Stages, Unblock(k)
      PROVE  PipelineInv'
  <2>1. CASE (k > 1 /\ ReadFails(k)) \/ (k < N /\ WriteFails(k))
    BY <2>1, ReadWriteMoves, CommandStep
  <2>2. CASE k < N /\ \E n \in 1..Chunk : Transfer(k, n)
    <3>1. k \in Levels
      BY <2>2, PipelineAssumption DEF Stages, Levels
    <3> QED
      BY <2>2, <3>1, TransferMoves, CommandStep
  <2> QED
    BY <1>3, <2>1, <2>2 DEF Unblock
<1>4. ASSUME NEW k \in Levels, LevelStep(k)
      PROVE  PipelineInv'
  BY <1>4, OpenStep, LeftDoneStep, RightDoneStep, JoinStep DEF LevelStep
<1>5. ASSUME NEW k \in Levels, AfterFunc(k)
      PROVE  PipelineInv'
  BY <1>5, AfterReadStep, AfterWriteStep DEF AfterFunc
<1>6. CASE Cancel \/ Terminated \/ UNCHANGED vars
  BY <1>6, CancelStep DEF Terminated
<1> QED
  BY <1>1, <1>2, <1>3, <1>4, <1>5, <1>6 DEF Next

\* The types, the order in which calls begin and end, what each of them knows
\* of its sides and what each pipe tells its reader hold in every reachable
\* state of a pipeline of any length.
THEOREM PipelineInvariant == Spec => []PipelineInv
<1>1. Init => PipelineInv
  BY PipelineInit
<1>2. PipelineInv /\ [Next]_vars => PipelineInv'
  BY PipelineStep
<1> QED
  BY <1>1, <1>2, PTL DEF Spec

\* The end of a command's input is told only when its producer delivered
\* everything and ended without an error (pipeline: CloseWithError of the left
\* side, stop() and the AfterFunc included).
THEOREM CleanEOFCorrect == Spec => []CleanEOF
<1>1. PipelineInv => CleanEOF
  BY DEF PipelineInv
<1> QED
  BY <1>1, PipelineInvariant, PTL

\* No command of a pipeline runs when its call has returned, and none begins
\* after that (pipeline: the wait for the left side before every return).
THEOREM NoOrphansCorrect == Spec => []NoOrphans
<1>1. PipelineInv => NoOrphans
  BY DEF PipelineInv
<1> QED
  BY <1>1, PipelineInvariant, PTL

LEMMA InvSurfaces ==
  ASSUME PipelineInv
  PROVE  FailuresSurface
<1>1. ASSUME NEW k \in Levels
      PROVE  level[k].out.err # "exit"
  <2>1. CASE level[k].pc = "done"
    BY <2>1 DEF PipelineInv, VerdictInv
  <2>2. CASE level[k].pc # "done"
    BY <2>2 DEF PipelineInv, OutcomeInv, Pending
  <2> QED
    BY <2>1, <2>2
<1>2. ASSUME Returned, Top.out.err = "none"
      PROVE  /\ Top.out.code = stage[N].out.code
             /\ stage[N].out.err \in {"none", "exit"}
             /\ \A j \in Stages : stage[j].out.err \in Failure =>
                  \E i \in (j + 1)..(N - 1) : stage[i].out.err = "ErrClosedPipe"
  <2>1. PICK k \in Levels : k = N - 1 /\ k + 1 = N
    BY Places, PipelineAssumption DEF Levels
  <2>2. level[k].pc = "done" /\ level[k].out.err = "none"
    BY <1>2, <2>1 DEF Returned, Top
  <2>3. level[k].right # Pending /\ level[k].right.err = "none" /\ level[k].out = level[k].right
    BY <2>2 DEF PipelineInv, VerdictInv
  <2>4. level[k].right = Outcome(stage[k + 1].out.code, pipelineFlow(stage[k + 1].out.err))
    BY <2>3, SidesAt
  <2>5. /\ level[k].right.code = stage[k + 1].out.code
        /\ level[k].right.err = pipelineFlow(stage[k + 1].out.err)
    BY <2>4 DEF Outcome
  <2>6. stage[N].out.err \in {"none", "exit"} /\ Top.out.code = stage[N].out.code
    BY <2>1, <2>3, <2>5 DEF pipelineFlow, Top
  <2>7. \A j \in 1..(k + 1) : stage[j].out.err \in Failure =>
          \E i \in (j + 1)..k : stage[i].out.err = "ErrClosedPipe"
    BY <2>2 DEF PipelineInv, HiddenInv
  <2> QED
    BY <2>1, <2>6, <2>7 DEF Stages
<1> QED
  BY <1>1, <1>2 DEF FailuresSurface

\* A pipeline that returns no error returns the status of its last command,
\* and only a command that stopped at a closed pipe hides a failure to its
\* left (pipeline: the order in which the verdict looks at the sides).
THEOREM FailuresCorrect == Spec => []FailuresSurface
<1>1. PipelineInv => FailuresSurface
  BY InvSurfaces
<1> QED
  BY <1>1, PipelineInvariant, PTL

\* A pipeline whose pipe the context closed under its commands reports the
\* context (pipeline: r.ctx.Err() after both sides have returned).
THEOREM TornCorrect == Spec => []TornIsReported
<1>1. PipelineInv => TornIsReported
  BY DEF PipelineInv, TornInv, TornIsReported
<1> QED
  BY <1>1, PipelineInvariant, PTL
=============================================================================
