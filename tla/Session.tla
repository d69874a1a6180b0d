------------------------------ MODULE Session -------------------------------
(***************************************************************************)
(* shale.go: one persistent shell session shared by concurrent callers.     *)
(* Run, ReadFile and Close take the gate, a channel of capacity one, before *)
(* they touch the session.  A running script is a set of commands (the      *)
(* stages of its pipelines) that run concurrently, compile WASM modules on  *)
(* first use and write into one bounded capture.                            *)
(***************************************************************************)
EXTENDS Integers, Sequences, FiniteSets

CONSTANTS
  Client,        \* goroutines that call methods of the Shell
  Stage,         \* commands of one script that can run at the same time
  MaxOutput,     \* Options.MaxOutputBytes
  WriteLen,      \* lengths of the buffers commands write
  FileLimit,     \* values of Options.MaxFileBytes to consider
  FileSize,      \* sizes of the files ReadFile meets
  MaxInt         \* math.MaxInt64

ASSUME SessionAssumption ==
  /\ MaxOutput \in Nat
  /\ WriteLen \subseteq Nat
  /\ MaxInt \in Nat
  /\ FileLimit \subseteq 1..MaxInt
  /\ FileSize \subseteq 0..MaxInt
  /\ IsFiniteSet(Client)

VARIABLES
  gate,       \* the number of tokens in Shell.gate
  queue,      \* the callers blocked in sending to it, in order
  closed,     \* Shell.closed
  runtime,    \* Shell.runtime: open, closed, or broken when closing it failed
  told,       \* ghost: how many calls of Close returned the error of runtime.Close
  exited,     \* Shell.shell.Exited
  maxFile,    \* Shell.opts.MaxFileBytes
  compiled,   \* how often module.compiled has been assigned
  mu,         \* module.mu: the commands that hold it
  call,       \* the call each client is in, or its last one
  stage       \* the commands of each client's script

vars == <<gate, queue, closed, runtime, told, exited, maxFile, compiled, mu, call, stage>>

Op == {"Run", "ReadFile", "Close"}
CtxErr == {"Canceled", "DeadlineExceeded"}

\* pc is where the call stands; ctx is "live" or the value of ctx.Err(); err
\* is the result.  out, remaining and exceeded are the capture; lost is a
\* ghost that counts the bytes a command was not able to write.  cut is a ghost:
\* something of this call was cut short by the end of the context.  scriptErr is the
\* first error of the script, and quit a ghost: the script executed exit.  size is
\* the length of what ReadFile returned, and want a ghost, the length of the file.
Fresh == [pc |-> "idle", op |-> "Run", ctx |-> "live", err |-> "OK", exited |-> FALSE,
          out |-> 0, remaining |-> 0, exceeded |-> FALSE, lost |-> 0,
          cut |-> FALSE, scriptErr |-> "OK", quit |-> FALSE, size |-> 0, want |-> 0]

Dead(c) == call[c].ctx # "live"

-----------------------------------------------------------------------------
(* The gate *)

\* Receiving from a full channel hands the slot to the longest waiting
\* sender, which then continues behind its select.
Released(calls) ==
  IF queue = <<>> THEN calls
  ELSE [calls EXCEPT ![Head(queue)].pc = "recheck"]

unlock ==
  /\ gate' = IF queue = <<>> THEN gate - 1 ELSE gate
  /\ queue' = IF queue = <<>> THEN queue ELSE Tail(queue)

\* The caller has its result; of it the model keeps which call it was, and the error.
Returned(c, err) == [call EXCEPT ![c] = [Fresh EXCEPT !.op = call[c].op, !.err = err]]

\* A client makes a call, possibly with a context that has already ended.
Invoke(c, op, ctx) ==
  /\ call[c].pc = "idle"
  /\ call' = [call EXCEPT ![c] = [Fresh EXCEPT !.pc = "entry", !.op = op, !.ctx = ctx]]
  /\ UNCHANGED <<gate, queue, closed, runtime, told, exited, maxFile, compiled, mu, stage>>

\* The first check of ctx.Err() in lock.
LockEntry(c) ==
  /\ call[c].pc = "entry"
  /\ call' = IF Dead(c) THEN Returned(c, call[c].ctx)
             ELSE [call EXCEPT ![c].pc = "select"]
  /\ UNCHANGED <<gate, queue, closed, runtime, told, exited, maxFile, compiled, mu, stage>>

\* The select: with both channels ready either may be chosen, with neither
\* the caller queues up.
Select(c) ==
  /\ call[c].pc = "select"
  /\ \/ /\ gate = 0
        /\ gate' = 1
        /\ call' = [call EXCEPT ![c].pc = "recheck"]
        /\ UNCHANGED queue
     \/ /\ Dead(c)
        /\ call' = Returned(c, call[c].ctx)
        /\ UNCHANGED <<gate, queue>>
     \/ /\ gate > 0 /\ ~Dead(c)
        /\ queue' = Append(queue, c)
        /\ call' = [call EXCEPT ![c].pc = "queued"]
        /\ UNCHANGED gate
  /\ UNCHANGED <<closed, runtime, told, exited, maxFile, compiled, mu, stage>>

\* A queued caller whose context ends leaves the queue.
LeaveQueue(c) ==
  /\ call[c].pc = "queued"
  /\ Dead(c)
  /\ \E i \in 1..Len(queue) :
       /\ queue[i] = c
       /\ queue' = [j \in 1..(Len(queue) - 1) |->
                      IF j < i THEN queue[j] ELSE queue[j + 1]]
  /\ call' = Returned(c, call[c].ctx)
  /\ UNCHANGED <<gate, closed, runtime, told, exited, maxFile, compiled, mu, stage>>

\* Seeded fault: the gate is kept when the second check fails.
Recheck_Leak(c) ==
  /\ call[c].pc = "recheck"
  /\ call' = IF Dead(c) THEN Returned(c, call[c].ctx)
             ELSE [call EXCEPT ![c].pc = "body"]
  /\ UNCHANGED <<gate, queue, closed, runtime, told, exited, maxFile, compiled, mu, stage>>

\* The second check of ctx.Err(), with the gate taken.
Recheck(c) ==
  /\ call[c].pc = "recheck"
  /\ IF Dead(c)
     THEN call' = Released(Returned(c, call[c].ctx)) /\ unlock
     ELSE call' = [call EXCEPT ![c].pc = "body"] /\ UNCHANGED <<gate, queue>>
  /\ UNCHANGED <<closed, runtime, told, exited, maxFile, compiled, mu, stage>>

\* The deferred unlock, and the return to the caller.
Return(c) ==
  /\ call[c].pc = "return"
  /\ call' = Released(Returned(c, call[c].err))
  /\ unlock
  /\ UNCHANGED <<closed, runtime, told, exited, maxFile, compiled, mu, stage>>

Leaving(c, err) == [call EXCEPT ![c] = [@ EXCEPT !.pc = "return", !.err = err]]

-----------------------------------------------------------------------------
(* Contexts *)

\* The caller's context ends, and with it the one Run derived from it.
Cancel(c) ==
  /\ call[c].pc # "idle"
  /\ ~Dead(c)
  /\ call' = [call EXCEPT ![c].ctx = "Canceled"]
  /\ UNCHANGED <<gate, queue, closed, runtime, told, exited, maxFile, compiled, mu, stage>>

\* Seeded fault: the timeout starts when the gate has been taken.
Timeout_Late(c) ==
  /\ call[c].pc \notin {"idle", "entry", "select", "queued"}
  /\ call[c].op = "Run"
  /\ ~Dead(c)
  /\ call' = [call EXCEPT ![c].ctx = "DeadlineExceeded"]
  /\ UNCHANGED <<gate, queue, closed, runtime, told, exited, maxFile, compiled, mu, stage>>

\* The timeout of Run, which covers the wait for the gate as well.
Timeout(c) ==
  /\ call[c].pc # "idle"
  /\ call[c].op = "Run"
  /\ ~Dead(c)
  /\ call' = [call EXCEPT ![c].ctx = "DeadlineExceeded"]
  /\ UNCHANGED <<gate, queue, closed, runtime, told, exited, maxFile, compiled, mu, stage>>

-----------------------------------------------------------------------------
(* Close and ReadFile *)

\* Seeded fault: the session is marked closed, and the runtime closed later.
CloseBody_Early(c) ==
  /\ call[c].pc = "body" /\ call[c].op = "Close"
  /\ closed' = TRUE
  /\ call' = Leaving(c, "OK")
  /\ UNCHANGED <<gate, queue, runtime, told, exited, maxFile, compiled, mu, stage>>

\* Close marks the session, then closes the runtime.
CloseBody(c) ==
  /\ call[c].pc = "body" /\ call[c].op = "Close"
  /\ closed' = TRUE
  /\ call' = IF closed THEN Leaving(c, "OK") ELSE [call EXCEPT ![c].pc = "closing"]
  /\ UNCHANGED <<gate, queue, runtime, told, exited, maxFile, compiled, mu, stage>>

\* runtime.Close may fail, and the flag stays set all the same: no later Close
\* tries again.
CloseRuntime(c, err) ==
  /\ call[c].pc = "closing"
  /\ runtime' = IF err = "OK" THEN "closed" ELSE "broken"
  /\ told' = IF err = "OK" THEN told ELSE told + 1
  /\ call' = Leaving(c, err)
  /\ UNCHANGED <<gate, queue, closed, exited, maxFile, compiled, mu, stage>>

\* Seeded fault: the reader is limited to the very bytes that may be returned.
ReadBound_Exact == maxFile

\* One byte beyond the limit is read, so that a longer file is recognised.
ReadBound == IF maxFile < MaxInt THEN maxFile + 1 ELSE maxFile

\* ReadFile looks at the flag and calls the filesystem.
ReadFileBody(c) ==
  /\ call[c].pc = "body" /\ call[c].op = "ReadFile"
  /\ call' = IF closed THEN Leaving(c, "ErrClosed") ELSE [call EXCEPT ![c].pc = "reading"]
  /\ UNCHANGED <<gate, queue, closed, runtime, told, exited, maxFile, compiled, mu, stage>>

\* Open and ReadAll return.  The file is missing, or has the given size, of which
\* got bytes were read when the reader met its bound or the end, or failed; what
\* was read until then is returned with the error.
ReadAll(c, found, size, got, fails) ==
  LET read == IF size < ReadBound THEN size ELSE ReadBound IN
  /\ call[c].pc = "reading"
  /\ IF fails THEN got <= read ELSE got = read
  /\ call' = IF ~found THEN Leaving(c, "ErrNotExist")
             ELSE IF got > maxFile THEN Leaving(c, "ErrLimit")
             ELSE [call EXCEPT ![c] = [@ EXCEPT !.pc = "return",
                                                !.err = IF fails THEN "ReadError" ELSE "OK",
                                                !.size = got, !.want = size]]
  /\ UNCHANGED <<gate, queue, closed, runtime, told, exited, maxFile, compiled, mu, stage>>

-----------------------------------------------------------------------------
(* Run *)

\* Seeded fault: a closed session still runs scripts.
RunBody_Closed(c, fits) ==
  /\ call[c].pc = "body" /\ call[c].op = "Run"
  /\ IF ~fits
     THEN call' = Leaving(c, "ErrLimit") /\ UNCHANGED exited
     ELSE /\ call' = [call EXCEPT ![c] = [@ EXCEPT !.pc = "script", !.remaining = MaxOutput]]
          /\ exited' = FALSE
  /\ UNCHANGED <<gate, queue, closed, runtime, told, maxFile, compiled, mu, stage>>

\* The checks before the script, the new capture, and shell.Run's reset of
\* Exited.  fits says that the standard input is within MaxScript.
RunBody(c, fits) ==
  /\ call[c].pc = "body" /\ call[c].op = "Run"
  /\ IF closed
     THEN call' = Leaving(c, "ErrClosed") /\ UNCHANGED exited
     ELSE IF ~fits
     THEN call' = Leaving(c, "ErrLimit") /\ UNCHANGED exited
     ELSE /\ call' = [call EXCEPT ![c] = [@ EXCEPT !.pc = "script", !.remaining = MaxOutput]]
          /\ exited' = FALSE
  /\ UNCHANGED <<gate, queue, closed, runtime, told, maxFile, compiled, mu, stage>>

\* A statement of the script starts a command; step() refuses that once the
\* context has ended, and an error of the script stops all but the stages of
\* the same pipeline.  An embedded command needs its module; a builtin or a
\* custom handler does not.
StartCommand(c, s) ==
  /\ call[c].pc = "script"
  /\ stage[c][s] = "off"
  /\ ~Dead(c)
  /\ call[c].scriptErr = "OK" \/ \E t \in Stage : stage[c][t] # "off"
  /\ \E at \in {"compile", "handler"} : stage' = [stage EXCEPT ![c][s] = at]
  /\ UNCHANGED <<gate, queue, closed, runtime, told, exited, maxFile, compiled, mu, call>>

\* Seeded fault: the test of m.compiled is made without the mutex.
CompileEnter_Unlocked(c, s) ==
  /\ stage[c][s] = "compile"
  /\ IF compiled > 0
     THEN stage' = [stage EXCEPT ![c][s] = "exec"] /\ UNCHANGED mu
     ELSE stage' = [stage EXCEPT ![c][s] = "compiling"] /\ mu' = mu \cup {<<c, s>>}
  /\ UNCHANGED <<gate, queue, closed, runtime, told, exited, maxFile, compiled, call>>

\* module.compile under its mutex: a module already compiled is returned at
\* once, otherwise the mutex is held until CompileModule returns.
CompileEnter(c, s) ==
  /\ stage[c][s] = "compile"
  /\ mu = {}
  /\ IF compiled > 0
     THEN stage' = [stage EXCEPT ![c][s] = "exec"] /\ UNCHANGED mu
     ELSE stage' = [stage EXCEPT ![c][s] = "compiling"] /\ mu' = {<<c, s>>}
  /\ UNCHANGED <<gate, queue, closed, runtime, told, exited, maxFile, compiled, call>>

\* CompileModule may fail, for instance because the context ended; the module
\* then stays uncompiled and the command returns the error.
CompileExit(c, s) ==
  /\ stage[c][s] = "compiling"
  /\ mu' = mu \ {<<c, s>>}
  /\ \/ /\ compiled' = compiled + 1
        /\ stage' = [stage EXCEPT ![c][s] = "exec"]
     \/ /\ stage' = [stage EXCEPT ![c][s] = "failed"]
        /\ UNCHANGED compiled
  /\ UNCHANGED <<gate, queue, closed, runtime, told, exited, maxFile, call>>

Write(c, s, len) ==
  LET k == call[c] IN
  /\ stage[c][s] \in {"exec", "handler"}
  /\ call' = [call EXCEPT ![c] =
       IF len > k.remaining
       THEN [k EXCEPT !.out = k.out + k.remaining, !.remaining = 0, !.exceeded = TRUE,
                      !.lost = 1, !.ctx = IF Dead(c) THEN k.ctx ELSE "Canceled"]
       ELSE [k EXCEPT !.out = k.out + len, !.remaining = k.remaining - len]]
  /\ UNCHANGED <<gate, queue, closed, runtime, told, exited, maxFile, compiled, mu, stage>>

\* A command returns.  Shell.command turns a finished context into an error;
\* a custom handler may ignore it, and may also fail on its own.
EndCommand(c, s) ==
  LET k == call[c] IN
  /\ stage[c][s] \in {"exec", "handler", "failed"}
  /\ stage' = [stage EXCEPT ![c][s] = "off"]
  /\ \E err \in {"OK", "ScriptError"} :
       /\ stage[c][s] = "failed" => err = "ScriptError"
       /\ call' = [call EXCEPT ![c] =
            [k EXCEPT !.scriptErr = IF k.scriptErr # "OK" THEN k.scriptErr
                                    ELSE IF stage[c][s] = "exec" /\ Dead(c) THEN k.ctx
                                    ELSE err,
                      !.cut = k.cut \/ Dead(c)]]
  /\ UNCHANGED <<gate, queue, closed, runtime, told, exited, maxFile, compiled, mu>>

\* Seeded fault: the end of the context is reported before the output limit.
RunErr_CtxFirst(c) ==
  IF Dead(c) THEN call[c].ctx
  ELSE IF call[c].exceeded THEN "ErrOutputLimit"
  ELSE call[c].scriptErr

\* Seeded fault: the end of the context is left to the script to report.
RunErr_NoCtx(c) == IF call[c].exceeded THEN "ErrOutputLimit" ELSE call[c].scriptErr

\* What Run makes of the outcome: the output limit, whose cancel ended the
\* context, comes before the context's own error.
RunErr(c) ==
  IF call[c].exceeded THEN "ErrOutputLimit"
  ELSE IF Dead(c) THEN call[c].ctx
  ELSE call[c].scriptErr

\* The script ends: after its last statement or the error of a command, by
\* exit, or with an error of the shell itself (the parser, an expansion, or
\* a step() that is over the budget or finds the context ended).
EndScript(c, how) ==
  LET k == call[c] IN
  /\ k.pc = "script"
  /\ \A s \in Stage : stage[c][s] = "off"
  /\ how # "end" => k.scriptErr = "OK"
  /\ exited' = (exited \/ how = "exit")
  /\ call' = [call EXCEPT ![c] =
                [k EXCEPT !.pc = "finish",
                          !.scriptErr = IF how = "error" THEN "ScriptError" ELSE k.scriptErr,
                          !.cut = k.cut \/ (how = "error" /\ Dead(c)),
                          !.quit = (how = "exit")]]
  /\ UNCHANGED <<gate, queue, closed, runtime, told, maxFile, compiled, mu, stage>>

\* The result is put together while the gate is still held.
RunResult(c) ==
  /\ call[c].pc = "finish"
  /\ call' = [call EXCEPT ![c] = [@ EXCEPT !.pc = "return", !.err = RunErr(c),
                                           !.exited = exited]]
  /\ UNCHANGED <<gate, queue, closed, runtime, told, exited, maxFile, compiled, mu, stage>>

-----------------------------------------------------------------------------

\* A new session.  The module is coreutils, which New compiles, or another one,
\* which its first command will.
Init ==
  /\ gate = 0
  /\ queue = <<>>
  /\ closed = FALSE
  /\ runtime = "open"
  /\ told = 0
  /\ exited = FALSE
  /\ maxFile \in FileLimit
  /\ compiled \in {0, 1}
  /\ mu = {}
  /\ call = [c \in Client |-> Fresh]
  /\ stage = [c \in Client |-> [s \in Stage |-> "off"]]

LockStep(c) == LockEntry(c) \/ Select(c) \/ LeaveQueue(c) \/ Recheck(c) \/ Return(c)

BodyStep(c) ==
  \/ CloseBody(c)
  \/ \E err \in {"OK", "CloseError"} : CloseRuntime(c, err)
  \/ ReadFileBody(c)
  \/ \E fits \in BOOLEAN : RunBody(c, fits)
  \/ RunResult(c)

ReadReturns(c) ==
  \E found, fails \in BOOLEAN, size \in FileSize : \E got \in 0..size :
    ReadAll(c, found, size, got, fails)

ScriptReturns(c) == \E how \in {"end", "exit", "error"} : EndScript(c, how)

StageStep(c, s) ==
  \/ StartCommand(c, s)
  \/ CompileEnter(c, s)
  \/ CompileExit(c, s)
  \/ \E len \in WriteLen : Write(c, s, len)
  \/ EndCommand(c, s)

Next ==
  \E c \in Client :
    \/ \E op \in Op, ctx \in {"live", "Canceled"} : Invoke(c, op, ctx)
    \/ LockStep(c)
    \/ Cancel(c)
    \/ Timeout(c)
    \/ BodyStep(c) \/ ReadReturns(c) \/ ScriptReturns(c)
    \/ \E s \in Stage : StageStep(c, s)

Spec == Init /\ [][Next]_vars

\* A goroutine that can run does, a timer fires, and CompileModule returns.
\* Nothing is assumed of a call that is in a script or reads a file: a command,
\* a handler or an operation of a mounted filesystem may block for ever.
Fairness ==
  \A c \in Client :
    /\ WF_vars(LockStep(c))
    /\ WF_vars(Timeout(c))
    /\ WF_vars(BodyStep(c))
    /\ \A s \in Stage : WF_vars(CompileEnter(c, s)) /\ WF_vars(CompileExit(c, s))

FairSpec == Spec /\ Fairness

\* What the documentation asks of backends and handlers, and does not promise of
\* them: a filesystem operation returns, and so does a command, and the script
\* around it, once the context has ended (the runtime is built to stop a module
\* then, WithCloseOnContextDone).
BackendsReturn ==
  \A c \in Client :
    /\ WF_vars(ReadReturns(c))
    /\ WF_vars(Dead(c) /\ ScriptReturns(c))
    /\ \A s \in Stage : WF_vars(Dead(c) /\ EndCommand(c, s))

-----------------------------------------------------------------------------
(* Properties *)

CallType ==
  [pc: {"idle", "entry", "select", "queued", "recheck", "body", "closing",
        "reading", "script", "finish", "return"},
   op: Op, ctx: {"live"} \cup CtxErr,
   err: {"OK", "ErrClosed", "ErrLimit", "ErrNotExist", "ErrOutputLimit",
         "ScriptError", "CloseError", "ReadError"} \cup CtxErr,
   exited: BOOLEAN, out: Nat, remaining: Nat, exceeded: BOOLEAN, lost: Nat,
   cut: BOOLEAN, scriptErr: {"OK", "ScriptError"} \cup CtxErr,
   quit: BOOLEAN, size: Nat, want: Nat]

\* The types of the state; the gate is a channel of capacity one.
TypeOK ==
  /\ gate \in 0..1
  /\ queue \in Seq(Client)
  /\ closed \in BOOLEAN /\ exited \in BOOLEAN
  /\ runtime \in {"open", "closed", "broken"} /\ told \in Nat
  /\ maxFile \in FileLimit
  /\ compiled \in Nat
  /\ mu \subseteq Client \X Stage
  /\ call \in [Client -> CallType]
  /\ stage \in [Client -> [Stage -> {"off", "compile", "compiling", "exec",
                                     "handler", "failed"}]]

Inside == {"recheck", "body", "closing", "reading", "script", "finish", "return"}
Holders == {c \in Client : call[c].pc \in Inside}

\* The gate is exact: it holds a token exactly while one call is between
\* lock and unlock, so calls are serialised and no path (a context that ends
\* in the select, a refused check) keeps the token or returns it twice.
GateExact ==
  /\ \A c, d \in Holders : c = d
  /\ gate = 0 <=> Holders = {}

\* No command compiles or runs on a runtime that has been closed: Close waits
\* for the running script, and later calls see the flag.
RuntimeOutlivesCommands ==
  \A c \in Client, s \in Stage : stage[c][s] # "off" => runtime = "open"

\* After a Close that returned nil or the error of the runtime no script runs and
\* no file is read, so that mounts may be released, also when another Close did
\* the work.  An error of the runtime is returned by exactly one Close: nil means
\* that the runtime is closed, or else that another call has been told.
CloseIsFinal ==
  /\ told = IF runtime = "broken" THEN 1 ELSE 0
  /\ \A c \in Client :
       call[c].op = "Close" /\ call[c].pc \in {"return", "idle"}
         /\ call[c].err \in {"OK", "CloseError"}
       => /\ runtime # "open"
          /\ \A d \in Client : call[d].pc \notin {"script", "reading"}

\* Result.Exited is about the script of this call.  It is a field of the session
\* that every Run resets, sets and reads: an exit of an earlier script, or of one
\* that is run in between, must not show.
ExitedIsOwn ==
  \A c \in Client :
    call[c].op = "Run" /\ call[c].pc = "return" => call[c].exited = call[c].quit

\* stdout and stderr of all commands share one budget: what is captured plus
\* what remains is the limit at every moment, and Run reports ErrOutputLimit
\* exactly when some output was dropped, which fills the budget to the last byte,
\* even though dropping it also cancelled the context.
OutputExact ==
  \A c \in Client :
    /\ call[c].pc = "script" => call[c].out + call[c].remaining = MaxOutput
    /\ call[c].op = "Run" /\ call[c].pc = "return" =>
         /\ call[c].err = "ErrOutputLimit" <=> call[c].lost > 0
         /\ call[c].lost > 0 => call[c].out = MaxOutput

\* A Run that was interrupted never reports success, also when the command
\* that met the end of the context ignored it.
NoSuccessWhenCut ==
  \A c \in Client : call[c].op = "Run" /\ call[c].pc = "return" /\ call[c].cut
    => call[c].err # "OK"

\* A ReadFile without an error returns the file as a whole: neither reading up
\* to the limit nor a read that fails half way passes for reading to the end.
ReadFileWhole ==
  \A c \in Client :
    call[c].op = "ReadFile" /\ call[c].pc = "return" /\ call[c].err = "OK"
      => call[c].size = call[c].want

\* A module is compiled at most once, and no command runs without it.
CompiledOnce ==
  /\ compiled <= 1
  /\ \A c \in Client, s \in Stage : stage[c][s] = "exec" => compiled = 1

\* Every call returns, provided that backends and handlers do: the gate is handed
\* on in order, a Run stops at its timeout, and nothing waits forever behind it.
CallsReturn ==
  BackendsReturn => \A c \in Client : call[c].pc # "idle" ~> call[c].pc = "idle"

\* A Run never waits for the gate longer than its timeout, even behind a call
\* that a backend blocks forever.
WaitsEnd ==
  \A c \in Client :
    call[c].op = "Run" /\ call[c].pc \in {"entry", "select", "queued"}
      ~> call[c].pc \notin {"entry", "select", "queued"}
=============================================================================
