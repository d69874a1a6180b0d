---------------------------- MODULE SessionProofs ---------------------------
(***************************************************************************)
(* Proofs about Session, for any number of callers and commands, every      *)
(* output budget, file limit and file size.                                 *)
(***************************************************************************)
EXTENDS Session, SequenceTheorems, TLAPS

-----------------------------------------------------------------------------
(* Type correctness *)

LEMMA FreshType == Fresh \in CallType
BY DEF Fresh, CallType, Op, CtxErr

\* A step of the gate leaves a queue of callers, and changes no more of a call
\* than where it stands.
LEMMA UnlockType ==
  ASSUME TypeOK, NEW calls \in [Client -> CallType], gate = 1, unlock
  PROVE  gate' \in 0..1 /\ queue' \in Seq(Client) /\ Released(calls) \in [Client -> CallType]
<1>1. CASE queue = <<>>
  BY <1>1 DEF TypeOK, unlock, Released
<1>2. CASE queue # <<>>
  <2>1. Head(queue) \in Client /\ Tail(queue) \in Seq(Client)
    BY <1>2, HeadTailProperties DEF TypeOK
  <2>2. [calls[Head(queue)] EXCEPT !.pc = "recheck"] \in CallType
    <3>1. PICK r \in CallType : r = calls[Head(queue)]
      BY <2>1
    <3>2. [r EXCEPT !.pc = "recheck"] \in CallType
      BY DEF CallType
    <3> QED
      BY <3>1, <3>2
  <2>3. Released(calls) = [calls EXCEPT ![Head(queue)] = [calls[Head(queue)] EXCEPT !.pc = "recheck"]]
    BY <1>2, <2>1 DEF Released
  <2> QED
    BY <1>2, <2>1, <2>2, <2>3 DEF TypeOK, unlock
<1> QED
  BY <1>1, <1>2

-----------------------------------------------------------------------------
(* One call *)

Before == {"entry", "select", "queued", "recheck", "body", "closing", "reading"}
Working == {"script", "finish"}
Ended == {"return", "idle"}

\* What a call has done at each point: nothing before its script; then the
\* capture is exact and a cut call has a dead context; in the end the error
\* accounts for both.
CallOK(k) ==
  /\ k.pc \in Before =>
       /\ k.out = 0 /\ k.lost = 0 /\ ~k.exceeded /\ ~k.cut
       /\ ~k.quit /\ ~k.exited /\ k.size = 0 /\ k.want = 0
  /\ k.pc = "closing" => k.op = "Close"
  /\ k.pc = "reading" => k.op = "ReadFile"
  /\ k.pc \in Working =>
       /\ k.op = "Run"
       /\ k.out + k.remaining = MaxOutput
       /\ k.exceeded <=> k.lost > 0
       /\ k.exceeded => k.remaining = 0
       /\ k.cut => k.ctx # "live"
       /\ k.pc = "script" => ~k.quit
  /\ k.pc = "return" /\ k.op = "Run" =>
       /\ k.err = "ErrOutputLimit" <=> k.lost > 0
       /\ k.lost > 0 => k.out = MaxOutput
       /\ k.cut => k.err # "OK"
       /\ k.exited = k.quit
  /\ k.pc = "return" /\ k.op = "ReadFile" /\ k.err = "OK" => k.size = k.want

CallInv == \A c \in Client : CallOK(call[c])

\* The call of c becomes k, and no other call changes.
Becomes(c, k) == k \in CallType /\ CallOK(k) /\ call' = [call EXCEPT ![c] = k]

LEMMA OneCall ==
  ASSUME TypeOK, CallInv, NEW c \in Client, NEW k, Becomes(c, k)
  PROVE  call' \in [Client -> CallType] /\ CallInv'
BY DEF TypeOK, CallInv, Becomes

LEMMA ThisCall ==
  ASSUME TypeOK, CallInv, NEW c \in Client
  PROVE  call[c] \in CallType /\ CallOK(call[c])
BY DEF TypeOK, CallInv

\* A call that has not reached its script may move on.
LEMMA MoveCall ==
  ASSUME TypeOK, CallInv, NEW c \in Client, call[c].pc \in Before,
         NEW pc \in Before, pc = "closing" => call[c].op = "Close",
         pc = "reading" => call[c].op = "ReadFile",
         call' = [call EXCEPT ![c].pc = pc]
  PROVE  \E k : Becomes(c, k) /\ k.pc = pc /\ k.op = call[c].op
<1>1. PICK k \in CallType : k = call[c] /\ CallOK(k)
  BY ThisCall
<1> DEFINE new == [k EXCEPT !.pc = pc]
<1>2. new \in CallType
  BY DEF CallType, Before
<1>3. CallOK(new) /\ new.pc = pc /\ new.op = k.op
  BY <1>1 DEF CallType, CallOK, Before, Working, Ended
<1> QED
  BY <1>1, <1>2, <1>3 DEF Becomes

Refusal == {"OK", "ErrClosed", "ErrLimit", "ErrNotExist", "CloseError", "ReadError"} \cup CtxErr

\* The call of c ends, or has only its unlock before it.
Ends(c, pc, err) == call' = [call EXCEPT ![c] = [call[c] EXCEPT !.pc = pc, !.err = err]]

\* A call that has not reached its script may end with any error but the one
\* that speaks of its output.
LEMMA LeaveCall ==
  ASSUME TypeOK, CallInv, NEW c \in Client, call[c].pc \in Before,
         NEW pc \in Ended,
         NEW err \in Refusal,
         Ends(c, pc, err)
  PROVE  \E k : Becomes(c, k) /\ k.pc = pc /\ k.err = err /\ k.op = call[c].op
<1>1. PICK k \in CallType : k = call[c] /\ CallOK(k)
  BY ThisCall
<1> DEFINE new == [k EXCEPT !.pc = pc, !.err = err]
<1>2. new \in CallType
  BY DEF CallType, Ended, Refusal, CtxErr
<1>3. CallOK(new) /\ new.pc = pc /\ new.err = err /\ new.op = k.op
  BY <1>1 DEF CallType, CallOK, Before, Working, Ended, Refusal, CtxErr
<1> QED
  BY <1>1, <1>2, <1>3 DEF Becomes, Ends

LEMMA CancelCall ==
  ASSUME TypeOK, CallInv, NEW c \in Client, Cancel(c) \/ Timeout(c)
  PROVE  \E k : /\ Becomes(c, k)
                /\ k.pc = call[c].pc /\ k.op = call[c].op /\ k.err = call[c].err
                /\ k.quit = call[c].quit
<1>1. PICK k \in CallType : k = call[c] /\ CallOK(k)
  BY ThisCall
<1>2. PICK x \in CtxErr : call' = [call EXCEPT ![c] = [k EXCEPT !.ctx = x]]
  BY <1>1 DEF Cancel, Timeout, TypeOK, CtxErr
<1> DEFINE new == [k EXCEPT !.ctx = x]
<1>3. new \in CallType
  BY DEF CallType
<1>4. CallOK(new) /\ new.pc = k.pc /\ new.op = k.op /\ new.err = k.err /\ new.quit = k.quit
  BY <1>1 DEF CallType, CallOK, CtxErr
<1> QED
  BY <1>1, <1>2, <1>3, <1>4 DEF Becomes

LEMMA InvokeCall ==
  ASSUME TypeOK, CallInv, NEW c \in Client, NEW op \in Op, NEW ctx \in {"live", "Canceled"},
         Invoke(c, op, ctx)
  PROVE  \E k : Becomes(c, k) /\ k.pc = "entry"
<1> DEFINE new == [Fresh EXCEPT !.pc = "entry", !.op = op, !.ctx = ctx]
<1>1. new \in CallType
  BY FreshType DEF CallType, CtxErr
<1>2. CallOK(new) /\ new.pc = "entry"
  BY DEF Fresh, CallOK, Before, Working, Ended
<1> QED
  BY <1>1, <1>2 DEF Becomes, Invoke

\* What is read within the limit, without an error, is the whole file.
LEMMA ReadAllCall ==
  ASSUME TypeOK, CallInv, NEW c \in Client, NEW found \in BOOLEAN, NEW fails \in BOOLEAN,
         NEW size \in FileSize, NEW got \in 0..size, ReadAll(c, found, size, got, fails)
  PROVE  \E k : Becomes(c, k) /\ k.pc = "return" /\ k.op = "ReadFile"
<1>1. PICK k \in CallType : k = call[c] /\ CallOK(k)
  BY ThisCall
<1>2. k.pc = "reading" /\ k.op = "ReadFile"
  BY <1>1 DEF ReadAll, CallOK
<1>3. /\ size \in Nat /\ size <= MaxInt /\ maxFile \in Nat /\ maxFile <= MaxInt
      /\ MaxInt \in Nat /\ got \in Nat
  BY SessionAssumption DEF TypeOK
<1> DEFINE read == IF size < ReadBound THEN size ELSE ReadBound
<1>4. read > maxFile \/ read = size
  BY <1>3 DEF ReadBound
<1>5. CASE found /\ ~(got > maxFile)
  <2>1. PICK err \in {"OK", "ReadError"} : err = IF fails THEN "ReadError" ELSE "OK"
    OBVIOUS
  <2> DEFINE new == [k EXCEPT !.pc = "return", !.err = err, !.size = got, !.want = size]
  <2>2. call' = [call EXCEPT ![c] = new]
    BY <1>1, <1>5, <2>1 DEF ReadAll
  <2>3. err = "OK" => got = size
    BY <1>3, <1>4, <1>5, <2>1 DEF ReadAll
  <2>4. new \in CallType
    <3>1. [k EXCEPT !.pc = "return", !.err = err] \in CallType
      BY DEF CallType
    <3> QED
      BY <1>3, <3>1 DEF CallType
  <2>5. /\ new.pc = "return" /\ new.op = "ReadFile" /\ new.err = err
        /\ new.size = got /\ new.want = size
    BY <1>2 DEF CallType
  <2> HIDE DEF new
  <2>6. CallOK(new)
    BY <2>3, <2>5 DEF CallOK, Before, Working, Ended
  <2> QED
    BY <2>2, <2>4, <2>5, <2>6 DEF Becomes
<1>6. CASE ~(found /\ ~(got > maxFile))
  <2>1. PICK err \in {"ErrNotExist", "ErrLimit"} : Ends(c, "return", err)
    BY <1>6 DEF ReadAll, Leaving, Ends
  <2>2. call[c].pc \in Before /\ "return" \in Ended /\ err \in Refusal
    BY <1>1, <1>2 DEF Before, Ended, Refusal
  <2>3. \E new : /\ Becomes(c, new) /\ new.pc = "return" /\ new.err = err
                 /\ new.op = call[c].op
    BY <2>1, <2>2, LeaveCall
  <2> QED
    BY <1>1, <1>2, <2>3
<1> QED
  BY <1>5, <1>6

\* A script starts with an empty capture.
LEMMA RunBodyCall ==
  ASSUME TypeOK, CallInv, NEW c \in Client, NEW fits \in BOOLEAN, RunBody(c, fits)
  PROVE  \E k : /\ Becomes(c, k) /\ k.op = "Run"
                /\ k.pc = "return" \/ (k.pc = "script" /\ ~closed /\ ~exited')
<1>1. PICK k \in CallType : k = call[c] /\ CallOK(k)
  BY ThisCall
<1>2. k.pc = "body" /\ k.op = "Run"
  BY <1>1 DEF RunBody
<1>3. CASE ~closed /\ fits
  <2> DEFINE new == [k EXCEPT !.pc = "script", !.remaining = MaxOutput]
  <2>1. call' = [call EXCEPT ![c] = new]
    BY <1>1, <1>3 DEF RunBody
  <2>2. new \in CallType
    BY SessionAssumption DEF CallType
  <2>3. CallOK(new) /\ new.pc = "script" /\ new.op = "Run"
    BY <1>1, <1>2, SessionAssumption DEF CallType, CallOK, Before, Working, Ended
  <2>4. ~exited'
    BY <1>3, Zenon DEF RunBody
  <2>5. Becomes(c, new)
    BY <2>1, <2>2, <2>3 DEF Becomes
  <2> HIDE DEF new
  <2> QED
    BY <1>3, <2>3, <2>4, <2>5
<1>4. CASE ~(~closed /\ fits)
  <2>1. PICK err \in {"ErrClosed", "ErrLimit"} :
          Ends(c, "return", err)
    BY <1>4 DEF RunBody, Leaving, Ends
  <2>2. call[c].pc \in Before /\ "return" \in Ended /\ err \in Refusal
    BY <1>1, <1>2 DEF Before, Ended, Refusal
  <2>3. \E new : /\ Becomes(c, new) /\ new.pc = "return" /\ new.err = err
                 /\ new.op = call[c].op
    BY <2>1, <2>2, LeaveCall
  <2> QED
    BY <1>1, <1>2, <2>3
<1> QED
  BY <1>3, <1>4

\* A write takes what fits from the budget; what does not fit cancels the call.
LEMMA WriteCall ==
  ASSUME TypeOK, CallInv, NEW c \in Client, NEW s \in Stage, NEW len \in WriteLen,
         call[c].pc = "script", Write(c, s, len)
  PROVE  \E k : Becomes(c, k) /\ k.pc = "script" /\ k.op = call[c].op /\ k.quit = call[c].quit
<1>1. PICK k \in CallType : k = call[c] /\ CallOK(k)
  BY ThisCall
<1>2. k.out \in Nat /\ k.remaining \in Nat /\ len \in Nat
  BY SessionAssumption DEF CallType
<1>3. CASE len > k.remaining
  <2>1. PICK x \in CtxErr : x = IF Dead(c) THEN k.ctx ELSE "Canceled"
    BY <1>1 DEF Dead, CtxErr, CallType
  <2> DEFINE new == [k EXCEPT !.out = k.out + k.remaining, !.remaining = 0, !.exceeded = TRUE,
                              !.lost = 1, !.ctx = x]
  <2>2. call' = [call EXCEPT ![c] = new]
    BY <1>1, <1>3, <2>1 DEF Write
  <2>3. k.out + k.remaining \in Nat /\ x \in {"live"} \cup CtxErr
    BY <1>2
  <2>4. new \in CallType
    BY <2>3 DEF CallType
  <2>5. CallOK(new) /\ new.pc = k.pc /\ new.op = k.op /\ new.quit = k.quit
    BY <1>1, <1>3, SessionAssumption DEF CallType, CallOK, CtxErr, Before, Working, Ended
  <2> QED
    BY <1>1, <2>2, <2>4, <2>5 DEF Becomes
<1>4. CASE ~(len > k.remaining)
  <2> DEFINE new == [k EXCEPT !.out = k.out + len, !.remaining = k.remaining - len]
  <2>1. call' = [call EXCEPT ![c] = new]
    BY <1>1, <1>4 DEF Write
  <2>2. k.out + len \in Nat /\ k.remaining - len \in Nat
    BY <1>2, <1>4
  <2>3. new \in CallType
    BY <2>2 DEF CallType
  <2>4. CallOK(new) /\ new.pc = k.pc /\ new.op = k.op /\ new.quit = k.quit
    BY <1>1, <1>2, <1>4, SessionAssumption DEF CallType, CallOK, Before, Working, Ended
  <2> QED
    BY <1>1, <2>1, <2>3, <2>4 DEF Becomes
<1> QED
  BY <1>3, <1>4

\* A command that meets the end of the context leaves its mark on the call.
LEMMA EndCommandCall ==
  ASSUME TypeOK, CallInv, NEW c \in Client, NEW s \in Stage,
         call[c].pc = "script", EndCommand(c, s)
  PROVE  \E k : Becomes(c, k) /\ k.pc = "script" /\ k.op = call[c].op /\ k.quit = call[c].quit
<1>1. PICK k \in CallType : k = call[c] /\ CallOK(k)
  BY ThisCall
<1>2. PICK e \in {"OK", "ScriptError"} \cup CtxErr, cut \in BOOLEAN :
        /\ cut <=> k.cut \/ k.ctx # "live"
        /\ call' = [call EXCEPT ![c] = [k EXCEPT !.scriptErr = e, !.cut = cut]]
  <2>1. PICK err \in {"OK", "ScriptError"} :
          call' = [call EXCEPT ![c] =
            [k EXCEPT !.scriptErr = IF k.scriptErr # "OK" THEN k.scriptErr
                                    ELSE IF stage[c][s] = "exec" /\ Dead(c) THEN k.ctx
                                    ELSE err,
                      !.cut = k.cut \/ Dead(c)]]
    BY <1>1 DEF EndCommand
  <2>2. PICK cut \in BOOLEAN : cut = (k.cut \/ Dead(c))
    BY DEF CallType
  <2>3. Dead(c) <=> k.ctx # "live"
    BY <1>1 DEF Dead
  <2>4. k.scriptErr \in {"OK", "ScriptError"} \cup CtxErr /\ k.ctx \in {"live"} \cup CtxErr
    BY DEF CallType
  <2>5. PICK e \in {"OK", "ScriptError"} \cup CtxErr :
          e = IF k.scriptErr # "OK" THEN k.scriptErr
              ELSE IF stage[c][s] = "exec" /\ Dead(c) THEN k.ctx ELSE err
    BY <2>3, <2>4
  <2> QED
    BY <2>1, <2>2, <2>3, <2>5
<1> DEFINE new == [k EXCEPT !.scriptErr = e, !.cut = cut]
<1>3. new \in CallType
  BY DEF CallType
<1>4. CallOK(new) /\ new.pc = k.pc /\ new.op = k.op /\ new.quit = k.quit
  BY <1>1, <1>2 DEF CallType, CallOK, Before, Working, Ended
<1> QED
  BY <1>1, <1>2, <1>3, <1>4 DEF Becomes

LEMMA EndScriptCall ==
  ASSUME TypeOK, CallInv, NEW c \in Client, NEW how \in {"end", "exit", "error"},
         EndScript(c, how)
  PROVE  \E k : Becomes(c, k) /\ k.pc = "finish" /\ k.op = call[c].op /\ k.quit = (how = "exit")
<1>1. PICK k \in CallType : k = call[c] /\ CallOK(k)
  BY ThisCall
<1>2. PICK e \in {"OK", "ScriptError"} \cup CtxErr, cut \in BOOLEAN, q \in BOOLEAN :
        /\ cut => k.cut \/ k.ctx # "live"
        /\ q = (how = "exit")
        /\ call' = [call EXCEPT ![c] = [k EXCEPT !.pc = "finish", !.scriptErr = e, !.cut = cut,
                                                !.quit = q]]
  BY <1>1 DEF EndScript, CallType, CtxErr, Dead
<1> DEFINE new == [k EXCEPT !.pc = "finish", !.scriptErr = e, !.cut = cut, !.quit = q]
<1>3. new \in CallType
  BY DEF CallType
<1>4. k.pc = "script"
  BY <1>1 DEF EndScript
<1>5. CallOK(new) /\ new.pc = "finish" /\ new.op = k.op /\ new.quit = q
  BY <1>1, <1>2, <1>4 DEF CallType, CallOK, Before, Working, Ended
<1> QED
  BY <1>1, <1>2, <1>3, <1>5 DEF Becomes

\* The result accounts for lost output and for a call that was cut short.
LEMMA RunResultCall ==
  ASSUME TypeOK, CallInv, NEW c \in Client, RunResult(c), exited = call[c].quit
  PROVE  \E k : Becomes(c, k) /\ k.pc = "return" /\ k.op = "Run"
<1>1. PICK k \in CallType : k = call[c] /\ CallOK(k)
  BY ThisCall
<1>2. PICK e \in {"OK", "ScriptError", "ErrOutputLimit"} \cup CtxErr, x \in BOOLEAN :
        /\ e = "ErrOutputLimit" <=> k.exceeded
        /\ k.ctx # "live" => e # "OK"
        /\ x = k.quit
        /\ call' = [call EXCEPT ![c] = [k EXCEPT !.pc = "return", !.err = e, !.exited = x]]
  BY <1>1 DEF RunResult, RunErr, CallType, CtxErr, Dead, TypeOK
<1> DEFINE new == [k EXCEPT !.pc = "return", !.err = e, !.exited = x]
<1>3. new \in CallType
  BY DEF CallType, CtxErr
<1>4. k.pc = "finish"
  BY <1>1 DEF RunResult
<1>5. CallOK(new) /\ new.pc = "return" /\ new.op = "Run"
  BY <1>1, <1>2, <1>4, SessionAssumption DEF CallType, CallOK, Before, Working, Ended
<1> QED
  BY <1>2, <1>3, <1>5 DEF Becomes

-----------------------------------------------------------------------------
(* The gate, the life of the runtime, and the module cache *)

\* Waiting callers stand in the queue once.  Without this the token could be
\* handed to a caller that is not waiting for it.
GateInv ==
  /\ GateExact
  /\ \A i \in 1..Len(queue) : call[queue[i]].pc = "queued"
  /\ \A i, j \in 1..Len(queue) : queue[i] = queue[j] => i = j

\* Between the flag and the end of the runtime the closing call holds the
\* gate; a script or a read has found the flag unset; and Exited is that of the
\* script whose result is being put together.
CloseSeen(k) == k.op = "Close" /\ k.pc \in Ended /\ k.err \in {"OK", "CloseError"}

LifeInv ==
  /\ runtime # "open" => closed
  /\ closed /\ runtime = "open" => \E c \in Client : call[c].pc = "closing"
  /\ told = IF runtime = "broken" THEN 1 ELSE 0
  /\ \A c \in Client :
       /\ call[c].pc = "closing" => closed /\ runtime = "open"
       /\ call[c].pc \in {"script", "reading"} => ~closed
       /\ call[c].pc = "script" => ~exited
       /\ call[c].pc = "finish" => exited = call[c].quit
       /\ CloseSeen(call[c]) => runtime # "open"
  /\ \A c \in Client, s \in Stage : stage[c][s] # "off" => call[c].pc = "script"

\* The mutex is held exactly by a command that compiles, and only before the
\* module is there.
CompileInv ==
  /\ compiled <= 1
  /\ \A m \in mu : m \in Client \X Stage
  /\ \A c \in Client, s \in Stage : stage[c][s] = "compiling" => <<c, s>> \in mu
  /\ \A m, n \in mu : m = n
  /\ mu # {} => compiled = 0
  /\ \A c \in Client, s \in Stage : stage[c][s] = "exec" => compiled = 1

SessionInv == TypeOK /\ CallInv /\ GateInv /\ LifeInv /\ CompileInv

\* A call moves without the gate being touched.
LEMMA GateMove ==
  ASSUME TypeOK, GateInv, NEW c \in Client, NEW k, Becomes(c, k),
         \/ k.pc = call[c].pc
         \/ /\ call[c].pc # "queued" /\ k.pc # "queued"
            /\ call[c].pc \in Inside <=> k.pc \in Inside,
         UNCHANGED <<gate, queue>>
  PROVE  GateInv'
<1>1. Holders' = Holders
  BY DEF Becomes, Holders, Inside, TypeOK
<1>2. GateExact'
  BY <1>1 DEF GateInv, GateExact
<1>3. (\A i \in 1..Len(queue) : call[queue[i]].pc = "queued")'
  BY DEF GateInv, Becomes, TypeOK
<1> QED
  BY <1>2, <1>3 DEF GateInv

\* What a call cannot come to without the session looking at its flag or its
\* shell.
Busy == {"closing", "reading", "script", "finish"}

\* A call moves without the session being opened or closed.
LEMMA LifeMove ==
  ASSUME TypeOK, LifeInv, NEW c \in Client, NEW k, Becomes(c, k),
         \/ k.pc = call[c].pc /\ k.quit = call[c].quit
         \/ call[c].pc \notin {"closing", "script"} /\ k.pc \notin Busy,
         CloseSeen(k) => runtime # "open",
         UNCHANGED <<closed, runtime, told, exited, stage>>
  PROVE  LifeInv'
<1>1. call[c] \in CallType /\ k \in CallType /\ call' = [call EXCEPT ![c] = k]
  BY DEF Becomes, TypeOK
<1>2. \A d \in Client : /\ d # c => call'[d] = call[d]
                        /\ call'[c] = k
  BY <1>1 DEF TypeOK
<1>3. ASSUME NEW d \in Client
      PROVE  /\ call'[d].pc = "closing" => closed /\ runtime = "open"
             /\ call'[d].pc \in {"script", "reading"} => ~closed
             /\ call'[d].pc = "script" => ~exited
             /\ call'[d].pc = "finish" => exited = call'[d].quit
             /\ CloseSeen(call'[d]) => runtime # "open"
  <2>1. CASE d # c
    BY <1>2, <2>1 DEF LifeInv
  <2>2. CASE d = c
    BY <1>2, <2>2 DEF LifeInv, Busy
  <2> QED
    BY <2>1, <2>2
<1>4. \A d \in Client : call[d].pc \in {"closing", "script"} => call'[d].pc = call[d].pc
  BY <1>2
<1> QED
  BY <1>3, <1>4 DEF LifeInv

\* The token goes to the caller that waited longest, or back.
LEMMA UnlockCalls ==
  ASSUME TypeOK, CallInv, GateInv, NEW c \in Client, call[c].pc \in Inside,
         NEW k \in CallType, CallOK(k), k.pc = "idle",
         call' = Released([call EXCEPT ![c] = k]), unlock
  PROVE  /\ gate' \in 0..1 /\ queue' \in Seq(Client) /\ call' \in [Client -> CallType]
         /\ CallInv'
         /\ GateInv'
         /\ call'[c] = k
         /\ \A d \in Client \ {c} :
              \/ call'[d] = call[d]
              \/ call[d].pc = "queued" /\ call'[d].pc = "recheck"
<1>1. c \in Holders
  BY DEF Holders
<1>2. gate = 1
  BY <1>1 DEF GateInv, GateExact, TypeOK
<1>3. [call EXCEPT ![c] = k] \in [Client -> CallType]
  BY DEF TypeOK
<1>4. gate' \in 0..1 /\ queue' \in Seq(Client) /\ call' \in [Client -> CallType]
  BY <1>2, <1>3, UnlockType
<1>5. CASE queue = <<>>
  <2>1. call' = [call EXCEPT ![c] = k] /\ gate' = 0 /\ queue' = queue
    BY <1>2, <1>5 DEF Released, unlock
  <2>2. Holders' = {}
    BY <1>1, <2>1 DEF GateInv, GateExact, Holders, Inside, TypeOK
  <2>3. GateInv'
    BY <1>5, <2>1, <2>2 DEF GateInv, GateExact
  <2> QED
    BY <1>4, <2>1, <2>3 DEF CallInv, TypeOK
<1>6. CASE queue # <<>>
  <2> DEFINE h == Head(queue)
  <2>1. /\ h \in Client /\ h = queue[1] /\ Len(queue) \in Nat /\ Len(queue) > 0
        /\ Len(Tail(queue)) = Len(queue) - 1
        /\ \A i \in 1..Len(Tail(queue)) : Tail(queue)[i] = queue[i + 1]
    BY <1>6, HeadTailProperties, EmptySeq DEF TypeOK
  <2>2. call[h].pc = "queued" /\ h # c
    BY <2>1 DEF GateInv, Inside
  <2> HIDE DEF h
  <2>3. /\ call' = [[call EXCEPT ![c] = k] EXCEPT ![h].pc = "recheck"]
        /\ gate' = 1 /\ queue' = Tail(queue)
    BY <1>2, <1>6 DEF Released, unlock, h
  <2>4. call'[c] = k /\ call'[h] = [call[h] EXCEPT !.pc = "recheck"]
    BY <2>1, <2>2, <2>3 DEF TypeOK
  <2>5. \A d \in Client \ {c, h} : call'[d] = call[d]
    BY <2>1, <2>3 DEF TypeOK
  <2>6. CallOK(call'[h]) /\ call'[h].pc = "recheck"
    <3>1. PICK r \in CallType : r = call[h] /\ CallOK(r) /\ r.pc = "queued"
      BY <2>1, <2>2, ThisCall
    <3>2. CallOK([r EXCEPT !.pc = "recheck"]) /\ [r EXCEPT !.pc = "recheck"].pc = "recheck"
      BY <3>1 DEF CallType, CallOK, Before, Working, Ended
    <3> QED
      BY <2>4, <3>1, <3>2
  <2>7. CallInv'
    BY <2>4, <2>5, <2>6 DEF CallInv
  <2>8. Holders' = {h}
    <3>1. \A d \in Client \ {c} : call[d].pc \notin Inside
      BY <1>1 DEF GateInv, GateExact, Holders
    <3>2. call'[h].pc \in Inside /\ call'[c].pc \notin Inside
      BY <2>4, <2>6 DEF Inside
    <3>3. \A d \in Client \ {h} : call'[d].pc \notin Inside
      BY <2>5, <3>1, <3>2
    <3> QED
      BY <2>1, <3>2, <3>3 DEF Holders
  <2>9. GateInv'
    <3>1. GateExact'
      BY <2>3, <2>8 DEF GateExact
    <3>2. \A i \in 1..Len(queue') : /\ i + 1 \in 1..Len(queue)
                                    /\ queue'[i] = queue[i + 1]
                                    /\ call'[queue'[i]].pc = "queued"
      <4> TAKE i \in 1..Len(queue')
      <4>1. i + 1 \in 1..Len(queue) /\ queue'[i] = queue[i + 1] /\ i + 1 # 1
        BY <2>1, <2>3
      <4>2. queue[i + 1] # h /\ call[queue[i + 1]].pc = "queued"
        BY <2>1, <4>1 DEF GateInv
      <4>3. queue[i + 1] \in Client
        BY <4>1 DEF TypeOK
      <4> QED
        BY <2>5, <4>1, <4>2, <4>3 DEF Inside
    <3>3. ASSUME NEW i \in 1..Len(queue'), NEW j \in 1..Len(queue'), queue'[i] = queue'[j]
          PROVE  i = j
      <4>1. i + 1 = j + 1
        BY <3>2, <3>3 DEF GateInv
      <4> QED
        BY <2>1, <2>3, <4>1
    <3> QED
      BY <3>1, <3>2, <3>3 DEF GateInv
  <2> QED
    BY <1>4, <2>2, <2>4, <2>5, <2>6, <2>7, <2>9
<1> QED
  BY <1>5, <1>6

-----------------------------------------------------------------------------
(* The steps *)

LEMMA CompileFrame ==
  ASSUME CompileInv, UNCHANGED <<compiled, mu, stage>>
  PROVE  CompileInv'
BY DEF CompileInv

\* A call moves without anything else of the session being touched.
LEMMA Move ==
  ASSUME SessionInv, NEW c \in Client, NEW k, Becomes(c, k),
         \/ k.pc = call[c].pc /\ k.quit = call[c].quit
         \/ /\ call[c].pc # "queued" /\ k.pc # "queued"
            /\ call[c].pc \in Inside <=> k.pc \in Inside
            /\ call[c].pc \notin {"closing", "script"} /\ k.pc \notin Busy,
         CloseSeen(k) => runtime # "open",
         UNCHANGED <<gate, queue, closed, runtime, told, exited, maxFile, compiled, mu, stage>>
  PROVE  SessionInv'
<1>1. TypeOK' /\ CallInv'
  BY OneCall DEF SessionInv, TypeOK
<1>2. GateInv'
  BY GateMove DEF SessionInv
<1>3. LifeInv'
  BY LifeMove DEF SessionInv
<1>4. CompileInv'
  BY CompileFrame DEF SessionInv
<1> QED
  BY <1>1, <1>2, <1>3, <1>4 DEF SessionInv

LEMMA CloseDone ==
  ASSUME LifeInv, NEW c \in Client
  PROVE  CloseSeen(call[c]) => runtime # "open"
BY DEF LifeInv

LEMMA InvokeStep ==
  ASSUME SessionInv, NEW c \in Client, NEW op \in Op, NEW ctx \in {"live", "Canceled"},
         Invoke(c, op, ctx)
  PROVE  SessionInv'
<1>1. PICK k : Becomes(c, k) /\ k.pc = "entry"
  BY InvokeCall DEF SessionInv
<1>2. call[c].pc = "idle"
  BY DEF Invoke
<1> QED
  BY <1>1, <1>2, Move DEF Invoke, Inside, Ended, Busy, CloseSeen

LEMMA CancelStep ==
  ASSUME SessionInv, NEW c \in Client, Cancel(c) \/ Timeout(c)
  PROVE  SessionInv'
<1>1. PICK k : /\ Becomes(c, k)
               /\ k.pc = call[c].pc /\ k.op = call[c].op /\ k.err = call[c].err
               /\ k.quit = call[c].quit
  BY CancelCall DEF SessionInv
<1>2. CloseSeen(k) => runtime # "open"
  BY <1>1, CloseDone DEF SessionInv, CloseSeen
<1>3. UNCHANGED <<gate, queue, closed, runtime, told, exited, maxFile, compiled, mu, stage>>
  BY DEF Cancel, Timeout
<1> QED
  BY <1>1, <1>2, <1>3, Move

\* The record of a call whose caller has the result.
LEMMA ReturnedCall ==
  ASSUME TypeOK, NEW c \in Client,
         NEW err \in Refusal \cup {"ErrOutputLimit", "ScriptError"}
  PROVE  \E k \in CallType : /\ CallOK(k) /\ k.pc = "idle" /\ k.err = err /\ k.op = call[c].op
                             /\ Returned(c, err) = [call EXCEPT ![c] = k]
<1>1. PICK op \in Op : op = call[c].op
  BY DEF TypeOK, CallType
<1> DEFINE new == [Fresh EXCEPT !.op = op, !.err = err]
<1>2. new \in CallType
  BY FreshType DEF CallType, Refusal
<1>3. new.pc = "idle" /\ new.op = op /\ new.err = err
  BY DEF Fresh
<1>4. CallOK(new)
  BY <1>3 DEF CallOK, Before, Working
<1>5. Returned(c, err) = [call EXCEPT ![c] = new]
  BY <1>1 DEF Returned
<1> HIDE DEF new
<1> QED
  BY <1>1, <1>2, <1>3, <1>4, <1>5

\* A call leaves outside the gate with the error of its context.
LEMMA RefusedCall ==
  ASSUME TypeOK, CallInv, NEW c \in Client, call[c].pc \in Before, Dead(c),
         call' = Returned(c, call[c].ctx)
  PROVE  \E k : Becomes(c, k) /\ k.pc = "idle" /\ k.err \in CtxErr
<1>1. PICK e \in CtxErr : e = call[c].ctx
  BY DEF TypeOK, CallType, Dead
<1>2. e \in Refusal
  BY DEF Refusal
<1>3. PICK k \in CallType : /\ CallOK(k) /\ k.pc = "idle" /\ k.err = e
                            /\ Returned(c, e) = [call EXCEPT ![c] = k]
  BY <1>2, ReturnedCall
<1> QED
  BY <1>1, <1>3 DEF Becomes

LEMMA LockEntryStep ==
  ASSUME SessionInv, NEW c \in Client, LockEntry(c)
  PROVE  SessionInv'
<1>1. call[c].pc = "entry"
  BY DEF LockEntry
<1>2. CASE Dead(c)
  <2>1. PICK k : Becomes(c, k) /\ k.pc = "idle" /\ k.err \in CtxErr
    BY <1>1, <1>2, RefusedCall DEF LockEntry, SessionInv, Before
  <2> QED
    BY <1>1, <2>1, Move DEF LockEntry, Inside, Busy, CloseSeen, CtxErr
<1>3. CASE ~Dead(c)
  <2>1. PICK k : Becomes(c, k) /\ k.pc = "select" /\ k.op = call[c].op
    BY <1>1, <1>3, MoveCall DEF LockEntry, SessionInv, Before
  <2> QED
    BY <1>1, <2>1, Move DEF LockEntry, Inside, Ended, Busy, CloseSeen
<1> QED
  BY <1>2, <1>3

\* A caller takes the free gate.
LEMMA TakeStep ==
  ASSUME SessionInv, NEW c \in Client, call[c].pc = "select", gate = 0, gate' = 1,
         call' = [call EXCEPT ![c].pc = "recheck"],
         UNCHANGED <<queue, closed, runtime, told, exited, maxFile, compiled, mu, stage>>
  PROVE  SessionInv'
<1>1. PICK k : Becomes(c, k) /\ k.pc = "recheck" /\ k.op = call[c].op
  BY MoveCall DEF SessionInv, Before
<1>2. TypeOK' /\ CallInv'
  <2>1. call' \in [Client -> CallType] /\ CallInv'
    BY <1>1, OneCall DEF SessionInv
  <2> QED
    BY <2>1 DEF SessionInv, TypeOK
<1>3. LifeInv'
  BY <1>1, LifeMove DEF SessionInv, Ended, Busy, CloseSeen
<1>4. CompileInv'
  BY CompileFrame DEF SessionInv
<1>5. Holders' = {c}
  <2>1. Holders = {}
    BY DEF SessionInv, GateInv, GateExact
  <2> QED
    BY <1>1, <2>1 DEF Holders, Becomes, Inside, SessionInv, TypeOK
<1>6. GateExact'
  BY <1>5 DEF GateExact
<1>7. (\A i \in 1..Len(queue) : call[queue[i]].pc = "queued")'
  BY <1>1 DEF SessionInv, GateInv, Becomes, TypeOK
<1> QED
  BY <1>2, <1>3, <1>4, <1>6, <1>7 DEF SessionInv, GateInv

\* A caller queues up behind the holder of the gate.
LEMMA QueueStep ==
  ASSUME SessionInv, NEW c \in Client, call[c].pc = "select",
         queue' = Append(queue, c),
         call' = [call EXCEPT ![c].pc = "queued"],
         UNCHANGED <<gate, closed, runtime, told, exited, maxFile, compiled, mu, stage>>
  PROVE  SessionInv'
<1>1. PICK k : Becomes(c, k) /\ k.pc = "queued" /\ k.op = call[c].op
  BY MoveCall DEF SessionInv, Before
<1>2. queue' \in Seq(Client) /\ Len(queue') = Len(queue) + 1
  BY AppendProperties DEF SessionInv, TypeOK
<1>3. TypeOK' /\ CallInv'
  BY <1>1, <1>2, OneCall DEF SessionInv, TypeOK
<1>4. LifeInv'
  BY <1>1, LifeMove DEF SessionInv, Ended, Busy, CloseSeen
<1>5. CompileInv'
  BY CompileFrame DEF SessionInv
<1>6. Holders' = Holders
  BY <1>1 DEF Holders, Becomes, Inside, SessionInv, TypeOK
<1>7. GateExact'
  BY <1>6 DEF SessionInv, GateInv, GateExact
<1>8. \A i \in 1..Len(queue') : \/ i \in 1..Len(queue) /\ queue'[i] = queue[i]
                                \/ i = Len(queue) + 1 /\ queue'[i] = c
  BY <1>2, AppendProperties DEF SessionInv, TypeOK
<1>9. \A i \in 1..Len(queue) : queue[i] \in Client /\ call[queue[i]].pc = "queued" /\ queue[i] # c
  BY DEF SessionInv, GateInv, TypeOK
<1>10. (\A i \in 1..Len(queue) : call[queue[i]].pc = "queued")'
  BY <1>1, <1>8, <1>9 DEF Becomes, SessionInv, TypeOK
<1>11. (\A i, j \in 1..Len(queue) : queue[i] = queue[j] => i = j)'
  BY <1>8, <1>9 DEF SessionInv, GateInv
<1> QED
  BY <1>3, <1>4, <1>5, <1>7, <1>10, <1>11 DEF SessionInv, GateInv

LEMMA SelectStep ==
  ASSUME SessionInv, NEW c \in Client, Select(c)
  PROVE  SessionInv'
<1>1. call[c].pc = "select"
  BY DEF Select
<1>2. CASE gate = 0 /\ gate' = 1 /\ call' = [call EXCEPT ![c].pc = "recheck"] /\ UNCHANGED queue
  BY <1>1, <1>2, TakeStep DEF Select
<1>3. CASE Dead(c) /\ call' = Returned(c, call[c].ctx) /\ UNCHANGED <<gate, queue>>
  <2>1. PICK k : Becomes(c, k) /\ k.pc = "idle" /\ k.err \in CtxErr
    BY <1>1, <1>3, RefusedCall DEF SessionInv, Before
  <2> QED
    BY <1>1, <1>3, <2>1, Move DEF Select, Inside, Busy, CloseSeen, CtxErr
<1>4. CASE queue' = Append(queue, c) /\ call' = [call EXCEPT ![c].pc = "queued"] /\ UNCHANGED gate
  BY <1>1, <1>4, QueueStep DEF Select
<1> QED
  BY <1>2, <1>3, <1>4 DEF Select

\* A queued caller leaves, and the others keep their order.
LEMMA LeaveQueueStep ==
  ASSUME SessionInv, NEW c \in Client, LeaveQueue(c)
  PROVE  SessionInv'
<1>1. PICK i \in 1..Len(queue) :
        /\ queue[i] = c
        /\ queue' = [j \in 1..(Len(queue) - 1) |-> IF j < i THEN queue[j] ELSE queue[j + 1]]
  BY DEF LeaveQueue
<1>2. call[c].pc = "queued" /\ Dead(c) /\ call' = Returned(c, call[c].ctx)
  BY DEF LeaveQueue
<1>3. PICK k : Becomes(c, k) /\ k.pc = "idle" /\ k.err \in CtxErr
  BY <1>2, RefusedCall DEF SessionInv, Before
<1>4. queue \in Seq(Client) /\ Len(queue) \in Nat
  BY DEF SessionInv, TypeOK
<1>5. queue' \in Seq(Client) /\ Len(queue') = Len(queue) - 1
  BY <1>1, <1>4
<1> DEFINE from(j) == IF j < i THEN j ELSE j + 1
<1>6. \A j \in 1..Len(queue') : from(j) \in 1..Len(queue) \ {i} /\ queue'[j] = queue[from(j)]
  BY <1>1, <1>4, <1>5
<1>7. TypeOK' /\ CallInv'
  BY <1>3, <1>5, OneCall DEF LeaveQueue, SessionInv, TypeOK
<1>8. LifeInv'
  BY <1>2, <1>3, LifeMove DEF LeaveQueue, SessionInv, Busy, CloseSeen, CtxErr
<1>9. CompileInv'
  BY CompileFrame DEF LeaveQueue, SessionInv
<1>10. Holders' = Holders
  BY <1>2, <1>3 DEF Holders, Becomes, Inside, SessionInv, TypeOK
<1>11. GateExact'
  BY <1>10 DEF LeaveQueue, SessionInv, GateInv, GateExact
<1>12. (\A j \in 1..Len(queue) : call[queue[j]].pc = "queued")'
  <2> SUFFICES ASSUME NEW j \in 1..Len(queue')
               PROVE  call'[queue'[j]].pc = "queued"
    OBVIOUS
  <2>1. PICK l \in 1..Len(queue) : l # i /\ queue'[j] = queue[l]
    BY <1>6
  <2>2. queue[l] \in Client /\ queue[l] # c /\ call[queue[l]].pc = "queued"
    <3>1. queue[l] \in Client
      BY <1>4, <2>1
    <3>2. queue[l] = queue[i] => l = i
      BY <2>1 DEF SessionInv, GateInv
    <3>3. call[queue[l]].pc = "queued"
      BY <2>1 DEF SessionInv, GateInv
    <3> QED
      BY <1>1, <2>1, <3>1, <3>2, <3>3
  <2> QED
    BY <1>3, <2>1, <2>2 DEF Becomes, SessionInv, TypeOK
<1>13. (\A j, l \in 1..Len(queue) : queue[j] = queue[l] => j = l)'
  <2> SUFFICES ASSUME NEW j \in 1..Len(queue'), NEW l \in 1..Len(queue'), queue'[j] = queue'[l]
               PROVE  j = l
    OBVIOUS
  <2>1. from(j) = from(l)
    BY <1>6 DEF SessionInv, GateInv
  <2> QED
    BY <1>5, <2>1
<1> QED
  BY <1>7, <1>8, <1>9, <1>11, <1>12, <1>13 DEF SessionInv, GateInv

\* A call that holds the gate gives it back.
LEMMA UnlockStep ==
  ASSUME SessionInv, NEW c \in Client, call[c].pc \in {"recheck", "return"},
         NEW k \in CallType, CallOK(k), k.pc = "idle",
         CloseSeen(k) => runtime # "open",
         call' = Released([call EXCEPT ![c] = k]), unlock,
         UNCHANGED <<closed, runtime, told, exited, maxFile, compiled, mu, stage>>
  PROVE  SessionInv'
<1>1. /\ gate' \in 0..1 /\ queue' \in Seq(Client) /\ call' \in [Client -> CallType]
      /\ CallInv' /\ GateInv' /\ call'[c] = k
      /\ \A d \in Client \ {c} : \/ call'[d] = call[d]
                                 \/ call[d].pc = "queued" /\ call'[d].pc = "recheck"
  BY UnlockCalls DEF SessionInv, Inside
<1>2. TypeOK'
  BY <1>1 DEF SessionInv, TypeOK
<1>3. call'[c].pc = "idle"
  BY <1>1
<1>4. LifeInv'
  <2>1. ASSUME NEW d \in Client
        PROVE  /\ call'[d].pc = "closing" => closed /\ runtime = "open"
               /\ call'[d].pc \in {"script", "reading"} => ~closed
               /\ call'[d].pc = "script" => ~exited
               /\ call'[d].pc = "finish" => exited = call'[d].quit
               /\ CloseSeen(call'[d]) => runtime # "open"
    <3>1. CASE d = c
      BY <1>1, <1>3, <3>1
    <3>2. CASE call'[d] = call[d]
      BY <3>2 DEF SessionInv, LifeInv
    <3>3. CASE call'[d].pc = "recheck"
      BY <3>3 DEF CloseSeen, Ended
    <3> QED
      BY <1>1, <3>1, <3>2, <3>3
  <2>2. \A d \in Client : call[d].pc \in {"closing", "script"} => call'[d].pc = call[d].pc
    BY <1>1
  <2> QED
    BY <2>1, <2>2 DEF SessionInv, LifeInv
<1>5. CompileInv'
  BY CompileFrame DEF SessionInv
<1> QED
  BY <1>1, <1>2, <1>4, <1>5 DEF SessionInv

LEMMA RecheckStep ==
  ASSUME SessionInv, NEW c \in Client, Recheck(c)
  PROVE  SessionInv'
<1>1. call[c].pc = "recheck"
  BY DEF Recheck
<1>2. CASE Dead(c)
  <2>1. PICK e \in CtxErr : e = call[c].ctx
    BY <1>2 DEF SessionInv, TypeOK, CallType, Dead
  <2>2. e \in Refusal
    BY DEF Refusal
  <2>3. PICK k \in CallType : /\ CallOK(k) /\ k.pc = "idle" /\ k.err = e
                              /\ Returned(c, e) = [call EXCEPT ![c] = k]
    BY <2>2, ReturnedCall DEF SessionInv
  <2>4. ~CloseSeen(k)
    BY <2>3 DEF CloseSeen, CtxErr
  <2>5. call' = Released([call EXCEPT ![c] = k]) /\ unlock
    BY <1>2, <2>1, <2>3 DEF Recheck
  <2> QED
    BY <1>1, <2>3, <2>4, <2>5, UnlockStep DEF Recheck
<1>3. CASE ~Dead(c)
  <2>1. PICK k : Becomes(c, k) /\ k.pc = "body" /\ k.op = call[c].op
    BY <1>1, <1>3, MoveCall DEF Recheck, SessionInv, Before
  <2> QED
    BY <1>1, <1>3, <2>1, Move DEF Recheck, Inside, Ended, Busy, CloseSeen
<1> QED
  BY <1>2, <1>3

LEMMA ReturnStep ==
  ASSUME SessionInv, NEW c \in Client, Return(c)
  PROVE  SessionInv'
<1>1. PICK e \in Refusal \cup {"ErrOutputLimit", "ScriptError"} : e = call[c].err
  BY DEF SessionInv, TypeOK, CallType, Refusal
<1>2. PICK k \in CallType : /\ CallOK(k) /\ k.pc = "idle" /\ k.err = e /\ k.op = call[c].op
                            /\ Returned(c, e) = [call EXCEPT ![c] = k]
  BY ReturnedCall DEF SessionInv
<1>3. call[c].pc = "return" /\ call' = Released([call EXCEPT ![c] = k]) /\ unlock
  BY <1>1, <1>2 DEF Return
<1>4. CloseSeen(k) => runtime # "open"
  BY <1>1, <1>2, <1>3, CloseDone DEF SessionInv, Ended, CloseSeen
<1> QED
  BY <1>2, <1>3, <1>4, UnlockStep DEF Return

LEMMA LockStepInv ==
  ASSUME SessionInv, NEW c \in Client, LockStep(c)
  PROVE  SessionInv'
BY LockEntryStep, SelectStep, LeaveQueueStep, RecheckStep, ReturnStep DEF LockStep

\* With the gate held by c, no other call is inside.
LEMMA Alone ==
  ASSUME GateInv, NEW c \in Client, call[c].pc \in Inside
  PROVE  \A d \in Client : call[d].pc \in Inside => d = c
BY DEF GateInv, GateExact, Holders

\* Close sets the flag; if it finds it set, the runtime is gone already: the
\* call that set it still held the gate otherwise.
LEMMA CloseBodyStep ==
  ASSUME SessionInv, NEW c \in Client, CloseBody(c)
  PROVE  SessionInv'
<1>1. call[c].pc = "body" /\ call[c].op = "Close" /\ closed' = TRUE
  BY DEF CloseBody
<1>2. \A d \in Client : call[d].pc \notin Busy
  BY <1>1, Alone DEF SessionInv, Inside, Busy
<1>3. CASE closed
  <2>1. runtime # "open"
    BY <1>2, <1>3 DEF SessionInv, LifeInv, Busy
  <2>2. /\ Ends(c, "return", "OK") /\ "return" \in Ended /\ call[c].pc \in Before
        /\ "OK" \in Refusal
    BY <1>1, <1>3 DEF CloseBody, Leaving, Ends, Ended, Before, Refusal
  <2>3. PICK k : Becomes(c, k) /\ k.pc = "return" /\ k.err = "OK" /\ k.op = call[c].op
    BY <2>2, LeaveCall DEF SessionInv
  <2>4. closed' = closed
    BY <1>1, <1>3 DEF SessionInv, TypeOK
  <2> QED
    BY <1>1, <2>1, <2>3, <2>4, Move DEF CloseBody, Inside, Busy
<1>4. CASE ~closed
  <2>1. PICK k : Becomes(c, k) /\ k.pc = "closing" /\ k.op = call[c].op
    BY <1>1, <1>4, MoveCall DEF CloseBody, SessionInv, Before
  <2>2. TypeOK' /\ CallInv'
    BY <1>1, <2>1, OneCall DEF CloseBody, SessionInv, TypeOK
  <2>3. GateInv'
    BY <1>1, <2>1, GateMove DEF CloseBody, SessionInv, Inside
  <2>4. call'[c].pc = "closing" /\ \A d \in Client \ {c} : call'[d] = call[d]
    BY <2>1 DEF Becomes, SessionInv, TypeOK
  <2>5. runtime = "open" /\ UNCHANGED <<runtime, told, exited, stage>>
    BY <1>4 DEF SessionInv, LifeInv, CloseBody
  <2>6. LifeInv'
    <3>1. \A d \in Client \ {c} : call'[d].pc \notin Busy /\ ~CloseSeen(call'[d])
      BY <1>2, <2>4, <2>5 DEF SessionInv, LifeInv
    <3>2. ~CloseSeen(call'[c])
      BY <2>4 DEF CloseSeen, Ended
    <3>3. \A d \in Client, s \in Stage : stage'[d][s] = "off"
      BY <1>2, <2>5 DEF SessionInv, LifeInv, Busy
    <3> QED
      BY <1>1, <2>4, <2>5, <3>1, <3>2, <3>3 DEF SessionInv, LifeInv, Busy
  <2>7. CompileInv'
    BY CompileFrame DEF SessionInv, CloseBody
  <2> QED
    BY <2>2, <2>3, <2>6, <2>7 DEF SessionInv
<1> QED
  BY <1>3, <1>4

\* The runtime is closed once, and its error goes to the call that closes it.
LEMMA CloseRuntimeStep ==
  ASSUME SessionInv, NEW c \in Client, NEW err \in {"OK", "CloseError"}, CloseRuntime(c, err)
  PROVE  SessionInv'
<1>1. /\ call[c].pc = "closing" /\ closed /\ runtime = "open" /\ told = 0
      /\ UNCHANGED <<gate, queue, closed, exited, maxFile, compiled, mu, stage>>
  BY DEF CloseRuntime, SessionInv, LifeInv
<1>2. \A d \in Client \ {c} : call[d].pc \notin Busy
  BY <1>1, Alone DEF SessionInv, Inside, Busy
<1>3. Ends(c, "return", err) /\ "return" \in Ended /\ call[c].pc \in Before /\ err \in Refusal
  BY <1>1 DEF CloseRuntime, Leaving, Ends, Ended, Before, Refusal
<1>4. PICK k : Becomes(c, k) /\ k.pc = "return" /\ k.err = err /\ k.op = call[c].op
  BY <1>3, LeaveCall DEF SessionInv
<1>5. \/ runtime' = "closed" /\ told' = 0
      \/ runtime' = "broken" /\ told' = 1
  BY <1>1 DEF CloseRuntime
<1>6. TypeOK' /\ CallInv'
  BY <1>1, <1>4, <1>5, OneCall DEF SessionInv, TypeOK
<1>7. GateInv'
  BY <1>1, <1>4, GateMove DEF SessionInv, Inside
<1>8. call'[c].pc = "return" /\ \A d \in Client \ {c} : call'[d] = call[d]
  BY <1>4 DEF Becomes, SessionInv, TypeOK
<1>9. LifeInv'
  <2>1. \A d \in Client : call'[d].pc \notin Busy
    BY <1>2, <1>8 DEF Busy
  <2>2. \A d \in Client, s \in Stage : stage'[d][s] = "off"
    BY <1>1, <1>2 DEF SessionInv, LifeInv, Busy
  <2> QED
    BY <1>1, <1>5, <2>1, <2>2 DEF LifeInv, Busy
<1>10. CompileInv'
  BY <1>1, CompileFrame DEF SessionInv
<1> QED
  BY <1>6, <1>7, <1>9, <1>10 DEF SessionInv

LEMMA ReadFileBodyStep ==
  ASSUME SessionInv, NEW c \in Client, ReadFileBody(c)
  PROVE  SessionInv'
<1>1. /\ call[c].pc = "body" /\ call[c].op = "ReadFile"
      /\ UNCHANGED <<gate, queue, closed, runtime, told, exited, maxFile, compiled, mu, stage>>
  BY DEF ReadFileBody
<1>2. CASE closed
  <2>1. /\ Ends(c, "return", "ErrClosed") /\ "return" \in Ended /\ call[c].pc \in Before
        /\ "ErrClosed" \in Refusal
    BY <1>1, <1>2 DEF ReadFileBody, Leaving, Ends, Ended, Before, Refusal
  <2>2. PICK k : Becomes(c, k) /\ k.pc = "return" /\ k.err = "ErrClosed" /\ k.op = call[c].op
    BY <2>1, LeaveCall DEF SessionInv
  <2> QED
    BY <1>1, <2>2, Move DEF Inside, Busy, CloseSeen
<1>3. CASE ~closed
  <2>1. PICK k : Becomes(c, k) /\ k.pc = "reading" /\ k.op = call[c].op
    BY <1>1, <1>3, MoveCall DEF ReadFileBody, SessionInv, Before
  <2>2. TypeOK' /\ CallInv'
    BY <1>1, <2>1, OneCall DEF SessionInv, TypeOK
  <2>3. GateInv'
    BY <1>1, <2>1, GateMove DEF SessionInv, Inside
  <2>4. call'[c].pc = "reading" /\ \A d \in Client \ {c} : call'[d] = call[d]
    BY <2>1 DEF Becomes, SessionInv, TypeOK
  <2>5. ~CloseSeen(call'[c])
    BY <2>4 DEF CloseSeen, Ended
  <2>6. LifeInv'
    BY <1>1, <1>3, <2>4, <2>5 DEF SessionInv, LifeInv
  <2>7. CompileInv'
    BY <1>1, CompileFrame DEF SessionInv
  <2> QED
    BY <2>2, <2>3, <2>6, <2>7 DEF SessionInv
<1> QED
  BY <1>2, <1>3

LEMMA ReadReturnsStep ==
  ASSUME SessionInv, NEW c \in Client, ReadReturns(c)
  PROVE  SessionInv'
<1>0. PICK found \in BOOLEAN, fails \in BOOLEAN, size \in FileSize :
        \E got \in 0..size : ReadAll(c, found, size, got, fails)
  BY DEF ReadReturns
<1>1. PICK got \in 0..size : ReadAll(c, found, size, got, fails)
  BY <1>0
<1>2. PICK k : Becomes(c, k) /\ k.pc = "return" /\ k.op = "ReadFile"
  BY <1>1, ReadAllCall DEF SessionInv
<1>3. /\ call[c].pc = "reading"
      /\ UNCHANGED <<gate, queue, closed, runtime, told, exited, maxFile, compiled, mu, stage>>
  BY <1>1 DEF ReadAll
<1> QED
  BY <1>2, <1>3, Move DEF Inside, Busy, CloseSeen

\* A script begins on a session that is not closed, and it is the only one.
LEMMA RunBodyStep ==
  ASSUME SessionInv, NEW c \in Client, NEW fits \in BOOLEAN, RunBody(c, fits)
  PROVE  SessionInv'
<1>1. PICK k : /\ Becomes(c, k) /\ k.op = "Run"
               /\ k.pc = "return" \/ (k.pc = "script" /\ ~closed /\ ~exited')
  BY RunBodyCall DEF SessionInv
<1>2. /\ call[c].pc = "body" /\ exited' \in BOOLEAN
      /\ UNCHANGED <<gate, queue, closed, runtime, told, maxFile, compiled, mu, stage>>
  BY DEF RunBody, SessionInv, TypeOK
<1>3. TypeOK' /\ CallInv'
  BY <1>1, <1>2, OneCall DEF SessionInv, TypeOK
<1>4. GateInv'
  BY <1>1, <1>2, GateMove DEF SessionInv, Inside
<1>5. call'[c] = k /\ \A d \in Client \ {c} : call'[d] = call[d]
  BY <1>1 DEF Becomes, SessionInv, TypeOK
<1>6. \A d \in Client : call[d].pc \notin Busy
  BY <1>2, Alone DEF SessionInv, Inside, Busy
<1>7. ~CloseSeen(k)
  BY <1>1 DEF CloseSeen
<1>8. LifeInv'
  BY <1>1, <1>2, <1>5, <1>6, <1>7 DEF SessionInv, LifeInv, Busy
<1>9. CompileInv'
  BY <1>2, CompileFrame DEF SessionInv
<1> QED
  BY <1>3, <1>4, <1>8, <1>9 DEF SessionInv

\* A script ends when none of its commands is left, and leaves in Exited whether
\* it executed exit.
LEMMA EndScriptStep ==
  ASSUME SessionInv, NEW c \in Client, NEW how \in {"end", "exit", "error"}, EndScript(c, how)
  PROVE  SessionInv'
<1>1. PICK k : Becomes(c, k) /\ k.pc = "finish" /\ k.op = call[c].op /\ k.quit = (how = "exit")
  BY EndScriptCall DEF SessionInv
<1>2. /\ call[c].pc = "script" /\ exited' = (exited \/ how = "exit")
      /\ \A s \in Stage : stage[c][s] = "off"
      /\ UNCHANGED <<gate, queue, closed, runtime, told, maxFile, compiled, mu, stage>>
  BY DEF EndScript
<1>3. exited = FALSE
  BY <1>2 DEF SessionInv, LifeInv, TypeOK
<1>4. exited' = k.quit /\ exited' \in BOOLEAN
  BY <1>1, <1>2, <1>3
<1>5. TypeOK' /\ CallInv'
  BY <1>1, <1>2, <1>4, OneCall DEF SessionInv, TypeOK
<1>6. GateInv'
  BY <1>1, <1>2, GateMove DEF SessionInv, Inside
<1>7. call'[c] = k /\ \A d \in Client \ {c} : call'[d] = call[d]
  BY <1>1 DEF Becomes, SessionInv, TypeOK
<1>8. \A d \in Client \ {c} : call[d].pc \notin Busy
  BY <1>2, Alone DEF SessionInv, Inside, Busy
<1>9. ~CloseSeen(k)
  BY <1>1 DEF CloseSeen, Ended
<1>10. LifeInv'
  BY <1>1, <1>2, <1>4, <1>7, <1>8, <1>9 DEF SessionInv, LifeInv, Busy
<1>11. CompileInv'
  BY <1>2, CompileFrame DEF SessionInv
<1> QED
  BY <1>5, <1>6, <1>10, <1>11 DEF SessionInv

LEMMA RunResultStep ==
  ASSUME SessionInv, NEW c \in Client, RunResult(c)
  PROVE  SessionInv'
<1>1. /\ call[c].pc = "finish"
      /\ UNCHANGED <<gate, queue, closed, runtime, told, exited, maxFile, compiled, mu, stage>>
  BY DEF RunResult
<1>2. exited = call[c].quit
  BY <1>1 DEF SessionInv, LifeInv
<1>3. PICK k : Becomes(c, k) /\ k.pc = "return" /\ k.op = "Run"
  BY <1>2, RunResultCall DEF SessionInv
<1> QED
  BY <1>1, <1>3, Move DEF Inside, Busy, CloseSeen

LEMMA BodyStepInv ==
  ASSUME SessionInv, NEW c \in Client, BodyStep(c)
  PROVE  SessionInv'
BY CloseBodyStep, CloseRuntimeStep, ReadFileBodyStep, RunBodyStep, RunResultStep
   DEF BodyStep

\* A command of the running script changes its own place.
LEMMA StageMove ==
  ASSUME SessionInv, NEW c \in Client, NEW s \in Stage, call[c].pc = "script",
         NEW at \in {"off", "compile", "compiling", "exec", "handler", "failed"},
         stage' = [stage EXCEPT ![c][s] = at],
         mu' \subseteq Client \X Stage, compiled' \in Nat, CompileInv',
         UNCHANGED <<gate, queue, closed, runtime, told, exited, maxFile, call>>
  PROVE  SessionInv'
<1>1. TypeOK'
  BY DEF SessionInv, TypeOK
<1>2. LifeInv'
  BY DEF SessionInv, LifeInv, TypeOK
<1>3. CallInv' /\ GateInv'
  BY DEF SessionInv, CallInv, GateInv, GateExact, Holders
<1> QED
  BY <1>1, <1>2, <1>3 DEF SessionInv

LEMMA InScript ==
  ASSUME SessionInv, NEW c \in Client, NEW s \in Stage, stage[c][s] # "off"
  PROVE  call[c].pc = "script"
BY DEF SessionInv, LifeInv

LEMMA StartCommandStep ==
  ASSUME SessionInv, NEW c \in Client, NEW s \in Stage, StartCommand(c, s)
  PROVE  SessionInv'
<1>1. PICK at \in {"compile", "handler"} : stage' = [stage EXCEPT ![c][s] = at]
  BY DEF StartCommand
<1>2. CompileInv'
  BY <1>1 DEF StartCommand, SessionInv, CompileInv, TypeOK
<1> QED
  BY <1>1, <1>2, StageMove DEF StartCommand, SessionInv, TypeOK

\* The first command takes the mutex, or finds the module.
LEMMA CompileEnterStep ==
  ASSUME SessionInv, NEW c \in Client, NEW s \in Stage, CompileEnter(c, s)
  PROVE  SessionInv'
<1>1. stage[c][s] = "compile" /\ mu = {} /\ compiled \in Nat /\ compiled <= 1
  BY DEF CompileEnter, SessionInv, CompileInv, TypeOK
<1>2. call[c].pc = "script"
  BY <1>1, InScript
<1>3. CASE compiled > 0
  <2>1. stage' = [stage EXCEPT ![c][s] = "exec"] /\ mu' = mu /\ compiled' = compiled
    BY <1>3 DEF CompileEnter
  <2>2. CompileInv'
    BY <1>1, <1>3, <2>1 DEF SessionInv, CompileInv, TypeOK
  <2> QED
    BY <1>1, <1>2, <2>1, <2>2, StageMove DEF CompileEnter
<1>4. CASE ~(compiled > 0)
  <2>1. stage' = [stage EXCEPT ![c][s] = "compiling"] /\ mu' = {<<c, s>>} /\ compiled' = compiled
    BY <1>4 DEF CompileEnter
  <2>2. CompileInv'
    BY <1>1, <1>4, <2>1 DEF SessionInv, CompileInv, TypeOK
  <2>3. mu' \subseteq Client \X Stage /\ compiled' \in Nat
    BY <1>1, <2>1
  <2> QED
    BY <1>1, <1>2, <2>1, <2>2, <2>3, StageMove DEF CompileEnter
<1> QED
  BY <1>3, <1>4

LEMMA CompileExitStep ==
  ASSUME SessionInv, NEW c \in Client, NEW s \in Stage, CompileExit(c, s)
  PROVE  SessionInv'
<1>1. /\ stage[c][s] = "compiling" /\ <<c, s>> \in mu /\ mu \subseteq Client \X Stage
      /\ mu' = mu \ {<<c, s>>} /\ compiled = 0
  BY DEF CompileExit, SessionInv, CompileInv, TypeOK
<1>2. call[c].pc = "script"
  BY <1>1, InScript
<1>3. mu' = {}
  BY <1>1 DEF SessionInv, CompileInv
<1>4. \A d \in Client, t \in Stage : stage[d][t] = "compiling" => d = c /\ t = s
  BY <1>1 DEF SessionInv, CompileInv
<1>5. CASE compiled' = compiled + 1 /\ stage' = [stage EXCEPT ![c][s] = "exec"]
  <2>1. CompileInv'
    BY <1>1, <1>3, <1>4, <1>5 DEF SessionInv, CompileInv, TypeOK
  <2>2. mu' \subseteq Client \X Stage /\ compiled' \in Nat
    BY <1>1, <1>3, <1>5
  <2> QED
    BY <1>1, <1>2, <1>5, <2>1, <2>2, StageMove DEF CompileExit
<1>6. CASE stage' = [stage EXCEPT ![c][s] = "failed"] /\ UNCHANGED compiled
  <2>1. CompileInv'
    BY <1>1, <1>3, <1>4, <1>6 DEF SessionInv, CompileInv, TypeOK
  <2> QED
    BY <1>1, <1>2, <1>3, <1>6, <2>1, StageMove DEF CompileExit
<1> QED
  BY <1>5, <1>6 DEF CompileExit

LEMMA WriteStep ==
  ASSUME SessionInv, NEW c \in Client, NEW s \in Stage, NEW len \in WriteLen, Write(c, s, len)
  PROVE  SessionInv'
<1>1. call[c].pc = "script"
  BY InScript DEF Write
<1>2. PICK k : Becomes(c, k) /\ k.pc = "script" /\ k.op = call[c].op /\ k.quit = call[c].quit
  BY <1>1, WriteCall DEF SessionInv
<1>3. UNCHANGED <<gate, queue, closed, runtime, told, exited, maxFile, compiled, mu, stage>>
  BY DEF Write
<1> QED
  BY <1>1, <1>2, <1>3, Move DEF Ended, CloseSeen

LEMMA EndCommandStep ==
  ASSUME SessionInv, NEW c \in Client, NEW s \in Stage, EndCommand(c, s)
  PROVE  SessionInv'
<1>1. call[c].pc = "script"
  BY InScript DEF EndCommand
<1>2. PICK k : Becomes(c, k) /\ k.pc = "script" /\ k.op = call[c].op /\ k.quit = call[c].quit
  BY <1>1, EndCommandCall DEF SessionInv
<1>3. /\ stage' = [stage EXCEPT ![c][s] = "off"]
      /\ UNCHANGED <<gate, queue, closed, runtime, told, exited, maxFile, compiled, mu>>
      /\ stage[c][s] \in {"exec", "handler", "failed"}
  BY DEF EndCommand
<1>4. TypeOK' /\ CallInv'
  BY <1>2, <1>3, OneCall DEF SessionInv, TypeOK
<1>5. GateInv'
  BY <1>1, <1>2, <1>3, GateMove DEF SessionInv, Inside
<1>6. call'[c].pc = "script" /\ \A d \in Client \ {c} : call'[d] = call[d]
  BY <1>2 DEF Becomes, SessionInv, TypeOK
<1>7. LifeInv'
  <2>1. ~CloseSeen(call'[c])
    BY <1>6 DEF CloseSeen, Ended
  <2> QED
    BY <1>1, <1>3, <1>6, <2>1 DEF SessionInv, LifeInv, TypeOK
<1>8. CompileInv'
  BY <1>3 DEF SessionInv, CompileInv, TypeOK
<1> QED
  BY <1>4, <1>5, <1>7, <1>8 DEF SessionInv

LEMMA StageStepInv ==
  ASSUME SessionInv, NEW c \in Client, NEW s \in Stage, StageStep(c, s)
  PROVE  SessionInv'
BY StartCommandStep, CompileEnterStep, CompileExitStep, WriteStep, EndCommandStep
   DEF StageStep

-----------------------------------------------------------------------------
(* The theorems *)

LEMMA SessionInit == Init => SessionInv
<1> SUFFICES ASSUME Init PROVE SessionInv
  OBVIOUS
<1>1. TypeOK
  <2>1. queue \in Seq(Client) /\ compiled \in Nat /\ mu \subseteq Client \X Stage
    BY DEF Init
  <2>2. call \in [Client -> CallType]
    BY FreshType DEF Init
  <2>3. stage \in [Client -> [Stage -> {"off", "compile", "compiling", "exec", "handler", "failed"}]]
    BY DEF Init
  <2>4. gate \in 0..1 /\ maxFile \in FileLimit
    BY DEF Init
  <2>5. closed \in BOOLEAN /\ exited \in BOOLEAN
    BY Zenon DEF Init
  <2>6. runtime \in {"open", "closed", "broken"} /\ told \in Nat
    BY DEF Init
  <2> QED
    BY <2>1, <2>2, <2>3, <2>4, <2>5, <2>6 DEF TypeOK
<1>2. \A c \in Client : call[c].pc = "idle" /\ call[c].op = "Run" /\ CallOK(call[c])
  <2>1. /\ Fresh.pc = "idle" /\ Fresh.op = "Run" /\ Fresh.err = "OK" /\ Fresh.lost = 0
        /\ Fresh.cut = FALSE /\ Fresh.exited = Fresh.quit
    BY DEF Fresh
  <2>2. CallOK(Fresh)
    BY <2>1 DEF CallOK, Before, Working, Ended
  <2> QED
    BY <2>1, <2>2 DEF Init
<1>3. Holders = {}
  BY <1>2 DEF Holders, Inside
<1>4. GateInv
  BY <1>3 DEF Init, GateInv, GateExact
<1>5. LifeInv
  BY <1>2 DEF Init, LifeInv, CloseSeen
<1>6. CompileInv
  BY DEF Init, CompileInv
<1> QED
  BY <1>1, <1>2, <1>4, <1>5, <1>6 DEF SessionInv, CallInv

LEMMA SessionStep == SessionInv /\ [Next]_vars => SessionInv'
<1> SUFFICES ASSUME SessionInv, [Next]_vars PROVE SessionInv'
  OBVIOUS
<1>1. CASE UNCHANGED vars
  BY <1>1 DEF vars, SessionInv, TypeOK, CallInv, GateInv, GateExact, Holders, LifeInv,
              CompileInv
<1>2. CASE Next
  BY <1>2, InvokeStep, LockStepInv, CancelStep, BodyStepInv, ReadReturnsStep, EndScriptStep,
     StageStepInv DEF Next, ScriptReturns
<1> QED
  BY <1>1, <1>2

\* The inductive invariant of the session: the types, what each call has done,
\* the gate, the life of the runtime and the module cache together.
THEOREM SessionInvariant == Spec => []SessionInv
BY SessionInit, SessionStep, PTL DEF Spec

\* The gate is exact: one call is between lock and unlock at a time, for any
\* number of callers, and no path through the selects and checks of lock keeps
\* the token or returns it twice.
THEOREM GateCorrect == Spec => []GateExact
<1>1. SessionInv => GateExact
  BY DEF SessionInv, GateInv
<1> QED
  BY <1>1, SessionInvariant, PTL

\* No command compiles or runs on a closed runtime.
THEOREM RuntimeCorrect == Spec => []RuntimeOutlivesCommands
<1>1. SessionInv => RuntimeOutlivesCommands
  BY DEF SessionInv, LifeInv, RuntimeOutlivesCommands
<1> QED
  BY <1>1, SessionInvariant, PTL

\* After a Close that returned nil or the error of the runtime nothing runs or
\* reads, also when another Close did the work, and an error of the runtime has
\* been returned exactly once.
THEOREM CloseCorrect == Spec => []CloseIsFinal
<1>1. SessionInv => CloseIsFinal
  <2> SUFFICES ASSUME SessionInv PROVE CloseIsFinal
    OBVIOUS
  <2>1. ASSUME NEW c \in Client, CloseSeen(call[c])
        PROVE  runtime # "open" /\ \A d \in Client : call[d].pc \notin {"script", "reading"}
    BY <2>1 DEF SessionInv, LifeInv
  <2> QED
    BY <2>1 DEF SessionInv, LifeInv, CloseIsFinal, CloseSeen, Ended
<1> QED
  BY <1>1, SessionInvariant, PTL

\* Result.Exited tells of the call's own script, whatever other calls have run
\* before it or wait behind it.
THEOREM ExitedCorrect == Spec => []ExitedIsOwn
<1>1. SessionInv => ExitedIsOwn
  BY DEF SessionInv, CallInv, CallOK, ExitedIsOwn, Ended
<1> QED
  BY <1>1, SessionInvariant, PTL

\* The shared output budget is exact, and Run reports ErrOutputLimit exactly
\* when output was dropped, for every budget and all sizes of writes.
THEOREM OutputCorrect == Spec => []OutputExact
<1>1. SessionInv => OutputExact
  BY DEF SessionInv, CallInv, CallOK, OutputExact, Working, Ended
<1> QED
  BY <1>1, SessionInvariant, PTL

\* A Run that was interrupted never reports success.
THEOREM CutCorrect == Spec => []NoSuccessWhenCut
<1>1. SessionInv => NoSuccessWhenCut
  BY DEF SessionInv, CallInv, CallOK, NoSuccessWhenCut, Ended
<1> QED
  BY <1>1, SessionInvariant, PTL

\* ReadFile returns a file as a whole or fails, for every limit up to the
\* largest int64, where limit + 1 would overflow.
THEOREM ReadFileCorrect == Spec => []ReadFileWhole
<1>1. SessionInv => ReadFileWhole
  BY DEF SessionInv, CallInv, CallOK, ReadFileWhole, Ended
<1> QED
  BY <1>1, SessionInvariant, PTL

\* A module is compiled at most once, and no command runs without it.
THEOREM CompiledCorrect == Spec => []CompiledOnce
<1>1. SessionInv => CompiledOnce
  BY DEF SessionInv, CompileInv, CompiledOnce
<1> QED
  BY <1>1, SessionInvariant, PTL
=============================================================================
