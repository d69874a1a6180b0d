---------------------------- MODULE InterpErrors ----------------------------
(***************************************************************************)
(* What command.go promises of an error that a command returns, for the     *)
(* interpreter of module Interp.  A history variable remembers that a       *)
(* command of the script has returned one.                                  *)
(***************************************************************************)
EXTENDS Interp

VARIABLE broke  \* a command of the current or last script returned an error

CommandErr == \E code \in Status : Command(code, "fail")

InitE == Init /\ broke = FALSE

\* Between two scripts the next one, or a new session, starts afresh.
NextE == Next /\ broke' = (CommandErr \/ (broke /\ ~Idle))

SpecE == InitE /\ [][NextE]_<<vars, broke>>

\* "Return a nonzero exit code and nil error for an ordinary command failure; an
\* error aborts the script": when a command, a custom handler for instance, has
\* returned an error, Run returns an error and not the status of what followed.
\* Fails for a command substituted in the word of a redirection: stmtWithPipe
\* takes its error for one of the redirection, prints it and goes on.
HandlerErrorAborts == Idle /\ broke => result.err \in Failure
=============================================================================
