------------------------------- MODULE Xargs --------------------------------
(***************************************************************************)
(* internal/shell/shell.go, the builtin xargs: options, the splitting of   *)
(* the input into items (one step for each turn of the loop of xargsSplit) *)
(* and the command lines that are run on them.                             *)
(***************************************************************************)
EXTENDS Integers, Sequences, SequencesExt, FiniteSetsExt

CONSTANTS
  Args,    \* sequences of options
  Code,    \* statuses of the commands that are run
  MaxLen   \* bound of the model: the length of the input

\* A letter stands for every character without a meaning, sp for blank and tab.
Char == {"a", "sp", "nl", "sq", "dq", "bs", "nul"}
Blank == {"sp"}
Separator == {"sp", "nl"}
Quote == {"sq", "dq"}

ASSUME XargsAssumption ==
  /\ \A args \in Args : args \in Seq({"-0", "-r", "-I", "-n1", "-n2", "bad"})
  /\ Code \subseteq 0..255
  /\ MaxLen \in Nat

VARIABLES
  pc, opt, input,
  i, cur, inItem,  \* the loop of xargsSplit
  items,           \* the items split so far, and then those left to run
  first, status,   \* the loop over command lines
  ret,             \* the results of xargs
  all, lines, codes  \* ghosts: the items, those of each command line, the statuses

vars == <<pc, opt, input, i, cur, inItem, items, first, status, ret, all, lines, codes>>

Pending == [code |-> 0, err |-> "pending"]

-----------------------------------------------------------------------------
(* Options *)

\* The options in order: -I sets the batch size too, and so does a later -n.
Option(o, a) ==
  CASE a = "-0" -> [o EXCEPT !.nul = TRUE]
    [] a = "-r" -> [o EXCEPT !.skipEmpty = TRUE]
    [] a = "-I" -> [o EXCEPT !.replace = TRUE, !.per = 1]
    [] a = "-n1" -> [o EXCEPT !.per = 1]
    [] a = "-n2" -> [o EXCEPT !.per = 2]
    [] a = "bad" -> [o EXCEPT !.ok = FALSE]

Options(args) ==
  FoldLeft(Option, [nul |-> FALSE, skipEmpty |-> FALSE, replace |-> FALSE, per |-> 0, ok |-> TRUE],
           args)

-----------------------------------------------------------------------------
(* Splitting without quotes *)

TrimSuffix(t, c) == IF t # <<>> /\ Last(t) = c THEN Front(t) ELSE t

Split(t, c) ==
  LET pieces[n \in 0..Len(t)] ==
        IF n = 0 THEN << <<>> >>
        ELSE IF t[n] = c THEN Append(pieces[n - 1], <<>>)
        ELSE [pieces[n - 1] EXCEPT ![Len(pieces[n - 1])] = Append(@, t[n])]
  IN pieces[Len(t)]

TrimLeft(t) ==
  LET text == {n \in DOMAIN t : t[n] \notin Blank}
  IN IF text = {} THEN <<>> ELSE SubSeq(t, Min(text), Len(t))

NulItems == IF input = <<>> THEN <<>> ELSE Split(TrimSuffix(input, "nul"), "nul")

LineItems ==
  LET trimmed == [n \in DOMAIN Split(TrimSuffix(input, "nl"), "nl") |->
                    TrimLeft(Split(TrimSuffix(input, "nl"), "nl")[n])]
  IN SelectSeq(trimmed, LAMBDA line : line # <<>>)

-----------------------------------------------------------------------------
Fail == pc' = "done" /\ ret' = [code |-> 1, err |-> "none"]
Abort(err) == pc' = "done" /\ ret' = [code |-> 1, err |-> err]

Reading == UNCHANGED <<opt, input, first, status, lines, codes>>

BadOption ==
  /\ pc = "read" /\ ~opt.ok
  /\ Fail
  /\ UNCHANGED <<i, cur, inItem, items, all>> /\ Reading

\* The input cannot be read, or is longer than MaxScript.
ReadFails(err) ==
  /\ pc = "read" /\ opt.ok
  /\ Abort(err)
  /\ UNCHANGED <<i, cur, inItem, items, all>> /\ Reading

Read ==
  /\ pc = "read" /\ opt.ok
  /\ IF opt.nul \/ opt.replace
     THEN /\ pc' = "run"
          /\ items' = IF opt.nul THEN NulItems ELSE LineItems
          /\ all' = items'
     ELSE pc' = "split" /\ UNCHANGED <<items, all>>
  /\ UNCHANGED <<i, cur, inItem, ret>> /\ Reading

\* xargsSplit, case by case.
Splitting == pc = "split" /\ i <= Len(input)

Backslash ==
  /\ Splitting /\ input[i] = "bs"
  /\ IF i = Len(input) THEN Fail /\ UNCHANGED <<i, cur, inItem>>
     ELSE /\ cur' = Append(cur, input[i + 1])
          /\ inItem' = TRUE /\ i' = i + 2
          /\ UNCHANGED <<pc, ret>>
  /\ UNCHANGED <<items, all>> /\ Reading

\* Seeded fault: a quote may span lines.
Quoted_Lines ==
  /\ Splitting /\ input[i] \in Quote
  /\ LET ends == {j \in i + 1..Len(input) : input[j] = input[i]} IN
     IF ends = {} THEN Fail /\ UNCHANGED <<i, cur, inItem>>
     ELSE /\ cur' = cur \o SubSeq(input, i + 1, Min(ends) - 1)
          /\ inItem' = TRUE /\ i' = Min(ends) + 1
          /\ UNCHANGED <<pc, ret>>
  /\ UNCHANGED <<items, all>> /\ Reading

Quoted ==
  /\ Splitting /\ input[i] \in Quote
  /\ LET ends == {j \in i + 1..Len(input) : input[j] = input[i]} IN
     IF ends = {} \/ (\E j \in i + 1..Min(ends) - 1 : input[j] = "nl")
     THEN Fail /\ UNCHANGED <<i, cur, inItem>>
     ELSE /\ cur' = cur \o SubSeq(input, i + 1, Min(ends) - 1)
          /\ inItem' = TRUE /\ i' = Min(ends) + 1
          /\ UNCHANGED <<pc, ret>>
  /\ UNCHANGED <<items, all>> /\ Reading

Separated ==
  /\ Splitting /\ input[i] \in Separator
  /\ items' = IF inItem THEN Append(items, cur) ELSE items
  /\ cur' = <<>> /\ inItem' = FALSE /\ i' = i + 1
  /\ UNCHANGED <<pc, ret, all>> /\ Reading

Letter ==
  /\ Splitting /\ input[i] \notin Separator \cup Quote \cup {"bs"}
  /\ cur' = Append(cur, input[i])
  /\ inItem' = TRUE /\ i' = i + 1
  /\ UNCHANGED <<pc, items, ret, all>> /\ Reading

SplitEnd ==
  /\ pc = "split" /\ i > Len(input)
  /\ pc' = "run"
  /\ items' = IF inItem THEN Append(items, cur) ELSE items
  /\ all' = items'
  /\ UNCHANGED <<i, cur, inItem, ret>> /\ Reading

-----------------------------------------------------------------------------
(* The command lines *)

Looping == first \/ items # <<>>
Running == UNCHANGED <<opt, input, i, cur, inItem, all>>

\* Nothing to run, or everything has run.
Finish ==
  /\ pc = "run"
  /\ (first /\ items = <<>> /\ opt.skipEmpty) \/ ~Looping
  /\ pc' = "done" /\ ret' = [code |-> status, err |-> "none"]
  /\ UNCHANGED <<items, first, status, lines, codes>> /\ Running

CanRun == pc = "run" /\ Looping /\ ~(first /\ items = <<>> /\ opt.skipEmpty)

\* The step budget, which other stages use too, or the context has ended.
StepFails(err) ==
  /\ CanRun
  /\ Abort(err)
  /\ UNCHANGED <<items, first, status, lines, codes>> /\ Running

Batch == IF opt.per > 0 /\ opt.per < Len(items) THEN SubSeq(items, 1, opt.per) ELSE items

\* Seeded fault: the batch size is compared with the wrong bound.
Rest_Off == IF opt.per > 0 /\ opt.per + 1 < Len(items) THEN SubSeq(items, opt.per + 1, Len(items)) ELSE <<>>

Rest == SubSeq(items, Len(Batch) + 1, Len(items))

\* What the command line carries: with -I the item replaces the placeholder,
\* if there is exactly one.
Line == IF opt.replace /\ Len(Batch) # 1 THEN <<>> ELSE Batch

RunLine(code) ==
  /\ CanRun
  /\ items' = Rest /\ first' = FALSE
  /\ lines' = Append(lines, Line) /\ codes' = Append(codes, code)
  /\ CASE code \in {126, 127} -> pc' = "done" /\ ret' = [code |-> code, err |-> "none"] /\ UNCHANGED status
       [] code = 255 -> pc' = "done" /\ ret' = [code |-> 124, err |-> "none"] /\ UNCHANGED status
       [] OTHER -> status' = (IF code # 0 THEN 123 ELSE status) /\ UNCHANGED <<pc, ret>>
  /\ Running

\* The command fails with an error, which is passed on.
LineFails(code) ==
  /\ CanRun
  /\ items' = Rest /\ first' = FALSE
  /\ lines' = Append(lines, Line) /\ codes' = Append(codes, code)
  /\ pc' = "done" /\ ret' = [code |-> code, err |-> "fail"]
  /\ UNCHANGED status /\ Running

\* xargs has returned; it may be called again.
Again ==
  /\ pc = "done"
  /\ pc' = "read" /\ ret' = Pending
  /\ i' = 1 /\ cur' = <<>> /\ inItem' = FALSE /\ items' = <<>>
  /\ first' = TRUE /\ status' = 0 /\ all' = <<>> /\ lines' = <<>> /\ codes' = <<>>
  /\ UNCHANGED <<opt, input>>

Init ==
  /\ pc = "read" /\ ret = Pending
  /\ opt \in {Options(args) : args \in Args}
  /\ input \in UNION {[1..n -> Char] : n \in 0..MaxLen}
  /\ i = 1 /\ cur = <<>> /\ inItem = FALSE /\ items = <<>>
  /\ first = TRUE /\ status = 0 /\ all = <<>> /\ lines = <<>> /\ codes = <<>>

Next ==
  \/ BadOption \/ Read \/ Backslash \/ Quoted \/ Separated \/ Letter \/ SplitEnd \/ Finish \/ Again
  \/ \E err \in {"fail", "limit"} : ReadFails(err)
  \/ \E err \in {"limit", "ctx"} : StepFails(err)
  \/ \E code \in Code : RunLine(code) \/ LineFails(code)

Spec == Init /\ [][Next]_vars

-----------------------------------------------------------------------------
(* What GNU xargs documents: a quote makes everything up to the next one      *)
(* literal, a backslash the next character, and blanks and newlines that are   *)
(* not literal separate items.                                                 *)

\* How character n is read: plainly, after a backslash, or inside a quote.
Mode ==
  LET mode[n \in 1..Len(input) + 1] ==
        IF n = 1 THEN "plain"
        ELSE CASE mode[n - 1] = "plain" /\ input[n - 1] \in Quote \cup {"bs"} -> input[n - 1]
               [] mode[n - 1] = "bs" \/ mode[n - 1] = input[n - 1] -> "plain"
               [] OTHER -> mode[n - 1]
  IN mode

Literal(n) ==
  IF Mode[n] = "plain" THEN input[n] \notin Separator \cup Quote \cup {"bs"}
  ELSE Mode[n] = "bs" \/ input[n] # Mode[n]

Separates(n) == Mode[n] = "plain" /\ input[n] \in Separator

Malformed ==
  \/ Mode[Len(input) + 1] # "plain"
  \/ \E n \in DOMAIN input : Mode[n] \in Quote /\ input[n] = "nl"

\* The items: one for each longest run of characters that do not separate.
Reference ==
  LET starts == {n \in DOMAIN input : ~Separates(n) /\ (n = 1 \/ Separates(n - 1))}
      run(n) == {m \in n..Len(input) : \A k \in n..m : ~Separates(k)}
      text(n) == SetToSortSeq({m \in run(n) : Literal(m)}, <)
      order == SetToSortSeq(starts, <)
  IN [k \in DOMAIN order |-> [j \in DOMAIN text(order[k]) |-> input[text(order[k])[j]]]]

\* xargsSplit returns exactly the items the grammar gives, empty ones in quotes
\* included, and refuses exactly what is malformed; with -0 the items joined by
\* NUL are the input again, up to one NUL at its end.
SplitExact ==
  /\ pc = "run" /\ first /\ ~opt.nul /\ ~opt.replace => ~Malformed /\ items = Reference
  /\ pc = "done" /\ ret = [code |-> 1, err |-> "none"] /\ lines = <<>> => ~opt.ok \/ Malformed
  /\ pc = "run" /\ first /\ opt.nul /\ input # <<>>
       => FlattenSeq([k \in DOMAIN items |-> IF k = 1 THEN items[k] ELSE <<"nul">> \o items[k]])
            = TrimSuffix(input, "nul")

\* Every item is passed to exactly one command line, in order and at most per
\* at a time, until one stops xargs; an empty input runs the command once,
\* unless -r forbids it; and the status tells the worst that happened.  With -I
\* followed by -n 2 the items of a batch are dropped instead.
BatchesExact ==
  LET stopped == ret.err # "none" \/ \E k \in DOMAIN codes : codes[k] \in {126, 127, 255} IN
  /\ (pc = "run" \/ lines # <<>>) /\ ~(opt.replace /\ opt.per > 1) =>
       /\ FlattenSeq(lines) \o items = all
       /\ \A k \in DOMAIN lines : opt.per > 0 => Len(lines[k]) <= opt.per
  /\ pc = "done" /\ ~stopped /\ opt.ok /\ ~(~opt.nul /\ ~opt.replace /\ Malformed) =>
       /\ items = <<>>
       /\ lines = <<>> <=> all = <<>> /\ opt.skipEmpty
       /\ all = <<>> => Len(lines) <= 1
       /\ ret.code = IF \A k \in DOMAIN codes : codes[k] = 0 THEN 0 ELSE 123
  /\ pc = "done" /\ stopped /\ ret.err = "none" =>
       /\ \A k \in 1..Len(codes) - 1 : codes[k] \notin {126, 127, 255}
       /\ ret.code = IF Last(codes) = 255 THEN 124 ELSE Last(codes)

=============================================================================
