------------------------------ MODULE MCMemory ------------------------------
(***************************************************************************)
(* Instances of Memory for model checking.                                  *)
(***************************************************************************)
EXTENDS Memory, TLC

CONSTANT MaxDepth  \* the length of the longest path

MCPath == UNION {[1..d -> Name] : d \in 0..MaxDepth}

OpenFlag(acc, opts) ==
  [write |-> acc # "RDONLY", read |-> acc # "WRONLY", create |-> "CREATE" \in opts,
   excl |-> "EXCL" \in opts, trunc |-> "TRUNC" \in opts, append |-> "APPEND" \in opts]

\* The flags that the shell's redirections and the WASI adapter pass.
QuotaFlag == {OpenFlag("RDONLY", {}), OpenFlag("RDONLY", {"CREATE", "TRUNC"}),
              OpenFlag("WRONLY", {"CREATE", "TRUNC"}), OpenFlag("RDWR", {"APPEND"})}
TreeFlag == {OpenFlag("RDONLY", {}), OpenFlag("RDWR", {"CREATE", "EXCL"})}
ListFlag == {OpenFlag("RDONLY", {})}

\* Handles are interchangeable.
Symmetry == Permutations(Handle)

QuotaOffset == Int64
TreeOffset == {0, 1}

QuotaPayload == {<<>>, <<1>>}
TreePayload == {<<1>>}
ListPayload == {}

\* States that differ only in what the last call returned have the same
\* successors (the action properties look at ret' alone), and node identities
\* are interchangeable: a node is known by its name, or by the handles on it.
Image(n) == <<isDir[n], meta[n], data[n], refs[n]>>

Key(n) == IF linked[n] THEN {p \in DOMAIN nodes : nodes[p] = n} ELSE HandlesOn(n)

ViewOf(f, n) == <<f, Image(n), Key(n)>>

View == <<[p \in DOMAIN nodes |-> Image(nodes[p])],
          [h \in Handle |-> ViewOf([file[h] EXCEPT !.n = Root], file[h].n)],
          {data[n] : n \in {m \in Node : ~Live(m)}}, used>>

\* No action reads the name a handle was opened by.
NamelessView ==
  <<[p \in DOMAIN nodes |-> Image(nodes[p])],
    [h \in Handle |-> ViewOf([file[h] EXCEPT !.n = Root, !.name = <<>>], file[h].n)],
    {data[n] : n \in {m \in Node : ~Live(m)}}, used>>
=============================================================================
