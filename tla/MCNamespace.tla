---------------------------- MODULE MCNamespace ----------------------------
(***************************************************************************)
(* Instances of Namespace for model checking.  Components: 1 and 2 are file *)
(* names, 3 is "dev", 4 and 5 lead to the mount point.                      *)
(***************************************************************************)
EXTENDS Namespace, TLC

CONSTANTS n0, n1, n2, n3, n4, n5, n6  \* nodes

MCPath == {<<>>, <<1>>, <<1, 5>>, <<2>>, <<3>>, <<3, 1>>, <<4>>, <<4, 5>>}
MCMountPath == <<4, 5>>
MCNullPath == <<3, 1>>
MCCwd == <<>>

MCRootTree == <<>> :> n0 @@ <<3>> :> n1 @@ <<4>> :> n2 @@ <<4, 5>> :> n3
MCDataTree == <<>> :> n0 @@ <<1>> :> n1 @@ <<2>> :> n2
MCDataDirs == {<<>>, <<2>>}
MCDataBytes == <<1>>

Abs(comps) == [abs |-> TRUE, comps |-> comps, slash |-> FALSE, nul |-> FALSE]
Slash(x) == [x EXCEPT !.slash = TRUE]
Nul(x) == [x EXCEPT !.nul = TRUE]

OpenFlag(acc, opts) ==
  [write |-> acc # "RDONLY", read |-> acc # "WRONLY", create |-> "CREATE" \in opts,
   excl |-> "EXCL" \in opts, trunc |-> "TRUNC" \in opts, append |-> "APPEND" \in opts]

\* Both filesystems, a name above the mount point, and a name that reaches the
\* mount through "..".
TreeArg == {Abs(<<1>>), Abs(<<4>>), Abs(<<4, 5, 1>>),
            Slash(Abs(<<4, UpDir, 4, 5, 2>>))}
TreeFlag == {OpenFlag("WRONLY", {"CREATE", "TRUNC"})}

\* Every kind of name, for one command that makes every call.
AllArg == {Abs(<<1>>), Nul(Abs(<<2>>)), Slash(Abs(<<3, 1>>)), Abs(<<3, 1>>),
           Abs(<<4, 5, 1>>), Slash(Abs(<<4, 5>>)), Abs(<<4, 5, 2>>)}
AllFlag == {OpenFlag("RDONLY", {}), OpenFlag("RDONLY", {"CREATE"}),
            OpenFlag("RDWR", {"CREATE", "EXCL"})}
AllPayload == {<<1>>}

\* A file and a directory, of which the file can take the other's name.
DirArg == {Abs(<<4, 5, 1>>), Abs(<<4, 5, 2>>)}
DirFlag == {OpenFlag("WRONLY", {"TRUNC"})}

\* What the successors of a state depend on, with the identities of the nodes
\* taken out: a node is known by its name or by who holds it open.
Held(file, n) == {p \in Proc : ~file[p].closed /\ file[p].n = n}
Image(isDir, meta, bytes, n) == <<isDir[n], meta[n], bytes[n]>>
Key(nodes, file, n) == <<{q \in DOMAIN nodes : nodes[q] = n}, Held(file, n)>>
StoreView(nodes, isDir, meta, bytes, file) ==
  <<[q \in DOMAIN nodes |-> Image(isDir, meta, bytes, nodes[q])],
    [p \in Proc |-> <<[file[p] EXCEPT !.n = n0, !.name = <<>>],
                      Image(isDir, meta, bytes, file[p].n), Key(nodes, file, file[p].n)>>]>>
View == <<StoreView(rNodes, rIsDir, rMeta, rData, rFile),
          StoreView(dNodes, dIsDir, dMeta, dData, dFile),
          call, wasi>>
Symmetry == Permutations(Proc)
=============================================================================
