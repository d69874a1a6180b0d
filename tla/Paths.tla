------------------------------- MODULE Paths -------------------------------
(***************************************************************************)
(* The io/fs path algebra used by vfs/memory.go and fsys/namespace.go.      *)
(* A valid path is the sequence of its components: "a/b" is <<a, b>> and    *)
(* "." is <<>>.  Components are integers, so that they can be ordered the   *)
(* way directory listings are sorted.                                       *)
(***************************************************************************)
EXTENDS Integers, Sequences

\* path.Dir: the parent of a path.  The parent of "." is ".".
Dir(p) == [i \in 1..(Len(p) - 1) |-> p[i]]

\* path.Base of a path other than ".".
Base(p) == p[Len(p)]

\* p is a or lies below a:  p == a || strings.HasPrefix(p, a+"/").
Under(p, a) == /\ Len(a) <= Len(p)
               /\ \A i \in 1..Len(a) : p[i] = a[i]

\* b + strings.TrimPrefix(p, a), for a path p under a.
Rebase(p, a, b) ==
  [i \in 1..(Len(p) - Len(a) + Len(b)) |->
     IF i <= Len(b) THEN b[i] ELSE p[i - Len(b) + Len(a)]]
=============================================================================
