------------------------------ MODULE MCXargs -------------------------------
(* Instance of Xargs for TLC. *)
EXTENDS Xargs

\* Every option alone, and the orders of -I and -n.
MCArgs == {<<>>, <<"bad">>, <<"-0">>, <<"-n1">>, <<"-n2", "-r">>, <<"-I">>, <<"-I", "-n2">>,
           <<"-n2", "-I">>, <<"-0", "-n1">>}
=============================================================================
