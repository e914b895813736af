-------------------------------- MODULE Tree --------------------------------
(***************************************************************************)
(* The nodes of the syntax tree (pkg/ast): a kind, a spelling, the flags   *)
(* that a node's Bool and Int fields carry, and the children.              *)
(***************************************************************************)
EXTENDS Integers, Sequences, SequencesExt, FiniteSets

Node(k, s, f, c) == [k |-> k, s |-> s, f |-> f, c |-> c]
N(k, s, c) == Node(k, s, {}, c)
Add(n, nodes) == [n EXCEPT !.c = @ \o nodes]
Elided == N("Elided", "", <<>>)
Empty == N("String", "", <<>>)
=============================================================================
