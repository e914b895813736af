----------------------------- MODULE MCCowScope -----------------------------
(* CowScope on small heaps: one argument array g, or two with h nested in   *)
(* g, and one or two arrays for the templates to allocate.                 *)
EXTENDS CowScope

CONSTANTS a, b, k, m, s, g, h, f1, f2

TwoNames == {a, b}
OneKey == {k}
TwoKeys == {k, m}
OneScalar == {s}
PairHeap == {g, h, f1}
NestedHeap == {g, h, f1, f2}

(* the host passes a = {k: {k: s}} *)
NestedArgument == [x \in {g, h} |-> [y \in OneKey |-> IF x = g THEN h ELSE s]]
(* the host passes a = {k: {k: s, m: s}, m: s} *)
PairArgument ==
  [x \in {g, h} |-> [y \in TwoKeys |-> IF x = g /\ y = k THEN h ELSE s]]
ArgumentVars == [n \in {a} |-> g]
=============================================================================
