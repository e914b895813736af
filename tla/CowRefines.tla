----------------------------- MODULE CowRefines -----------------------------
(***************************************************************************)
(* CowScope implements ValueScope: read every array reference as the value *)
(* it denotes in the heap, forget the heap, the shared bits and the        *)
(* receiver ownPath holds.                                                 *)
(***************************************************************************)
EXTENDS MCCowScope

(* The value a reference denotes, following each array of S once: an array *)
(* that contained itself would denote no value.                            *)
RECURSIVE DenotesIn(_, _)
DenotesIn(v, S) ==
  IF v \in S THEN [k1 \in Keys |-> DenotesIn(slots[v][k1], S \ {v})] ELSE v

Denotes(v) == DenotesIn(v, Arrays)

(* The value an argument denotes when the host passes it. *)
RECURSIVE Denoted(_)
Denoted(v) ==
  IF v \in Host THEN [k1 \in Keys |-> Denoted(HostSlots[v][k1])] ELSE v

Value == INSTANCE ValueScope WITH
  frame <- [d \in Depths |-> [n \in Names |-> Denotes(frame[d][n])]],
  snap <- [d \in Depths |-> [k1 \in Keys |-> Denotes(snap[d][k1])]],
  acc <- Denotes(acc),
  Arguments <- [n \in DOMAIN HostVars |-> Denoted(HostVars[n])]

(* scope.go "Array values bound through Set are marked copy-on-write ... so  *)
(* *Array keeps its value semantics across frames": no observer of names,    *)
(* elements and loop pairs can tell the shared heap from copied values.      *)
ValueSemantics == Value!Spec
=============================================================================
