----------------------------- MODULE ScopeFrames -----------------------------
(***************************************************************************)
(* The frame stack of pkg/runtime/scope.go: frames pushed by Child, reads  *)
(* that fall through to the nearest frame binding the name, writes that    *)
(* land in the top frame.  A frame created by NewScope has no parent.      *)
(* Shared by CowScope, where frames hold arrays by reference, and by       *)
(* ValueScope, where they hold values.                                     *)
(***************************************************************************)
EXTENDS Integers, Sequences

CONSTANTS
  Names,     \* variable names
  Absent,    \* "no binding", "no such key"
  MaxDepth   \* bound: live frames

VARIABLES
  depth,   \* number of live frames, 0 between renders
  kind,    \* "child", "for" (a loop's child frame) or "isolated" (no parent)
  frame,   \* the bindings of each frame
  target   \* the loop variable of a "for" frame

ASSUME FramesAssumption == MaxDepth \in Nat \ {0}

Depths == 1..MaxDepth
NoBindings == [n \in Names |-> Absent]

(* The frames a lookup reaches. *)
Visible == {d \in 1..depth : \A e \in (d+1)..depth : kind[e] # "isolated"}

Binders(n) == {d \in Visible : frame[d][n] # Absent}

Has(n) == Binders(n) # {}

OwnerFrame(n) == CHOOSE d \in Binders(n) : \A e \in Binders(n) : e <= d

Lookup(n) == frame[OwnerFrame(n)][n]

(* The frames once n is bound to v in the top one. *)
BindTop(n, v) == [frame EXCEPT ![depth][n] = v]

(* The frames once a further one is pushed, n bound to v in it. *)
PushBound(n, v) == [frame EXCEPT ![depth + 1] = [NoBindings EXCEPT ![n] = v]]

(* What a @for assigns in the pre-loop scope when it ends: every name that  *)
(* scope shows, the loop's own target excepted.                             *)
CopiedBack ==
  {n \in Names : n # target[depth] /\ \E d \in Binders(n) : d < depth}

(* The frames once the loop's frame is dropped and those names copied back. *)
PopLoop ==
  [frame EXCEPT
     ![depth] = NoBindings,
     ![depth - 1] = [n \in Names |->
        IF n \in CopiedBack THEN Lookup(n) ELSE frame[depth - 1][n]]]
=============================================================================
