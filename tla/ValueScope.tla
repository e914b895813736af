----------------------------- MODULE ValueScope -----------------------------
(***************************************************************************)
(* What the copy-on-write layer promises: a template variable holds a      *)
(* VALUE.  There is no heap, no sharing bit and no array identity: an      *)
(* array is a function from keys to values, reading one copies it, and     *)
(* @set n.k1.k2 = e changes what n holds in the top frame and nothing      *)
(* else.  CowRefines shows that CowScope implements this module.           *)
(***************************************************************************)
EXTENDS ScopeFrames

CONSTANTS
  MaxRenders,  \* bound: renders run
  Keys,        \* canonical array keys
  Scalars,     \* non-array values
  Arguments    \* the vars map of a render: [some names -> values]

VARIABLES
  snap,   \* what is left of a loop's entry-time pair snapshot
  pc,     \* "idle", "stmt", "value", "path"
  acc,    \* the value just evaluated
  root,   \* the name the member assignment under way is rooted at
  hops,   \* the keys walked from it
  left    \* renders still to run

stack == <<depth, kind, frame, target, snap>>
vars == <<stack, pc, acc, root, hops, left>>

NoEntries == [k \in Keys |-> Absent]

(* A value is a scalar, absent or an array: a function on the keys. *)
IsArray(v) == v \notin Scalars \cup {Absent}

(* The value found in v under the keys p; v with x stored under p. *)
RECURSIVE ValueAt(_, _)
ValueAt(v, p) == IF p = <<>> THEN v ELSE ValueAt(v[Head(p)], Tail(p))

RECURSIVE StoredAt(_, _, _)
StoredAt(v, p, x) ==
  IF p = <<>> THEN x
  ELSE [v EXCEPT ![Head(p)] = StoredAt(v[Head(p)], Tail(p), x)]

Init ==
  /\ depth = 0
  /\ kind = [d \in Depths |-> "isolated"]
  /\ frame = [d \in Depths |-> NoBindings]
  /\ target = [d \in Depths |-> Absent]
  /\ snap = [d \in Depths |-> NoEntries]
  /\ pc = "idle"
  /\ acc = Absent
  /\ root = Absent
  /\ hops = <<>>
  /\ left = MaxRenders

(* Every render starts from the argument values the host passed. *)
StartRender ==
  /\ pc = "idle"
  /\ left > 0
  /\ left' = left - 1
  /\ pc' = "stmt"
  /\ depth' = 1
  /\ frame' = [frame EXCEPT ![1] =
       [n \in Names |-> IF n \in DOMAIN Arguments THEN Arguments[n] ELSE Absent]]
  /\ kind' = [kind EXCEPT ![1] = "isolated"]
  /\ UNCHANGED <<target, snap, acc, root, hops>>

Yields(v) ==
  /\ pc = "stmt"
  /\ pc' = "value"
  /\ acc' = v
  /\ UNCHANGED <<stack, root, hops, left>>

EvalScalar(s) == Yields(s)

EvalName(n) == Has(n) /\ Yields(Lookup(n))

EvalMember(n, k) ==
  /\ Has(n)
  /\ IsArray(Lookup(n))
  /\ Lookup(n)[k] # Absent
  /\ Yields(Lookup(n)[k])

EvalLiteral(k, s) == Yields([NoEntries EXCEPT ![k] = s])

EvalEmpty == Yields(NoEntries)

EvalLiteralOf(k, n) == Has(n) /\ Yields([NoEntries EXCEPT ![k] = Lookup(n)])

Consume ==
  /\ pc = "value"
  /\ pc' = "stmt"
  /\ acc' = Absent
  /\ UNCHANGED <<root, hops, left>>

Discard == Consume /\ UNCHANGED stack

SetName(n) ==
  /\ Consume
  /\ frame' = BindTop(n, acc)
  /\ UNCHANGED <<depth, kind, target, snap>>

Enter(q, n) ==
  /\ Consume
  /\ depth < MaxDepth
  /\ depth' = depth + 1
  /\ kind' = [kind EXCEPT ![depth + 1] = q]
  /\ frame' = PushBound(n, acc)
  /\ UNCHANGED <<target, snap>>

Leave ==
  /\ pc = "stmt"
  /\ depth > 1
  /\ kind[depth] # "for"
  /\ depth' = depth - 1
  /\ frame' = [frame EXCEPT ![depth] = NoBindings]
  /\ UNCHANGED <<kind, target, snap, pc, acc, root, hops, left>>

(* A loop iterates the entries the collection had when the loop began. *)
LoopEnter(t, k) ==
  /\ Consume
  /\ depth < MaxDepth
  /\ IsArray(acc)
  /\ acc[k] # Absent
  /\ depth' = depth + 1
  /\ kind' = [kind EXCEPT ![depth + 1] = "for"]
  /\ frame' = PushBound(t, acc[k])
  /\ target' = [target EXCEPT ![depth + 1] = t]
  /\ snap' = [snap EXCEPT ![depth + 1] = [acc EXCEPT ![k] = Absent]]

LoopNext(k) ==
  /\ pc = "stmt"
  /\ depth > 1
  /\ kind[depth] = "for"
  /\ snap[depth][k] # Absent
  /\ frame' = BindTop(target[depth], snap[depth][k])
  /\ snap' = [snap EXCEPT ![depth][k] = Absent]
  /\ UNCHANGED <<depth, kind, target, pc, acc, root, hops, left>>

LoopExit ==
  /\ pc = "stmt"
  /\ depth > 1
  /\ kind[depth] = "for"
  /\ snap[depth] = NoEntries
  /\ depth' = depth - 1
  /\ frame' = PopLoop
  /\ target' = [target EXCEPT ![depth] = Absent]
  /\ UNCHANGED <<kind, snap, pc, acc, root, hops, left>>

(* A member assignment first makes the root array local to the top frame. *)
WalkRoot(n) ==
  /\ pc = "value"
  /\ Has(n)
  /\ pc' = "path"
  /\ root' = n
  /\ hops' = <<>>
  /\ frame' = IF IsArray(Lookup(n)) THEN BindTop(n, Lookup(n)) ELSE frame
  /\ UNCHANGED <<depth, kind, target, snap, acc, left>>

Receiver == ValueAt(Lookup(root), hops)

WalkHop(k) ==
  /\ pc = "path"
  /\ IsArray(Receiver)
  /\ Receiver[k] # Absent
  /\ hops' = Append(hops, k)
  /\ UNCHANGED <<stack, pc, acc, root, left>>

(* A key expression of the path assigns inline, leaving the root alone. *)
KeyAssign(m, n) ==
  /\ pc = "path"
  /\ Has(n)
  /\ root \notin {m, n}
  /\ frame' = BindTop(m, Lookup(n))
  /\ UNCHANGED <<depth, kind, target, snap, pc, acc, root, hops, left>>

(* The write: one binding of the top frame changes, under one path. *)
Store(k) ==
  /\ pc = "path"
  /\ IsArray(Receiver)
  /\ frame' = BindTop(root, StoredAt(frame[depth][root], Append(hops, k), acc))
  /\ pc' = "stmt"
  /\ acc' = Absent
  /\ root' = Absent
  /\ hops' = <<>>
  /\ UNCHANGED <<depth, kind, target, snap, left>>

EndRender ==
  /\ pc # "idle"
  /\ pc' = "idle"
  /\ depth' = 0
  /\ frame' = [d \in Depths |-> NoBindings]
  /\ target' = [d \in Depths |-> Absent]
  /\ snap' = [d \in Depths |-> NoEntries]
  /\ acc' = Absent
  /\ root' = Absent
  /\ hops' = <<>>
  /\ UNCHANGED <<kind, left>>

Next ==
  \/ StartRender
  \/ \E s \in Scalars : EvalScalar(s)
  \/ \E n \in Names : EvalName(n)
  \/ \E n \in Names, k \in Keys : EvalMember(n, k)
  \/ \E k \in Keys, s \in Scalars : EvalLiteral(k, s)
  \/ EvalEmpty
  \/ \E k \in Keys, n \in Names : EvalLiteralOf(k, n)
  \/ Discard
  \/ \E n \in Names : SetName(n)
  \/ \E q \in {"child", "isolated"}, n \in Names : Enter(q, n)
  \/ Leave
  \/ \E t \in Names, k \in Keys : LoopEnter(t, k)
  \/ \E k \in Keys : LoopNext(k)
  \/ LoopExit
  \/ \E n \in Names : WalkRoot(n)
  \/ \E k \in Keys : WalkHop(k)
  \/ \E m, n \in Names : KeyAssign(m, n)
  \/ \E k \in Keys : Store(k)
  \/ EndRender

Spec == Init /\ [][Next]_vars
=============================================================================
