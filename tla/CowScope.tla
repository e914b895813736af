------------------------------ MODULE CowScope ------------------------------
(***************************************************************************)
(* The copy-on-write value layer under template variables: the arrays of   *)
(* pkg/runtime/array.go (each with its one "shared" bit), the frame stack  *)
(* of pkg/runtime/scope.go, and the statements of internal/interp that     *)
(* bind, read and write through them (@set, member @set, @for, @with,      *)
(* macro calls, inline assignment).                                        *)
(*                                                                         *)
(* Renders run one after the other over one heap: the host hands the same  *)
(* argument arrays to each of them, as renderShadowed does.  (An Array and *)
(* a Scope are confined to one goroutine by their contract, so renders     *)
(* that share arguments do not overlap.)                                   *)
(*                                                                         *)
(* One action per evaluation step.  A member assignment                    *)
(* @set n.k1.k2 = e takes several: the right-hand side is evaluated,       *)
(* ownPath privatizes the root, then every hop, each hop's key expression  *)
(* being evaluated in between, and only then is the slot written.          *)
(***************************************************************************)
EXTENDS ScopeFrames

CONSTANTS
  MaxRenders,    \* bound: renders run over the heap
  Keys,          \* canonical array keys
  Scalars,       \* non-array values
  Arrays,        \* array identities (pointers); bounds the allocations
  MaxHops,       \* bound: hops of a member-assignment path
  HostSlots,     \* the argument arrays' contents: [host arrays -> [Keys -> ..]]
  HostVars,      \* the vars map of a render: [some names -> host values]
  AliasStores,   \* TRUE: a template may store any array into a slot
  KeyEffects     \* TRUE: a key expression may assign to or from the path's root

Values == Scalars \cup Arrays
Host   == DOMAIN HostSlots
NoEntries  == [k \in Keys |-> Absent]

ASSUME CowAssumption ==
  /\ Absent \notin Values
  /\ Scalars \cap Arrays = {}
  /\ MaxRenders \in Nat
  /\ MaxHops \in Nat
  /\ Host \subseteq Arrays
  /\ HostSlots \in [Host -> [Keys -> Scalars \cup Host \cup {Absent}]]
  /\ DOMAIN HostVars \subseteq Names
  /\ HostVars \in [DOMAIN HostVars -> Scalars \cup Host]
  /\ AliasStores \in BOOLEAN
  /\ KeyEffects \in BOOLEAN

VARIABLES
  shared,  \* the arrays whose shared bit is set
  slots,   \* Array.vals: [Arrays -> [Keys -> value or Absent]]
  used,    \* arrays allocated so far
  snap,    \* what is left of a "for" frame's entry-time pair snapshot
  pc,      \* "idle", "stmt", "value" (acc holds a value), "path" (inside ownPath)
  acc,     \* the value just evaluated
  fresh,   \* acc is a literal this statement built
  root,    \* the name the member assignment under way is rooted at
  hops,    \* the keys ownPath has walked from it
  at,      \* the receiver it has reached
  left     \* renders still to run

heap == <<shared, slots, used>>
stack == <<depth, kind, frame, target, snap>>
path == <<root, hops, at>>
vars == <<heap, stack, pc, acc, fresh, path, left>>

-----------------------------------------------------------------------------
(* ShareValue over a set of values: the arrays among them become shared. *)
ShareAll(S) == shared \cup (S \cap Arrays)

(* Scope.Get marks what it finds in a frame other than the receiver. *)
GetMarks(n) == IF OwnerFrame(n) # depth THEN {Lookup(n)} ELSE {}

CanAlloc == used # Arrays
Fresh == CHOOSE a \in Arrays : a \notin used

(* Whether the templates considered may store v into a slot.  SetMember,   *)
(* SetIndex, evalMap and evalList store any value as it is; with           *)
(* AliasStores FALSE only scalars, literals built by the statement itself  *)
(* and arrays marked shared by then are stored.                            *)
MayStore(v, isFresh, marks) ==
  AliasStores \/ v \notin Arrays \/ isFresh \/ v \in marks \cup shared

-----------------------------------------------------------------------------
Init ==
  /\ shared = {}
  /\ slots = [a \in Arrays |-> IF a \in Host THEN HostSlots[a] ELSE NoEntries]
  /\ used = Host
  /\ depth = 0
  /\ kind = [d \in Depths |-> "isolated"]
  /\ frame = [d \in Depths |-> NoBindings]
  /\ target = [d \in Depths |-> Absent]
  /\ snap = [d \in Depths |-> NoEntries]
  /\ pc = "idle"
  /\ acc = Absent
  /\ fresh = FALSE
  /\ root = Absent
  /\ hops = <<>>
  /\ at = Absent
  /\ left = MaxRenders

(* renderBuffered, RenderTo: every host variable bound in a root frame. *)
StartRender ==
  /\ pc = "idle"
  /\ left > 0
  /\ left' = left - 1
  /\ pc' = "stmt"
  /\ depth' = 1
  /\ frame' = [frame EXCEPT ![1] =
       [n \in Names |-> IF n \in DOMAIN HostVars THEN HostVars[n] ELSE Absent]]
  /\ kind' = [kind EXCEPT ![1] = "isolated"]
  /\ shared' = ShareAll({HostVars[n] : n \in DOMAIN HostVars})
  /\ UNCHANGED <<slots, used, target, snap, acc, fresh, path>>

-----------------------------------------------------------------------------
(* Expressions: each leaves its value in acc. *)

Yields(v, isFresh) ==
  /\ pc = "stmt"
  /\ pc' = "value"
  /\ acc' = v
  /\ fresh' = isFresh
  /\ UNCHANGED <<stack, path, left>>

EvalScalar(s) == Yields(s, FALSE) /\ UNCHANGED heap

EvalName(n) ==
  /\ Has(n)
  /\ Yields(Lookup(n), FALSE)
  /\ shared' = ShareAll(GetMarks(n))
  /\ UNCHANGED <<slots, used>>

(* n.k, n[k]: GetAttribute returns the element as it is stored. *)
EvalMember(n, k) ==
  /\ Has(n)
  /\ Lookup(n) \in Arrays
  /\ slots[Lookup(n)][k] # Absent
  /\ Yields(slots[Lookup(n)][k], FALSE)
  /\ shared' = ShareAll(GetMarks(n))
  /\ UNCHANGED <<slots, used>>

(* Mutant: a literal reuses a recycled array the allocator still lists. *)
BuildLiteral_Recycled(k, v, marks) ==
  /\ CanAlloc
  /\ MayStore(v, FALSE, marks)
  /\ Yields(Fresh, TRUE)
  /\ shared' = ShareAll(marks)
  /\ slots' = [slots EXCEPT ![Fresh] = [NoEntries EXCEPT ![k] = v]]
  /\ UNCHANGED used

(* {k: v}, [v]: the element value, read with marks, is stored as it is. *)
BuildLiteral(k, v, marks) ==
  /\ CanAlloc
  /\ MayStore(v, FALSE, marks)
  /\ Yields(Fresh, TRUE)
  /\ shared' = ShareAll(marks)
  /\ slots' = [slots EXCEPT ![Fresh] = [NoEntries EXCEPT ![k] = v]]
  /\ used' = used \cup {Fresh}

EvalLiteral(k, s) == BuildLiteral(k, s, {})

(* {}, []: nothing is stored. *)
EvalEmpty == \E k \in Keys : BuildLiteral(k, Absent, {})

EvalLiteralOf(k, n) == Has(n) /\ BuildLiteral(k, Lookup(n), GetMarks(n))

-----------------------------------------------------------------------------
(* Statements that consume acc. *)

Consume ==
  /\ pc = "value"
  /\ pc' = "stmt"
  /\ acc' = Absent
  /\ fresh' = FALSE

(* {{ e }} or @do e: nothing keeps the value. *)
Discard == Consume /\ UNCHANGED <<heap, stack, path, left>>

(* Mutant: @set binds with SetOwned instead of Set. *)
SetName_Unmarked(n) ==
  /\ Consume
  /\ frame' = BindTop(n, acc)
  /\ UNCHANGED <<heap, depth, kind, target, snap, path, left>>

(* @set n = e, and {{ n = e }}: Scope.Set. *)
SetName(n) ==
  /\ Consume
  /\ frame' = BindTop(n, acc)
  /\ shared' = ShareAll({acc})
  /\ UNCHANGED <<slots, used, depth, kind, target, snap, path, left>>

(* Mutant: @with binds its entries with SetOwned. *)
Push_Unmarked(q, n, v) ==
  /\ depth < MaxDepth
  /\ depth' = depth + 1
  /\ kind' = [kind EXCEPT ![depth + 1] = q]
  /\ frame' = PushBound(n, v)
  /\ UNCHANGED shared

(* A frame of kind q is pushed with n bound to v (Scope.Child, Scope.Set). *)
Push(q, n, v) ==
  /\ depth < MaxDepth
  /\ depth' = depth + 1
  /\ kind' = [kind EXCEPT ![depth + 1] = q]
  /\ frame' = PushBound(n, v)
  /\ shared' = ShareAll({v})

(* @with {n: e} (q = "child"); @with .. only, a macro call and an @include *)
(* .. only run their body in a scope with no parent (q = "isolated").      *)
Enter(q, n) ==
  /\ Consume
  /\ Push(q, n, acc)
  /\ UNCHANGED <<slots, used, target, snap, path, left>>

(* The body of a non-loop frame ends: the frame is discarded. *)
Leave ==
  /\ pc = "stmt"
  /\ depth > 1
  /\ kind[depth] # "for"
  /\ depth' = depth - 1
  /\ frame' = [frame EXCEPT ![depth] = NoBindings]
  /\ UNCHANGED <<heap, kind, target, snap, pc, acc, fresh, path, left>>

-----------------------------------------------------------------------------
(* @for t in e.  The pairs are snapshotted at entry; one child frame serves *)
(* every iteration; on exit the names visible before the loop, except the   *)
(* target, are copied back.                                                 *)

(* A collection with no entries runs no iteration and copies nothing back. *)
LoopOverEmpty ==
  /\ acc \in Arrays
  /\ slots[acc] = NoEntries
  /\ Discard

(* Mutant: the entry of the first iteration stays in the snapshot. *)
LoopEnter_Twice(t, k) ==
  /\ Consume
  /\ acc \in Arrays
  /\ slots[acc][k] # Absent
  /\ Push("for", t, slots[acc][k])
  /\ target' = [target EXCEPT ![depth + 1] = t]
  /\ snap' = [snap EXCEPT ![depth + 1] = slots[acc]]
  /\ UNCHANGED <<slots, used, path, left>>

(* First iteration, on the entry k. *)
LoopEnter(t, k) ==
  /\ Consume
  /\ acc \in Arrays
  /\ slots[acc][k] # Absent
  /\ Push("for", t, slots[acc][k])
  /\ target' = [target EXCEPT ![depth + 1] = t]
  /\ snap' = [snap EXCEPT ![depth + 1] = [slots[acc] EXCEPT ![k] = Absent]]
  /\ UNCHANGED <<slots, used, path, left>>

(* A further iteration, on the entry k. *)
LoopNext(k) ==
  /\ pc = "stmt"
  /\ depth > 1
  /\ kind[depth] = "for"
  /\ snap[depth][k] # Absent
  /\ frame' = BindTop(target[depth], snap[depth][k])
  /\ shared' = ShareAll({snap[depth][k]})
  /\ snap' = [snap EXCEPT ![depth][k] = Absent]
  /\ UNCHANGED <<slots, used, depth, kind, target, pc, acc, fresh, path, left>>

LoopExit ==
  /\ pc = "stmt"
  /\ depth > 1
  /\ kind[depth] = "for"
  /\ snap[depth] = NoEntries
  /\ depth' = depth - 1
  /\ frame' = PopLoop
  /\ shared' = ShareAll({Lookup(n) : n \in CopiedBack})
  /\ target' = [target EXCEPT ![depth] = Absent]
  /\ UNCHANGED <<slots, used, kind, snap, pc, acc, fresh, path, left>>

-----------------------------------------------------------------------------
(* @set n.k1..km = e: assignMember over ownPath. *)

NoPath == root' = Absent /\ hops' = <<>> /\ at' = Absent

(* Mutant: the clone leaves the nested arrays unmarked. *)
CloneInto_Shallow(a, marks) ==
  /\ CanAlloc
  /\ shared' = ShareAll(marks)
  /\ used' = used \cup {Fresh}

(* cloneShallowCOW: a's nested arrays are marked, the copy is not. *)
CloneInto(a, marks) ==
  /\ CanAlloc
  /\ shared' = ShareAll(marks \cup {slots[a][k] : k \in Keys})
  /\ used' = used \cup {Fresh}

(* Root: read n; a shared array is privatized and rebound in the top frame. *)
OwnRoot(n) ==
  /\ pc = "value"
  /\ Has(n)
  /\ pc' = "path"
  /\ root' = n
  /\ hops' = <<>>
  /\ \/ /\ Lookup(n) \in ShareAll(GetMarks(n))
        /\ CloneInto(Lookup(n), GetMarks(n))
        /\ slots' = [slots EXCEPT ![Fresh] = slots[Lookup(n)]]
        /\ frame' = BindTop(n, Fresh)
        /\ at' = Fresh
     \/ /\ Lookup(n) \notin ShareAll(GetMarks(n))
        /\ at' = Lookup(n)
        /\ UNCHANGED <<heap, frame>>
  /\ UNCHANGED <<depth, kind, target, snap, acc, fresh, left>>

(* Mutant: a hop passes a shared element through as it is. *)
OwnHop_NoClone(k) ==
  /\ pc = "path"
  /\ at \in Arrays
  /\ slots[at][k] # Absent
  /\ Len(hops) < MaxHops
  /\ hops' = Append(hops, k)
  /\ at' = slots[at][k]
  /\ UNCHANGED <<heap, stack, pc, acc, fresh, root, left>>

(* Hop .k: a shared element is privatized into its owned parent's slot. *)
OwnHop(k) ==
  /\ pc = "path"
  /\ at \in Arrays
  /\ slots[at][k] # Absent
  /\ Len(hops) < MaxHops
  /\ hops' = Append(hops, k)
  /\ \/ /\ slots[at][k] \in shared
        /\ CloneInto(slots[at][k], {})
        /\ slots' = [slots EXCEPT ![Fresh] = slots[slots[at][k]], ![at][k] = Fresh]
        /\ at' = Fresh
     \/ /\ slots[at][k] \notin shared
        /\ at' = slots[at][k]
        /\ UNCHANGED heap
  /\ UNCHANGED <<stack, pc, acc, fresh, root, left>>

(* A key expression of the path reads a name: n.k1[m]. *)
KeyRead(n) ==
  /\ pc = "path"
  /\ Has(n)
  /\ shared' = ShareAll(GetMarks(n))
  /\ UNCHANGED <<slots, used, stack, pc, acc, fresh, path, left>>

(* A key expression of the path assigns inline: n.k1[(m = n2)].  Templates *)
(* that involve the root of the path there are considered with KeyEffects. *)
KeyAssign(m, n) ==
  /\ KeyEffects \/ root \notin {m, n}
  /\ pc = "path"
  /\ Has(n)
  /\ frame' = BindTop(m, Lookup(n))
  /\ shared' = ShareAll({Lookup(n)})
  /\ UNCHANGED <<slots, used, depth, kind, target, snap, pc, acc, fresh, path, left>>

(* SetMember / SetIndex on the receiver ownPath returned. *)
Store(k) ==
  /\ pc = "path"
  /\ at \in Arrays
  /\ MayStore(acc, fresh, {})
  /\ slots' = [slots EXCEPT ![at][k] = acc]
  /\ pc' = "stmt"
  /\ acc' = Absent
  /\ fresh' = FALSE
  /\ NoPath
  /\ UNCHANGED <<shared, used, stack, left>>

-----------------------------------------------------------------------------
(* The end of a render: its body is done, or an error aborts it (an unbound *)
(* name, a missing key on the path, a scalar receiver, a scalar iterand).   *)

Errs ==
  \/ pc \in {"stmt", "value", "path"} /\ \E n \in Names : ~Has(n)
  \/ pc = "path" /\ at \notin Arrays
  \/ pc = "path" /\ at \in Arrays /\ \E k \in Keys : slots[at][k] = Absent
  \/ pc = "value" /\ acc \notin Arrays

EndRender ==
  /\ \/ pc = "stmt" /\ depth = 1
     \/ Errs
  /\ pc' = "idle"
  /\ depth' = 0
  /\ frame' = [d \in Depths |-> NoBindings]
  /\ target' = [d \in Depths |-> Absent]
  /\ snap' = [d \in Depths |-> NoEntries]
  /\ acc' = Absent
  /\ fresh' = FALSE
  /\ NoPath
  /\ UNCHANGED <<heap, kind, left>>

Evaluate ==
  \/ \E s \in Scalars : EvalScalar(s)
  \/ \E n \in Names : EvalName(n)
  \/ \E n \in Names, k \in Keys : EvalMember(n, k)
  \/ \E k \in Keys, s \in Scalars : EvalLiteral(k, s)
  \/ EvalEmpty
  \/ \E k \in Keys, n \in Names : EvalLiteralOf(k, n)

Loop ==
  \/ LoopOverEmpty
  \/ \E t \in Names, k \in Keys : LoopEnter(t, k)
  \/ \E k \in Keys : LoopNext(k)
  \/ LoopExit

AssignMember ==
  \/ \E n \in Names : OwnRoot(n)
  \/ \E k \in Keys : OwnHop(k)
  \/ \E n \in Names : KeyRead(n)
  \/ \E m, n \in Names : KeyAssign(m, n)
  \/ \E k \in Keys : Store(k)

Next ==
  \/ StartRender
  \/ Evaluate
  \/ Discard
  \/ \E n \in Names : SetName(n)
  \/ \E q \in {"child", "isolated"}, n \in Names : Enter(q, n)
  \/ Leave
  \/ Loop
  \/ AssignMember
  \/ EndRender

Spec == Init /\ [][Next]_vars

-----------------------------------------------------------------------------
(* Properties. *)

OrAbsent(S) == S \cup {Absent}

(* Every variable has its type, and nothing refers to an array that has not *)
(* been allocated: the shape every property below is stated over.           *)
TypeOK ==
  /\ shared \subseteq used
  /\ slots \in [Arrays -> [Keys -> OrAbsent(Scalars \cup used)]]
  /\ Host \subseteq used
  /\ used \subseteq Arrays
  /\ depth \in 0..MaxDepth
  /\ kind \in [Depths -> {"child", "for", "isolated"}]
  /\ frame \in [Depths -> [Names -> OrAbsent(Scalars \cup used)]]
  /\ target \in [Depths -> OrAbsent(Names)]
  /\ snap \in [Depths -> [Keys -> OrAbsent(Scalars \cup used)]]
  /\ pc \in {"idle", "stmt", "value", "path"}
  /\ acc \in OrAbsent(Scalars \cup used)
  /\ fresh \in BOOLEAN
  /\ root \in OrAbsent(Names)
  /\ hops \in Seq(Keys)
  /\ at \in OrAbsent(Scalars \cup used)
  /\ left \in 0..MaxRenders

(* array.go "A value bound to a name marks its array shared": an array that *)
(* two bindings reach (names of one frame, or a name and its copy in an     *)
(* outer frame) is shared, so neither can be written in place.              *)
FrameAliasShared ==
  \A d, e \in Depths, m, n \in Names :
    /\ <<d, m>> # <<e, n>>
    /\ frame[d][m] = frame[e][n]
    /\ frame[d][m] \in Arrays
    => frame[d][m] \in shared

(* environment.go renderShadowed "every template mutation privatizes first, *)
(* so the first render cannot change what the second reads": no render      *)
(* changes an argument array, at any nesting depth.                         *)
HostUntouched == \A h \in Host : slots[h] = HostSlots[h]

(* array.go "a single-owner array (shared false) mutates in place": an array *)
(* the templates made and that is not shared has one holder, one binding or  *)
(* one slot, and a literal not yet consumed has none.                        *)
BoundTo(a) == {b \in Depths \X Names : frame[b[1]][b[2]] = a}
HeldIn(a)  == {s \in (Arrays \ Host) \X Keys : slots[s[1]][s[2]] = a}

UnsharedUnique ==
  \A a \in used \ (Host \cup shared) :
    /\ \A x, y \in BoundTo(a) : x = y
    /\ \A x, y \in HeldIn(a) : x = y
    /\ BoundTo(a) = {} \/ HeldIn(a) = {}
    /\ fresh /\ acc = a => BoundTo(a) = {} /\ HeldIn(a) = {}

(* ownPath "a node is owned and rebound before its child is read": the       *)
(* array a member assignment is about to write is not shared when the write  *)
(* happens, whatever the key expressions in between did.                     *)
OwnedInPlace == at \notin shared

(* The step that writes a slot finds the array it writes with no alias. *)
PrivateWrite ==
  pc = "path" /\ pc' = "stmt" =>
    /\ at \notin Host
    /\ \A x, y \in BoundTo(at) : x = y
    /\ \A x, y \in HeldIn(at) : x = y
    /\ BoundTo(at) = {} \/ HeldIn(at) = {}

(* array.go "a shared array is privatized (Own) before an in-place mutation  *)
(* so the write cannot reach any alias": the array a slot of which is        *)
(* written is no argument array and has no second holder.                    *)
WriteReachesNoAlias == [][PrivateWrite]_vars
=============================================================================
