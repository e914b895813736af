--------------------------- MODULE CowScopeProofs ---------------------------
(***************************************************************************)
(* Proofs about CowScope, for every number of names, keys, arrays, frames  *)
(* and renders.                                                            *)
(***************************************************************************)
EXTENDS CowScope, WellFoundedInduction, TLAPS

-----------------------------------------------------------------------------
(* Operators. *)

(* A nonempty set of frame indices has a greatest element. *)
LEMMA GreatestIndex ==
  ASSUME NEW top \in Nat, NEW S, S \subseteq 1..top, S # {}
  PROVE  \E d \in S : \A e \in S : e <= d
<1> DEFINE Below == {top - d : d \in S}
<1>1. Below \subseteq Nat /\ Below # {}
  <2>1. PICK d \in S : TRUE
    OBVIOUS
  <2>2. top - d \in Below
    OBVIOUS
  <2>3. \A e \in S : top - e \in Nat
    OBVIOUS
  <2> QED BY <2>2, <2>3
<1>2. PICK x \in Below : \A y \in Below : ~(<<y, x>> \in OpToRel(<, Nat))
  <2> HIDE DEF Below
  <2> QED BY <1>1, NatLessThanWellFounded, WFMin
<1>3. \A y \in Below : ~(y < x)
  <2> SUFFICES ASSUME NEW y \in Below, y < x PROVE FALSE
    OBVIOUS
  <2>1. <<y, x>> \in OpToRel(<, Nat)
    BY <1>1 DEF OpToRel
  <2> QED BY <2>1, <1>2
<1>4. PICK d \in S : x = top - d
  OBVIOUS
<1>5. \A e \in S : e <= d
  <2> SUFFICES ASSUME NEW e \in S PROVE e <= d
    OBVIOUS
  <2>1. top - e \in Below /\ ~(top - e < x)
    BY <1>3
  <2> QED BY <2>1, <1>4
<1> QED BY <1>5

(* scope.go Get: when a frame binds the name, the innermost such frame      *)
(* exists, so a lookup returns one of the bindings.                         *)
LEMMA OwnerBinds ==
  ASSUME NEW n, depth \in Nat, Has(n)
  PROVE  /\ OwnerFrame(n) \in Binders(n)
         /\ OwnerFrame(n) \in 1..depth
         /\ \A e \in Binders(n) : e <= OwnerFrame(n)
<1>1. Binders(n) \subseteq 1..depth
  BY DEF Binders, Visible
<1>2. \E d \in Binders(n) : \A e \in Binders(n) : e <= d
  BY <1>1, GreatestIndex DEF Has
<1> QED BY <1>1, <1>2 DEF OwnerFrame

(* A lookup that succeeds returns a value that exists. *)
LEMMA LookupTyped ==
  ASSUME TypeOK, NEW n \in Names, Has(n)
  PROVE  /\ OwnerFrame(n) \in Depths
         /\ OwnerFrame(n) \in Binders(n)
         /\ Lookup(n) = frame[OwnerFrame(n)][n]
         /\ Lookup(n) \in Scalars \cup used
<1>1. depth \in Nat /\ 1..depth \subseteq Depths
  BY FramesAssumption DEF TypeOK, Depths
<1>2. OwnerFrame(n) \in Binders(n) /\ OwnerFrame(n) \in Depths
  BY <1>1, OwnerBinds
<1>3. frame[OwnerFrame(n)][n] # Absent
  BY <1>2 DEF Binders
<1>4. frame[OwnerFrame(n)][n] \in OrAbsent(Scalars \cup used)
  BY <1>2 DEF TypeOK
<1> QED BY <1>2, <1>3, <1>4 DEF Lookup, OrAbsent

(* What an array holds exists. *)
LEMMA SlotTyped ==
  ASSUME TypeOK, NEW a \in Arrays, NEW k \in Keys
  PROVE  slots[a][k] \in OrAbsent(Scalars \cup used)
<1>1. slots \in [Arrays -> [Keys -> OrAbsent(Scalars \cup used)]]
  BY DEF TypeOK
<1>2. slots[a] \in [Keys -> OrAbsent(Scalars \cup used)]
  BY <1>1
<1> QED BY <1>2

(* The allocator returns an array nothing uses yet. *)
LEMMA FreshUnused ==
  ASSUME TypeOK, CanAlloc
  PROVE  Fresh \in Arrays /\ Fresh \notin used
BY DEF TypeOK, CanAlloc, Fresh

(* Marking keeps the shared bits on allocated arrays. *)
LEMMA ShareAllTyped ==
  ASSUME TypeOK, NEW S, S \subseteq OrAbsent(Scalars \cup used)
  PROVE  ShareAll(S) \subseteq used
BY CowAssumption DEF TypeOK, ShareAll, OrAbsent, Values

LEMMA MarksTyped ==
  ASSUME TypeOK, NEW n \in Names, Has(n)
  PROVE  GetMarks(n) \subseteq Scalars \cup used /\ ShareAll(GetMarks(n)) \subseteq used
<1>1. GetMarks(n) \subseteq Scalars \cup used
  BY LookupTyped DEF GetMarks
<1> QED BY <1>1, ShareAllTyped DEF OrAbsent

-----------------------------------------------------------------------------
(* Type correctness. *)

LEMMA TypeInit == Init => TypeOK
<1> SUFFICES ASSUME Init PROVE TypeOK
  OBVIOUS
<1>1. used = Host /\ Host \subseteq Arrays
  BY CowAssumption DEF Init
<1>2. NoEntries \in [Keys -> OrAbsent(Scalars \cup used)]
  BY DEF NoEntries, OrAbsent
<1>3. slots \in [Arrays -> [Keys -> OrAbsent(Scalars \cup used)]]
  <2>1. \A a \in Host : HostSlots[a] \in [Keys -> OrAbsent(Scalars \cup used)]
    BY <1>1, CowAssumption DEF OrAbsent
  <2> QED BY <1>2, <2>1 DEF Init
<1>4. frame \in [Depths -> [Names -> OrAbsent(Scalars \cup used)]]
  BY DEF Init, NoBindings, OrAbsent
<1>5. snap \in [Depths -> [Keys -> OrAbsent(Scalars \cup used)]]
  BY <1>2 DEF Init
<1>6. depth \in 0..MaxDepth /\ left \in 0..MaxRenders
  BY CowAssumption, FramesAssumption DEF Init
<1>7. hops \in Seq(Keys)
  BY DEF Init
<1> QED
  BY <1>1, <1>3, <1>4, <1>5, <1>6, <1>7 DEF Init, TypeOK, OrAbsent

(* Expressions change the heap, acc and fresh only. *)
LEMMA TypeEvaluate == TypeOK /\ Evaluate => TypeOK'
<1> SUFFICES ASSUME TypeOK, Evaluate PROVE TypeOK'
  OBVIOUS
<1> USE DEF Yields, stack, heap, path
<1>1. CASE \E s \in Scalars : EvalScalar(s)
  BY <1>1 DEF EvalScalar, TypeOK, OrAbsent
<1>2. ASSUME NEW n \in Names, EvalName(n) PROVE TypeOK'
  <2>1. Has(n)
    BY <1>2 DEF EvalName
  <2> QED BY <1>2, <2>1, LookupTyped, MarksTyped DEF EvalName, TypeOK, OrAbsent
<1>3. ASSUME NEW n \in Names, NEW k \in Keys, EvalMember(n, k) PROVE TypeOK'
  <2>1. Has(n) /\ Lookup(n) \in Arrays
    BY <1>3 DEF EvalMember
  <2>2. slots[Lookup(n)][k] \in OrAbsent(Scalars \cup used)
    BY <2>1, SlotTyped
  <2> QED BY <1>3, <2>1, <2>2, MarksTyped DEF EvalMember, TypeOK
<1>4. ASSUME NEW k \in Keys, NEW v \in OrAbsent(Scalars \cup used), NEW S,
             S \subseteq Scalars \cup used, BuildLiteral(k, v, S)
      PROVE  TypeOK'
  <2>1. Fresh \in Arrays /\ Fresh \notin used /\ ShareAll(S) \subseteq used
    BY <1>4, FreshUnused, ShareAllTyped DEF BuildLiteral, OrAbsent
  <2>2. [NoEntries EXCEPT ![k] = v] \in [Keys -> OrAbsent(Scalars \cup used')]
    BY <1>4 DEF BuildLiteral, NoEntries, OrAbsent
  <2>3. slots' \in [Arrays -> [Keys -> OrAbsent(Scalars \cup used')]]
    BY <1>4, <2>1, <2>2 DEF BuildLiteral, TypeOK, OrAbsent
  <2>4. frame' \in [Depths -> [Names -> OrAbsent(Scalars \cup used')]]
    BY <1>4 DEF BuildLiteral, TypeOK, OrAbsent
  <2>5. snap' \in [Depths -> [Keys -> OrAbsent(Scalars \cup used')]]
    BY <1>4 DEF BuildLiteral, TypeOK, OrAbsent
  <2> QED BY <1>4, <2>1, <2>3, <2>4, <2>5 DEF BuildLiteral, TypeOK, OrAbsent
<1>5. ASSUME NEW k \in Keys, NEW s \in Scalars, EvalLiteral(k, s) PROVE TypeOK'
  BY <1>4, <1>5 DEF EvalLiteral, OrAbsent
<1>6. ASSUME NEW k \in Keys, NEW n \in Names, EvalLiteralOf(k, n) PROVE TypeOK'
  BY <1>4, <1>6, LookupTyped, MarksTyped DEF EvalLiteralOf, OrAbsent
<1>7. CASE EvalEmpty
  BY <1>4, <1>7 DEF EvalEmpty, OrAbsent
<1> QED BY <1>1, <1>2, <1>3, <1>5, <1>6, <1>7 DEF Evaluate

(* A frame pushed with a typed binding keeps the frames typed. *)
LEMMA PushTyped ==
  ASSUME TypeOK, NEW q \in {"child", "for", "isolated"}, NEW n \in Names,
         NEW v \in OrAbsent(Scalars \cup used), Push(q, n, v)
  PROVE  /\ shared' \subseteq used
         /\ depth' \in 0..MaxDepth
         /\ kind' \in [Depths -> {"child", "for", "isolated"}]
         /\ frame' \in [Depths -> [Names -> OrAbsent(Scalars \cup used)]]
<1>1. [NoBindings EXCEPT ![n] = v] \in [Names -> OrAbsent(Scalars \cup used)]
  BY DEF NoBindings, OrAbsent
<1>2. shared' \subseteq used
  BY ShareAllTyped DEF Push
<1>3. depth' \in 0..MaxDepth
  BY FramesAssumption DEF Push, TypeOK
<1>4. kind' \in [Depths -> {"child", "for", "isolated"}]
  BY DEF Push, TypeOK
<1>5. frame' \in [Depths -> [Names -> OrAbsent(Scalars \cup used)]]
  BY <1>1 DEF Push, PushBound, TypeOK
<1> QED BY <1>2, <1>3, <1>4, <1>5

(* Binding in the top frame keeps the frames typed. *)
LEMMA BindTyped ==
  ASSUME NEW U, frame \in [Depths -> [Names -> U]], NEW n, NEW v \in U
  PROVE  BindTop(n, v) \in [Depths -> [Names -> U]]
<1>1. ASSUME NEW d \in Depths PROVE [frame[d] EXCEPT ![n] = v] \in [Names -> U]
  OBVIOUS
<1> QED BY <1>1 DEF BindTop

LEMMA PopLoopTyped ==
  ASSUME TypeOK
  PROVE  /\ PopLoop \in [Depths -> [Names -> OrAbsent(Scalars \cup used)]]
         /\ {Lookup(n) : n \in CopiedBack} \subseteq Scalars \cup used
<1> DEFINE U == OrAbsent(Scalars \cup used)
           Copied(d) == [n \in Names |-> IF n \in CopiedBack THEN Lookup(n) ELSE frame[d][n]]
<1>1. \A n \in CopiedBack : n \in Names /\ Has(n)
  BY DEF CopiedBack, Has
<1>2. \A n \in CopiedBack : Lookup(n) \in Scalars \cup used
  BY <1>1, LookupTyped
<1>3. \A d \in Depths : Copied(d) \in [Names -> U]
  BY <1>2 DEF TypeOK, OrAbsent
<1>4. NoBindings \in [Names -> U]
  BY DEF NoBindings, OrAbsent
<1>5. frame \in [Depths -> [Names -> U]]
  BY DEF TypeOK
<1>6. PopLoop = [frame EXCEPT ![depth] = NoBindings, ![depth - 1] = Copied(depth - 1)]
  BY DEF PopLoop
<1>7. PopLoop \in [Depths -> [Names -> U]]
  <2> HIDE DEF U, Copied
  <2> QED BY <1>3, <1>4, <1>5, <1>6
<1> QED BY <1>2, <1>7

(* Statements that consume acc, and the end of a body. *)
LEMMA TypeStatement ==
  ASSUME TypeOK,
         \/ Discard
         \/ \E n \in Names : SetName(n)
         \/ \E q \in {"child", "isolated"}, n \in Names : Enter(q, n)
         \/ Leave
         \/ LoopOverEmpty
  PROVE  TypeOK'
<1> USE DEF Consume, stack, heap, path
<1>0. acc \in OrAbsent(Scalars \cup used) /\ ShareAll({acc}) \subseteq used
  BY ShareAllTyped DEF TypeOK
<1>1. CASE Discard \/ LoopOverEmpty
  BY <1>1 DEF Discard, LoopOverEmpty, TypeOK, OrAbsent
<1>2. ASSUME NEW n \in Names, SetName(n) PROVE TypeOK'
  <2>1. frame' \in [Depths -> [Names -> OrAbsent(Scalars \cup used)]]
    BY <1>0, <1>2, BindTyped DEF SetName, TypeOK
  <2> QED BY <1>0, <1>2, <2>1 DEF SetName, TypeOK, OrAbsent
<1>3. ASSUME NEW q \in {"child", "isolated"}, NEW n \in Names, Enter(q, n)
      PROVE  TypeOK'
  <2>1. Push(q, n, acc) /\ UNCHANGED <<slots, used, target, snap, root, hops, at, left>>
    BY <1>3 DEF Enter
  <2>2. /\ shared' \subseteq used
        /\ depth' \in 0..MaxDepth
        /\ kind' \in [Depths -> {"child", "for", "isolated"}]
        /\ frame' \in [Depths -> [Names -> OrAbsent(Scalars \cup used)]]
    BY <1>0, <2>1, PushTyped
  <2> QED BY <1>3, <2>1, <2>2 DEF Enter, TypeOK, OrAbsent
<1>4. CASE Leave
  <2>1. NoBindings \in [Names -> OrAbsent(Scalars \cup used)]
    BY DEF NoBindings, OrAbsent
  <2>2. frame' \in [Depths -> [Names -> OrAbsent(Scalars \cup used)]]
    BY <1>4, <2>1 DEF Leave, TypeOK
  <2>3. depth' \in 0..MaxDepth
    BY <1>4, FramesAssumption DEF Leave, TypeOK
  <2> QED BY <1>4, <2>2, <2>3 DEF Leave, TypeOK
<1> QED BY <1>1, <1>2, <1>3, <1>4

LEMMA TypeLoop == TypeOK /\ Loop => TypeOK'
<1> SUFFICES ASSUME TypeOK, Loop PROVE TypeOK'
  OBVIOUS
<1> USE DEF Consume, stack, heap, path
<1>1. CASE LoopOverEmpty
  BY <1>1, TypeStatement
<1>2. ASSUME NEW t \in Names, NEW k \in Keys, LoopEnter(t, k) PROVE TypeOK'
  <2>1. acc \in Arrays /\ slots[acc][k] \in OrAbsent(Scalars \cup used)
    BY <1>2, SlotTyped DEF LoopEnter
  <2>2. [slots[acc] EXCEPT ![k] = Absent] \in [Keys -> OrAbsent(Scalars \cup used)]
    <3>1. slots[acc] \in [Keys -> OrAbsent(Scalars \cup used)]
      BY <2>1 DEF TypeOK
    <3>2. Absent \in OrAbsent(Scalars \cup used)
      BY DEF OrAbsent
    <3> QED BY <3>1, <3>2
  <2>3. snap' \in [Depths -> [Keys -> OrAbsent(Scalars \cup used)]]
    BY <1>2, <2>2 DEF LoopEnter, TypeOK
  <2>4. target' \in [Depths -> OrAbsent(Names)]
    BY <1>2 DEF LoopEnter, TypeOK, OrAbsent
  <2>5. Push("for", t, slots[acc][k])
    BY <1>2 DEF LoopEnter
  <2> QED BY <1>2, <2>1, <2>3, <2>4, <2>5, PushTyped DEF LoopEnter, TypeOK, OrAbsent
<1>3. ASSUME NEW k \in Keys, LoopNext(k) PROVE TypeOK'
  <2>1. depth \in Depths
    BY <1>3, FramesAssumption DEF LoopNext, TypeOK, Depths
  <2>2. snap[depth] \in [Keys -> OrAbsent(Scalars \cup used)]
    BY <2>1 DEF TypeOK
  <2>3. snap[depth][k] \in OrAbsent(Scalars \cup used)
    BY <2>2
  <2>4. frame' \in [Depths -> [Names -> OrAbsent(Scalars \cup used)]]
    BY <1>3, <2>3, BindTyped DEF LoopNext, TypeOK
  <2>5. [snap[depth] EXCEPT ![k] = Absent] \in [Keys -> OrAbsent(Scalars \cup used)]
    BY <2>2 DEF OrAbsent
  <2>6. snap' = [snap EXCEPT ![depth] = [snap[depth] EXCEPT ![k] = Absent]]
    BY <1>3 DEF LoopNext
  <2>7. snap' \in [Depths -> [Keys -> OrAbsent(Scalars \cup used)]]
    BY <2>5, <2>6 DEF TypeOK
  <2>8. ShareAll({snap[depth][k]}) \subseteq used
    BY <2>3, ShareAllTyped
  <2> QED BY <1>3, <2>4, <2>7, <2>8 DEF LoopNext, TypeOK
<1>4. CASE LoopExit
  <2>1. depth' \in 0..MaxDepth
    BY <1>4, FramesAssumption DEF LoopExit, TypeOK
  <2>2. ShareAll({Lookup(n) : n \in CopiedBack}) \subseteq used
    BY PopLoopTyped, ShareAllTyped DEF OrAbsent
  <2>3. target' \in [Depths -> OrAbsent(Names)]
    BY <1>4 DEF LoopExit, TypeOK, OrAbsent
  <2> QED BY <1>4, <2>1, <2>2, <2>3, PopLoopTyped DEF LoopExit, TypeOK
<1> QED BY <1>1, <1>2, <1>3, <1>4 DEF Loop

(* A clone is a fresh array and marks nothing that does not exist. *)
LEMMA CloneTyped ==
  ASSUME TypeOK, NEW a \in Arrays, NEW M, M \subseteq Scalars \cup used, CloneInto(a, M)
  PROVE  /\ Fresh \in Arrays /\ Fresh \notin used
         /\ used' = used \cup {Fresh}
         /\ shared' \subseteq used
         /\ slots[a] \in [Keys -> OrAbsent(Scalars \cup used')]
<1>1. \A k \in Keys : slots[a][k] \in OrAbsent(Scalars \cup used)
  BY SlotTyped
<1>2. M \cup {slots[a][k] : k \in Keys} \subseteq OrAbsent(Scalars \cup used)
  BY <1>1 DEF OrAbsent
<1>3. ShareAll(M \cup {slots[a][k] : k \in Keys}) \subseteq used
  BY <1>2, ShareAllTyped
<1>4. slots[a] \in [Keys -> OrAbsent(Scalars \cup used)]
  BY DEF TypeOK
<1> QED BY <1>3, <1>4, FreshUnused DEF CloneInto, OrAbsent

(* Allocating keeps what was typed typed. *)
LEMMA GrowTyped ==
  ASSUME TypeOK, NEW U, U = used \cup {Fresh}, CanAlloc
  PROVE  /\ OrAbsent(Scalars \cup used) \subseteq OrAbsent(Scalars \cup U)
         /\ Fresh \in OrAbsent(Scalars \cup U)
         /\ slots \in [Arrays -> [Keys -> OrAbsent(Scalars \cup U)]]
         /\ frame \in [Depths -> [Names -> OrAbsent(Scalars \cup U)]]
         /\ snap \in [Depths -> [Keys -> OrAbsent(Scalars \cup U)]]
         /\ acc \in OrAbsent(Scalars \cup U)
         /\ Host \subseteq U /\ U \subseteq Arrays
BY FreshUnused DEF TypeOK, OrAbsent

LEMMA TypeAssignMember == TypeOK /\ AssignMember => TypeOK'
<1> SUFFICES ASSUME TypeOK, AssignMember PROVE TypeOK'
  OBVIOUS
<1> USE DEF stack, heap, path
<1>1. ASSUME NEW n \in Names, OwnRoot(n) PROVE TypeOK'
  <2>0. /\ Has(n) /\ Lookup(n) \in Scalars \cup used
        /\ GetMarks(n) \subseteq Scalars \cup used
        /\ ShareAll(GetMarks(n)) \subseteq used /\ used \subseteq Arrays
    BY <1>1, LookupTyped, MarksTyped DEF OwnRoot, TypeOK
  <2>1. CASE Lookup(n) \in ShareAll(GetMarks(n))
    <3>1. /\ CloneInto(Lookup(n), GetMarks(n))
          /\ slots' = [slots EXCEPT ![Fresh] = slots[Lookup(n)]]
          /\ frame' = BindTop(n, Fresh) /\ at' = Fresh
      BY <1>1, <2>1 DEF OwnRoot
    <3>2. /\ Fresh \in Arrays /\ used' = used \cup {Fresh} /\ shared' \subseteq used
          /\ slots[Lookup(n)] \in [Keys -> OrAbsent(Scalars \cup used')]
      BY <2>0, <2>1, <3>1, CloneTyped
    <3>3. CanAlloc
      BY <3>1 DEF CloneInto
    <3>4. slots' \in [Arrays -> [Keys -> OrAbsent(Scalars \cup used')]]
      BY <3>1, <3>2, <3>3, GrowTyped
    <3>5. frame' \in [Depths -> [Names -> OrAbsent(Scalars \cup used')]]
      BY <3>1, <3>2, <3>3, GrowTyped, BindTyped
    <3> QED BY <1>1, <3>1, <3>2, <3>3, <3>4, <3>5, GrowTyped DEF OwnRoot, TypeOK, OrAbsent
  <2>2. CASE Lookup(n) \notin ShareAll(GetMarks(n))
    BY <1>1, <2>0, <2>2 DEF OwnRoot, TypeOK, OrAbsent
  <2> QED BY <2>1, <2>2
<1>2. ASSUME NEW k \in Keys, OwnHop(k) PROVE TypeOK'
  <2>0. at \in Arrays /\ slots[at][k] \in Scalars \cup used
        /\ shared \subseteq used /\ used \subseteq Arrays
    BY <1>2, SlotTyped DEF OwnHop, TypeOK, OrAbsent
  <2>1. hops' \in Seq(Keys)
    BY <1>2 DEF OwnHop, TypeOK
  <2>2. CASE slots[at][k] \in shared
    <3>1. /\ CloneInto(slots[at][k], {})
          /\ slots' = [slots EXCEPT ![Fresh] = slots[slots[at][k]], ![at][k] = Fresh]
          /\ at' = Fresh
      BY <1>2, <2>2 DEF OwnHop
    <3>2. /\ Fresh \in Arrays /\ used' = used \cup {Fresh} /\ shared' \subseteq used
          /\ slots[slots[at][k]] \in [Keys -> OrAbsent(Scalars \cup used')]
      <4>1. slots[at][k] \in Arrays /\ {} \subseteq Scalars \cup used
        BY <2>0, <2>2
      <4> QED BY <4>1, <3>1, CloneTyped
    <3>3. CanAlloc
      BY <3>1 DEF CloneInto
    <3>4. slots' \in [Arrays -> [Keys -> OrAbsent(Scalars \cup used')]]
      <4> DEFINE T == OrAbsent(Scalars \cup used')
                 mid == [slots EXCEPT ![Fresh] = slots[slots[at][k]]]
      <4>1. mid \in [Arrays -> [Keys -> T]] /\ Fresh \in T
        BY <3>2, <3>3, GrowTyped
      <4>2. [mid[at] EXCEPT ![k] = Fresh] \in [Keys -> T]
        <5> HIDE DEF mid, T
        <5> QED BY <4>1, <2>0
      <4>3. slots' = [mid EXCEPT ![at] = [mid[at] EXCEPT ![k] = Fresh]]
        BY <3>1
      <4> HIDE DEF mid
      <4> QED BY <4>1, <4>2, <4>3
    <3> QED BY <1>2, <2>1, <3>1, <3>2, <3>3, <3>4, GrowTyped DEF OwnHop, TypeOK, OrAbsent
  <2>3. CASE slots[at][k] \notin shared
    BY <1>2, <2>0, <2>1, <2>3 DEF OwnHop, TypeOK, OrAbsent
  <2> QED BY <2>2, <2>3
<1>3. ASSUME NEW n \in Names, KeyRead(n) PROVE TypeOK'
  BY <1>3, MarksTyped DEF KeyRead, TypeOK
<1>4. ASSUME NEW m \in Names, NEW n \in Names, KeyAssign(m, n) PROVE TypeOK'
  <2>1. Has(n) /\ Lookup(n) \in OrAbsent(Scalars \cup used)
    BY <1>4, LookupTyped DEF KeyAssign, OrAbsent
  <2>2. frame' \in [Depths -> [Names -> OrAbsent(Scalars \cup used)]]
    BY <1>4, <2>1, BindTyped DEF KeyAssign, TypeOK
  <2>3. shared' \subseteq used
    BY <1>4, <2>1, ShareAllTyped DEF KeyAssign
  <2> QED BY <1>4, <2>2, <2>3 DEF KeyAssign, TypeOK
<1>5. ASSUME NEW k \in Keys, Store(k) PROVE TypeOK'
  <2>1. at \in Arrays /\ acc \in OrAbsent(Scalars \cup used)
    BY <1>5 DEF Store, TypeOK
  <2>2. slots[at] \in [Keys -> OrAbsent(Scalars \cup used)]
    BY <2>1 DEF TypeOK
  <2>3. [slots[at] EXCEPT ![k] = acc] \in [Keys -> OrAbsent(Scalars \cup used)]
    BY <2>1, <2>2
  <2>4. slots' = [slots EXCEPT ![at] = [slots[at] EXCEPT ![k] = acc]]
    BY <1>5 DEF Store
  <2>5. slots' \in [Arrays -> [Keys -> OrAbsent(Scalars \cup used)]]
    BY <2>3, <2>4 DEF TypeOK
  <2>6. /\ pc' = "stmt" /\ acc' = Absent /\ fresh' = FALSE
        /\ root' = Absent /\ hops' = <<>> /\ at' = Absent
        /\ UNCHANGED <<shared, used, depth, kind, frame, target, snap, left>>
    BY <1>5 DEF Store, NoPath
  <2>7. hops' \in Seq(Keys)
    BY <2>6
  <2> HIDE DEF stack, heap, path
  <2> QED BY <2>5, <2>6, <2>7 DEF TypeOK, OrAbsent
<1> QED BY <1>1, <1>2, <1>3, <1>4, <1>5 DEF AssignMember

LEMMA TypeLifecycle == TypeOK /\ (StartRender \/ EndRender) => TypeOK'
<1> SUFFICES ASSUME TypeOK, StartRender \/ EndRender PROVE TypeOK'
  OBVIOUS
<1> USE DEF stack, heap, path
<1>1. CASE StartRender
  <2>1. \A n \in DOMAIN HostVars : HostVars[n] \in Scalars \cup used
    BY CowAssumption DEF TypeOK
  <2>2. [n \in Names |-> IF n \in DOMAIN HostVars THEN HostVars[n] ELSE Absent]
          \in [Names -> OrAbsent(Scalars \cup used)]
    BY <2>1 DEF OrAbsent
  <2>3. frame' \in [Depths -> [Names -> OrAbsent(Scalars \cup used)]]
    BY <1>1, <2>2 DEF StartRender, TypeOK
  <2>4. shared' \subseteq used
    BY <1>1, <2>1, ShareAllTyped DEF StartRender, OrAbsent
  <2>5. depth' \in 0..MaxDepth /\ left' \in 0..MaxRenders
    BY <1>1, FramesAssumption, CowAssumption DEF StartRender, TypeOK
  <2> QED BY <1>1, <2>3, <2>4, <2>5 DEF StartRender, TypeOK
<1>2. CASE EndRender
  <2>1. NoBindings \in [Names -> OrAbsent(Scalars \cup used)]
    BY DEF NoBindings, OrAbsent
  <2>2. NoEntries \in [Keys -> OrAbsent(Scalars \cup used)]
    BY DEF NoEntries, OrAbsent
  <2>3. /\ pc' = "idle" /\ depth' = 0 /\ acc' = Absent /\ fresh' = FALSE
        /\ frame' = [d \in Depths |-> NoBindings]
        /\ target' = [d \in Depths |-> Absent]
        /\ snap' = [d \in Depths |-> NoEntries]
        /\ root' = Absent /\ hops' = <<>> /\ at' = Absent
        /\ UNCHANGED <<shared, slots, used, kind, left>>
    BY <1>2 DEF EndRender, NoPath
  <2>4. /\ frame' \in [Depths -> [Names -> OrAbsent(Scalars \cup used)]]
        /\ snap' \in [Depths -> [Keys -> OrAbsent(Scalars \cup used)]]
    BY <2>1, <2>2, <2>3
  <2>5. hops' \in Seq(Keys)
    BY <2>3
  <2>6. depth' \in 0..MaxDepth
    BY <2>3, FramesAssumption
  <2> QED BY <2>3, <2>4, <2>5, <2>6 DEF TypeOK, OrAbsent
<1> QED BY <1>1, <1>2

LEMMA TypeStep == TypeOK /\ [Next]_vars => TypeOK'
<1> SUFFICES ASSUME TypeOK, [Next]_vars PROVE TypeOK'
  OBVIOUS
<1>1. CASE Next
  BY <1>1, TypeEvaluate, TypeStatement, TypeLoop, TypeAssignMember, TypeLifecycle
  DEF Next
<1>2. CASE UNCHANGED vars
  BY <1>2 DEF vars, heap, stack, path, TypeOK
<1> QED BY <1>1, <1>2

(* Every reachable state has its type: references point to allocated arrays. *)
THEOREM TypeCorrect == Spec => []TypeOK
BY TypeInit, TypeStep, PTL DEF Spec

-----------------------------------------------------------------------------
(* What a step does to the bindings. *)

(* Scope.Set marks what it binds, so after a step every binding is one that *)
(* was there, or no array, or an array marked shared.  The one exception is *)
(* SetOwned, at the root of a member assignment.                            *)
BindsMarked ==
  /\ shared \subseteq shared'
  /\ \A d \in Depths, m \in Names :
       \/ frame'[d][m] = frame[d][m]
       \/ frame'[d][m] \notin Arrays
       \/ frame'[d][m] \in shared'

LEMMA ShareAllMarks ==
  ASSUME NEW S
  PROVE  /\ shared \subseteq ShareAll(S)
         /\ \A v \in S : v \in Arrays => v \in ShareAll(S)
BY DEF ShareAll

LEMMA BindTopMarks ==
  ASSUME TypeOK, NEW n, NEW v, frame' = BindTop(n, v), shared' = ShareAll({v})
  PROVE  BindsMarked
<1>1. ASSUME NEW d \in Depths, NEW m \in Names
      PROVE  frame'[d][m] = frame[d][m] \/ frame'[d][m] = v
  <2>1. frame[d] \in [Names -> OrAbsent(Scalars \cup used)]
    BY DEF TypeOK
  <2>2. frame'[d] = frame[d] \/ frame'[d] = [frame[d] EXCEPT ![n] = v]
    BY DEF BindTop, TypeOK
  <2> QED BY <2>1, <2>2
<1> QED BY <1>1, ShareAllMarks DEF BindsMarked

LEMMA PushMarks ==
  ASSUME TypeOK, NEW q, NEW n, NEW v, Push(q, n, v)
  PROVE  BindsMarked
<1>1. ASSUME NEW d \in Depths, NEW m \in Names
      PROVE  frame'[d][m] = frame[d][m] \/ frame'[d][m] = v \/ frame'[d][m] = Absent
  <2>1. frame'[d] = frame[d] \/ frame'[d] = [NoBindings EXCEPT ![n] = v]
    BY DEF Push, PushBound, TypeOK
  <2>2. [NoBindings EXCEPT ![n] = v][m] \in {v, Absent}
    BY DEF NoBindings
  <2> QED BY <2>1, <2>2
<1>2. shared' = ShareAll({v}) /\ Absent \notin Arrays
  BY CowAssumption DEF Push, Values
<1> QED BY <1>1, <1>2, ShareAllMarks DEF BindsMarked

LEMMA PopLoopMarks ==
  ASSUME TypeOK, frame' = PopLoop, shared' = ShareAll({Lookup(n) : n \in CopiedBack})
  PROVE  BindsMarked
<1> DEFINE Copied == [n \in Names |-> IF n \in CopiedBack THEN Lookup(n) ELSE frame[depth - 1][n]]
<1>1. ASSUME NEW d \in Depths, NEW m \in Names
      PROVE  \/ frame'[d][m] = frame[d][m]
             \/ frame'[d][m] = Absent
             \/ m \in CopiedBack /\ frame'[d][m] = Lookup(m)
  <2>1. \/ frame'[d] = frame[d] \/ frame'[d] = NoBindings
        \/ d = depth - 1 /\ frame'[d] = Copied
    <3> HIDE DEF Copied
    <3>1. frame' = [frame EXCEPT ![depth] = NoBindings, ![depth - 1] = Copied]
      BY DEF PopLoop, Copied
    <3> QED BY <3>1 DEF TypeOK
  <2>2. NoBindings[m] = Absent
    BY DEF NoBindings
  <2> QED BY <2>1, <2>2
<1>2. Absent \notin Arrays
  BY CowAssumption DEF Values
<1> QED BY <1>1, <1>2, ShareAllMarks DEF BindsMarked

(* Every step but the privatization of an assignment's root is of this kind. *)
LEMMA StepMarks ==
  ASSUME TypeOK, Next, \A n \in Names : ~OwnRoot(n)
  PROVE  BindsMarked
<1> USE DEF stack, heap, path
<1>0. Absent \notin Arrays
  BY CowAssumption DEF Values
<1>1. CASE frame' = frame /\ shared' = shared
  BY <1>1 DEF BindsMarked
<1>2. CASE StartRender
  <2>1. \A d \in Depths : frame'[d] = frame[d] \/ frame'[d] =
          [n \in Names |-> IF n \in DOMAIN HostVars THEN HostVars[n] ELSE Absent]
    BY <1>2 DEF StartRender, TypeOK
  <2> QED BY <1>0, <1>2, <2>1, ShareAllMarks DEF StartRender, BindsMarked
<1>3. CASE Evaluate
  <2>1. frame' = frame /\ shared \subseteq shared'
    BY <1>3, ShareAllMarks
    DEF Evaluate, EvalScalar, EvalName, EvalMember, EvalLiteral, EvalLiteralOf,
        EvalEmpty, BuildLiteral, Yields
  <2> QED BY <2>1 DEF BindsMarked
<1>4. ASSUME NEW n \in Names, SetName(n) PROVE BindsMarked
  BY <1>4, BindTopMarks DEF SetName
<1>5. ASSUME NEW q, NEW n \in Names, Enter(q, n) PROVE BindsMarked
  BY <1>5, PushMarks DEF Enter
<1>6. CASE Leave
  <2>1. \A d \in Depths : frame'[d] = frame[d] \/ frame'[d] = NoBindings
    BY <1>6 DEF Leave, TypeOK
  <2> QED BY <1>0, <1>6, <2>1 DEF Leave, BindsMarked, NoBindings
<1>7. ASSUME NEW t \in Names, NEW k \in Keys, LoopEnter(t, k) PROVE BindsMarked
  BY <1>7, PushMarks DEF LoopEnter
<1>8. ASSUME NEW k \in Keys, LoopNext(k) PROVE BindsMarked
  BY <1>8, BindTopMarks DEF LoopNext
<1>9. CASE LoopExit
  BY <1>9, PopLoopMarks DEF LoopExit
<1>10. ASSUME NEW k \in Keys, OwnHop(k) PROVE BindsMarked
  BY <1>10, ShareAllMarks DEF OwnHop, CloneInto, BindsMarked
<1>11. ASSUME NEW n \in Names, KeyRead(n) PROVE BindsMarked
  BY <1>11, ShareAllMarks DEF KeyRead, BindsMarked
<1>12. ASSUME NEW m \in Names, NEW n \in Names, KeyAssign(m, n) PROVE BindsMarked
  BY <1>12, BindTopMarks DEF KeyAssign
<1>13. CASE Discard \/ LoopOverEmpty \/ \E k \in Keys : Store(k)
  BY <1>1, <1>13 DEF Discard, LoopOverEmpty, Store
<1>14. CASE EndRender
  BY <1>0, <1>14 DEF EndRender, BindsMarked, NoBindings
<1> QED
  BY <1>2, <1>3, <1>4, <1>5, <1>6, <1>7, <1>8, <1>9, <1>10, <1>11, <1>12, <1>13, <1>14
  DEF Next, Loop, AssignMember

(* SetOwned: the privatized root is bound in one place only. *)
LEMMA RootBinds ==
  ASSUME TypeOK, NEW n \in Names, OwnRoot(n), frame' # frame
  PROVE  /\ Fresh \in Arrays /\ Fresh \notin used
         /\ shared \subseteq shared'
         /\ frame' = BindTop(n, Fresh)
BY FreshUnused, ShareAllMarks DEF OwnRoot, CloneInto

-----------------------------------------------------------------------------
(* Aliased bindings are shared, whatever the templates store. *)

LEMMA AliasStep ==
  ASSUME TypeOK, FrameAliasShared, [Next]_vars
  PROVE  FrameAliasShared'
<1> SUFFICES ASSUME NEW d \in Depths, NEW e \in Depths, NEW m \in Names, NEW n \in Names,
                    <<d, m>> # <<e, n>>, frame'[d][m] = frame'[e][n],
                    frame'[d][m] \in Arrays
             PROVE  frame'[d][m] \in shared'
  BY DEF FrameAliasShared
<1>1. CASE BindsMarked
  BY <1>1 DEF BindsMarked, FrameAliasShared
<1>2. ASSUME NEW x \in Names, OwnRoot(x) PROVE frame'[d][m] \in shared'
  <2>1. CASE frame' = frame
    BY <1>2, <2>1, ShareAllMarks DEF OwnRoot, CloneInto, FrameAliasShared, heap
  <2>2. CASE frame' # frame
    <3>1. Fresh \notin used /\ shared \subseteq shared' /\ frame' = BindTop(x, Fresh)
      BY <1>2, <2>2, RootBinds
    <3>2. ASSUME NEW y \in Depths, NEW z \in Names
          PROVE  /\ frame[y][z] # Fresh \/ Fresh \notin Arrays
                 /\ frame'[y][z] = IF y = depth /\ z = x THEN Fresh ELSE frame[y][z]
      <4>1. frame[y] \in [Names -> OrAbsent(Scalars \cup used)]
        BY DEF TypeOK
      <4>2. frame[y][z] # Fresh \/ Fresh \notin Arrays
        BY <3>1, <4>1, CowAssumption DEF OrAbsent, Values
      <4>3. frame'[y] = IF y = depth THEN [frame[y] EXCEPT ![x] = Fresh] ELSE frame[y]
        BY <3>1 DEF BindTop, TypeOK
      <4> QED BY <4>1, <4>2, <4>3
    <3> QED BY <3>1, <3>2 DEF FrameAliasShared
  <2> QED BY <2>1, <2>2
<1>3. CASE UNCHANGED vars
  BY <1>3 DEF vars, heap, stack, FrameAliasShared
<1> QED BY <1>1, <1>2, <1>3, StepMarks

(* array.go "A value bound to a name marks its array shared": in every      *)
(* reachable state two bindings that reach one array find it shared.        *)
THEOREM AliasesAreShared == Spec => []FrameAliasShared
<1>1. Init => FrameAliasShared
  BY CowAssumption DEF Init, FrameAliasShared, NoBindings, Values
<1>2. TypeOK /\ FrameAliasShared /\ [Next]_vars => FrameAliasShared'
  BY AliasStep
<1> QED BY <1>1, <1>2, TypeCorrect, PTL DEF Spec

-----------------------------------------------------------------------------
(* Argument arrays are never written. *)

(* The strengthening: every way from a template to an argument array leads  *)
(* through its shared bit, and neither the array an assignment is about to  *)
(* write nor a literal just built is an argument array.                     *)
HostBindingsShared ==
  \A d \in Depths, n \in Names : frame[d][n] \in Host => frame[d][n] \in shared

HostNestedShared ==
  \A a \in Arrays \ Host, k \in Keys : slots[a][k] \in Host => slots[a][k] \in shared

HostInv ==
  /\ HostUntouched
  /\ HostBindingsShared
  /\ HostNestedShared
  /\ at \notin Host
  /\ fresh => acc \notin Host

LEMMA HostInit == Init => HostInv
BY CowAssumption
DEF Init, HostInv, HostUntouched, HostBindingsShared, HostNestedShared,
    NoBindings, NoEntries, Values

LEMMA HostIsUsed ==
  ASSUME TypeOK
  PROVE  /\ Host \subseteq used /\ Host \subseteq Arrays /\ Absent \notin Host
         /\ \A s \in Scalars : s \notin Host
BY CowAssumption DEF TypeOK, Values

LEMMA HostBindingsStep ==
  ASSUME TypeOK, HostBindingsShared, [Next]_vars
  PROVE  HostBindingsShared'
<1> SUFFICES ASSUME NEW d \in Depths, NEW m \in Names, frame'[d][m] \in Host
             PROVE  frame'[d][m] \in shared'
  BY DEF HostBindingsShared
<1>1. CASE BindsMarked
  BY <1>1, HostIsUsed DEF BindsMarked, HostBindingsShared
<1>2. ASSUME NEW x \in Names, OwnRoot(x) PROVE frame'[d][m] \in shared'
  <2>1. shared \subseteq shared'
    BY <1>2, ShareAllMarks DEF OwnRoot, CloneInto, heap
  <2>2. CASE frame' = frame
    BY <2>1, <2>2 DEF HostBindingsShared
  <2>3. CASE frame' # frame
    <3>1. Fresh \notin Host /\ frame' = BindTop(x, Fresh)
      BY <1>2, <2>3, RootBinds, HostIsUsed
    <3>2. frame'[d] = frame[d] \/ frame'[d] = [frame[d] EXCEPT ![x] = Fresh]
      BY <3>1 DEF BindTop, TypeOK
    <3>3. frame'[d][m] = frame[d][m] \/ frame'[d][m] = Fresh
      BY <3>2 DEF TypeOK
    <3> QED BY <2>1, <3>1, <3>3 DEF HostBindingsShared
  <2> QED BY <2>2, <2>3
<1>3. CASE UNCHANGED vars
  BY <1>3 DEF vars, heap, stack, HostBindingsShared
<1> QED BY <1>1, <1>2, <1>3, StepMarks

(* The rest of the invariant is about the slots: it suffices that a step    *)
(* writes none of an argument array, and in other arrays no argument array  *)
(* it does not mark.                                                        *)
SlotsMarked ==
  /\ shared \subseteq shared'
  /\ \A h \in Host : slots'[h] = slots[h]
  /\ \A a \in Arrays \ Host, k \in Keys :
       \/ slots'[a][k] = slots[a][k]
       \/ slots'[a][k] \notin Host
       \/ slots'[a][k] \in shared'

(* What a clone holds is marked. *)
LEMMA CloneMarks ==
  ASSUME TypeOK, NEW a \in Arrays, NEW M, CloneInto(a, M)
  PROVE  /\ shared \subseteq shared' /\ Fresh \in Arrays /\ Fresh \notin used
         /\ \A k \in Keys : slots[a][k] \in Arrays => slots[a][k] \in shared'
BY FreshUnused, ShareAllMarks DEF CloneInto

LEMMA LiteralSlots ==
  ASSUME TypeOK, ~AliasStores, NEW k \in Keys, NEW v, NEW S, BuildLiteral(k, v, S)
  PROVE  /\ SlotsMarked /\ at' = at /\ acc' \notin Host
<1>1. Fresh \in Arrays /\ Fresh \notin used
  BY FreshUnused DEF BuildLiteral
<1>2. v \in Host => v \in shared'
  BY HostIsUsed, ShareAllMarks DEF BuildLiteral, MayStore
<1>3. ASSUME NEW a \in Arrays, NEW j \in Keys
      PROVE  \/ slots'[a] = slots[a]
             \/ a = Fresh /\ slots'[a][j] \in {v, Absent}
  BY DEF BuildLiteral, NoEntries, TypeOK
<1>4. \A h \in Host : slots'[h] = slots[h]
  BY <1>1, HostIsUsed DEF BuildLiteral, TypeOK
<1>5. shared \subseteq shared' /\ at' = at /\ acc' = Fresh
  BY ShareAllMarks DEF BuildLiteral, Yields, path
<1> QED BY <1>1, <1>2, <1>3, <1>4, <1>5, HostIsUsed DEF SlotsMarked

LEMMA RootSlots ==
  ASSUME TypeOK, HostInv, NEW n \in Names, OwnRoot(n)
  PROVE  SlotsMarked /\ at' \notin Host
<1>1. /\ Lookup(n) = frame[OwnerFrame(n)][n] /\ OwnerFrame(n) \in Depths
      /\ ShareAll(GetMarks(n)) \subseteq Arrays
  BY LookupTyped, MarksTyped DEF OwnRoot, TypeOK
<1>2. CASE Lookup(n) \in ShareAll(GetMarks(n))
  <2>1. /\ CloneInto(Lookup(n), GetMarks(n)) /\ Lookup(n) \in Arrays
        /\ slots' = [slots EXCEPT ![Fresh] = slots[Lookup(n)]]
        /\ at' = Fresh
    BY <1>1, <1>2 DEF OwnRoot
  <2>2. /\ shared \subseteq shared' /\ Fresh \in Arrays /\ Fresh \notin used
        /\ \A k \in Keys : slots[Lookup(n)][k] \in Arrays => slots[Lookup(n)][k] \in shared'
    BY <2>1, CloneMarks
  <2>3. \A a \in Arrays : slots'[a] = IF a = Fresh THEN slots[Lookup(n)] ELSE slots[a]
    BY <2>1 DEF TypeOK
  <2> QED BY <2>1, <2>2, <2>3, HostIsUsed DEF SlotsMarked
<1>3. CASE Lookup(n) \notin ShareAll(GetMarks(n))
  <2>1. slots' = slots /\ shared' = shared /\ at' = Lookup(n)
    BY <1>3 DEF OwnRoot, heap
  <2>2. Lookup(n) \notin Host
    BY <1>1, <1>3, ShareAllMarks DEF HostInv, HostBindingsShared, TypeOK, OwnRoot
  <2> QED BY <2>1, <2>2 DEF SlotsMarked
<1> QED BY <1>2, <1>3

LEMMA HopSlots ==
  ASSUME TypeOK, HostInv, NEW k \in Keys, OwnHop(k)
  PROVE  SlotsMarked /\ at' \notin Host
<1>1. /\ at \in Arrays /\ at \notin Host /\ at \in used
      /\ shared \subseteq used /\ used \subseteq Arrays
  BY CowAssumption DEF OwnHop, HostInv, TypeOK, OrAbsent, Values
<1>2. CASE slots[at][k] \in shared
  <2>1. /\ CloneInto(slots[at][k], {}) /\ slots[at][k] \in Arrays
        /\ slots' = [slots EXCEPT ![Fresh] = slots[slots[at][k]], ![at][k] = Fresh]
        /\ at' = Fresh
    BY <1>1, <1>2 DEF OwnHop
  <2> DEFINE e == slots[at][k]
  <2>2. /\ shared \subseteq shared' /\ Fresh \in Arrays /\ Fresh \notin used
        /\ \A j \in Keys : slots[e][j] \in Arrays => slots[e][j] \in shared'
    BY <2>1, CloneMarks
  <2>3. slots[at] \in [Keys -> OrAbsent(Scalars \cup used)] /\ at # Fresh
    BY <1>1, <2>2 DEF TypeOK
  <2>4. \A a \in Arrays : slots'[a] =
          IF a = Fresh THEN slots[e]
          ELSE IF a = at THEN [slots[at] EXCEPT ![k] = Fresh] ELSE slots[a]
    <3> DEFINE mid == [slots EXCEPT ![Fresh] = slots[e]]
    <3>1. at \in Arrays /\ Fresh \in Arrays /\ at # Fresh
      BY <1>1, <2>2, <2>3
    <3>2. /\ mid[at] = slots[at]
          /\ \A a \in Arrays : mid[a] = IF a = Fresh THEN slots[e] ELSE slots[a]
          /\ DOMAIN mid = Arrays
      BY <3>1 DEF TypeOK
    <3>3. slots' = [mid EXCEPT ![at] = [mid[at] EXCEPT ![k] = Fresh]]
      BY <2>1
    <3> HIDE DEF mid, e
    <3> QED BY <3>1, <3>2, <3>3
  <2>5. \A j \in Keys : [slots[at] EXCEPT ![k] = Fresh][j] \in {Fresh, slots[at][j]}
    BY <2>3
  <2> HIDE DEF e
  <2> QED BY <1>1, <2>1, <2>2, <2>4, <2>5, HostIsUsed DEF SlotsMarked
<1>3. CASE slots[at][k] \notin shared
  <2>1. slots' = slots /\ shared' = shared /\ at' = slots[at][k]
    BY <1>3 DEF OwnHop, heap
  <2> QED BY <1>1, <1>3, <2>1 DEF SlotsMarked, HostInv, HostNestedShared
<1> QED BY <1>2, <1>3

LEMMA StoreSlots ==
  ASSUME TypeOK, HostInv, ~AliasStores, NEW k \in Keys, Store(k)
  PROVE  SlotsMarked /\ at' = Absent
<1>1. /\ at \in Arrays /\ at \notin Host /\ shared' = shared /\ at' = Absent
      /\ slots' = [slots EXCEPT ![at][k] = acc]
  BY DEF Store, NoPath, HostInv
<1>2. acc \in Host => acc \in shared
  BY HostIsUsed DEF Store, MayStore, HostInv
<1>3. slots[at] \in [Keys -> OrAbsent(Scalars \cup used)]
  BY <1>1 DEF TypeOK
<1>4. \A a \in Arrays : slots'[a] =
        IF a = at THEN [slots[at] EXCEPT ![k] = acc] ELSE slots[a]
  BY <1>1 DEF TypeOK
<1>5. \A j \in Keys : [slots[at] EXCEPT ![k] = acc][j] \in {acc, slots[at][j]}
  BY <1>3
<1> QED BY <1>1, <1>2, <1>4, <1>5, HostIsUsed DEF SlotsMarked

LEMMA HostStep ==
  ASSUME TypeOK, HostInv, ~AliasStores, [Next]_vars
  PROVE  HostInv'
<1> USE DEF stack, heap, path
<1>1. HostBindingsShared'
  BY HostBindingsStep DEF HostInv
<1>2. ASSUME SlotsMarked, at' \notin Host, fresh' => acc' \notin Host PROVE HostInv'
  BY <1>1, <1>2 DEF HostInv, HostUntouched, HostNestedShared, SlotsMarked
<1>3. Absent \notin Host
  BY HostIsUsed
<1>4. ASSUME UNCHANGED slots, shared \subseteq shared', at' \in {at, Absent},
             ~fresh' \/ UNCHANGED <<fresh, acc>>
      PROVE  HostInv'
  BY <1>2, <1>3, <1>4 DEF SlotsMarked, HostInv
<1>5. CASE Evaluate
  <2>1. ASSUME NEW k \in Keys, NEW v, NEW S, BuildLiteral(k, v, S) PROVE HostInv'
    BY <1>2, <2>1, LiteralSlots DEF HostInv
  <2>2. ASSUME NEW v, Yields(v, FALSE), UNCHANGED slots, shared \subseteq shared'
        PROVE  HostInv'
    BY <1>4, <2>2 DEF Yields
  <2> QED BY <1>5, <2>1, <2>2, ShareAllMarks
          DEF Evaluate, EvalScalar, EvalName, EvalMember, EvalLiteral, EvalLiteralOf,
              EvalEmpty
<1>6. CASE Discard \/ Leave \/ StartRender \/ EndRender
  BY <1>4, <1>6, ShareAllMarks
  DEF Discard, Leave, StartRender, EndRender, Consume, NoPath
<1>7. ASSUME NEW n \in Names, SetName(n) PROVE HostInv'
  BY <1>4, <1>7, ShareAllMarks DEF SetName, Consume
<1>8. ASSUME NEW q, NEW n \in Names, Enter(q, n) PROVE HostInv'
  <2>1. UNCHANGED slots /\ shared' = ShareAll({acc}) /\ at' = at /\ fresh' = FALSE
    BY <1>8 DEF Enter, Push, Consume
  <2> QED BY <1>4, <2>1, ShareAllMarks
<1>9. CASE Loop
  <2>1. CASE LoopOverEmpty
    BY <1>6, <2>1 DEF LoopOverEmpty
  <2>2. ASSUME NEW t \in Names, NEW k \in Keys, LoopEnter(t, k) PROVE HostInv'
    <3>1. /\ UNCHANGED slots /\ shared' = ShareAll({slots[acc][k]})
          /\ at' = at /\ fresh' = FALSE
      BY <2>2 DEF LoopEnter, Push, Consume
    <3> QED BY <1>4, <3>1, ShareAllMarks
  <2>3. ASSUME NEW k \in Keys, LoopNext(k) PROVE HostInv'
    BY <1>4, <2>3, ShareAllMarks DEF LoopNext
  <2>4. CASE LoopExit
    BY <1>4, <2>4, ShareAllMarks DEF LoopExit
  <2> QED BY <1>9, <2>1, <2>2, <2>3, <2>4 DEF Loop
<1>10. CASE AssignMember
  <2>1. ASSUME NEW n \in Names, OwnRoot(n) PROVE HostInv'
    BY <1>2, <2>1, RootSlots DEF OwnRoot, HostInv
  <2>2. ASSUME NEW k \in Keys, OwnHop(k) PROVE HostInv'
    BY <1>2, <2>2, HopSlots DEF OwnHop, HostInv
  <2>3. ASSUME NEW k \in Keys, Store(k) PROVE HostInv'
    BY <1>2, <1>3, <2>3, StoreSlots DEF Store
  <2>4. ASSUME NEW n \in Names, KeyRead(n) PROVE HostInv'
    BY <1>4, <2>4, ShareAllMarks DEF KeyRead
  <2>5. ASSUME NEW m \in Names, NEW n \in Names, KeyAssign(m, n) PROVE HostInv'
    <3>1. shared' = ShareAll({Lookup(n)})
      BY <2>5, Zenon DEF KeyAssign
    <3>2. UNCHANGED <<slots, acc, fresh, at>>
      BY <2>5, Zenon DEF KeyAssign
    <3> QED BY <1>4, <3>1, <3>2, ShareAllMarks
  <2> QED BY <1>10, <2>1, <2>2, <2>3, <2>4, <2>5 DEF AssignMember
<1>11. CASE UNCHANGED vars
  BY <1>4, <1>11 DEF vars
<1> QED BY <1>5, <1>6, <1>7, <1>8, <1>9, <1>10, <1>11 DEF Next

(* environment.go renderShadowed "every template mutation privatizes first, *)
(* so the first render cannot change what the second reads": as long as the *)
(* templates store no unmarked array into a slot, no render ever changes an *)
(* argument array, however deep it is nested.                               *)
THEOREM ArgumentsUntouched ==
  ASSUME ~AliasStores
  PROVE  Spec => []HostUntouched
<1>1. Init => HostInv
  BY HostInit
<1>2. TypeOK /\ HostInv /\ [Next]_vars => HostInv'
  BY HostStep
<1>3. HostInv => HostUntouched
  BY DEF HostInv
<1> QED BY <1>1, <1>2, <1>3, TypeCorrect, PTL DEF Spec

-----------------------------------------------------------------------------
(* An array that is not shared has one holder. *)

OneHolder(a) ==
  /\ \A x, y \in BoundTo(a) : x = y
  /\ \A x, y \in HeldIn(a) : x = y
  /\ BoundTo(a) = {} \/ HeldIn(a) = {}
  /\ fresh /\ acc = a => BoundTo(a) = {} /\ HeldIn(a) = {}

LEMMA UniqueByHolder == UnsharedUnique <=> \A a \in used \ (Host \cup shared) : OneHolder(a)
BY DEF UnsharedUnique, OneHolder

(* What a step may take away from the holders of an array it cannot add to. *)
LEMMA FewerHolders ==
  ASSUME NEW a, OneHolder(a), BoundTo(a)' \subseteq BoundTo(a), HeldIn(a)' \subseteq HeldIn(a),
         fresh' /\ acc' = a => fresh /\ acc = a
  PROVE  OneHolder(a)'
BY DEF OneHolder

(* Nothing holds an array that is not allocated. *)
LEMMA NothingHolds ==
  ASSUME TypeOK, NEW a \in Arrays, a \notin used
  PROVE  /\ BoundTo(a) = {} /\ HeldIn(a) = {} /\ acc # a
         /\ \A n \in Names : Has(n) => Lookup(n) # a
         /\ \A x \in Arrays, k \in Keys : slots[x][k] # a
<1>1. a \notin OrAbsent(Scalars \cup used)
  BY CowAssumption DEF OrAbsent, Values
<1>2. \A d \in Depths, n \in Names : frame[d][n] \in OrAbsent(Scalars \cup used)
  BY ZenonT(60) DEF TypeOK
<1>3. \A x \in Arrays, k \in Keys : slots[x][k] \in OrAbsent(Scalars \cup used)
  BY SlotTyped
<1>4. \A n \in Names : Has(n) => Lookup(n) \in Scalars \cup used
  BY LookupTyped
<1> QED BY <1>1, <1>2, <1>3, <1>4 DEF BoundTo, HeldIn, TypeOK, OrAbsent

(* Bindings and slots that are changed are changed to no unshared array. *)
SlotsOwned ==
  \A a \in Arrays \ Host, k \in Keys :
    slots'[a][k] = slots[a][k] \/ slots'[a][k] \notin Arrays \/ slots'[a][k] \in shared'

LEMMA MarkedBound ==
  ASSUME BindsMarked, NEW a \in Arrays, a \notin shared'
  PROVE  BoundTo(a)' \subseteq BoundTo(a)
BY DEF BindsMarked, BoundTo

LEMMA MarkedHeld ==
  ASSUME SlotsOwned, NEW a \in Arrays, a \notin shared'
  PROVE  HeldIn(a)' \subseteq HeldIn(a)
BY DEF SlotsOwned, HeldIn

LEMMA MarkedUnique ==
  ASSUME TypeOK, UnsharedUnique, BindsMarked, SlotsOwned, used' = used,
         ~fresh' \/ UNCHANGED <<fresh, acc>>
  PROVE  UnsharedUnique'
<1> SUFFICES ASSUME NEW a \in used \ (Host \cup shared')
             PROVE  OneHolder(a)'
  BY DEF UnsharedUnique, OneHolder
<1>1. a \in Arrays /\ a \notin shared /\ OneHolder(a)
  BY UniqueByHolder DEF TypeOK, BindsMarked
<1> QED BY <1>1, MarkedBound, MarkedHeld, FewerHolders

LEMMA LiteralUnique ==
  ASSUME TypeOK, UnsharedUnique, ~AliasStores, NEW k \in Keys, NEW v \in OrAbsent(Scalars \cup used),
         NEW S, BuildLiteral(k, v, S)
  PROVE  UnsharedUnique'
<1> SUFFICES ASSUME NEW a \in used' \ (Host \cup shared')
             PROVE  OneHolder(a)'
  BY DEF UnsharedUnique, OneHolder
<1>1. Fresh \in Arrays /\ Fresh \notin used
  BY FreshUnused DEF BuildLiteral
<1>2. /\ frame' = frame /\ used' = used \cup {Fresh} /\ acc' = Fresh
      /\ shared \subseteq shared' /\ (v \in Arrays => v \in shared')
  BY ShareAllMarks DEF BuildLiteral, MayStore, Yields, stack
<1>3. \A x \in Arrays, j \in Keys :
        slots'[x][j] = slots[x][j] \/ (x = Fresh /\ slots'[x][j] \in {v, Absent})
  BY DEF BuildLiteral, NoEntries, TypeOK
<1>4. SlotsOwned /\ BindsMarked /\ v # Fresh
  BY <1>1, <1>2, <1>3, CowAssumption DEF SlotsOwned, BindsMarked, OrAbsent, Values
<1>5. CASE a = Fresh
  <2>1. BoundTo(a) = {} /\ HeldIn(a) = {}
    BY <1>1, <1>5, NothingHolds
  <2>2. BoundTo(a)' = {} /\ HeldIn(a)' = {}
    BY <1>1, <1>4, <1>5, <2>1, MarkedBound, MarkedHeld
  <2> QED BY <2>2 DEF OneHolder
<1>6. CASE a # Fresh
  <2>1. a \in used /\ a \in Arrays /\ OneHolder(a) /\ acc' # a
    BY <1>2, <1>6, UniqueByHolder DEF TypeOK
  <2> QED BY <1>4, <2>1, MarkedBound, MarkedHeld, FewerHolders
<1> QED BY <1>5, <1>6

LEMMA RootUnique ==
  ASSUME TypeOK, UnsharedUnique, NEW n \in Names, OwnRoot(n)
  PROVE  UnsharedUnique'
<1> USE DEF heap
<1>1. /\ Lookup(n) = frame[OwnerFrame(n)][n] /\ OwnerFrame(n) \in Depths
      /\ ShareAll(GetMarks(n)) \subseteq Arrays /\ acc' = acc /\ fresh' = fresh
  BY LookupTyped, MarksTyped DEF OwnRoot, TypeOK
<1>2. CASE Lookup(n) \in ShareAll(GetMarks(n))
  <2>1. /\ CloneInto(Lookup(n), GetMarks(n)) /\ Lookup(n) \in Arrays
        /\ slots' = [slots EXCEPT ![Fresh] = slots[Lookup(n)]]
        /\ frame' = BindTop(n, Fresh) /\ used' = used \cup {Fresh}
    BY <1>1, <1>2 DEF OwnRoot, CloneInto
  <2>2. /\ shared \subseteq shared' /\ Fresh \in Arrays /\ Fresh \notin used
        /\ \A k \in Keys : slots[Lookup(n)][k] \in Arrays => slots[Lookup(n)][k] \in shared'
    BY <2>1, CloneMarks
  <2>3. \A x \in Arrays : slots'[x] = IF x = Fresh THEN slots[Lookup(n)] ELSE slots[x]
    BY <2>1 DEF TypeOK
  <2>4. SlotsOwned
    BY <2>1, <2>2, <2>3 DEF SlotsOwned
  <2>5. \A d \in Depths, m \in Names :
          frame'[d][m] = IF d = depth /\ m = n THEN Fresh ELSE frame[d][m]
    BY <2>1 DEF BindTop, TypeOK
  <2> SUFFICES ASSUME NEW a \in used' \ (Host \cup shared')
               PROVE  OneHolder(a)'
    BY DEF UnsharedUnique, OneHolder
  <2>6. CASE a = Fresh
    <3>1. BoundTo(a) = {} /\ HeldIn(a) = {} /\ acc' # a
      BY <1>1, <2>2, <2>6, NothingHolds
    <3>2. BoundTo(a)' \subseteq {<<depth, n>>}
      BY <2>5, <2>6, <3>1 DEF BoundTo
    <3>3. HeldIn(a)' = {}
      BY <2>2, <2>4, <2>6, <3>1, MarkedHeld
    <3> QED BY <3>1, <3>2, <3>3 DEF OneHolder
  <2>7. CASE a # Fresh
    <3>1. a \in used /\ a \in Arrays /\ OneHolder(a)
      BY <2>1, <2>2, <2>7, UniqueByHolder DEF TypeOK
    <3>2. BoundTo(a)' \subseteq BoundTo(a)
      BY <2>5, <2>7 DEF BoundTo
    <3> QED BY <1>1, <2>4, <3>1, <3>2, MarkedHeld, FewerHolders
  <2> QED BY <2>6, <2>7
<1>3. CASE Lookup(n) \notin ShareAll(GetMarks(n))
  <2>1. slots' = slots /\ shared' = shared /\ used' = used /\ frame' = frame
    BY <1>3 DEF OwnRoot
  <2> QED BY <1>1, <2>1, MarkedUnique DEF BindsMarked, SlotsOwned
<1> QED BY <1>2, <1>3

(* The slots once a hop has privatized the element at k. *)
LEMMA HopClones ==
  ASSUME TypeOK, NEW k \in Keys, OwnHop(k), slots[at][k] \in shared
  PROVE  /\ Fresh \in Arrays /\ Fresh \notin used /\ at # Fresh
         /\ used' = used \cup {Fresh} /\ shared \subseteq shared' /\ at' = Fresh
         /\ shared' = ShareAll({slots[slots[at][k]][j] : j \in Keys})
         /\ \A j \in Keys : slots[slots[at][k]][j] \in Arrays => slots[slots[at][k]][j] \in shared'
         /\ \A x \in Arrays : slots'[x] =
              IF x = Fresh THEN slots[slots[at][k]]
              ELSE IF x = at THEN [slots[at] EXCEPT ![k] = Fresh] ELSE slots[x]
<1>1. at \in Arrays /\ at \in used /\ shared \subseteq used /\ used \subseteq Arrays
  BY CowAssumption DEF OwnHop, TypeOK, OrAbsent, Values
<1> DEFINE e == slots[at][k]
<1>2. /\ CloneInto(e, {}) /\ e \in Arrays /\ used' = used \cup {Fresh}
      /\ slots' = [slots EXCEPT ![Fresh] = slots[e], ![at][k] = Fresh]
      /\ at' = Fresh /\ shared' = ShareAll({slots[e][j] : j \in Keys})
  BY <1>1 DEF OwnHop, CloneInto
<1>3. /\ shared \subseteq shared' /\ Fresh \in Arrays /\ Fresh \notin used
      /\ \A j \in Keys : slots[e][j] \in Arrays => slots[e][j] \in shared'
  BY <1>2, CloneMarks
<1>4. \A x \in Arrays : slots'[x] =
        IF x = Fresh THEN slots[e]
        ELSE IF x = at THEN [slots[at] EXCEPT ![k] = Fresh] ELSE slots[x]
  <2> DEFINE mid == [slots EXCEPT ![Fresh] = slots[e]]
  <2>1. at \in Arrays /\ Fresh \in Arrays /\ at # Fresh
    BY <1>1, <1>3
  <2>2. /\ mid[at] = slots[at]
        /\ \A x \in Arrays : mid[x] = IF x = Fresh THEN slots[e] ELSE slots[x]
        /\ DOMAIN mid = Arrays
    BY <2>1 DEF TypeOK
  <2>3. slots' = [mid EXCEPT ![at] = [mid[at] EXCEPT ![k] = Fresh]]
    BY <1>2
  <2> HIDE DEF mid, e
  <2> QED BY <2>1, <2>2, <2>3
<1> QED BY <1>1, <1>2, <1>3, <1>4

LEMMA HopUnique ==
  ASSUME TypeOK, UnsharedUnique, NEW k \in Keys, OwnHop(k)
  PROVE  UnsharedUnique'
<1> USE DEF heap, stack
<1>1. at \in Arrays /\ frame' = frame /\ acc' = acc /\ fresh' = fresh
  BY DEF OwnHop
<1>2. CASE slots[at][k] \in shared
  <2> DEFINE e == slots[at][k]
  <2>1. /\ Fresh \in Arrays /\ Fresh \notin used /\ at # Fresh
        /\ used' = used \cup {Fresh} /\ shared \subseteq shared'
        /\ \A j \in Keys : slots[e][j] \in Arrays => slots[e][j] \in shared'
        /\ \A x \in Arrays : slots'[x] =
             IF x = Fresh THEN slots[e]
             ELSE IF x = at THEN [slots[at] EXCEPT ![k] = Fresh] ELSE slots[x]
    BY <1>2, HopClones
  <2>2. slots[at] \in [Keys -> OrAbsent(Scalars \cup used)]
    BY <1>1 DEF TypeOK
  <2> HIDE DEF e
  <2>3. \A x \in Arrays, j \in Keys :
          \/ slots'[x][j] = slots[x][j]
          \/ x = Fresh /\ slots'[x][j] = slots[e][j]
          \/ x = at /\ j = k /\ slots'[x][j] = Fresh
    BY <2>1, <2>2
  <2>4. BindsMarked
    BY <1>1, <2>1 DEF BindsMarked
  <2> SUFFICES ASSUME NEW a \in used' \ (Host \cup shared')
               PROVE  OneHolder(a)'
    BY DEF UnsharedUnique, OneHolder
  <2>5. CASE a = Fresh
    <3>1. BoundTo(a) = {} /\ HeldIn(a) = {} /\ acc' # a
      BY <1>1, <2>1, <2>5, NothingHolds
    <3>2. BoundTo(a)' = {}
      BY <2>1, <2>4, <2>5, <3>1, MarkedBound
    <3>3. HeldIn(a)' \subseteq {<<at, k>>}
      BY <2>1, <2>3, <2>5, <3>1 DEF HeldIn
    <3> QED BY <3>1, <3>2, <3>3 DEF OneHolder
  <2>6. CASE a # Fresh
    <3>1. a \in used /\ a \in Arrays /\ OneHolder(a)
      BY <2>1, <2>6, UniqueByHolder DEF TypeOK
    <3>2. HeldIn(a)' \subseteq HeldIn(a)
      BY <2>1, <2>3, <2>6, <3>1 DEF HeldIn
    <3> QED BY <1>1, <2>4, <3>1, <3>2, MarkedBound, FewerHolders
  <2> QED BY <2>5, <2>6
<1>3. CASE slots[at][k] \notin shared
  <2>1. slots' = slots /\ shared' = shared /\ used' = used
    BY <1>3 DEF OwnHop
  <2> QED BY <1>1, <2>1, MarkedUnique DEF BindsMarked, SlotsOwned
<1> QED BY <1>2, <1>3

LEMMA StoreUnique ==
  ASSUME TypeOK, UnsharedUnique, ~AliasStores, NEW k \in Keys, Store(k)
  PROVE  UnsharedUnique'
<1> USE DEF heap, stack
<1>1. /\ at \in Arrays /\ frame' = frame /\ shared' = shared /\ used' = used
      /\ fresh' = FALSE /\ slots' = [slots EXCEPT ![at][k] = acc]
  BY DEF Store
<1>2. \A x \in Arrays, j \in Keys :
        slots'[x][j] = slots[x][j] \/ (x = at /\ j = k /\ slots'[x][j] = acc)
  <2>1. slots[at] \in [Keys -> OrAbsent(Scalars \cup used)]
    BY <1>1 DEF TypeOK
  <2>2. \A x \in Arrays : slots'[x] = IF x = at THEN [slots[at] EXCEPT ![k] = acc] ELSE slots[x]
    BY <1>1 DEF TypeOK
  <2> QED BY <2>1, <2>2
<1> SUFFICES ASSUME NEW a \in used' \ (Host \cup shared')
             PROVE  OneHolder(a)'
  BY DEF UnsharedUnique, OneHolder
<1>3. a \in Arrays /\ a \in used /\ a \notin shared /\ OneHolder(a) /\ BoundTo(a)' = BoundTo(a)
  BY <1>1, UniqueByHolder DEF TypeOK, BoundTo
<1>4. CASE acc = a
  <2>1. fresh
    BY <1>3, <1>4 DEF Store, MayStore
  <2>2. BoundTo(a) = {} /\ HeldIn(a) = {}
    BY <1>3, <1>4, <2>1 DEF OneHolder
  <2>3. HeldIn(a)' \subseteq {<<at, k>>}
    BY <1>2, <2>2 DEF HeldIn
  <2> QED BY <1>1, <1>3, <2>2, <2>3 DEF OneHolder
<1>5. CASE acc # a
  <2>1. HeldIn(a)' \subseteq HeldIn(a)
    BY <1>2, <1>5 DEF HeldIn
  <2> QED BY <1>1, <1>3, <2>1, FewerHolders
<1> QED BY <1>4, <1>5

LEMMA UniqueStep ==
  ASSUME TypeOK, UnsharedUnique, ~AliasStores, [Next]_vars
  PROVE  UnsharedUnique'
<1> USE DEF heap, stack
<1>1. ASSUME UNCHANGED <<slots, used>>, ~fresh' \/ UNCHANGED <<fresh, acc>>, Next,
             \A n \in Names : ~OwnRoot(n)
      PROVE  UnsharedUnique'
  BY <1>1, StepMarks, MarkedUnique DEF SlotsOwned
<1>2. ASSUME NEW k \in Keys, NEW v \in OrAbsent(Scalars \cup used), NEW S, BuildLiteral(k, v, S)
      PROVE  UnsharedUnique'
  BY <1>2, LiteralUnique
<1>3. CASE \E n \in Names, k \in Keys : EvalLiteralOf(k, n)
  <2>1. \A n \in Names : Has(n) => Lookup(n) \in OrAbsent(Scalars \cup used)
    BY LookupTyped DEF OrAbsent
  <2> QED BY <1>2, <1>3, <2>1 DEF EvalLiteralOf
<1>4. CASE EvalEmpty \/ \E k \in Keys, s \in Scalars : EvalLiteral(k, s)
  BY <1>2, <1>4 DEF EvalEmpty, EvalLiteral, OrAbsent
<1>5. CASE \E n \in Names : OwnRoot(n)
  BY <1>5, RootUnique
<1>6. CASE \E k \in Keys : OwnHop(k) \/ Store(k)
  BY <1>6, HopUnique, StoreUnique
<1>7. CASE UNCHANGED vars
  <2>1. SlotsOwned /\ BindsMarked
    BY <1>7 DEF vars, SlotsOwned, BindsMarked
  <2> QED BY <1>7, <2>1, MarkedUnique DEF vars
<1>8. CASE Next /\ ~(\E n \in Names : OwnRoot(n)) /\ ~(\E k \in Keys : OwnHop(k) \/ Store(k))
           /\ ~EvalEmpty /\ ~(\E k \in Keys, s \in Scalars : EvalLiteral(k, s))
           /\ ~(\E n \in Names, k \in Keys : EvalLiteralOf(k, n))
  <2>1. CASE Evaluate
    <3>1. UNCHANGED <<slots, used>> /\ ~fresh'
      BY <1>8, <2>1 DEF Evaluate, EvalScalar, EvalName, EvalMember, Yields
    <3> QED BY <1>1, <1>8, <3>1
  <2>2. CASE Discard \/ Leave \/ StartRender \/ EndRender \/ Loop
    <3>1. UNCHANGED <<slots, used>> /\ (~fresh' \/ UNCHANGED <<fresh, acc>>)
      BY <2>2 DEF Discard, Leave, StartRender, EndRender, Loop, LoopOverEmpty, LoopEnter, LoopNext,
                  LoopExit, Consume
    <3> QED BY <1>1, <1>8, <3>1
  <2>3. CASE \E n \in Names : SetName(n)
    <3>1. UNCHANGED <<slots, used>> /\ ~fresh'
      BY <2>3 DEF SetName, Consume
    <3> QED BY <1>1, <1>8, <3>1
  <2>4. CASE \E q \in {"child", "isolated"}, n \in Names : Enter(q, n)
    <3>1. UNCHANGED <<slots, used>> /\ ~fresh'
      BY <2>4 DEF Enter, Consume
    <3> QED BY <1>1, <1>8, <3>1
  <2>5. CASE \E n \in Names : KeyRead(n)
    <3>1. UNCHANGED <<slots, used, fresh, acc>>
      BY <2>5 DEF KeyRead
    <3> QED BY <1>1, <1>8, <3>1
  <2>6. CASE \E m, n \in Names : KeyAssign(m, n)
    <3>1. UNCHANGED <<slots, used, fresh, acc>>
      BY <2>6 DEF KeyAssign
    <3> QED BY <1>1, <1>8, <3>1
  <2> QED BY <1>8, <2>1, <2>2, <2>3, <2>4, <2>5, <2>6 DEF Next, AssignMember
<1> QED BY <1>3, <1>4, <1>5, <1>6, <1>7, <1>8

(* array.go "a single-owner array (shared false) mutates in place": an array *)
(* that is not shared has one binding or one slot, so whoever finds it       *)
(* unshared may write it, whatever its key expressions do.                   *)
THEOREM UnsharedHasOneHolder ==
  ASSUME ~AliasStores
  PROVE  Spec => []UnsharedUnique
<1>1. Init => UnsharedUnique
  BY DEF Init, UnsharedUnique
<1>2. TypeOK /\ UnsharedUnique /\ [Next]_vars => UnsharedUnique'
  BY UniqueStep
<1> QED BY <1>1, <1>2, TypeCorrect, PTL DEF Spec

-----------------------------------------------------------------------------
(* What a member assignment has walked is still owned when it writes. *)

(* The arrays ownPath has passed: the first bound to the root in the top     *)
(* frame, each the element of the one before, the last the receiver; all of  *)
(* them unshared and no two the same.                                        *)
Steps == 1..(Len(hops) + 1)

OnPath(nodes) ==
  /\ nodes[1] = frame[depth][root]
  /\ nodes[Len(hops) + 1] = at
  /\ \A i \in 1..Len(hops) : slots[nodes[i]][hops[i]] = nodes[i + 1]
  /\ \A i \in Steps : nodes[i] \in used \ (Host \cup shared)
  /\ \A i, j \in Steps : nodes[i] = nodes[j] => i = j

PathInv ==
  /\ at # Absent => pc = "path"
  /\ pc = "path" => depth \in Depths /\ root \in Names
  /\ at \in Arrays => \E nodes \in [Steps -> Arrays] : OnPath(nodes)

(* A node of the path has one holder, which the path knows. *)
LEMMA PathHolders ==
  ASSUME TypeOK, UnsharedUnique, NEW nodes \in [Steps -> Arrays], OnPath(nodes),
         depth \in Depths, root \in Names
  PROVE  /\ \A d \in Depths, n \in Names, i \in Steps :
              frame[d][n] = nodes[i] => i = 1 /\ d = depth /\ n = root
         /\ \A x \in Arrays \ Host, k \in Keys, i \in Steps :
              slots[x][k] = nodes[i] => i # 1 /\ x = nodes[i - 1] /\ k = hops[i - 1]
<1>1. Len(hops) \in Nat /\ \A i \in 1..Len(hops) : hops[i] \in Keys
  BY DEF TypeOK
<1>2. 1 \in Steps /\ \A i \in Steps : i # 1 => i - 1 \in 1..Len(hops) /\ i - 1 \in Steps
  BY <1>1 DEF Steps
<1>3. \A i \in Steps : OneHolder(nodes[i])
  BY UniqueByHolder DEF OnPath
<1>4. <<depth, root>> \in BoundTo(nodes[1])
  BY DEF OnPath, BoundTo
<1>5. ASSUME NEW i \in Steps, i # 1
      PROVE  <<nodes[i - 1], hops[i - 1]>> \in HeldIn(nodes[i])
  <2>1. /\ nodes[i - 1] \in Arrays \ Host /\ hops[i - 1] \in Keys
        /\ slots[nodes[i - 1]][hops[i - 1]] = nodes[i - 1 + 1]
    BY <1>1, <1>2, <1>5 DEF OnPath
  <2>2. i - 1 + 1 = i
    BY <1>1 DEF Steps
  <2> QED BY <2>1, <2>2 DEF HeldIn
<1>6. ASSUME NEW d \in Depths, NEW n \in Names, NEW i \in Steps, frame[d][n] = nodes[i]
      PROVE  i = 1 /\ d = depth /\ n = root
  <2>1. <<d, n>> \in BoundTo(nodes[i])
    BY <1>6 DEF BoundTo
  <2>2. i = 1
    BY <1>3, <1>5, <2>1 DEF OneHolder
  <2>3. <<d, n>> = <<depth, root>>
    BY <1>3, <1>4, <2>1, <2>2 DEF OneHolder
  <2> QED BY <2>2, <2>3
<1>7. ASSUME NEW x \in Arrays \ Host, NEW k \in Keys, NEW i \in Steps, slots[x][k] = nodes[i]
      PROVE  i # 1 /\ x = nodes[i - 1] /\ k = hops[i - 1]
  <2>1. <<x, k>> \in HeldIn(nodes[i])
    BY <1>7 DEF HeldIn
  <2>2. i # 1
    BY <1>2, <1>3, <1>4, <2>1 DEF OneHolder
  <2>3. <<x, k>> = <<nodes[i - 1], hops[i - 1]>>
    BY <1>3, <1>5, <2>1, <2>2 DEF OneHolder
  <2> QED BY <2>2, <2>3
<1> QED BY <1>6, <1>7

(* What leaves the walked nodes, the links between them and their marks      *)
(* alone keeps the path.                                                    *)
LEMMA PathKept ==
  ASSUME TypeOK, PathInv, pc = "path", UNCHANGED <<slots, used, depth, pc, root, hops, at>>,
         frame'[depth][root] = frame[depth][root],
         \A nodes \in [Steps -> Arrays] :
           OnPath(nodes) => \A i \in Steps : nodes[i] \notin shared' \ shared
  PROVE  PathInv'
<1>1. Steps' = Steps
  BY DEF Steps
<1>2. ASSUME NEW nodes \in [Steps -> Arrays], OnPath(nodes) PROVE OnPath(nodes)'
  <2>1. nodes[1] = frame'[depth'][root'] /\ nodes[Len(hops') + 1] = at'
    BY <1>2 DEF OnPath
  <2>2. \A i \in 1..Len(hops') : slots'[nodes[i]][hops'[i]] = nodes[i + 1]
    BY <1>2 DEF OnPath
  <2>3. \A i \in Steps : nodes[i] \in used' \ (Host \cup shared')
    BY <1>2 DEF OnPath
  <2>4. \A i, j \in Steps : nodes[i] = nodes[j] => i = j
    BY <1>2 DEF OnPath
  <2> QED BY <1>1, <2>1, <2>2, <2>3, <2>4 DEF OnPath
<1>3. at' \in Arrays => \E nodes \in [Steps' -> Arrays] : OnPath(nodes)'
  BY <1>1, <1>2 DEF PathInv
<1> QED BY <1>3 DEF PathInv

(* The root: privatized, or found unshared in the top frame. *)
LEMMA PathRoot ==
  ASSUME TypeOK, HostInv, NEW n \in Names, OwnRoot(n)
  PROVE  PathInv'
<1> USE DEF heap
<1>1. /\ OwnerFrame(n) \in Depths /\ OwnerFrame(n) \in Binders(n)
      /\ Lookup(n) = frame[OwnerFrame(n)][n] /\ Lookup(n) \in Scalars \cup used
      /\ ShareAll(GetMarks(n)) \subseteq used /\ GetMarks(n) \subseteq Scalars \cup used
      /\ used \subseteq Arrays
  BY LookupTyped, MarksTyped DEF OwnRoot, TypeOK
<1>2. depth \in Depths
  BY <1>1 DEF Binders, Visible, TypeOK, Depths
<1>3. pc' = "path" /\ root' = n /\ hops' = <<>> /\ depth' = depth
  BY DEF OwnRoot
<1>4. Len(hops') = 0 /\ Steps' = 1..1
  BY <1>3 DEF Steps
<1>5. ASSUME at' \in Arrays, frame'[depth][n] = at', at' \in used' \ (Host \cup shared')
      PROVE  PathInv'
  <2> DEFINE nodes == [i \in 1..1 |-> at']
  <2>0. at' \in Arrays
    BY <1>5
  <2>1. nodes \in [1..1 -> Arrays] /\ nodes[1] = at'
    BY <2>0
  <2>2. PICK w \in [1..1 -> Arrays] : w[1] = at'
    <3> HIDE DEF nodes
    <3> QED BY <2>1
  <2>3. w[1] = frame'[depth'][root'] /\ w[Len(hops') + 1] = at'
    BY <1>3, <1>4, <1>5, <2>2
  <2>4. \A i \in 1..Len(hops') : slots'[w[i]][hops'[i]] = w[i + 1]
    BY <1>4
  <2>5. \A i \in Steps' : w[i] \in used' \ (Host \cup shared')
    BY <1>4, <1>5, <2>2
  <2>6. \A i, j \in Steps' : w[i] = w[j] => i = j
    BY <1>4
  <2>7. OnPath(w)'
    BY <2>3, <2>4, <2>5, <2>6 DEF OnPath
  <2> QED BY <1>2, <1>3, <1>4, <2>7 DEF PathInv
<1>6. CASE Lookup(n) \in ShareAll(GetMarks(n))
  <2>1. /\ CloneInto(Lookup(n), GetMarks(n)) /\ Lookup(n) \in Arrays
        /\ frame' = BindTop(n, Fresh) /\ at' = Fresh
    BY <1>1, <1>6 DEF OwnRoot
  <2>2. Fresh \in Arrays /\ Fresh \notin used /\ used' = used \cup {Fresh} /\ shared' \subseteq used
    BY <1>1, <2>1, CloneTyped
  <2>3. frame'[depth][n] = Fresh
    BY <1>2, <2>1 DEF BindTop, TypeOK
  <2> QED BY <1>5, <2>1, <2>2, <2>3, HostIsUsed
<1>7. CASE Lookup(n) \notin ShareAll(GetMarks(n))
  <2>1. at' = Lookup(n) /\ used' = used /\ shared' = shared /\ frame' = frame
    BY <1>7 DEF OwnRoot
  <2>2. CASE Lookup(n) \in Arrays
    <3>1. Lookup(n) \in used /\ Lookup(n) \notin shared /\ OwnerFrame(n) = depth
      BY <1>1, <1>7, <2>2, CowAssumption DEF ShareAll, GetMarks
    <3>2. Lookup(n) \notin Host
      BY <1>1, <3>1 DEF HostInv, HostBindingsShared
    <3> QED BY <1>1, <1>5, <2>1, <2>2, <3>1, <3>2
  <2>3. CASE Lookup(n) \notin Arrays
    BY <1>2, <1>3, <2>1, <2>3 DEF PathInv
  <2> QED BY <2>2, <2>3
<1> QED BY <1>6, <1>7

(* A walked path is one step longer when its links hold after the step and   *)
(* its new receiver is an unshared array that is not on it.                 *)
LEMMA PathGrows ==
  ASSUME TypeOK, NEW k \in Keys, hops' = Append(hops, k), UNCHANGED <<depth, root, frame>>,
         NEW nodes \in [Steps -> Arrays], OnPath(nodes), at' \in Arrays,
         at' \in used' \ (Host \cup shared'),
         \A i \in Steps : nodes[i] # at' /\ nodes[i] \in used' \ (Host \cup shared'),
         \A i \in 1..Len(hops) : slots'[nodes[i]][hops[i]] = slots[nodes[i]][hops[i]],
         slots'[at][k] = at'
  PROVE  \E longer \in [Steps' -> Arrays] : OnPath(longer)'
<1>1. PICK l \in Nat : l = Len(hops)
  BY DEF TypeOK
<1>2. /\ Len(hops') = l + 1 /\ hops'[l + 1] = k
      /\ \A i \in 1..l : hops'[i] = hops[i]
  BY <1>1 DEF TypeOK
<1>3. Steps = 1..(l + 1) /\ Steps' = 1..(l + 2)
  BY <1>1, <1>2 DEF Steps
<1>4. PICK last \in Arrays : last = at'
  OBVIOUS
<1>5. PICK w \in [1..(l + 2) -> Arrays] :
        w[l + 2] = last /\ \A i \in 1..(l + 1) : w[i] = nodes[i]
  <2> DEFINE longer == [i \in 1..(l + 2) |-> IF i = l + 2 THEN last ELSE nodes[i]]
  <2>1. \A i \in 1..(l + 2) : i # l + 2 => i \in 1..(l + 1) /\ nodes[i] \in Arrays
    BY <1>3
  <2>2. longer \in [1..(l + 2) -> Arrays]
    BY <1>4, <2>1
  <2>3. longer[l + 2] = last /\ \A i \in 1..(l + 1) : longer[i] = nodes[i]
    OBVIOUS
  <2> HIDE DEF longer
  <2> QED BY <2>2, <2>3
<1>6. /\ nodes[1] = frame[depth][root] /\ nodes[l + 1] = at
      /\ \A i \in 1..l : slots[nodes[i]][hops[i]] = nodes[i + 1]
      /\ \A i, j \in 1..(l + 1) : nodes[i] = nodes[j] => i = j
  BY <1>1, <1>3 DEF OnPath
<1>7. w[1] = frame'[depth'][root'] /\ w[Len(hops') + 1] = at'
  <2>1. 1 \in 1..(l + 1) /\ l + 1 + 1 = l + 2
    OBVIOUS
  <2> QED BY <1>2, <1>4, <1>5, <1>6, <2>1
<1>8. ASSUME NEW i \in 1..Len(hops') PROVE slots'[w[i]][hops'[i]] = w[i + 1]
  <2>1. CASE i \in 1..l
    <3>1. w[i] = nodes[i] /\ w[i + 1] = nodes[i + 1]
      BY <1>5, <2>1
    <3> QED BY <1>1, <1>2, <1>6, <2>1, <3>1
  <2>2. CASE i = l + 1
    <3>1. w[i] = at /\ w[i + 1] = at'
      BY <1>4, <1>5, <1>6, <2>2
    <3> QED BY <1>2, <2>2, <3>1
  <2> QED BY <1>2, <2>1, <2>2
<1>9. \A i \in 1..(l + 2) : w[i] \in used' \ (Host \cup shared')
  BY <1>3, <1>4, <1>5
<1>10. ASSUME NEW i \in 1..(l + 2), NEW j \in 1..(l + 2), w[i] = w[j] PROVE i = j
  <2>1. CASE i \in 1..(l + 1) /\ j \in 1..(l + 1)
    BY <1>5, <1>6, <1>10, <2>1
  <2>2. \A m \in 1..(l + 1) : w[m] # w[l + 2]
    BY <1>3, <1>4, <1>5
  <2> QED BY <1>10, <2>1, <2>2
<1> QED BY <1>3, <1>5, <1>7, <1>8, <1>9, <1>10 DEF OnPath

LEMMA PathHop ==
  ASSUME TypeOK, HostInv, UnsharedUnique, PathInv, NEW k \in Keys, OwnHop(k)
  PROVE  PathInv'
<1> USE DEF heap, stack
<1>1. /\ at \in Arrays /\ hops' = Append(hops, k) /\ UNCHANGED <<depth, root, frame>>
      /\ pc = "path" /\ pc' = "path" /\ depth \in Depths /\ root \in Names
  BY DEF OwnHop, PathInv
<1>2. PICK nodes \in [Steps -> Arrays] : OnPath(nodes)
  BY <1>1 DEF PathInv
<1>3. PICK l \in Nat : l = Len(hops)
  BY DEF TypeOK
<1>4. /\ Steps = 1..(l + 1) /\ nodes[l + 1] = at /\ at \notin Host /\ at \in used
      /\ \A i \in 1..l : nodes[i] # at /\ nodes[i] \in Arrays
      /\ \A i \in Steps : nodes[i] \in used \ (Host \cup shared)
  BY <1>2, <1>3 DEF OnPath, Steps
<1>5. \A x \in Arrays \ Host, j \in Keys, i \in Steps :
        slots[x][j] = nodes[i] => i # 1 /\ x = nodes[i - 1] /\ j = hops[i - 1]
  BY <1>1, <1>2, PathHolders
<1>6. SUFFICES ASSUME at' \in Arrays
               PROVE  \E longer \in [Steps' -> Arrays] : OnPath(longer)'
  BY <1>1 DEF PathInv
<1>7. CASE slots[at][k] \in shared
  <2> DEFINE e == slots[at][k]
  <2>1. e \in Arrays /\ e \in shared
    BY <1>7 DEF TypeOK
  <2>2. /\ Fresh \in Arrays /\ Fresh \notin used /\ at # Fresh
        /\ used' = used \cup {Fresh} /\ at' = Fresh
        /\ shared' = ShareAll({slots[e][j] : j \in Keys})
        /\ \A x \in Arrays : slots'[x] =
             IF x = Fresh THEN slots[e]
             ELSE IF x = at THEN [slots[at] EXCEPT ![k] = Fresh] ELSE slots[x]
    BY <1>7, HopClones
  <2> HIDE DEF e
  <2>3. shared' \subseteq used
    <3>1. {slots[e][j] : j \in Keys} \subseteq OrAbsent(Scalars \cup used)
      BY <2>1, SlotTyped
    <3> QED BY <2>2, <3>1, ShareAllTyped
  <2>4. ASSUME NEW i \in Steps, NEW j \in Keys PROVE slots[e][j] # nodes[i]
    <3>1. CASE e \in Host
      <4>1. slots[e][j] \in Scalars \cup Host \cup {Absent}
        BY <3>1, CowAssumption DEF HostInv, HostUntouched
      <4> QED BY <1>4, <4>1, CowAssumption DEF Values
    <3>2. CASE e \notin Host
      <4>1. slots[e][j] = nodes[i] => i - 1 \in Steps /\ e = nodes[i - 1]
        BY <1>4, <1>5, <2>1, <3>2
      <4> QED BY <1>4, <2>1, <4>1
    <3> QED BY <3>1, <3>2
  <2>5. \A i \in Steps : nodes[i] # at' /\ nodes[i] \in used' \ (Host \cup shared')
    BY <1>4, <2>2, <2>4 DEF ShareAll
  <2>6. at' \in used' \ (Host \cup shared')
    BY <2>2, <2>3, HostIsUsed
  <2>7. \A i \in 1..Len(hops) : slots'[nodes[i]][hops[i]] = slots[nodes[i]][hops[i]]
    <3>1. \A i \in 1..l : slots'[nodes[i]] = slots[nodes[i]]
      BY <1>4, <2>2
    <3> QED BY <1>3, <3>1
  <2>8. slots'[at][k] = at'
    <3>1. slots[at] \in [Keys -> OrAbsent(Scalars \cup used)]
      BY <1>1 DEF TypeOK
    <3> QED BY <1>1, <2>2, <3>1
  <2> QED BY <1>1, <1>2, <1>6, <2>5, <2>6, <2>7, <2>8, PathGrows
<1>8. CASE slots[at][k] \notin shared
  <2>1. at' = slots[at][k] /\ slots' = slots /\ shared' = shared /\ used' = used
    BY <1>8 DEF OwnHop
  <2>2. at' \in used /\ at' \notin Host
    <3>1. at' \in OrAbsent(Scalars \cup used)
      BY <1>1, <2>1, SlotTyped
    <3>2. at' \in used
      BY <1>6, <3>1, CowAssumption DEF OrAbsent, Values
    <3>3. at' \notin Host
      BY <1>1, <1>4, <1>8, <2>1 DEF HostInv, HostNestedShared
    <3> QED BY <3>2, <3>3
  <2>3. ASSUME NEW i \in Steps PROVE nodes[i] # at'
    <3>1. nodes[i] = at' => i # 1 /\ at = nodes[i - 1]
      BY <1>1, <1>4, <1>5, <2>1
    <3>2. i # 1 => i - 1 \in 1..l
      BY <1>4
    <3> QED BY <1>4, <3>1, <3>2
  <2> QED BY <1>1, <1>2, <1>4, <1>6, <1>8, <2>1, <2>2, <2>3, PathGrows
<1> QED BY <1>7, <1>8

(* A key expression marks, or rebinds, no node of the path. *)
LEMMA PathKey ==
  ASSUME TypeOK, UnsharedUnique, PathInv, ~KeyEffects,
         \/ \E n \in Names : KeyRead(n)
         \/ \E m, n \in Names : KeyAssign(m, n)
  PROVE  PathInv'
<1> USE DEF stack, path
<1>1. pc = "path" /\ depth \in Depths /\ root \in Names
  BY DEF KeyRead, KeyAssign, PathInv
<1>2. \A nodes \in [Steps -> Arrays] : OnPath(nodes) =>
        \A d \in Depths, n \in Names, i \in Steps :
          frame[d][n] = nodes[i] => i = 1 /\ d = depth /\ n = root
  BY <1>1, PathHolders
<1>3. ASSUME NEW n \in Names, KeyRead(n) PROVE PathInv'
  <2>1. /\ OwnerFrame(n) \in Depths /\ Lookup(n) = frame[OwnerFrame(n)][n]
        /\ shared' = ShareAll(GetMarks(n))
        /\ UNCHANGED <<slots, used, frame, depth, pc, root, hops, at>>
    BY <1>3, LookupTyped DEF KeyRead
  <2>2. shared' \ shared \subseteq {Lookup(n)} /\ (shared' # shared => OwnerFrame(n) # depth)
    BY <2>1 DEF ShareAll, GetMarks
  <2>3. ASSUME NEW nodes \in [Steps -> Arrays], OnPath(nodes), NEW i \in Steps
        PROVE  nodes[i] \notin shared' \ shared
    BY <1>2, <2>1, <2>2, <2>3
  <2> QED BY <1>1, <2>1, <2>3, PathKept
<1>4. ASSUME NEW m \in Names, NEW n \in Names, KeyAssign(m, n) PROVE PathInv'
  <2>1. Has(n) /\ root \notin {m, n} /\ frame' = BindTop(m, Lookup(n))
    BY <1>4, Zenon DEF KeyAssign
  <2>2. shared' = ShareAll({Lookup(n)}) /\ UNCHANGED <<slots, used, depth, pc, root, hops, at>>
    BY <1>4, Zenon DEF KeyAssign
  <2>3. OwnerFrame(n) \in Depths /\ Lookup(n) = frame[OwnerFrame(n)][n]
    BY <2>1, LookupTyped
  <2>4. shared' \ shared \subseteq {Lookup(n)}
    BY <2>2 DEF ShareAll
  <2>5. ASSUME NEW nodes \in [Steps -> Arrays], OnPath(nodes), NEW i \in Steps
        PROVE  nodes[i] \notin shared' \ shared
    BY <1>2, <2>1, <2>3, <2>4, <2>5
  <2>6. frame'[depth][root] = frame[depth][root]
    BY <1>1, <2>1 DEF BindTop, TypeOK
  <2> QED BY <1>1, <2>2, <2>5, <2>6, PathKept
<1> QED BY <1>3, <1>4

LEMMA PathStep ==
  ASSUME TypeOK, HostInv, UnsharedUnique, PathInv, ~KeyEffects, [Next]_vars
  PROVE  PathInv'
<1> USE DEF stack, heap, path
<1>0. Absent \notin Arrays
  BY CowAssumption DEF Values
<1>1. ASSUME at' = Absent, pc' # "path" PROVE PathInv'
  BY <1>0, <1>1 DEF PathInv
<1>2. ASSUME pc # "path", pc' # "path", at' = at PROVE PathInv'
  BY <1>1, <1>2 DEF PathInv
<1>3. CASE Evaluate
  <2>1. pc = "stmt" /\ pc' = "value" /\ at' = at
    BY <1>3 DEF Evaluate, EvalScalar, EvalName, EvalMember, EvalLiteral, EvalLiteralOf, EvalEmpty,
                BuildLiteral, Yields
  <2> QED BY <1>2, <2>1
<1>4. CASE Discard \/ Leave \/ StartRender \/ EndRender \/ Loop
  <2>1. CASE EndRender
    BY <1>1, <2>1 DEF EndRender, NoPath
  <2>2. CASE Discard \/ Leave \/ StartRender \/ Loop
    <3>1. pc # "path" /\ pc' # "path" /\ at' = at
      BY <2>2 DEF Discard, Leave, StartRender, Loop, LoopOverEmpty, LoopEnter, LoopNext, LoopExit,
                  Consume
    <3> QED BY <1>2, <3>1
  <2> QED BY <1>4, <2>1, <2>2
<1>5. CASE \E n \in Names : SetName(n)
  <2>1. pc # "path" /\ pc' # "path" /\ at' = at
    BY <1>5 DEF SetName, Consume
  <2> QED BY <1>2, <2>1
<1>6. CASE \E q \in {"child", "isolated"}, n \in Names : Enter(q, n)
  <2>1. pc # "path" /\ pc' # "path" /\ at' = at
    BY <1>6 DEF Enter, Consume
  <2> QED BY <1>2, <2>1
<1>7. CASE \E k \in Keys : Store(k)
  BY <1>1, <1>7 DEF Store, NoPath
<1>8. CASE \E n \in Names : OwnRoot(n)
  BY <1>8, PathRoot
<1>9. CASE \E k \in Keys : OwnHop(k)
  BY <1>9, PathHop
<1>10. CASE (\E n \in Names : KeyRead(n)) \/ (\E m, n \in Names : KeyAssign(m, n))
  BY <1>10, PathKey
<1>11. CASE UNCHANGED vars
  <2>1. UNCHANGED <<shared, slots, used, depth, frame, pc, root, hops, at>>
    BY <1>11 DEF vars
  <2>2. CASE pc = "path"
    BY <2>1, <2>2, PathKept
  <2>3. CASE pc # "path"
    BY <1>2, <2>1, <2>3
  <2> QED BY <2>2, <2>3
<1> QED
  BY <1>3, <1>4, <1>5, <1>6, <1>7, <1>8, <1>9, <1>10, <1>11 DEF Next, AssignMember

(* The receiver of a path is its last node. *)
LEMMA ReceiverOwned ==
  ASSUME TypeOK, UnsharedUnique, PathInv, at \in Arrays
  PROVE  at \in used \ (Host \cup shared) /\ OneHolder(at)
<1>1. PICK nodes \in [Steps -> Arrays] : OnPath(nodes)
  BY DEF PathInv
<1>2. Len(hops) + 1 \in Steps
  BY DEF TypeOK, Steps
<1> QED BY <1>1, <1>2, UniqueByHolder DEF OnPath

(* ownPath "a node is owned and rebound before its child is read": no key    *)
(* expression that leaves the root alone makes the receiver shared again.   *)
THEOREM ReceiverStaysOwned ==
  ASSUME ~AliasStores, ~KeyEffects
  PROVE  Spec => []OwnedInPlace
<1>1. Init => HostInv /\ UnsharedUnique /\ PathInv
  BY CowAssumption, HostInit DEF Init, UnsharedUnique, PathInv, Values
<1>2. TypeOK /\ HostInv /\ UnsharedUnique /\ PathInv /\ [Next]_vars
        => HostInv' /\ UnsharedUnique' /\ PathInv'
  BY HostStep, UniqueStep, PathStep
<1>3. TypeOK /\ UnsharedUnique /\ PathInv => OwnedInPlace
  BY ReceiverOwned DEF OwnedInPlace, TypeOK
<1> QED BY <1>1, <1>2, <1>3, TypeCorrect, PTL DEF Spec

(* Only the store of a member assignment goes from "path" to "stmt". *)
LEMMA WriteStep ==
  ASSUME TypeOK, UnsharedUnique, PathInv, [Next]_vars
  PROVE  [PrivateWrite]_vars
<1> SUFFICES ASSUME Next, pc = "path", pc' = "stmt"
             PROVE  /\ at \notin Host
                    /\ \A x, y \in BoundTo(at) : x = y
                    /\ \A x, y \in HeldIn(at) : x = y
                    /\ BoundTo(at) = {} \/ HeldIn(at) = {}
  BY DEF PrivateWrite
<1>1. CASE at \in Arrays
  BY <1>1, ReceiverOwned DEF OneHolder
<1>2. CASE at \notin Arrays
  <2>1. ~Evaluate
    BY DEF Evaluate, EvalScalar, EvalName, EvalMember, EvalLiteral, EvalLiteralOf, EvalEmpty,
           BuildLiteral, Yields
  <2>2. ~Loop /\ ~Discard /\ ~Leave /\ ~StartRender /\ ~EndRender
    BY DEF Discard, Leave, StartRender, EndRender, Loop, LoopOverEmpty, LoopEnter, LoopNext,
           LoopExit, Consume
  <2>3. /\ ~(\E n \in Names : SetName(n))
        /\ ~(\E q \in {"child", "isolated"}, n \in Names : Enter(q, n))
    BY DEF SetName, Enter, Consume
  <2>4. ~AssignMember
    <3>1. /\ ~(\E n \in Names : OwnRoot(n)) /\ ~(\E k \in Keys : OwnHop(k) \/ Store(k))
      BY <1>2 DEF OwnRoot, OwnHop, Store
    <3>2. ~(\E n \in Names : KeyRead(n)) /\ ~(\E m, n \in Names : KeyAssign(m, n))
      BY DEF KeyRead, KeyAssign
    <3> QED BY <3>1, <3>2 DEF AssignMember
  <2> QED BY <2>1, <2>2, <2>3, <2>4 DEF Next
<1> QED BY <1>1, <1>2

(* array.go "a shared array is privatized (Own) before an in-place mutation  *)
(* so the write cannot reach any alias": the array a member assignment       *)
(* writes is no argument and has one holder, the slot or the name the        *)
(* assignment walked through.                                                *)
THEOREM WritesArePrivate ==
  ASSUME ~AliasStores, ~KeyEffects
  PROVE  Spec => WriteReachesNoAlias
<1>1. Init => HostInv /\ UnsharedUnique /\ PathInv
  BY CowAssumption, HostInit DEF Init, UnsharedUnique, PathInv, Values
<1>2. TypeOK /\ HostInv /\ UnsharedUnique /\ PathInv /\ [Next]_vars
        => HostInv' /\ UnsharedUnique' /\ PathInv'
  BY HostStep, UniqueStep, PathStep
<1>3. TypeOK /\ UnsharedUnique /\ PathInv /\ [Next]_vars => [PrivateWrite]_vars
  BY WriteStep
<1> QED BY <1>1, <1>2, <1>3, TypeCorrect, PTL DEF Spec, WriteReachesNoAlias
=============================================================================
