----------------------------- MODULE SlotsProofs -----------------------------
(***************************************************************************)
(* Proofs about Slots, for every set of labels, keys and templates and any *)
(* number of renders.                                                      *)
(***************************************************************************)
EXTENDS Slots, FoldProofs

-----------------------------------------------------------------------------
(* Brackets.                                                               *)

Brackets == {"provide", "cache", "include"}
Shift(p, i) == IF p[i].op \in Brackets THEN 1 ELSE IF p[i].op = "end" THEN -1 ELSE 0

LEMMA DepthSteps ==
  ASSUME NEW p
  PROVE  /\ Depth(p, 0) = 0
         /\ \A i \in Nat : Depth(p, i) \in Int
         /\ \A i \in Nat \ {0} : Depth(p, i) = Depth(p, i - 1) + Shift(p, i)
<1> DEFINE Some(N, i) == {j \in 1..i : p[j].op \in N}
<1>1. ASSUME NEW N, NEW i \in Nat
      PROVE  IsFiniteSet(Some(N, i)) /\ Cardinality(Some(N, i)) \in Nat
  <2>1. IsFiniteSet(1..i) /\ Some(N, i) \in SUBSET (1..i)
    BY FS_Interval
  <2> QED BY <2>1, FS_Subset, FS_CardinalityType
<1>2. ASSUME NEW N, NEW i \in Nat \ {0}
      PROVE  Cardinality(Some(N, i))
               = Cardinality(Some(N, i - 1)) + (IF p[i].op \in N THEN 1 ELSE 0)
  <2>0. i - 1 \in Nat
    OBVIOUS
  <2>1. IsFiniteSet(Some(N, i - 1)) /\ Cardinality(Some(N, i - 1)) \in Nat
    BY <1>1, <2>0
  <2>2. i \notin Some(N, i - 1)
    OBVIOUS
  <2>3. CASE p[i].op \in N
    <3>1. Some(N, i) = Some(N, i - 1) \cup {i}
      BY <2>3
    <3> HIDE DEF Some
    <3> QED BY <2>1, <2>2, <2>3, <3>1, FS_AddElement
  <2>4. CASE p[i].op \notin N
    <3>1. Some(N, i) = Some(N, i - 1)
      BY <2>4
    <3> HIDE DEF Some
    <3> QED BY <2>1, <2>4, <3>1
  <2> QED BY <2>3, <2>4
<1>3. \A i : Depth(p, i) = Cardinality(Some(Brackets, i)) - Cardinality(Some({"end"}, i))
  BY DEF Depth, Brackets
<1>4. \A N : Some(N, 0) = {}
  OBVIOUS
<1> HIDE DEF Some
<1>5. Depth(p, 0) = 0
  BY <1>3, <1>4, FS_EmptySet
<1>6. \A i \in Nat : Depth(p, i) \in Int
  BY <1>1, <1>3
<1>7. ASSUME NEW i \in Nat \ {0} PROVE Depth(p, i) = Depth(p, i - 1) + Shift(p, i)
  <2>1. i \in Nat /\ i - 1 \in Nat
    OBVIOUS
  <2>2. /\ Cardinality(Some(Brackets, i))
             = Cardinality(Some(Brackets, i - 1)) + (IF p[i].op \in Brackets THEN 1 ELSE 0)
        /\ Cardinality(Some({"end"}, i))
             = Cardinality(Some({"end"}, i - 1)) + (IF p[i].op \in {"end"} THEN 1 ELSE 0)
    BY <1>2
  <2>3. /\ Cardinality(Some(Brackets, i - 1)) \in Nat
        /\ Cardinality(Some({"end"}, i - 1)) \in Nat
    BY <1>1, <2>1
  <2> QED BY <1>3, <2>2, <2>3 DEF Shift, Brackets
<1> QED BY <1>5, <1>6, <1>7

(* The bracket that closes the one opened at i, where a cache hit continues. *)
LEMMA EndOfCloses ==
  ASSUME NEW p \in Templates, NEW i \in 1..Len(p), p[i].op \in Brackets
  PROVE  /\ EndOf(p, i) \in i..Len(p)
         /\ Depth(p, EndOf(p, i)) = Depth(p, i) - 1
         /\ \A m \in i..(EndOf(p, i) - 1) : Depth(p, m) >= Depth(p, i)
<1>0. p \in Seq(Ops) /\ Balanced(p)
  BY SlotsAssumption
<1>1. PICK n \in Nat : n = Len(p)
  BY <1>0
<1>2. /\ \A j \in 0..n : Depth(p, j) \in Int
      /\ \A j \in 1..n : Depth(p, j) >= Depth(p, j - 1) - 1 /\ Depth(p, j - 1) \in Int
  <2>1. \A j \in 0..n : Depth(p, j) \in Int
    <3>1. \A j \in 0..n : j \in Nat
      OBVIOUS
    <3> QED BY <3>1, DepthSteps
  <2>2. ASSUME NEW j \in 1..n PROVE Depth(p, j) >= Depth(p, j - 1) - 1 /\ Depth(p, j - 1) \in Int
    <3>1. j \in Nat \ {0} /\ j - 1 \in 0..n
      BY <1>1
    <3>2. Depth(p, j) = Depth(p, j - 1) + Shift(p, j)
      BY <3>1, DepthSteps
    <3> QED BY <2>1, <3>1, <3>2 DEF Shift
  <2> QED BY <2>1, <2>2
<1>3. Depth(p, i) >= 1
  <2>1. i \in Nat \ {0} /\ i - 1 \in 0..n
    BY <1>1
  <2>2. Depth(p, i) = Depth(p, i - 1) + 1
    BY <2>1, DepthSteps DEF Shift
  <2>3. Depth(p, i - 1) >= 0
    <3>1. CASE i - 1 = 0
      BY <3>1, DepthSteps
    <3>2. CASE i - 1 \in 1..n
      BY <1>0, <1>1, <3>2 DEF Balanced
    <3> QED BY <2>1, <3>1, <3>2
  <2> QED BY <1>2, <2>1, <2>2, <2>3
<1> DEFINE Below == {j \in i..n : Depth(p, j) < Depth(p, i)}
<1>4. Below \subseteq Nat /\ n \in Below
  <2>1. Depth(p, n) = 0
    BY <1>0, <1>1 DEF Balanced
  <2>2. i \in 1..n /\ Depth(p, i) \in Int
    BY <1>1, <1>2
  <2>3. Below \subseteq Nat
    BY <2>2
  <2>4. n \in i..n /\ Depth(p, n) < Depth(p, i)
    BY <1>1, <1>3, <2>1, <2>2
  <2> QED BY <2>3, <2>4
<1>5. PICK j \in Below : \A k \in Below : j <= k
  <2> HIDE DEF Below
  <2> QED BY <1>4, LeastNatural
<1>6. j \in i..n /\ \A m \in i..(j - 1) : Depth(p, m) >= Depth(p, i)
  <2>1. ASSUME NEW m \in i..(j - 1) PROVE Depth(p, m) >= Depth(p, i)
    <3>1. m \in i..n /\ m \in 0..n /\ i \in 0..n /\ m < j
      BY <1>1, <1>5
    <3>2. m \notin Below
      BY <1>1, <1>5, <3>1
    <3> QED BY <1>2, <3>1, <3>2
  <2> QED BY <1>5, <2>1
<1>7. Depth(p, j) = Depth(p, i) - 1
  <2>1. j # i /\ j \in 1..n /\ j - 1 \in i..(j - 1) /\ i \in 0..n
    BY <1>1, <1>2, <1>5
  <2>2. Depth(p, j - 1) >= Depth(p, i) /\ Depth(p, j) >= Depth(p, j - 1) - 1
    BY <1>2, <1>6, <2>1
  <2> QED BY <1>2, <1>5, <2>1, <2>2
<1>8. \E k \in i..Len(p) :
        Depth(p, k) = Depth(p, i) - 1 /\ \A m \in i..(k-1) : Depth(p, m) >= Depth(p, i)
  BY <1>1, <1>6, <1>7
<1> QED BY <1>8 DEF EndOf

-----------------------------------------------------------------------------
(* Text.                                                                   *)

Plain(text) == \A i \in DOMAIN text : ~IsPlaceholder(text[i])

LEMMA ItemKinds ==
  /\ \A i, r : ~IsPlaceholder(TextAt(i, r))
  /\ \A i \in Nat \ {0}, r \in 1..MaxRenders : TextAt(i, r) \in Items
  /\ \A r, l : IsPlaceholder(Placeholder(r, l))
  /\ \A r \in 1..MaxRenders, l \in Labels : Placeholder(r, l) \in Items
  /\ \A item \in Items : IsPlaceholder(item) =>
        item.label \in Labels /\ item = Placeholder(item.token, item.label)
<1>1. \A i, r : ~IsPlaceholder(TextAt(i, r))
  BY DEF IsPlaceholder, TextAt
<1>2. \A i \in Nat \ {0}, r \in 1..MaxRenders : TextAt(i, r) \in Items
  BY DEF TextAt, Items
<1>3. \A r, l : IsPlaceholder(Placeholder(r, l))
  BY DEF IsPlaceholder, Placeholder
<1>4. \A r \in 1..MaxRenders, l \in Labels : Placeholder(r, l) \in Items
  BY DEF Placeholder, Items
<1>5. ASSUME NEW item \in Items, IsPlaceholder(item)
      PROVE  item.label \in Labels /\ item = Placeholder(item.token, item.label)
  <2>1. CASE item \in [text : Nat \ {0}, of : 1..MaxRenders]
    BY <1>5, <2>1 DEF IsPlaceholder
  <2>2. CASE item \in [token : 1..MaxRenders, label : Labels]
    BY <2>2 DEF Placeholder
  <2> QED BY <2>1, <2>2 DEF Items
<1> QED BY <1>1, <1>2, <1>3, <1>4, <1>5

(* ReplaceAll leaves what it does not replace and what it puts there.       *)
LEMMA SubstituteItems ==
  ASSUME NEW C, NEW D, NEW text \in Seq(C), NEW item, NEW content \in Seq(D), C \ {item} \subseteq D
  PROVE  Substitute(text, item, content) \in Seq(D)
<1> DEFINE part(i) == IF text[i] = item THEN content ELSE <<text[i]>>
           parts == [i \in DOMAIN text |-> part(i)]
<1>1. PICK n \in Nat : n = Len(text) /\ DOMAIN text = 1..n
  OBVIOUS
<1>2. \A i \in 1..n : part(i) \in Seq(D)
  BY <1>1
<1> HIDE DEF part
<1>3. parts \in Seq(Seq(D))
  BY <1>1, <1>2
<1> HIDE DEF parts
<1>4. FlattenSeq(parts) \in Seq(D)
  BY <1>3, FlattenItems
<1> QED BY <1>4 DEF Substitute, parts, part

(* resolveSlots: when every placeholder is of this render and of a reserved *)
(* label, and no slot holds one, no placeholder is left.                    *)
LEMMA ResolveItems ==
  ASSUME NEW text \in Seq(Items), NEW labels \in Seq(Labels),
         \A l \in Labels : Content(l) \in Seq(Items)
  PROVE  /\ Resolve(text, labels) \in Seq(Items)
         /\ (/\ \A l \in Labels : Plain(Content(l))
             /\ \A i \in DOMAIN text : IsPlaceholder(text[i]) =>
                   text[i].token = render /\ \E j \in DOMAIN labels : text[i].label = labels[j])
            => Plain(Resolve(text, labels))
<1> DEFINE n == Len(labels)
           X == Seq(Items)
           one(i, t) == Substitute(t, Placeholder(render, labels[i]), Content(labels[i]))
           F(f) == f = [i \in 0..n |-> IF i = 0 THEN text ELSE one(i, f[i - 1])]
           resolved == CHOOSE f : F(f)
           step == [q \in (1..n) \X X |-> one(q[1], q[2])]
<1>1. n \in Nat /\ DOMAIN labels = 1..n /\ \A i \in 1..n : labels[i] \in Labels
  OBVIOUS
<1>2. \A i \in 1..n, t \in X : one(i, t) \in X
  <2> SUFFICES ASSUME NEW i \in 1..n, NEW t \in X PROVE one(i, t) \in X
    OBVIOUS
  <2>1. Content(labels[i]) \in Seq(Items)
    BY <1>1
  <2> QED BY <2>1, SubstituteItems
<1>3. Resolve(text, labels) = resolved[n]
  BY DEF Resolve
<1> HIDE DEF n, one, F
<1>4. step \in [(1..n) \X X -> X]
  BY <1>2
<1> HIDE DEF X, step
<1>5. PICK g \in [0..n -> X] : Steps(g, n, text, step)
  BY <1>1, <1>4, StepsExist DEF X
<1>6. F(g)
  <2>1. ASSUME NEW i \in 0..n, i # 0 PROVE g[i] = one(i, g[i - 1])
    <3>1. i \in 1..n /\ i - 1 \in 0..n
      BY <1>1, <2>1
    <3>2. g[i - 1] \in X
      BY <1>5, <3>1
    <3>3. <<i, g[i - 1]>> \in (1..n) \X X
      BY <3>1, <3>2
    <3> QED BY <1>5, <3>1, <3>3 DEF Steps, step
  <2>2. g[0] = text
    BY <1>5 DEF Steps
  <2>3. g = [i \in 0..n |-> IF i = 0 THEN text ELSE one(i, g[i - 1])]
    BY <1>5, <2>1, <2>2
  <2> QED BY <2>3 DEF F
<1>7. F(resolved)
  BY <1>6
<1>8. resolved = [i \in 0..n |-> IF i = 0 THEN text ELSE one(i, resolved[i - 1])]
  BY <1>7 DEF F
<1> HIDE DEF resolved
<1>9. resolved[0] = text /\ \A i \in 1..n : i - 1 \in 0..n /\ resolved[i] = one(i, resolved[i - 1])
  BY <1>1, <1>8
<1>10. \A i \in 0..n : resolved[i] \in X
  <2>1. resolved[0] \in X /\ \A i \in 1..n : resolved[i - 1] \in X => resolved[i] \in X
    BY <1>2, <1>9 DEF X
  <2> QED BY <1>1, <2>1, StepsStay
<1>11. ASSUME \A l \in Labels : Plain(Content(l)),
              \A i \in DOMAIN text : IsPlaceholder(text[i]) =>
                text[i].token = render /\ \E j \in DOMAIN labels : text[i].label = labels[j]
       PROVE  Plain(resolved[n])
  <2> DEFINE D(i) == {item \in Items : IsPlaceholder(item) =>
                        item.token = render /\ \E j \in (i + 1)..n : item.label = labels[j]}
             Good == {i \in 0..n : resolved[i] \in Seq(D(i))}
             index == [i \in 0..n |-> i]
  <2>1. index[0] \in Good
    <3>1. \A i \in DOMAIN text : text[i] \in D(0)
      BY <1>1, <1>11
    <3>2. text \in Seq(D(0))
      <4> HIDE DEF D
      <4> QED BY <3>1
    <3> QED BY <1>1, <1>9, <3>2
  <2>2. ASSUME NEW i \in 1..n, index[i - 1] \in Good PROVE index[i] \in Good
    <3>0. i - 1 \in 0..n /\ i \in 0..n /\ index[i - 1] = i - 1 /\ index[i] = i
      BY <1>1
    <3>1. resolved[i - 1] \in Seq(D(i - 1))
      BY <2>2, <3>0
    <3>2. Content(labels[i]) \in Seq(D(i))
      <4>1. Content(labels[i]) \in Seq(Items) /\ Plain(Content(labels[i]))
        BY <1>1, <1>11
      <4>2. \A k \in DOMAIN Content(labels[i]) : Content(labels[i])[k] \in D(i)
        BY <4>1 DEF Plain
      <4> HIDE DEF D
      <4> QED BY <4>1, <4>2
    <3>3. D(i - 1) \ {Placeholder(render, labels[i])} \subseteq D(i)
      <4> SUFFICES ASSUME NEW item \in D(i - 1), item # Placeholder(render, labels[i])
                   PROVE  item \in D(i)
        OBVIOUS
      <4>1. CASE ~IsPlaceholder(item)
        BY <4>1
      <4>2. CASE IsPlaceholder(item)
        <5>1. item.token = render /\ item = Placeholder(item.token, item.label)
          BY <4>2, ItemKinds
        <5>2. PICK j \in ((i - 1) + 1)..n : item.label = labels[j]
          BY <4>2
        <5>3. j # i
          BY <5>1, <5>2
        <5>4. j \in (i + 1)..n
          BY <1>1, <5>2, <5>3
        <5> QED BY <5>1, <5>2, <5>4
      <4> QED BY <4>1, <4>2
    <3> HIDE DEF D
    <3>4. one(i, resolved[i - 1]) \in Seq(D(i))
      BY <3>1, <3>2, <3>3, SubstituteItems DEF one
    <3> QED BY <1>9, <3>0, <3>4
  <2> HIDE DEF Good
  <2>3. \A i \in 0..n : index[i] \in Good
    <3> HIDE DEF index
    <3> QED BY <1>1, <2>1, <2>2, StepsStay
  <2>4. resolved[n] \in Seq(D(n))
    <3>1. n \in 0..n /\ index[n] = n
      BY <1>1
    <3> HIDE DEF index
    <3>2. n \in Good
      BY <2>3, <3>1
    <3> HIDE DEF D
    <3> QED BY <3>2 DEF Good
  <2>5. \A item \in D(n) : ~IsPlaceholder(item)
    BY <1>1
  <2> HIDE DEF D
  <2> QED BY <2>4, <2>5 DEF Plain
<1> QED BY <1>1, <1>3, <1>10, <1>11 DEF X
-----------------------------------------------------------------------------
(* Type correctness, and the captures open are the brackets around pc.     *)

Frames ==
  [op : Brackets, arg : Labels \cup CacheKeys \cup {None}, out : Seq(Items),
   yielded : Seq(Labels), stamp : Nat \X Nat, touches : Nat]

Typed ==
  /\ prog \in Templates
  /\ render \in 1..MaxRenders
  /\ pc \in 1..(Len(prog) + 1)
  /\ open \in Seq(Frames)
  /\ out \in Seq(Items)
  /\ slots \in [Labels -> Seq(Items) \cup {None}]
  /\ touches \in Nat
  /\ minted \in BOOLEAN
  /\ yielded \in Seq(Labels)
  /\ store \in [CacheKeys -> Seq(Items) \cup {None}]
  /\ result \in Seq(Items) \cup {None}
  /\ failed \in BOOLEAN
  /\ \A k \in DOMAIN open : open[k].touches <= touches

OpenedAt(st, p, n, k, i) ==
  /\ p[i].op = st[k].op /\ p[i].arg = st[k].arg
  /\ Depth(p, i) = k
  /\ \A m \in i..(n - 1) : Depth(p, m) >= k

NestedIn(st, p, n) ==
  /\ Len(st) = Depth(p, n - 1)
  /\ \A k \in 1..Len(st) : \E i \in 1..(n - 1) : OpenedAt(st, p, n, k, i)

Nested == NestedIn(open, prog, pc)

LEMMA NestedStays ==
  ASSUME NEW p, NEW n \in Nat, NEW m \in Nat, n <= m,
         NEW S, NEW st \in Seq(S), NEW rest \in Seq(S), NestedIn(st, p, n),
         Len(rest) <= Len(st), \A k \in 1..Len(rest) : rest[k] = st[k],
         Len(rest) = Depth(p, m - 1), \A j \in n..(m - 1) : Depth(p, j) >= Len(rest)
  PROVE  NestedIn(rest, p, m)
<1>1. PICK a \in Nat, b \in Nat : a = Len(rest) /\ b = Len(st)
  OBVIOUS
<1>2. ASSUME NEW k \in 1..a PROVE \E i \in 1..(m - 1) : OpenedAt(rest, p, m, k, i)
  <2>1. k \in 1..Len(st) /\ rest[k] = st[k]
    BY <1>1
  <2>2. PICK i \in 1..(n - 1) : OpenedAt(st, p, n, k, i)
    BY <2>1 DEF NestedIn
  <2>3. ASSUME NEW j \in i..(m - 1) PROVE Depth(p, j) >= k
    <3>1. CASE j \in i..(n - 1)
      BY <2>2, <3>1 DEF OpenedAt
    <3>2. CASE j \in n..(m - 1)
      <4>1. Depth(p, j) >= Len(rest) /\ j \in Nat
        BY <3>2
      <4>2. Depth(p, j) \in Int
        BY <4>1, DepthSteps
      <4> QED BY <1>1, <4>1, <4>2
    <3> QED BY <3>1, <3>2
  <2>4. i \in 1..(m - 1)
    OBVIOUS
  <2> QED BY <2>1, <2>2, <2>3, <2>4 DEF OpenedAt
<1> QED BY <1>1, <1>2 DEF NestedIn

LEMMA NestedOpens ==
  ASSUME NEW p, NEW n \in Nat \ {0}, NEW S, NEW st \in Seq(S), NEW f,
         NestedIn(st, p, n), p[n].op \in Brackets, f.op = p[n].op, f.arg = p[n].arg
  PROVE  NestedIn(Append(st, f), p, n + 1)
<1>1. PICK a \in Nat : a = Len(st)
  OBVIOUS
<1> DEFINE more == Append(st, f)
<1>2. Len(more) = a + 1 /\ more[a + 1] = f /\ \A k \in 1..a : more[k] = st[k]
  BY <1>1
<1> HIDE DEF more
<1>3. Depth(p, n) = a + 1
  BY <1>1, DepthSteps DEF NestedIn, Shift
<1>4. ASSUME NEW k \in 1..(a + 1) PROVE \E i \in 1..n : OpenedAt(more, p, n + 1, k, i)
  <2>1. CASE k = a + 1
    <3>1. OpenedAt(more, p, n + 1, k, n)
      BY <1>1, <1>2, <1>3, <2>1 DEF OpenedAt
    <3> QED BY <3>1
  <2>2. CASE k \in 1..a
    <3>1. PICK i \in 1..(n - 1) : OpenedAt(st, p, n, k, i)
      BY <1>1, <2>2 DEF NestedIn
    <3>2. \A m \in i..n : Depth(p, m) >= k
      BY <1>1, <1>3, <3>1 DEF OpenedAt
    <3>3. OpenedAt(more, p, n + 1, k, i)
      BY <1>2, <2>2, <3>1, <3>2 DEF OpenedAt
    <3> QED BY <3>3
  <2> QED BY <1>1, <2>1, <2>2
<1>5. NestedIn(more, p, n + 1)
  BY <1>1, <1>2, <1>3, <1>4 DEF NestedIn
<1> QED BY <1>5 DEF more

(* The operation at pc and the depth it leads to. *)
LEMMA AtOperation ==
  ASSUME Typed, Nested, pc \in 1..Len(prog)
  PROVE  /\ prog \in Seq(Ops) /\ pc \in Nat \ {0} /\ Len(prog) \in Nat
         /\ Depth(prog, pc) = Len(open) + Shift(prog, pc)
         /\ Depth(prog, pc) >= 0
         /\ prog[pc].op \in {"yield", "slot", "provide"} => Arg \in Labels
         /\ prog[pc].op = "cache" => Arg \in CacheKeys
         /\ Arg \in Labels \cup CacheKeys \cup {None}
<1>1. prog \in Seq(Ops) /\ Balanced(prog)
  BY SlotsAssumption DEF Typed
<1>2. prog[pc] \in Ops /\ pc \in Nat \ {0} /\ Len(prog) \in Nat
  BY <1>1
<1>3. Depth(prog, pc) = Len(open) + Shift(prog, pc)
  BY <1>2, DepthSteps DEF Nested, NestedIn
<1>4. Depth(prog, pc) >= 0
  BY <1>1 DEF Balanced
<1>5. /\ prog[pc].op \in {"yield", "slot", "provide"} => Arg \in Labels
      /\ prog[pc].op = "cache" => Arg \in CacheKeys
      /\ Arg \in Labels \cup CacheKeys \cup {None}
  BY <1>2 DEF Ops, Op, Arg
<1> QED BY <1>1, <1>2, <1>3, <1>4, <1>5

LEMMA StampTyped ==
  ASSUME slots \in [Labels -> Seq(Items) \cup {None}]
  PROVE  /\ \A l \in Labels : Content(l) \in Seq(Items)
         /\ Stamp \in Nat \X Nat
<1>1. \A l \in Labels : Content(l) \in Seq(Items)
  <2>1. <<>> \in Seq(Items)
    BY EmptySeq
  <2> QED BY <2>1 DEF Content
<1> DEFINE provided == {l \in Labels : slots[l] # None}
           sizes == [l \in Labels |-> Len(Content(l))]
<1>2. Cardinality(provided) \in Nat
  <2>1. IsFiniteSet(provided)
    BY SlotsAssumption, FS_Subset
  <2> QED BY <2>1, FS_CardinalityType
<1>3. SumFunctionOnSet(sizes, Labels) \in Nat
  <2>1. sizes \in [Labels -> Nat]
    BY <1>1
  <2> HIDE DEF sizes
  <2> QED BY <2>1, SlotsAssumption, SumIsNat
<1> QED BY <1>1, <1>2, <1>3 DEF Stamp

(* A region that closes is there, and is of the kind its "end" closes. *)
LEMMA RegionTyped ==
  ASSUME Typed, Nested, NEW name, Closes(name)
  PROVE  /\ Len(open) \in Nat \ {0}
         /\ Region = open[Len(open)] /\ Region \in Frames
         /\ Front(open) \in Seq(Frames) /\ Len(Front(open)) = Len(open) - 1
         /\ \A k \in 1..(Len(open) - 1) : Front(open)[k] = open[k]
         /\ name = "provide" => Region.arg \in Labels
         /\ name = "cache" => Region.arg \in CacheKeys
         /\ Depth(prog, pc) = Len(open) - 1
<1>1. pc \in 1..Len(prog) /\ prog[pc].op = "end" /\ Region.op = name
  BY DEF Closes, Runs
<1>2. Depth(prog, pc) = Len(open) - 1 /\ Depth(prog, pc) >= 0
  BY <1>1, AtOperation DEF Shift, Brackets
<1>3. open \in Seq(Frames)
  BY DEF Typed
<1>4. PICK n \in Nat \ {0} : n = Len(open)
  BY <1>2, <1>3
<1>5. Region = open[n] /\ Region \in Frames
  BY <1>3, <1>4 DEF Region, Last
<1>6. /\ Front(open) \in Seq(Frames) /\ Len(Front(open)) = n - 1
      /\ \A k \in 1..(n - 1) : Front(open)[k] = open[k]
  BY <1>3, <1>4 DEF Front
<1>7. PICK i \in 1..(pc - 1) : OpenedAt(open, prog, pc, n, i)
  BY <1>4 DEF Nested, NestedIn
<1>8. prog[i] \in Ops
  BY <1>1, SlotsAssumption DEF Typed
<1>9. prog[i].op = Region.op /\ prog[i].arg = Region.arg
  BY <1>5, <1>7 DEF OpenedAt
<1>10. /\ name = "provide" => Region.arg \in Labels
       /\ name = "cache" => Region.arg \in CacheKeys
  BY <1>1, <1>8, <1>9 DEF Ops, Op
<1> QED BY <1>2, <1>4, <1>5, <1>6, <1>10

-----------------------------------------------------------------------------
(* The steps: one writes, opens a capture, closes one, ends a render,       *)
(* starts one, or drops an entry of the cache.                              *)

Writes == Text \/ Yield \/ CallSlot \/ CacheHit
Opens == Provide \/ Include \/ CacheMiss

LEMMA TypedWrites ==
  ASSUME Typed, Nested, Writes
  PROVE  Typed' /\ Nested'
<1>0. pc \in 1..Len(prog) /\ prog' = prog /\ open' = open
  BY DEF Writes, Text, Yield, CallSlot, CacheHit, Runs
<1>1. /\ prog \in Seq(Ops) /\ pc \in Nat \ {0} /\ Len(prog) \in Nat
      /\ Depth(prog, pc) = Len(open) + Shift(prog, pc)
  BY <1>0, AtOperation
<1>2. open \in Seq(Frames) /\ Len(open) \in Nat
  BY DEF Typed
<1>3. /\ pc' \in 1..(Len(prog) + 1) /\ pc < pc'
      /\ Depth(prog, pc' - 1) = Len(open)
      /\ \A m \in pc..(pc' - 1) : Depth(prog, m) >= Len(open)
  <2>1. CASE Text \/ Yield \/ CallSlot
    <3>1. pc' = pc + 1 /\ Shift(prog, pc) = 0
      BY <2>1 DEF Text, Yield, CallSlot, Runs, Shift, Brackets
    <3> QED BY <1>0, <1>1, <1>2, <3>1
  <2>2. CASE CacheHit
    <3>1. pc' = EndOf(prog, pc) + 1 /\ Shift(prog, pc) = 1 /\ prog[pc].op \in Brackets
      BY <2>2 DEF CacheHit, Runs, Shift, Brackets
    <3>2. /\ EndOf(prog, pc) \in pc..Len(prog)
          /\ Depth(prog, EndOf(prog, pc)) = Depth(prog, pc) - 1
          /\ \A m \in pc..(EndOf(prog, pc) - 1) : Depth(prog, m) >= Depth(prog, pc)
      BY <1>0, <3>1, EndOfCloses DEF Typed
    <3>3. PICK e \in pc..Len(prog) : e = EndOf(prog, pc)
      BY <3>2
    <3>4. Depth(prog, e) = Len(open)
      BY <1>1, <1>2, <3>1, <3>2, <3>3
    <3>5. ASSUME NEW m \in pc..e PROVE Depth(prog, m) >= Len(open)
      <4>1. m = e \/ m \in pc..(e - 1)
        BY <1>1, <3>3
      <4>2. m \in Nat
        BY <1>1
      <4>3. Depth(prog, m) \in Int
        BY <4>2, DepthSteps
      <4> QED BY <1>1, <1>2, <3>1, <3>2, <3>3, <3>4, <4>1, <4>3
    <3> QED BY <1>0, <1>1, <3>1, <3>3, <3>4, <3>5
  <2> QED BY <2>1, <2>2 DEF Writes
<1>4. Nested'
  <2>1. PICK m \in Nat : m = pc'
    BY <1>3
  <2>2. /\ pc <= m /\ Len(open) = Depth(prog, m - 1)
        /\ \A j \in pc..(m - 1) : Depth(prog, j) >= Len(open)
    <3>1. pc < m /\ Depth(prog, m - 1) = Len(open)
      BY <1>3, <2>1
    <3>2. \A j \in pc..(m - 1) : Depth(prog, j) >= Len(open)
      BY <1>3, <2>1
    <3> QED BY <1>1, <3>1, <3>2
  <2>3. NestedIn(open, prog, pc) /\ Len(open) <= Len(open)
    BY <1>2 DEF Nested
  <2>4. NestedIn(open, prog, m)
    BY <1>1, <1>2, <2>2, <2>3, NestedStays
  <2> QED BY <1>0, <2>1, <2>4 DEF Nested
<1>5. out' \in Seq(Items)
  <2>1. CASE Text
    <3>1. TextAt(pc, render) \in Items
      BY <1>1, ItemKinds DEF Typed
    <3> QED BY <2>1, <3>1 DEF Text, Typed
  <2>2. CASE Yield
    <3>1. Arg \in Labels
      BY <1>0, <2>2, AtOperation DEF Yield, Runs
    <3>2. Placeholder(render, Arg) \in Items
      BY <3>1, ItemKinds DEF Typed
    <3> QED BY <2>2, <3>2 DEF Yield, Typed
  <2>3. CASE CallSlot
    <3>1. Arg \in Labels
      BY <1>0, <2>3, AtOperation DEF CallSlot, Runs
    <3>2. Content(Arg) \in Seq(Items)
      BY <3>1, StampTyped DEF Typed
    <3> QED BY <2>3, <3>2 DEF CallSlot, Typed
  <2>4. CASE CacheHit
    <3>1. Arg \in CacheKeys /\ store[Arg] # None
      BY <1>0, <2>4, AtOperation DEF CacheHit, Runs
    <3>2. store[Arg] \in Seq(Items)
      BY <3>1 DEF Typed
    <3> QED BY <2>4, <3>2 DEF CacheHit, Typed
  <2> QED BY <2>1, <2>2, <2>3, <2>4 DEF Writes
<1>6. yielded' \in Seq(Labels) /\ minted' \in BOOLEAN /\ touches' \in Nat /\ touches' >= touches
  <2>1. CASE Yield
    <3>1. Arg \in Labels
      BY <1>0, <2>1, AtOperation DEF Yield, Runs
    <3> QED BY <2>1, <3>1 DEF Yield, Typed
  <2>2. CASE Text \/ CallSlot \/ CacheHit
    BY <2>2 DEF Text, CallSlot, CacheHit, Typed
  <2> QED BY <2>1, <2>2 DEF Writes
<1>7. \A k \in DOMAIN open : open[k].touches <= touches'
  <2> SUFFICES ASSUME NEW k \in DOMAIN open PROVE open[k].touches <= touches'
    OBVIOUS
  <2>1. open[k] \in Frames
    BY <1>2
  <2>2. open[k].touches \in Nat /\ open[k].touches <= touches /\ touches \in Nat
    BY <2>1 DEF Frames, Typed
  <2> QED BY <1>6, <2>2
<1>8. UNCHANGED <<render, slots, store, result, failed>>
  BY DEF Writes, Text, Yield, CallSlot, CacheHit
<1>9. Typed'
  BY <1>0, <1>3, <1>5, <1>6, <1>7, <1>8 DEF Typed
<1> QED BY <1>4, <1>9

LEMMA TypedOpens ==
  ASSUME Typed, Nested, Opens
  PROVE  Typed' /\ Nested'
<1> DEFINE f == [op |-> prog[pc].op, arg |-> Arg, out |-> out, yielded |-> yielded,
                 stamp |-> Stamp, touches |-> touches]
<1>1. /\ pc \in 1..Len(prog) /\ prog[pc].op \in Brackets
      /\ open' = Append(open, f) /\ out' = <<>> /\ pc' = pc + 1
      /\ yielded' \in {yielded, <<>>}
      /\ UNCHANGED <<prog, render, slots, touches, minted, store, result, failed>>
  BY DEF Opens, Provide, Include, CacheMiss, Capture, Runs, Brackets
<1>2. /\ prog \in Seq(Ops) /\ pc \in Nat \ {0} /\ Len(prog) \in Nat
      /\ Arg \in Labels \cup CacheKeys \cup {None}
  BY <1>1, AtOperation
<1>3. f \in Frames
  <2>1. Stamp \in Nat \X Nat
    BY StampTyped DEF Typed
  <2> QED BY <1>1, <1>2, <2>1 DEF Typed, Frames
<1>4. f.op = prog[pc].op /\ f.arg = prog[pc].arg /\ f.touches = touches
  BY DEF Arg
<1> HIDE DEF f
<1>5. PICK n \in Nat : n = Len(open) /\ open \in Seq(Frames)
  BY DEF Typed
<1>6. open' \in Seq(Frames) /\ Len(open') = n + 1
      /\ \A k \in 1..(n + 1) : open'[k] = IF k = n + 1 THEN f ELSE open[k]
  BY <1>1, <1>3, <1>5
<1>7. \A k \in DOMAIN open' : open'[k].touches <= touches'
  <2> SUFFICES ASSUME NEW k \in 1..(n + 1) PROVE open'[k].touches <= touches
    BY <1>1, <1>6
  <2>1. CASE k = n + 1
    BY <1>4, <1>6, <2>1 DEF Typed
  <2>2. CASE k \in 1..n
    <3>1. open'[k] = open[k] /\ k \in DOMAIN open
      BY <1>5, <1>6, <2>2
    <3> QED BY <3>1 DEF Typed
  <2> QED BY <1>5, <2>1, <2>2
<1>8. out' \in Seq(Items) /\ yielded' \in Seq(Labels)
  BY <1>1, EmptySeq DEF Typed
<1>9. pc' \in 1..(Len(prog) + 1)
  BY <1>1, <1>2
<1>10. Typed'
  BY <1>1, <1>6, <1>7, <1>8, <1>9 DEF Typed
<1>11. NestedIn(Append(open, f), prog, pc + 1)
  BY <1>1, <1>2, <1>4, <1>5, NestedOpens DEF Nested
<1> QED BY <1>1, <1>10, <1>11 DEF Nested

LEMMA TypedCloses ==
  ASSUME Typed, Nested, Close
  PROVE  Typed' /\ Nested'
<1>1. PICK name \in Brackets : Closes(name) /\
        \/ name = "provide" /\ EndProvide
        \/ name = "include" /\ EndInclude
        \/ name = "cache" /\ EndCache
  BY DEF Close, EndProvide, EndInclude, EndCache, Brackets
<1>2. PICK n \in Nat \ {0} :
         /\ n = Len(open)
         /\ Region = open[n] /\ Region \in Frames
         /\ Front(open) \in Seq(Frames) /\ Len(Front(open)) = n - 1
         /\ \A k \in 1..(n - 1) : Front(open)[k] = open[k]
         /\ name = "provide" => Region.arg \in Labels
         /\ name = "cache" => Region.arg \in CacheKeys
         /\ Depth(prog, pc) = n - 1
  BY <1>1, RegionTyped
<1>3. pc \in 1..Len(prog) /\ open' = Front(open) /\ pc' = pc + 1
      /\ UNCHANGED <<prog, render, minted, result, failed>>
  BY <1>1 DEF EndProvide, EndInclude, EndCache, Closes, Runs
<1>4. prog \in Seq(Ops) /\ pc \in Nat \ {0} /\ Len(prog) \in Nat /\ open \in Seq(Frames)
  BY <1>3, AtOperation DEF Typed
<1>5. /\ Region.out \in Seq(Items) /\ Region.yielded \in Seq(Labels)
      /\ out \in Seq(Items) /\ yielded \in Seq(Labels)
  BY <1>2 DEF Frames, Typed
<1>6. slots' \in [Labels -> Seq(Items) \cup {None}]
  <2>1. CASE name = "provide"
    <3>1. Content(Region.arg) \o out \in Seq(Items)
      BY <1>2, <1>5, <2>1, StampTyped, SMTT(30) DEF Typed
    <3>2. slots' = [slots EXCEPT ![Region.arg] = Content(Region.arg) \o out]
      BY <1>1, <2>1 DEF EndProvide
    <3> QED BY <3>1, <3>2 DEF Typed
  <2>2. CASE name # "provide"
    BY <1>1, <2>2 DEF EndInclude, EndCache, Typed
  <2> QED BY <2>1, <2>2
<1>7. store' \in [CacheKeys -> Seq(Items) \cup {None}]
  <2>1. store' \in {store, [store EXCEPT ![Region.arg] = out]}
    BY <1>1 DEF EndProvide, EndInclude, EndCache
  <2> QED BY <1>5, <2>1 DEF Typed
<1>8. out' \in Seq(Items) /\ yielded' \in Seq(Labels)
  <2>1. CASE EndProvide
    BY <1>5, <2>1 DEF EndProvide
  <2>2. CASE EndInclude
    BY <1>5, <2>2 DEF EndInclude
  <2>3. CASE EndCache
    BY <1>5, <2>3 DEF EndCache
  <2> QED BY <1>1, <2>1, <2>2, <2>3
<1>9. touches' \in Nat /\ touches' >= touches
  BY <1>1 DEF EndProvide, EndInclude, EndCache, Typed
<1>10. \A k \in DOMAIN open' : open'[k].touches <= touches'
  <2> SUFFICES ASSUME NEW k \in 1..(n - 1) PROVE open[k].touches <= touches'
    BY <1>2, <1>3
  <2>1. open[k] \in Frames /\ k \in DOMAIN open
    BY <1>2, <1>4
  <2>2. open[k].touches \in Nat /\ open[k].touches <= touches /\ touches \in Nat
    BY <2>1 DEF Frames, Typed
  <2> QED BY <1>9, <2>2
<1>11. pc' \in 1..(Len(prog) + 1)
  BY <1>3, <1>4
<1>12. Typed'
  BY <1>2, <1>3, <1>6, <1>7, <1>8, <1>9, <1>10, <1>11 DEF Typed
<1>13. NestedIn(Front(open), prog, pc + 1)
  <2>1. NestedIn(open, prog, pc) /\ pc + 1 \in Nat /\ pc \in Nat
    BY <1>4 DEF Nested
  <2>2. Len(Front(open)) <= Len(open) /\ Len(Front(open)) = Depth(prog, (pc + 1) - 1)
    BY <1>2, <1>4
  <2>3. \A j \in pc..((pc + 1) - 1) : Depth(prog, j) >= Len(Front(open))
    BY <1>2, <1>4
  <2>4. \A k \in 1..Len(Front(open)) : Front(open)[k] = open[k]
    BY <1>2
  <2> QED BY <1>2, <1>4, <2>1, <2>2, <2>3, <2>4, NestedStays, SMTT(30)
<1> QED BY <1>3, <1>12, <1>13 DEF Nested

(* The render's own builder is the innermost sink, or that of the outermost *)
(* capture.                                                                  *)
LEMMA PartialTyped ==
  ASSUME Typed
  PROVE  /\ Partial \in Seq(Items)
         /\ Partial = out \/ (1 \in 1..Len(open) /\ Partial = open[1].out)
<1>1. CASE open = <<>>
  BY <1>1 DEF Partial, Typed
<1>2. CASE open # <<>>
  <2>1. 1 \in 1..Len(open) /\ open[1] \in Frames /\ Head(open) = open[1]
    BY <1>2 DEF Typed
  <2> QED BY <1>2, <2>1 DEF Partial, Frames
<1> QED BY <1>1, <1>2

LEMMA TypedOthers ==
  ASSUME Typed, Nested, Finish \/ NextRender \/ Abort \/ (\E k \in CacheKeys : Invalidate(k))
                        \/ UNCHANGED vars
  PROVE  Typed' /\ Nested'
<1>1. CASE Finish
  <2>1. Resolve(out, yielded) \in Seq(Items)
    BY ResolveItems, StampTyped DEF Typed
  <2>2. Typed'
    BY <1>1, <2>1 DEF Finish, Typed
  <2> QED BY <1>1, <2>2 DEF Finish, Nested
<1>2. CASE Again
  <2>1. <<>> \in Seq(Items) /\ <<>> \in Seq(Labels) /\ <<>> \in Seq(Frames) /\ Len(<<>>) = 0
    BY EmptySeq
  <2>2. NoSlots \in [Labels -> Seq(Items) \cup {None}]
    BY DEF NoSlots
  <2>3. render' \in 1..MaxRenders /\ 1 \in 1..(Len(prog) + 1)
    <3>1. prog \in Seq(Ops)
      BY SlotsAssumption DEF Typed
    <3> QED BY <1>2, <3>1, SlotsAssumption DEF Again, Typed
  <2>4. /\ prog' = prog /\ pc' = 1 /\ open' = <<>> /\ out' = <<>> /\ slots' = NoSlots
        /\ touches' = 0 /\ minted' = FALSE /\ yielded' = <<>> /\ result' = None /\ store' = store
        /\ failed' = FALSE
    BY <1>2 DEF Again
  <2>5. Typed'
    <3>1. \A k \in DOMAIN <<>> : FALSE
      BY <2>1
    <3>2. \A k \in DOMAIN open' : open'[k].touches <= touches'
      BY <2>4, <3>1
    <3> QED BY <2>1, <2>2, <2>3, <2>4, <3>2 DEF Typed
  <2>6. NestedIn(<<>>, prog, 1)
    BY <2>1, DepthSteps DEF NestedIn
  <2> QED BY <2>4, <2>5, <2>6 DEF Nested
<1>3. CASE \E k \in CacheKeys : Invalidate(k)
  <2>1. store' \in [CacheKeys -> Seq(Items) \cup {None}]
    BY <1>3 DEF Invalidate, Typed
  <2>2. UNCHANGED <<prog, render, pc, open, out, slots, touches, minted, yielded, result, failed>>
    BY <1>3 DEF Invalidate
  <2> QED BY <2>1, <2>2 DEF Typed, Nested
<1>4. CASE Abort
  <2>1. Partial \in Seq(Items)
    BY PartialTyped
  <2> QED BY <1>4, <2>1 DEF Abort, Typed, Nested
<1>5. CASE UNCHANGED vars
  BY <1>5 DEF vars, Typed, Nested
<1> QED BY <1>1, <1>2, <1>3, <1>4, <1>5 DEF NextRender

LEMMA TypedInit == Init => Typed /\ Nested
<1> SUFFICES ASSUME Init PROVE Typed /\ Nested
  OBVIOUS
<1>1. prog \in Templates /\ prog \in Seq(Ops) /\ 1 \in 1..(Len(prog) + 1)
  BY SlotsAssumption DEF Init
<1>2. <<>> \in Seq(Items) /\ <<>> \in Seq(Labels) /\ <<>> \in Seq(Frames) /\ Len(<<>>) = 0
  BY EmptySeq
<1>3. NoSlots \in [Labels -> Seq(Items) \cup {None}] /\ 1 \in 1..MaxRenders
  BY SlotsAssumption DEF NoSlots
<1>4. Typed
  <2>1. \A k \in DOMAIN <<>> : FALSE
    BY <1>2
  <2>2. \A k \in DOMAIN open : open[k].touches <= touches
    BY <2>1 DEF Init
  <2> QED BY <1>1, <1>2, <1>3, <2>2 DEF Init, Typed
<1>5. NestedIn(<<>>, prog, 1)
  BY <1>2, DepthSteps DEF NestedIn
<1> QED BY <1>4, <1>5 DEF Init, Nested

LEMMA StepKinds ==
  [Next]_vars <=> \/ Writes \/ Opens \/ Close
                  \/ Finish \/ NextRender \/ Abort \/ (\E k \in CacheKeys : Invalidate(k))
                  \/ UNCHANGED vars
BY DEF Next, Writes, Opens

LEMMA TypedStep == Typed /\ Nested /\ [Next]_vars => Typed' /\ Nested'
BY StepKinds, TypedWrites, TypedOpens, TypedCloses, TypedOthers

(* The state has the shape interp.go and cache.go give it; in particular a   *)
(* cache hit continues inside the template, and every "end" finds the        *)
(* capture it closes.                                                        *)
THEOREM TypeCorrect == Spec => []TypeOK
<1>1. Typed => TypeOK
  <2> SUFFICES ASSUME Typed PROVE TypeOK
    OBVIOUS
  <2>1. prog \in Seq(Ops)
    BY SlotsAssumption DEF Typed
  <2>2. ASSUME NEW i \in DOMAIN open
        PROVE  /\ open[i].op \in {"provide", "cache", "include"}
               /\ open[i].out \in Seq(Items)
               /\ open[i].yielded \in Seq(Labels)
               /\ open[i].touches \in 0..touches
    <3>1. open[i] \in Frames /\ open[i].touches <= touches /\ touches \in Nat
      BY DEF Typed
    <3> QED BY <3>1 DEF Frames, Brackets
  <2>3. /\ \A l \in Labels : slots[l] = None \/ slots[l] \in Seq(Items)
        /\ \A k \in CacheKeys : store[k] = None \/ store[k] \in Seq(Items)
    BY DEF Typed
  <2> QED BY <2>1, <2>2, <2>3 DEF Typed, TypeOK
<1> QED BY <1>1, TypedInit, TypedStep, PTL DEF Spec
-----------------------------------------------------------------------------
(* No placeholder is left.                                                 *)

(* The placeholders of a text are of render r, whose token is minted, and of *)
(* labels reserved by then.                                                  *)
Reserved(text, labels, r, isMinted) ==
  \A i \in DOMAIN text : IsPlaceholder(text[i]) =>
    /\ isMinted /\ text[i].token = r
    /\ \E j \in DOMAIN labels : text[i].label = labels[j]

Carried(a, b) == \A j \in DOMAIN a : \E i \in DOMAIN b : a[j] = b[i]

LEMMA CarriedFacts ==
  /\ \A a, b, c : Carried(a, b) /\ Carried(b, c) => Carried(a, c)
  /\ \A a : Carried(a, a)
BY DEF Carried

LEMMA CarriedJoins ==
  ASSUME NEW S, NEW a \in Seq(S), NEW b \in Seq(S)
  PROVE  Carried(a, a \o b) /\ Carried(b, a \o b)
<1>1. PICK m \in Nat, n \in Nat : m = Len(a) /\ n = Len(b)
  OBVIOUS
<1> DEFINE c == a \o b
<1>2. /\ DOMAIN c = 1..(m + n) /\ \A j \in 1..m : c[j] = a[j]
      /\ \A j \in 1..n : c[m + j] = b[j]
  BY <1>1
<1> HIDE DEF c
<1>3. Carried(a, c)
  <2> SUFFICES ASSUME NEW j \in 1..m PROVE \E i \in DOMAIN c : a[j] = c[i]
    BY <1>1 DEF Carried
  <2>1. j \in DOMAIN c /\ a[j] = c[j]
    BY <1>2
  <2> QED BY <2>1
<1>4. Carried(b, c)
  <2> SUFFICES ASSUME NEW j \in 1..n PROVE \E i \in DOMAIN c : b[j] = c[i]
    BY <1>1 DEF Carried
  <2>1. m + j \in DOMAIN c /\ b[j] = c[m + j]
    BY <1>2
  <2> QED BY <2>1
<1> QED BY <1>3, <1>4 DEF c

(* What holds of every item of two texts holds of their concatenation.      *)
LEMMA Joined ==
  ASSUME NEW a \in Seq(Items), NEW b \in Seq(Items)
  PROVE  \A i \in DOMAIN (a \o b) : \/ \E j \in DOMAIN a : (a \o b)[i] = a[j]
                                    \/ \E j \in DOMAIN b : (a \o b)[i] = b[j]
<1>1. PICK m \in Nat, n \in Nat : m = Len(a) /\ n = Len(b)
  OBVIOUS
<1> SUFFICES ASSUME NEW i \in 1..(m + n)
             PROVE  \/ \E j \in DOMAIN a : (a \o b)[i] = a[j]
                    \/ \E j \in DOMAIN b : (a \o b)[i] = b[j]
  BY <1>1
<1>2. CASE i \in 1..m
  BY <1>1, <1>2
<1>3. CASE i \notin 1..m
  <2>1. i - m \in 1..n /\ (a \o b)[i] = b[i - m]
    BY <1>1, <1>3
  <2> QED BY <1>1, <2>1
<1> QED BY <1>2, <1>3

LEMMA PlainJoins ==
  ASSUME NEW a \in Seq(Items), NEW b \in Seq(Items), Plain(a), Plain(b)
  PROVE  Plain(a \o b)
<1> DEFINE c == a \o b
<1>1. \A i \in DOMAIN c : (\E j \in DOMAIN a : c[i] = a[j]) \/ (\E j \in DOMAIN b : c[i] = b[j])
  BY Joined
<1> HIDE DEF c
<1>2. Plain(c)
  BY <1>1 DEF Plain
<1> QED BY <1>2 DEF c

LEMMA ReservedFacts ==
  ASSUME NEW r, NEW m
  PROVE  /\ \A t, x, y : Reserved(t, x, r, m) /\ Carried(x, y) => Reserved(t, y, r, m)
         /\ \A t, y : Plain(t) => Reserved(t, y, r, m)
BY DEF Reserved, Carried, Plain

LEMMA ReservedJoins ==
  ASSUME NEW r, NEW m, NEW a \in Seq(Items), NEW b \in Seq(Items), NEW y,
         Reserved(a, y, r, m), Reserved(b, y, r, m)
  PROVE  Reserved(a \o b, y, r, m)
<1> DEFINE c == a \o b
<1>1. \A i \in DOMAIN c : (\E j \in DOMAIN a : c[i] = a[j]) \/ (\E j \in DOMAIN b : c[i] = b[j])
  BY Joined
<1> HIDE DEF c
<1>2. Reserved(c, y, r, m)
  BY <1>1 DEF Reserved
<1> QED BY <1>2 DEF c

(* The texts of the open sinks: what each holds is reserved by the labels of *)
(* the interpreter that writes it, which reach the enclosing interpreter     *)
(* when an include ends, and no placeholder is on its way into a slot.       *)
LabelsAbove(st, k, labels) == IF k = Len(st) THEN labels ELSE st[k + 1].yielded

Sunken(st, text, labels, r, isMinted) ==
  /\ Reserved(text, labels, r, isMinted)
  /\ \A k \in 1..Len(st) : Reserved(st[k].out, st[k].yielded, r, isMinted)
  /\ \A k \in 1..Len(st) : st[k].op # "include" => Carried(st[k].yielded, LabelsAbove(st, k, labels))
  /\ \A k \in 1..Len(st) : st[k].op = "provide" =>
       Plain(text) /\ \A j \in (k + 1)..Len(st) : Plain(st[j].out)

LEMMA SunkenEmpty == \A r : Sunken(<<>>, <<>>, <<>>, r, FALSE)
<1>1. ASSUME NEW r, NEW st, Len(st) = 0, \A i \in DOMAIN st : FALSE
      PROVE  Sunken(st, st, st, r, FALSE)
  <2>1. \A k \in 1..Len(st) : FALSE
    BY <1>1
  <2> QED BY <1>1, <2>1 DEF Sunken, Reserved
<1>2. Len(<<>>) = 0 /\ \A i \in DOMAIN <<>> : FALSE
  OBVIOUS
<1> HIDE DEF Sunken
<1> QED BY <1>1, <1>2

LEMMA SunkenWrites ==
  ASSUME NEW st \in Seq(Frames), NEW text, NEW labels, NEW r, NEW m,
         Sunken(st, text, labels, r, m),
         NEW newText, NEW newLabels, NEW newMinted, m => newMinted,
         Reserved(newText, newLabels, r, newMinted), Carried(labels, newLabels),
         (\E k \in 1..Len(st) : st[k].op = "provide") => Plain(newText)
  PROVE  Sunken(st, newText, newLabels, r, newMinted)
<1>1. \A k \in 1..Len(st) : Reserved(st[k].out, st[k].yielded, r, newMinted)
  BY DEF Sunken, Reserved
<1>2. \A k \in 1..Len(st) :
        Carried(LabelsAbove(st, k, labels), LabelsAbove(st, k, newLabels))
  BY CarriedFacts DEF LabelsAbove
<1>3. \A k \in 1..Len(st) : st[k].op # "include" =>
        Carried(st[k].yielded, LabelsAbove(st, k, newLabels))
  <2> SUFFICES ASSUME NEW k \in 1..Len(st), st[k].op # "include"
               PROVE  Carried(st[k].yielded, LabelsAbove(st, k, newLabels))
    OBVIOUS
  <2>1. Carried(st[k].yielded, LabelsAbove(st, k, labels))
    BY DEF Sunken
  <2> QED BY <1>2, <2>1, CarriedFacts
<1>4. \A k \in 1..Len(st) : st[k].op = "provide" =>
        Plain(newText) /\ \A j \in (k + 1)..Len(st) : Plain(st[j].out)
  BY DEF Sunken
<1> QED BY <1>1, <1>3, <1>4 DEF Sunken

LEMMA SunkenOpens ==
  ASSUME NEW st \in Seq(Frames), NEW text, NEW labels, NEW r, NEW m,
         Sunken(st, text, labels, r, m),
         NEW f \in Frames, f.out = text, f.yielded = labels,
         NEW inner, f.op # "include" => inner = labels
  PROVE  Sunken(Append(st, f), <<>>, inner, r, m)
<1>1. PICK n \in Nat : n = Len(st)
  OBVIOUS
<1> DEFINE more == Append(st, f)
<1>2. Len(more) = n + 1 /\ more[n + 1] = f /\ \A k \in 1..n : more[k] = st[k]
  BY <1>1
<1> HIDE DEF more
<1>3. Plain(<<>>) /\ Reserved(<<>>, inner, r, m)
  BY DEF Plain, Reserved
<1>4. ASSUME NEW k \in 1..(n + 1) PROVE Reserved(more[k].out, more[k].yielded, r, m)
  <2>1. k = n + 1 \/ k \in 1..n
    BY <1>1
  <2> QED BY <1>1, <1>2, <2>1 DEF Sunken
<1>5. ASSUME NEW k \in 1..(n + 1), more[k].op # "include"
      PROVE  Carried(more[k].yielded, LabelsAbove(more, k, inner))
  <2>1. CASE k = n + 1
    BY <1>1, <1>2, <1>5, <2>1, CarriedFacts DEF LabelsAbove
  <2>2. CASE k \in 1..n
    <3>1. more[k] = st[k] /\ k # n + 1 /\ (k = n => more[k + 1] = f) /\ (k # n => more[k + 1] = st[k + 1])
      BY <1>1, <1>2, <2>2
    <3>2. LabelsAbove(more, k, inner) = LabelsAbove(st, k, labels)
      BY <1>1, <1>2, <3>1 DEF LabelsAbove
    <3>3. Carried(st[k].yielded, LabelsAbove(st, k, labels))
      BY <1>1, <1>5, <2>2, <3>1 DEF Sunken
    <3> QED BY <3>1, <3>2, <3>3
  <2> QED BY <1>1, <2>1, <2>2
<1>6. ASSUME NEW k \in 1..(n + 1), more[k].op = "provide", NEW j \in (k + 1)..(n + 1)
      PROVE  Plain(more[j].out)
  <2>1. k \in 1..n /\ more[k] = st[k]
    BY <1>1, <1>2
  <2>2. Plain(text) /\ \A i \in (k + 1)..n : Plain(st[i].out)
    BY <1>1, <1>6, <2>1 DEF Sunken
  <2>3. j = n + 1 \/ (j \in (k + 1)..n /\ more[j] = st[j])
    BY <1>1, <1>2, <2>1
  <2> QED BY <1>2, <2>2, <2>3
<1>7. Sunken(more, <<>>, inner, r, m)
  BY <1>1, <1>2, <1>3, <1>4, <1>5, <1>6 DEF Sunken
<1> QED BY <1>7 DEF more

LEMMA SunkenCloses ==
  ASSUME NEW st \in Seq(Frames), NEW text, NEW labels, NEW r, NEW m,
         Sunken(st, text, labels, r, m), NEW n \in Nat \ {0}, n = Len(st),
         NEW rest \in Seq(Frames), Len(rest) = n - 1, \A k \in 1..(n - 1) : rest[k] = st[k],
         NEW newText, NEW newLabels,
         Reserved(newText, newLabels, r, m), Carried(st[n].yielded, newLabels),
         Plain(text) /\ Plain(st[n].out) => Plain(newText)
  PROVE  Sunken(rest, newText, newLabels, r, m)
<1>1. \A k \in 1..(n - 1) : k \in 1..n /\ rest[k] = st[k]
  OBVIOUS
<1>2. \A k \in 1..(n - 1) : Reserved(rest[k].out, rest[k].yielded, r, m)
  BY <1>1 DEF Sunken
<1>3. ASSUME NEW k \in 1..(n - 1), rest[k].op # "include"
      PROVE  Carried(rest[k].yielded, LabelsAbove(rest, k, newLabels))
  <2>1. Carried(st[k].yielded, st[k + 1].yielded)
    BY <1>1, <1>3 DEF Sunken, LabelsAbove
  <2>2. CASE k = n - 1
    <3>1. st[k + 1] = st[n] /\ LabelsAbove(rest, k, newLabels) = newLabels
      BY <2>2 DEF LabelsAbove
    <3> QED BY <1>1, <2>1, <3>1, CarriedFacts
  <2>3. CASE k # n - 1
    <3>1. k + 1 \in 1..(n - 1)
      BY <2>3
    <3> QED BY <1>1, <2>1, <2>3, <3>1 DEF LabelsAbove
  <2> QED BY <2>2, <2>3
<1>4. ASSUME NEW k \in 1..(n - 1), rest[k].op = "provide"
      PROVE  Plain(newText) /\ \A j \in (k + 1)..(n - 1) : Plain(rest[j].out)
  <2>1. Plain(text) /\ \A j \in (k + 1)..n : Plain(st[j].out)
    BY <1>1, <1>4 DEF Sunken
  <2>2. n \in (k + 1)..n /\ \A j \in (k + 1)..(n - 1) : j \in (k + 1)..n /\ rest[j] = st[j]
    BY <1>1, SMTT(30)
  <2> QED BY <2>1, <2>2
<1> QED BY <1>2, <1>3, <1>4 DEF Sunken

SlotsPlain ==
  /\ \A key \in CacheKeys : store[key] # None => Plain(store[key])
  /\ \A l \in Labels : Plain(Content(l))
  /\ NoRawPlaceholder

MarkInv == SlotsPlain /\ Sunken(open, out, yielded, render, minted)

(* A capture that is open was opened by an operation around this one.       *)
LEMMA OpenEncloses ==
  ASSUME Typed, Nested, pc \in 1..Len(prog), NEW k \in 1..Len(open)
  PROVE  Within(prog, open[k].op, pc)
<1>1. PICK i \in 1..(pc - 1) : OpenedAt(open, prog, pc, k, i)
  BY DEF Nested, NestedIn
<1>2. i \in 1..pc /\ i < pc
  BY AtOperation
<1> QED BY <1>1, <1>2 DEF OpenedAt, Within, Encloses

LEMMA MarkWrites ==
  ASSUME Typed, Nested, MarkInv, YieldsOutsideProvides(prog), Writes
  PROVE  MarkInv'
<1>1. pc \in 1..Len(prog) /\ UNCHANGED <<open, slots, store, result, failed, render>>
  BY DEF Writes, Text, Yield, CallSlot, CacheHit, Runs
<1>2. /\ open \in Seq(Frames) /\ out \in Seq(Items) /\ yielded \in Seq(Labels)
      /\ minted \in BOOLEAN /\ Sunken(open, out, yielded, render, minted)
      /\ Reserved(out, yielded, render, minted)
      /\ \A k \in 1..Len(open) : open[k].op = "provide" => Plain(out)
  BY DEF Typed, MarkInv, Sunken
<1>3. CASE Yield
  <2>1. /\ Arg \in Labels /\ prog[pc].op = "yield" /\ minted' = TRUE
        /\ yielded' = Append(yielded, Arg) /\ out' = Append(out, Placeholder(render, Arg))
    BY <1>1, <1>3, AtOperation DEF Yield, Runs
  <2>2. \A k \in 1..Len(open) : open[k].op # "provide"
    <3>1. prog \in Seq(Ops)
      BY SlotsAssumption DEF Typed
    <3>2. ~Within(prog, "provide", pc)
      BY <1>1, <2>1, <3>1 DEF YieldsOutsideProvides
    <3> QED BY <1>1, <3>2, OpenEncloses
  <2>3. PICK m \in Nat, n \in Nat : m = Len(yielded) /\ n = Len(out)
    BY <1>2
  <2>4. /\ DOMAIN yielded' = 1..(m + 1) /\ yielded'[m + 1] = Arg
        /\ \A j \in 1..m : yielded'[j] = yielded[j]
    BY <1>2, <2>1, <2>3
  <2>5. /\ DOMAIN out' = 1..(n + 1) /\ out'[n + 1] = Placeholder(render, Arg)
        /\ \A j \in 1..n : out'[j] = out[j]
    BY <1>2, <2>1, <2>3
  <2>6. Carried(yielded, yielded')
    <3>1. \A j \in 1..m : j \in 1..(m + 1)
      OBVIOUS
    <3>2. DOMAIN yielded = 1..m
      BY <1>2, <2>3
    <3> QED BY <2>4, <3>1, <3>2 DEF Carried
  <2>7. Reserved(out', yielded', render, TRUE)
    <3> SUFFICES ASSUME NEW i \in 1..(n + 1), IsPlaceholder(out'[i])
                 PROVE  /\ out'[i].token = render
                        /\ \E j \in DOMAIN yielded' : out'[i].label = yielded'[j]
      BY <2>5 DEF Reserved
    <3>1. CASE i = n + 1
      <4>1. out'[i].token = render /\ out'[i].label = Arg
        BY <2>5, <3>1 DEF Placeholder
      <4>2. m + 1 \in DOMAIN yielded'
        BY <2>4
      <4> QED BY <2>4, <4>1, <4>2
    <3>2. CASE i \in 1..n
      <4>1. out'[i] = out[i] /\ i \in DOMAIN out
        BY <1>2, <2>3, <2>5, <3>2
      <4>2. out[i].token = render /\ \E j \in DOMAIN yielded : out[i].label = yielded[j]
        BY <1>2, <4>1 DEF Reserved
      <4> QED BY <2>6, <4>1, <4>2 DEF Carried
    <3> QED BY <2>3, <3>1, <3>2
  <2>8. Sunken(open, out', yielded', render, TRUE)
    <3>1. minted => TRUE
      OBVIOUS
    <3>2. (\E k \in 1..Len(open) : open[k].op = "provide") => Plain(out')
      BY <2>2
    <3> HIDE DEF Sunken, Reserved, Carried, Plain
    <3> QED BY <1>2, <2>6, <2>7, <3>1, <3>2, SunkenWrites
  <2> QED BY <1>1, <2>1, <2>8 DEF MarkInv, SlotsPlain, NoRawPlaceholder, Content
<1>4. CASE Text \/ CallSlot \/ CacheHit
  <2>1. PICK more \in Seq(Items) : Plain(more) /\ out' = out \o more
    <3>1. CASE Text
      <4>1. TextAt(pc, render) \in Items /\ ~IsPlaceholder(TextAt(pc, render))
        BY <1>1, ItemKinds, AtOperation DEF Typed
      <4> DEFINE more == <<TextAt(pc, render)>>
      <4>2. more \in Seq(Items) /\ Plain(more)
        BY <4>1 DEF Plain
      <4>3. out' = out \o more
        BY <1>2, <3>1, <4>1 DEF Text
      <4> QED BY <4>2, <4>3
    <3>2. CASE CallSlot
      <4>1. Arg \in Labels
        BY <1>1, <3>2, AtOperation DEF CallSlot, Runs
      <4>2. Content(Arg) \in Seq(Items) /\ Plain(Content(Arg))
        BY <4>1, StampTyped DEF Typed, MarkInv, SlotsPlain
      <4> QED BY <3>2, <4>2 DEF CallSlot
    <3>3. CASE CacheHit
      <4>1. Arg \in CacheKeys /\ store[Arg] # None
        BY <1>1, <3>3, AtOperation DEF CacheHit, Runs
      <4>2. store[Arg] \in Seq(Items) /\ Plain(store[Arg])
        BY <4>1 DEF Typed, MarkInv, SlotsPlain
      <4> QED BY <3>3, <4>2 DEF CacheHit
    <3> QED BY <1>4, <3>1, <3>2, <3>3
  <2>2. UNCHANGED <<yielded, minted>>
    BY <1>4 DEF Text, CallSlot, CacheHit
  <2>3. Reserved(out \o more, yielded, render, minted)
    <3>1. Reserved(more, yielded, render, minted)
      BY <2>1, ReservedFacts
    <3> HIDE DEF Reserved, Plain
    <3> QED BY <1>2, <2>1, <3>1, ReservedJoins
  <2>4. (\E k \in 1..Len(open) : open[k].op = "provide") => Plain(out \o more)
    BY <1>2, <2>1, PlainJoins
  <2>5. Carried(yielded, yielded)
    BY CarriedFacts
  <2>6. Sunken(open, out \o more, yielded, render, minted)
    BY <1>2, <2>3, <2>4, <2>5, SunkenWrites
  <2> QED BY <1>1, <2>1, <2>2, <2>6 DEF MarkInv, SlotsPlain, NoRawPlaceholder, Content
<1> QED BY <1>3, <1>4 DEF Writes

LEMMA MarkOpens ==
  ASSUME Typed, Nested, MarkInv, Opens
  PROVE  MarkInv'
<1> DEFINE f == [op |-> prog[pc].op, arg |-> Arg, out |-> out, yielded |-> yielded,
                 stamp |-> Stamp, touches |-> touches]
<1>1. /\ pc \in 1..Len(prog) /\ prog[pc].op \in Brackets
      /\ open' = Append(open, f) /\ out' = <<>>
      /\ f.op # "include" => yielded' = yielded
      /\ UNCHANGED <<render, slots, minted, store, result, failed>>
  BY DEF Opens, Provide, Include, CacheMiss, Capture, Runs, Brackets
<1>2. f \in Frames
  <2>1. Stamp \in Nat \X Nat
    BY StampTyped DEF Typed
  <2>2. Arg \in Labels \cup CacheKeys \cup {None}
    BY <1>1, AtOperation
  <2> QED BY <1>1, <2>1, <2>2 DEF Typed, Frames
<1>3. f.out = out /\ f.yielded = yielded /\ open \in Seq(Frames)
  BY DEF Typed
<1>4. Sunken(open, out, yielded, render, minted)
  BY DEF MarkInv
<1> HIDE DEF f
<1>5. Sunken(Append(open, f), <<>>, yielded', render, minted)
  BY <1>1, <1>2, <1>3, <1>4, SunkenOpens
<1> QED BY <1>1, <1>5 DEF MarkInv, SlotsPlain, NoRawPlaceholder, Content

LEMMA MarkCloses ==
  ASSUME Typed, Nested, MarkInv, Close
  PROVE  MarkInv'
<1>1. PICK name \in Brackets : Closes(name) /\
        \/ name = "provide" /\ EndProvide
        \/ name = "include" /\ EndInclude
        \/ name = "cache" /\ EndCache
  BY DEF Close, EndProvide, EndInclude, EndCache, Brackets
<1>2. PICK n \in Nat \ {0} :
         /\ n = Len(open)
         /\ Region = open[n] /\ Region \in Frames
         /\ Front(open) \in Seq(Frames) /\ Len(Front(open)) = n - 1
         /\ \A k \in 1..(n - 1) : Front(open)[k] = open[k]
         /\ name = "provide" => Region.arg \in Labels
         /\ name = "cache" => Region.arg \in CacheKeys
  BY <1>1, RegionTyped
<1>3. open' = Front(open) /\ UNCHANGED <<render, minted, result, failed>> /\ Region.op = name
  BY <1>1 DEF EndProvide, EndInclude, EndCache, Closes
<1>4. /\ Region.out \in Seq(Items) /\ Region.yielded \in Seq(Labels) /\ open \in Seq(Frames)
      /\ out \in Seq(Items) /\ yielded \in Seq(Labels)
  BY <1>2 DEF Frames, Typed
<1>5. /\ Sunken(open, out, yielded, render, minted)
      /\ Reserved(out, yielded, render, minted)
      /\ Reserved(Region.out, Region.yielded, render, minted)
      /\ name # "include" => Carried(Region.yielded, yielded)
      /\ name = "provide" => Plain(out)
  <2>1. n \in 1..Len(open) /\ LabelsAbove(open, n, yielded) = yielded
    BY <1>2 DEF LabelsAbove
  <2> QED BY <1>2, <1>3, <2>1 DEF MarkInv, Sunken
<1> DEFINE newText == IF name = "provide" THEN Region.out ELSE Region.out \o out
           newLabels == IF name = "include" THEN Region.yielded \o yielded ELSE yielded
<1>6. out' = newText /\ yielded' = newLabels
  BY <1>1 DEF EndProvide, EndInclude, EndCache
<1>7. Carried(Region.yielded, newLabels) /\ Carried(yielded, newLabels)
  <2>1. CASE name = "include"
    BY <1>4, <2>1, CarriedJoins
  <2>2. CASE name # "include"
    BY <1>5, <2>2, CarriedFacts
  <2> QED BY <2>1, <2>2
<1> HIDE DEF newLabels
<1>8. Reserved(Region.out, newLabels, render, minted) /\ Reserved(out, newLabels, render, minted)
  BY <1>5, <1>7, ReservedFacts
<1>9. Reserved(newText, newLabels, render, minted)
  BY <1>4, <1>8, ReservedJoins
<1>10. Plain(out) /\ Plain(open[n].out) => Plain(newText)
  BY <1>2, <1>4, PlainJoins
<1> HIDE DEF newText
<1>11. Carried(open[n].yielded, newLabels)
  BY <1>2, <1>7
<1>12. Sunken(Front(open), newText, newLabels, render, minted)
  BY <1>2, <1>4, <1>5, <1>9, <1>10, <1>11, SunkenCloses
<1>13. SlotsPlain'
  <2>1. CASE name = "provide"
    <3>1. /\ slots' = [slots EXCEPT ![Region.arg] = Content(Region.arg) \o out]
          /\ UNCHANGED <<store, result, failed>>
      BY <1>1, <2>1 DEF EndProvide
    <3>2. Content(Region.arg) \in Seq(Items) /\ Plain(Content(Region.arg))
      BY <1>2, <2>1, StampTyped DEF Typed, MarkInv, SlotsPlain
    <3>3. Plain(Content(Region.arg) \o out)
      BY <1>4, <1>5, <2>1, <3>2, PlainJoins
    <3>4. ASSUME NEW l \in Labels PROVE Plain(Content(l)')
      <4>1. Plain(<<>>)
        BY DEF Plain
      <4>2. CASE l = Region.arg
        <5>1. slots'[l] = Content(Region.arg) \o out
          BY <3>1, <4>2 DEF Typed
        <5> QED BY <3>3, <4>1, <5>1 DEF Content
      <4>3. CASE l # Region.arg
        <5>1. slots'[l] = slots[l]
          BY <3>1, <4>3 DEF Typed
        <5> QED BY <5>1 DEF Content, MarkInv, SlotsPlain
      <4> QED BY <4>2, <4>3
    <3> QED BY <1>3, <3>1, <3>4 DEF MarkInv, SlotsPlain, NoRawPlaceholder
  <2>2. CASE name = "include"
    BY <1>1, <2>2 DEF EndInclude, MarkInv, SlotsPlain, NoRawPlaceholder, Content
  <2>3. CASE name = "cache"
    <3>1. /\ store' = IF UsedSlots THEN store ELSE [store EXCEPT ![Region.arg] = out]
          /\ UNCHANGED <<slots, result, failed>>
      BY <1>1, <2>3 DEF EndCache
    <3>2. ~UsedSlots => Plain(out)
      BY <1>5 DEF UsedSlots, Reserved, Plain
    <3>3. ASSUME NEW key \in CacheKeys, store'[key] # None PROVE Plain(store'[key])
      <4>1. CASE store'[key] = store[key]
        BY <3>3, <4>1 DEF MarkInv, SlotsPlain
      <4>2. CASE store'[key] # store[key]
        <5>1. ~UsedSlots /\ store'[key] = out
          BY <3>1, <4>2 DEF Typed
        <5> QED BY <3>2, <5>1
      <4> QED BY <4>1, <4>2
    <3> QED BY <1>3, <3>1, <3>3 DEF MarkInv, SlotsPlain, NoRawPlaceholder, Content
  <2> QED BY <1>1, <2>1, <2>2, <2>3
<1> QED BY <1>3, <1>6, <1>12, <1>13 DEF MarkInv

LEMMA MarkOthers ==
  ASSUME Typed, Nested, MarkInv,
         Finish \/ NextRender \/ Abort \/ (\E k \in CacheKeys : Invalidate(k)) \/ UNCHANGED vars
  PROVE  MarkInv'
<1>0. Plain(<<>>)
  BY DEF Plain
<1>1. CASE Finish
  <2>1. Reserved(out, yielded, render, minted) /\ \A l \in Labels : Plain(Content(l))
    BY DEF MarkInv, SlotsPlain, Sunken
  <2>2. /\ out \in Seq(Items) /\ yielded \in Seq(Labels)
        /\ \A l \in Labels : Content(l) \in Seq(Items)
    BY StampTyped DEF Typed
  <2>3. \A i \in DOMAIN out : IsPlaceholder(out[i]) =>
          out[i].token = render /\ \E j \in DOMAIN yielded : out[i].label = yielded[j]
    BY <2>1 DEF Reserved
  <2>4. Plain(Resolve(out, yielded))
    BY <2>1, <2>2, <2>3, ResolveItems
  <2> QED BY <1>1, <2>4 DEF Finish, MarkInv, SlotsPlain, Content, NoRawPlaceholder, Plain
<1>2. CASE Again
  <2>2. Sunken(<<>>, <<>>, <<>>, render', FALSE)
    BY SunkenEmpty
  <2>3. \A l \in Labels : Content(l)' = <<>>
    BY <1>2 DEF Again, NoSlots, Content
  <2>4. /\ open' = <<>> /\ out' = <<>> /\ yielded' = <<>> /\ minted' = FALSE
        /\ store' = store /\ result' = None
    BY <1>2 DEF Again
  <2> QED BY <1>0, <2>2, <2>3, <2>4 DEF MarkInv, SlotsPlain, NoRawPlaceholder
<1>3. CASE \E k \in CacheKeys : Invalidate(k)
  <2>1. PICK k \in CacheKeys : Invalidate(k)
    BY <1>3
  <2>2. \A key \in CacheKeys : store'[key] # None => store'[key] = store[key]
    BY <2>1 DEF Invalidate, Typed
  <2>3. UNCHANGED <<render, open, out, slots, minted, yielded, result, failed>>
    BY <2>1 DEF Invalidate
  <2> QED BY <2>2, <2>3 DEF MarkInv, SlotsPlain, Content, NoRawPlaceholder
<1>4. CASE Abort
  <2>1. \A i \in DOMAIN Partial : IsPlaceholder(Partial[i]) => Partial[i].token = render
    BY PartialTyped DEF MarkInv, Sunken, Reserved
  <2> QED BY <1>4, <2>1 DEF Abort, MarkInv, SlotsPlain, Content, NoRawPlaceholder
<1>5. CASE UNCHANGED vars
  BY <1>5 DEF vars, MarkInv, SlotsPlain, Content, NoRawPlaceholder
<1> QED BY <1>1, <1>2, <1>3, <1>4, <1>5 DEF NextRender

LEMMA MarkInit == Init => MarkInv
<1> SUFFICES ASSUME Init PROVE MarkInv
  OBVIOUS
<1>1. Plain(<<>>)
  BY DEF Plain
<1>2. Sunken(<<>>, <<>>, <<>>, 1, FALSE)
  BY SunkenEmpty
<1>3. \A l \in Labels : Content(l) = <<>>
  BY DEF Init, NoSlots, Content
<1> QED BY <1>1, <1>2, <1>3 DEF Init, MarkInv, SlotsPlain, NoRawPlaceholder

(* When no template defers a slot from inside the content of another, no    *)
(* placeholder reaches the host through a render that ends well, whatever   *)
(* captures, includes and cache hits the text went through; and the partial *)
(* buffer of a failed render holds none but that render's own.              *)
THEOREM PlaceholdersAreResolved ==
  (\A p \in Templates : YieldsOutsideProvides(p)) => (Spec => []NoRawPlaceholder)
<1> SUFFICES ASSUME \A p \in Templates : YieldsOutsideProvides(p)
             PROVE  Spec => []NoRawPlaceholder
  OBVIOUS
<1>1. Init => Typed /\ Nested /\ MarkInv
  BY TypedInit, MarkInit
<1>2. Typed /\ Nested /\ MarkInv /\ [Next]_vars => (Typed /\ Nested /\ MarkInv)'
  <2> SUFFICES ASSUME Typed, Nested, MarkInv, [Next]_vars PROVE Typed' /\ Nested' /\ MarkInv'
    OBVIOUS
  <2>1. YieldsOutsideProvides(prog)
    BY DEF Typed
  <2>2. MarkInv'
    BY <2>1, StepKinds, MarkWrites, MarkOpens, MarkCloses, MarkOthers
  <2> QED BY <2>2, TypedStep
<1>3. MarkInv => NoRawPlaceholder
  BY DEF MarkInv, SlotsPlain
<1> QED BY <1>1, <1>2, <1>3, PTL DEF Spec
-----------------------------------------------------------------------------
(* What a @cache region stores touched no slot.                            *)

AtMost(s, t) == s[1] <= t[1] /\ s[2] <= t[2]

LEMMA BufferGrows ==
  ASSUME NEW l \in Labels, NEW z \in Nat, NEW f \in [Labels -> Nat], NEW h \in [Labels -> Nat],
         \A x \in Labels : h[x] = f[x] + (IF x = l THEN z ELSE 0)
  PROVE  SumFunctionOnSet(h, Labels) = SumFunctionOnSet(f, Labels) + z
<1>1. IsFiniteSet(Labels)
  BY SlotsAssumption
<1> QED BY <1>1, SumGrows

(* A contribution to a slot raises the stamp unless it changes nothing.     *)
LEMMA StampGrows ==
  ASSUME slots \in [Labels -> Seq(Items) \cup {None}], NEW l \in Labels, NEW t \in Seq(Items),
         slots' = [slots EXCEPT ![l] = Content(l) \o t]
  PROVE  /\ Stamp \in Nat \X Nat /\ Stamp' \in Nat \X Nat
         /\ AtMost(Stamp, Stamp')
         /\ slots' # slots => Stamp' # Stamp
         /\ slots' = slots => DOMAIN t = {}
<1> DEFINE provided == {x \in Labels : slots[x] # None}
           more == {x \in Labels : slots'[x] # None}
           sizes == [x \in Labels |-> Len(Content(x))]
           larger == [x \in Labels |-> Len(Content(x)')]
<1>1. /\ \A x \in Labels : Content(x) \in Seq(Items)
      /\ Content(l) \o t \in Seq(Items) /\ Len(t) \in Nat
      /\ Len(Content(l) \o t) = Len(Content(l)) + Len(t)
  BY StampTyped
<1>2. Content(l) \o t # None
  BY <1>1, SlotsAssumption
<1>3. slots'[l] = Content(l) \o t /\ \A x \in Labels : x # l => slots'[x] = slots[x]
  OBVIOUS
<1>4. Content(l)' = Content(l) \o t /\ \A x \in Labels : x # l => Content(x)' = Content(x)
  BY <1>2, <1>3 DEF Content
<1>5. Stamp = <<Cardinality(provided), SumFunctionOnSet(sizes, Labels)>>
  BY DEF Stamp
<1>6. Stamp' = <<Cardinality(more), SumFunctionOnSet(larger, Labels)>>
  BY DEF Stamp
<1>7. more = provided \cup {l}
  BY <1>2, <1>3
<1>8. IsFiniteSet(provided) /\ Cardinality(provided) \in Nat
  BY SlotsAssumption, FS_Subset, FS_CardinalityType
<1>9. Cardinality(more) = IF l \in provided THEN Cardinality(provided) ELSE Cardinality(provided) + 1
  <2> HIDE DEF provided, more
  <2> QED BY <1>7, <1>8, FS_AddElement
<1>10. sizes \in [Labels -> Nat] /\ larger \in [Labels -> Nat]
  <2>1. \A x \in Labels : Len(Content(x)) \in Nat /\ Len(Content(x)') \in Nat
    BY <1>1, <1>4
  <2> QED BY <1>1, <2>1
<1>11. \A x \in Labels : larger[x] = sizes[x] + (IF x = l THEN Len(t) ELSE 0)
  <2> SUFFICES ASSUME NEW x \in Labels
               PROVE  Len(Content(x)') = Len(Content(x)) + (IF x = l THEN Len(t) ELSE 0)
    OBVIOUS
  <2>1. Len(Content(x)) \in Nat
    BY <1>1
  <2>2. CASE x = l
    BY <1>1, <1>4, <2>2
  <2>3. CASE x # l
    BY <1>4, <2>1, <2>3
  <2> QED BY <2>2, <2>3
<1> HIDE DEF sizes, larger
<1>13. SumFunctionOnSet(larger, Labels) = SumFunctionOnSet(sizes, Labels) + Len(t)
  BY <1>1, <1>10, <1>11, BufferGrows
<1>14. SumFunctionOnSet(sizes, Labels) \in Nat
  BY <1>10, SlotsAssumption, SumIsNat
<1>15. slots' # slots => l \notin provided \/ Len(t) # 0
  <2> SUFFICES ASSUME l \in provided, Len(t) = 0 PROVE slots' = slots
    OBVIOUS
  <2>1. Content(l) \o t = slots[l]
    BY <1>1 DEF Content
  <2> QED BY <1>3, <2>1
<1>16. slots' = slots => Len(t) = 0
  <2> SUFFICES ASSUME slots' = slots PROVE Len(t) = 0
    OBVIOUS
  <2>1. Content(l) = Content(l) \o t
    BY <1>2, <1>3 DEF Content
  <2>2. Len(Content(l)) \in Nat
    BY <1>1
  <2> QED BY <1>1, <2>1, <2>2
<1> HIDE DEF provided, more
<1>17. PICK c \in Nat, d \in Nat, e \in Nat, z \in Nat :
          /\ c = Cardinality(provided) /\ d = SumFunctionOnSet(sizes, Labels) /\ z = Len(t)
          /\ Cardinality(more) = c + e /\ (e = 1 <=> l \notin provided) /\ e \in {0, 1}
  <2>1. \E e \in {0, 1} : Cardinality(more) = Cardinality(provided) + e /\ (e = 1 <=> l \notin provided)
    BY <1>8, <1>9
  <2> QED BY <1>1, <1>8, <1>14, <2>1
<1>18. Stamp = <<c, d>> /\ Stamp' = <<c + e, d + z>>
  BY <1>5, <1>6, <1>13, <1>17
<1>19. slots' # slots => e = 1 \/ z # 0
  BY <1>15, <1>17
<1>20. Stamp \in Nat \X Nat /\ Stamp' \in Nat \X Nat /\ AtMost(Stamp, Stamp')
  BY <1>18 DEF AtMost
<1>21. slots' # slots => Stamp' # Stamp
  BY <1>18, <1>19
<1>22. slots' = slots => DOMAIN t = {}
  BY <1>16
<1> QED BY <1>20, <1>21, <1>22

Marked(text, r) == \E i \in DOMAIN text : IsPlaceholder(text[i]) /\ text[i].token = r

LEMMA MarkedJoins ==
  ASSUME NEW a \in Seq(Items), NEW b \in Seq(Items), NEW r, Marked(a, r) \/ Marked(b, r)
  PROVE  Marked(a \o b, r)
<1> DEFINE c == a \o b
<1>1. Carried(a, c) /\ Carried(b, c)
  BY CarriedJoins
<1> HIDE DEF c
<1>2. Marked(c, r)
  BY <1>1 DEF Marked, Carried
<1> QED BY <1>2 DEF c

(* A region that touched a slot shows it: in the stamp, or by a placeholder *)
(* in the text of a sink opened inside it.                                   *)
Shows(st, text, stamp, count, r, m, k) ==
  /\ AtMost(st[k].stamp, stamp)
  /\ \/ st[k].touches = count
     \/ stamp # st[k].stamp
     \/ m /\ (Marked(text, r) \/ \E j \in (k + 1)..Len(st) : Marked(st[j].out, r))

ShowsAll(st, text, stamp, count, r, m) ==
  \A k \in 1..Len(st) : st[k].op = "cache" => Shows(st, text, stamp, count, r, m, k)

TouchInv == ShowsAll(open, out, Stamp, touches, render, minted)

LEMMA TouchWrites ==
  ASSUME Typed, Nested, TouchInv, SlotsOutsideCaches(prog), Writes
  PROVE  TouchInv'
<1>1. pc \in 1..Len(prog) /\ UNCHANGED <<open, slots, render>>
  BY DEF Writes, Text, Yield, CallSlot, CacheHit, Runs
<1>2. open \in Seq(Frames) /\ out \in Seq(Items)
  BY DEF Typed
<1>3. Stamp' = Stamp
  BY <1>1 DEF Stamp, Content
<1>4. CASE Text \/ CacheHit
  <2>1. Marked(out, render) => Marked(out', render)
    <3>1. CASE Text
      <4>1. TextAt(pc, render) \in Items
        BY <1>1, ItemKinds, AtOperation DEF Typed
      <4>2. <<TextAt(pc, render)>> \in Seq(Items) /\ out' = out \o <<TextAt(pc, render)>>
        BY <1>2, <3>1, <4>1 DEF Text
      <4> QED BY <1>2, <4>2, MarkedJoins
    <3>2. CASE CacheHit
      <4>1. Arg \in CacheKeys /\ store[Arg] # None
        BY <1>1, <3>2, AtOperation DEF CacheHit, Runs
      <4>2. store[Arg] \in Seq(Items) /\ out' = out \o store[Arg]
        BY <3>2, <4>1 DEF CacheHit, Typed
      <4> QED BY <1>2, <4>2, MarkedJoins
    <3> QED BY <1>4, <3>1, <3>2
  <2>2. UNCHANGED <<touches, minted>>
    BY <1>4 DEF Text, CacheHit
  <2> QED BY <1>1, <1>3, <2>1, <2>2 DEF TouchInv, ShowsAll, Shows
<1>5. CASE Yield
  <2>1. minted' = TRUE /\ out' = Append(out, Placeholder(render, Arg))
    BY <1>5 DEF Yield
  <2>2. PICK n \in Nat : n = Len(out)
    BY <1>2
  <2>3. n + 1 \in DOMAIN out' /\ out'[n + 1] = Placeholder(render, Arg)
    BY <1>2, <2>1, <2>2
  <2>4. IsPlaceholder(Placeholder(render, Arg)) /\ Placeholder(render, Arg).token = render
    BY DEF IsPlaceholder, Placeholder
  <2>5. Marked(out', render)
    BY <2>3, <2>4 DEF Marked
  <2> QED BY <1>1, <1>3, <2>1, <2>5 DEF TouchInv, ShowsAll, Shows
<1>6. CASE CallSlot
  <2>1. prog \in Seq(Ops) /\ prog[pc].op = "slot"
    BY <1>6, SlotsAssumption DEF Typed, CallSlot, Runs
  <2>2. ~Within(prog, "cache", pc)
    BY <1>1, <2>1 DEF SlotsOutsideCaches
  <2>3. \A k \in 1..Len(open) : open[k].op # "cache"
    BY <1>1, <2>2, OpenEncloses
  <2> QED BY <1>1, <2>3 DEF TouchInv, ShowsAll
<1> QED BY <1>4, <1>5, <1>6 DEF Writes

LEMMA TouchOpens ==
  ASSUME Typed, Nested, TouchInv, Opens
  PROVE  TouchInv'
<1> DEFINE f == [op |-> prog[pc].op, arg |-> Arg, out |-> out, yielded |-> yielded,
                 stamp |-> Stamp, touches |-> touches]
<1>1. open' = Append(open, f) /\ UNCHANGED <<render, slots, touches, minted>>
  BY DEF Opens, Provide, Include, CacheMiss, Capture
<1>2. f.out = out /\ f.stamp = Stamp /\ f.touches = touches /\ open \in Seq(Frames)
  BY DEF Typed
<1>3. Stamp' = Stamp
  BY <1>1 DEF Stamp, Content
<1>4. AtMost(Stamp, Stamp)
  BY StampTyped DEF Typed, AtMost
<1> HIDE DEF f
<1>5. PICK n \in Nat : n = Len(open)
  BY <1>2
<1>6. Len(open') = n + 1 /\ open'[n + 1] = f /\ \A k \in 1..n : open'[k] = open[k]
  BY <1>1, <1>2, <1>5
<1>7. ASSUME NEW k \in 1..(n + 1), open'[k].op = "cache"
      PROVE  Shows(open', out', Stamp, touches, render, minted, k)
  <2>1. CASE k = n + 1
    BY <1>2, <1>4, <1>6, <2>1 DEF Shows
  <2>2. CASE k \in 1..n
    <3>1. open'[k] = open[k] /\ Shows(open, out, Stamp, touches, render, minted, k)
      BY <1>5, <1>6, <1>7, <2>2 DEF TouchInv, ShowsAll
    <3>2. Marked(out, render) => \E j \in (k + 1)..(n + 1) : Marked(open'[j].out, render)
      <4>1. n + 1 \in (k + 1)..(n + 1)
        BY <2>2
      <4> QED BY <1>2, <1>6, <4>1
    <3>3. ASSUME NEW j \in (k + 1)..n, Marked(open[j].out, render)
          PROVE  \E i \in (k + 1)..(n + 1) : Marked(open'[i].out, render)
      <4>1. j \in 1..n /\ j \in (k + 1)..(n + 1)
        BY <2>2
      <4> QED BY <1>6, <3>3, <4>1
    <3> QED BY <1>5, <1>6, <3>1, <3>2, <3>3 DEF Shows
  <2> QED BY <1>5, <2>1, <2>2
<1> QED BY <1>1, <1>3, <1>6, <1>7 DEF TouchInv, ShowsAll

LEMMA TouchCloses ==
  ASSUME Typed, Nested, TouchInv, Close
  PROVE  TouchInv'
<1>1. PICK name \in Brackets : Closes(name) /\
        \/ name = "provide" /\ EndProvide
        \/ name = "include" /\ EndInclude
        \/ name = "cache" /\ EndCache
  BY DEF Close, EndProvide, EndInclude, EndCache, Brackets
<1>2. PICK n \in Nat \ {0} :
         /\ n = Len(open)
         /\ Region = open[n] /\ Region \in Frames
         /\ Front(open) \in Seq(Frames) /\ Len(Front(open)) = n - 1
         /\ \A k \in 1..(n - 1) : Front(open)[k] = open[k]
         /\ name = "provide" => Region.arg \in Labels
  BY <1>1, RegionTyped
<1>3. open' = Front(open) /\ UNCHANGED <<render, minted>>
  BY <1>1 DEF EndProvide, EndInclude, EndCache
<1>4. Region.out \in Seq(Items) /\ out \in Seq(Items) /\ open \in Seq(Frames)
  BY <1>2 DEF Frames, Typed
<1>5. Marked(Region.out, render) => Marked(out', render)
  BY <1>1, <1>4, MarkedJoins DEF EndProvide, EndInclude, EndCache
<1>6. /\ AtMost(Stamp, Stamp') /\ Stamp \in Nat \X Nat /\ Stamp' \in Nat \X Nat
      /\ \/ /\ touches' = touches /\ Stamp' = Stamp
            /\ Marked(out, render) => Marked(out', render)
         \/ Stamp' # Stamp
  <2>1. CASE name = "provide"
    <3>1. /\ slots' = [slots EXCEPT ![Region.arg] = Content(Region.arg) \o out]
          /\ touches' = IF slots' = slots THEN touches ELSE touches + 1
      BY <1>1, <2>1 DEF EndProvide
    <3>2. /\ Stamp \in Nat \X Nat /\ Stamp' \in Nat \X Nat
          /\ AtMost(Stamp, Stamp')
          /\ slots' # slots => Stamp' # Stamp
          /\ slots' = slots => DOMAIN out = {}
      BY <1>2, <1>4, <2>1, <3>1, StampGrows DEF Typed
    <3>3. slots' = slots => Stamp' = Stamp /\ ~Marked(out, render)
      BY <3>2 DEF Stamp, Content, Marked
    <3> QED BY <3>1, <3>2, <3>3
  <2>2. CASE name # "provide"
    <3>1. UNCHANGED <<slots, touches>> /\ out' = Region.out \o out
      BY <1>1, <2>2 DEF EndInclude, EndCache
    <3>2. Stamp' = Stamp /\ Stamp \in Nat \X Nat
      BY <3>1, StampTyped DEF Stamp, Content, Typed
    <3>3. Marked(out, render) => Marked(out', render)
      BY <1>4, <3>1, MarkedJoins
    <3>4. AtMost(Stamp, Stamp)
      BY <3>2 DEF AtMost
    <3> QED BY <3>1, <3>2, <3>3, <3>4
  <2> QED BY <2>1, <2>2
<1>7. ASSUME NEW k \in 1..(n - 1), open[k].op = "cache"
      PROVE  Shows(open', out', Stamp', touches', render, minted, k)
  <2>1. k \in 1..n /\ Shows(open, out, Stamp, touches, render, minted, k)
    BY <1>2, <1>7 DEF TouchInv, ShowsAll
  <2>2. open'[k] = open[k] /\ open[k] \in Frames /\ Len(open') = n - 1
    <3>1. k \in 1..Len(open)
      BY <1>2, <2>1
    <3>2. open[k] \in Frames
      BY <1>4, <3>1
    <3> QED BY <1>2, <1>3, <3>2
  <2>3. open[k].stamp \in Nat \X Nat
    BY <2>2 DEF Frames
  <2>4. AtMost(open[k].stamp, Stamp')
    BY <1>6, <2>1, <2>3 DEF AtMost, Shows
  <2>5. Stamp # open[k].stamp \/ Stamp' # Stamp => Stamp' # open[k].stamp
    <3>1. ASSUME NEW a \in Nat \X Nat, NEW b \in Nat \X Nat, NEW c \in Nat \X Nat,
                 AtMost(a, b), AtMost(b, c), c = a
          PROVE  b = a
      <4>1. a[1] = b[1] /\ a[2] = b[2]
        BY <3>1 DEF AtMost
      <4> QED BY <4>1
    <3>2. AtMost(open[k].stamp, Stamp) /\ AtMost(Stamp, Stamp')
      BY <1>6, <2>1 DEF Shows
    <3> HIDE DEF AtMost
    <3> QED BY <1>6, <2>3, <3>1, <3>2
  <2>6. ASSUME NEW j \in (k + 1)..n, Marked(open[j].out, render)
        PROVE  Marked(out', render) \/ \E i \in (k + 1)..(n - 1) : Marked(open'[i].out, render)
    <3>1. CASE j = n
      BY <1>2, <1>5, <2>6, <3>1
    <3>2. CASE j \in (k + 1)..(n - 1)
      <4>1. j \in 1..(n - 1) /\ open'[j] = open[j]
        BY <1>2, <1>3, <3>2
      <4> QED BY <2>6, <3>2, <4>1
    <3> QED BY <1>2, <3>1, <3>2
  <2> QED BY <1>2, <1>6, <2>1, <2>2, <2>4, <2>5, <2>6 DEF Shows
<1>8. \A k \in 1..(n - 1) : open'[k] = open[k]
  BY <1>2, <1>3
<1> QED BY <1>2, <1>3, <1>7, <1>8 DEF TouchInv, ShowsAll

LEMMA TouchOthers ==
  ASSUME Typed, Nested, TouchInv,
         Finish \/ NextRender \/ Abort \/ (\E k \in CacheKeys : Invalidate(k)) \/ UNCHANGED vars
  PROVE  TouchInv'
<1>1. CASE Again
  <2>1. Len(open') = 0
    BY <1>1 DEF Again
  <2>2. \A k \in 1..Len(open') : FALSE
    BY <2>1
  <2> QED BY <2>2 DEF TouchInv, ShowsAll
<1>2. CASE ~Again
  <2>1. UNCHANGED <<open, out, slots, touches, render, minted>>
    BY <1>2 DEF Finish, NextRender, Abort, Invalidate, vars
  <2>2. Stamp' = Stamp
    BY <2>1 DEF Stamp, Content
  <2> QED BY <2>1, <2>2 DEF TouchInv, ShowsAll, Shows
<1> QED BY <1>1, <1>2

LEMMA TouchInit == Init => TouchInv
<1> SUFFICES ASSUME Init PROVE TouchInv
  OBVIOUS
<1>1. Len(open) = 0
  BY DEF Init
<1>2. \A k \in 1..Len(open) : FALSE
  BY <1>1
<1> QED BY <1>2 DEF TouchInv, ShowsAll

(* A step that stores a body stores one that touched no slot.               *)
LEMMA StoresUntouched ==
  ASSUME Typed, Nested, TouchInv, [Next]_vars,
         NEW k \in CacheKeys, store'[k] \notin {store[k], None}
  PROVE  touches = Region.touches
<1>1. EndCache /\ ~UsedSlots
  <2>1. store' # store
    OBVIOUS
  <2>2. \A key \in CacheKeys : ~Invalidate(key)
    BY DEF Invalidate, Typed
  <2>3. EndCache
    BY <2>1, <2>2 DEF Next, Text, Yield, CallSlot, Provide, Include, CacheHit, CacheMiss, Capture,
         Close, EndProvide, EndInclude, Finish, NextRender, Abort, Again, vars
  <2> QED BY <2>1, <2>3 DEF EndCache
<1>2. PICK n \in Nat \ {0} : n = Len(open) /\ Region = open[n] /\ Region.op = "cache"
  <2>1. Closes("cache")
    BY <1>1 DEF EndCache
  <2>2. Len(open) \in Nat \ {0} /\ Region = open[Len(open)]
    BY <2>1, RegionTyped
  <2> QED BY <2>1, <2>2 DEF Closes
<1>3. Shows(open, out, Stamp, touches, render, minted, n)
  BY <1>2 DEF TouchInv, ShowsAll
<1>4. Stamp = open[n].stamp /\ ~(minted /\ Marked(out, render))
  BY <1>1, <1>2 DEF UsedSlots, Marked
<1>5. \A j \in (n + 1)..Len(open) : FALSE
  BY <1>2
<1> QED BY <1>2, <1>3, <1>4, <1>5 DEF Shows

(* When no template reads a slot from inside a @cache region, a body that   *)
(* interacted with the slots is never stored, however deep in nested        *)
(* captures, includes and regions the interaction was.                       *)
THEOREM StoredBodiesTouchNoSlot ==
  (\A p \in Templates : SlotsOutsideCaches(p)) => (Spec => InteractionNotStored)
<1> SUFFICES ASSUME \A p \in Templates : SlotsOutsideCaches(p)
             PROVE  Spec => InteractionNotStored
  OBVIOUS
<1>1. Init => Typed /\ Nested /\ TouchInv
  BY TypedInit, TouchInit
<1>2. Typed /\ Nested /\ TouchInv /\ [Next]_vars => (Typed /\ Nested /\ TouchInv)'
  <2> SUFFICES ASSUME Typed, Nested, TouchInv, [Next]_vars PROVE Typed' /\ Nested' /\ TouchInv'
    OBVIOUS
  <2>1. SlotsOutsideCaches(prog)
    BY DEF Typed
  <2>2. TouchInv'
    BY <2>1, StepKinds, TouchWrites, TouchOpens, TouchCloses, TouchOthers
  <2> QED BY <2>2, TypedStep
<1>3. Typed /\ Nested /\ TouchInv /\ [Next]_vars =>
        [\A k \in CacheKeys : store'[k] \notin {store[k], None} => touches = Region.touches]_vars
  BY StoresUntouched
<1> QED BY <1>1, <1>2, <1>3, PTL DEF Spec, InteractionNotStored
=============================================================================
