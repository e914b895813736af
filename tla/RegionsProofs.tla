--------------------------- MODULE RegionsProofs ---------------------------
(***************************************************************************)
(* Proofs about Regions, for every set of strategies and every bound: a    *)
(* construct that ends leaves the fields as it found them, the gate is on  *)
(* while an @sandbox region is open, caller() is visible in the macro of   *)
(* its @call only, the active sink is the innermost one, and a printed     *)
(* value is escaped once, wherever captures, results and cache entries     *)
(* carry it.                                                               *)
(***************************************************************************)
EXTENDS Regions, FoldProofs, TLAPS

(* The fields as they were, or are, when just the first j constructs of the *)
(* stack st were open; r holds the present ones.                            *)
At(st, r, j) == IF j = Len(st) THEN r ELSE st[j + 1].saved

(* No construct from i to j saves field f. *)
Unsaved(st, i, j, f) == \A k \in i .. j : f \notin Keeps(st[k].kind)

Steady == Fields \ {"bol"}

(* The inductive invariant: the stack is a sequence and every set of fields *)
(* is complete;                                                             *)
Shaped(st, r) ==
  /\ \E S : st \in Seq(S)
  /\ DOMAIN r = Fields
  /\ \A i \in 1 .. Len(st) : DOMAIN st[i].saved = Fields

(* a field that none of some consecutive constructs saves has not changed   *)
(* across them;                                                             *)
Chained(st, r) ==
  \A i \in 1 .. Len(st) : \A j \in i .. Len(st) : \A f \in Steady :
    Unsaved(st, i, j, f) => At(st, r, j)[f] = st[i].saved[f]

(* the gate tells whether a sandbox region was open;                        *)
SandboxAmong(st, j) == \E i \in 1 .. j : st[i].kind = "sandbox"
Gated(st, r) ==
  \A j \in 0 .. Len(st) :
    /\ At(st, r, j).gate \in BOOLEAN
    /\ At(st, r, j).gate <=> SandboxAmong(st, j)

(* and no frame is left staged, while an invocation holds its own or none.  *)
Framed(st, r) ==
  /\ \A j \in 0 .. Len(st) : At(st, r, j).staged = 0
  /\ \A j \in 0 .. Len(st) : CallerIn(st, j, At(st, r, j).caller)
  /\ \A i \in 1 .. Len(st) : st[i].kind \in {"bind", "macro"} => st[i].frame \in {0, i}

IInv(st, r) == Shaped(st, r) /\ Chained(st, r) /\ Gated(st, r) /\ Framed(st, r)

-----------------------------------------------------------------------------
(* Ending a construct, by Close or by an error: the first p - 1 constructs  *)
(* stay and the fields are those that construct p saved.                    *)
LEMMA PopPreserves ==
  ASSUME NEW st, NEW r, IInv(st, r), NEW p \in 1 .. Len(st),
         NEW q, DOMAIN q = Fields, \A f \in Steady : q[f] = st[p].saved[f]
  PROVE  IInv(SubSeq(st, 1, p - 1), q)
<1> DEFINE rest == SubSeq(st, 1, p - 1)
<1>1. PICK S : st \in Seq(S)
  BY DEF IInv, Shaped
<1>2. /\ Len(st) \in Nat /\ p \in Nat
      /\ rest \in Seq(S) /\ Len(rest) = p - 1
      /\ \A i \in 1 .. p - 1 : rest[i] = st[i]
  BY <1>1
<1> HIDE DEF rest
<1>3. \A j \in 0 .. p - 1 : \A f \in Steady : At(rest, q, j)[f] = At(st, r, j)[f]
  BY <1>2 DEF At
<1>4. Shaped(rest, q)
  BY <1>2 DEF IInv, Shaped
<1>5. Chained(rest, q)
  <2> SUFFICES ASSUME NEW i \in 1 .. p - 1, NEW j \in i .. p - 1, NEW f \in Steady,
                      Unsaved(rest, i, j, f)
               PROVE  At(rest, q, j)[f] = rest[i].saved[f]
    BY <1>2 DEF Chained
  <2>1. Unsaved(st, i, j, f)
    BY <1>2 DEF Unsaved
  <2>2. At(st, r, j)[f] = st[i].saved[f]
    BY <1>2, <2>1 DEF IInv, Chained
  <2> QED BY <1>2, <1>3, <2>2
<1>6. Gated(rest, q)
  <2> SUFFICES ASSUME NEW j \in 0 .. p - 1
               PROVE  /\ At(rest, q, j).gate \in BOOLEAN
                      /\ At(rest, q, j).gate <=> SandboxAmong(rest, j)
    BY <1>2 DEF Gated
  <2>1. At(rest, q, j).gate = At(st, r, j).gate
    BY <1>3 DEF Steady, Fields
  <2>2. SandboxAmong(rest, j) <=> SandboxAmong(st, j)
    BY <1>2 DEF SandboxAmong
  <2>3. At(st, r, j).gate \in BOOLEAN /\ (At(st, r, j).gate <=> SandboxAmong(st, j))
    BY <1>2 DEF IInv, Gated
  <2> QED BY <2>1, <2>2, <2>3
<1>7. Framed(rest, q)
  <2>1. \A i \in 1 .. p - 1 : rest[i].kind \in {"bind", "macro"} => rest[i].frame \in {0, i}
    BY <1>2 DEF IInv, Framed
  <2> SUFFICES ASSUME NEW j \in 0 .. p - 1
               PROVE  At(rest, q, j).staged = 0 /\ CallerIn(rest, j, At(rest, q, j).caller)
    BY <1>2, <2>1 DEF Framed
  <2>2. /\ At(rest, q, j).staged = At(st, r, j).staged
        /\ At(rest, q, j).caller = At(st, r, j).caller
    BY <1>3 DEF Steady, Fields
  <2>3. At(st, r, j).staged = 0 /\ CallerIn(st, j, At(st, r, j).caller)
    BY <1>2 DEF IInv, Framed
  <2>4. CallerIn(rest, j, At(st, r, j).caller)
    BY <1>2, <2>3 DEF CallerIn, InnermostBody
  <2> QED BY <2>2, <2>3, <2>4
<1> QED BY <1>4, <1>5, <1>6, <1>7 DEF IInv, rest

(* What a construct may change when it opens: the fields it saves; the gate  *)
(* if it is a sandbox region, caller() if it starts a body.                 *)
Opening(kind, r, q) ==
  /\ DOMAIN q = Fields
  /\ \A f \in Steady : f \notin Keeps(kind) => q[f] = r[f]
  /\ q.staged = 0
  /\ q.gate = IF kind = "sandbox" THEN TRUE ELSE r.gate
  /\ q.caller = IF kind \in Bodies THEN 0 ELSE r.caller

(* Opening a construct. *)
LEMMA PushPreserves ==
  ASSUME NEW st, NEW r, IInv(st, r), NEW q, NEW kind, NEW frame,
         Opening(kind, r, q), kind # "macro",
         kind = "bind" => frame \in {0, Len(st) + 1}
  PROVE  IInv(Append(st, [kind |-> kind, saved |-> r, frame |-> frame]), q)
<1> DEFINE a == [kind |-> kind, saved |-> r, frame |-> frame]
<1>0. a.kind = kind /\ a.saved = r /\ a.frame = frame
  OBVIOUS
<1> HIDE DEF a
<1> DEFINE more == Append(st, a)
           n == Len(st)
<1>1. PICK S : st \in Seq(S)
  BY DEF IInv, Shaped
<1>2. /\ n \in Nat
      /\ more \in Seq(S \cup {a}) /\ Len(more) = n + 1
      /\ \A i \in 1 .. n : more[i] = st[i]
      /\ more[n + 1] = a
  <2>1. st \in Seq(S \cup {a})
    BY <1>1
  <2> QED BY <2>1
<1> HIDE DEF more
<1>3. /\ At(more, q, n + 1) = q
      /\ \A j \in 0 .. n : At(more, q, j) = At(st, r, j)
  BY <1>0, <1>2 DEF At
<1>4. Shaped(more, q)
  <2>1. \A i \in 1 .. n + 1 : DOMAIN more[i].saved = Fields
    BY <1>0, <1>2 DEF IInv, Shaped
  <2> QED BY <1>2, <2>1 DEF Shaped, Opening
<1>5. Chained(more, q)
  <2> SUFFICES ASSUME NEW i \in 1 .. n + 1, NEW j \in i .. n + 1, NEW f \in Steady,
                      Unsaved(more, i, j, f)
               PROVE  At(more, q, j)[f] = more[i].saved[f]
    BY <1>2 DEF Chained
  <2>1. CASE j \in 0 .. n
    <3>1. Unsaved(st, i, j, f)
      BY <1>2, <2>1 DEF Unsaved
    <3> QED BY <1>2, <1>3, <2>1, <3>1 DEF IInv, Chained
  <2>2. CASE j = n + 1
    <3>1. q[f] = r[f]
      BY <1>0, <1>2, <2>2 DEF Unsaved, Opening
    <3>2. CASE i = n + 1
      BY <1>0, <1>2, <1>3, <2>2, <3>1, <3>2
    <3>3. CASE i \in 1 .. n
      <4>1. Unsaved(st, i, n, f)
        BY <1>2, <2>2, <3>3 DEF Unsaved
      <4>2. r[f] = st[i].saved[f]
        BY <1>2, <3>3, <4>1 DEF IInv, Chained, At
      <4> QED BY <1>2, <1>3, <2>2, <3>1, <3>3, <4>2
    <3> QED BY <1>2, <3>2, <3>3
  <2> QED BY <1>2, <2>1, <2>2
<1>6. Gated(more, q)
  <2>1. \A j \in 0 .. n : SandboxAmong(more, j) <=> SandboxAmong(st, j)
    BY <1>2 DEF SandboxAmong
  <2>2. SandboxAmong(more, n + 1) <=> (SandboxAmong(st, n) \/ a.kind = "sandbox")
    BY <1>2 DEF SandboxAmong
  <2>3. r.gate \in BOOLEAN /\ (r.gate <=> SandboxAmong(st, n))
    BY <1>2 DEF IInv, Gated, At
  <2>4. q.gate \in BOOLEAN /\ (q.gate <=> SandboxAmong(more, n + 1))
    BY <1>0, <2>2, <2>3 DEF Opening
  <2>5. ASSUME NEW j \in 0 .. n
        PROVE  At(st, r, j).gate \in BOOLEAN /\ (At(st, r, j).gate <=> SandboxAmong(more, j))
    BY <1>2, <2>1 DEF IInv, Gated
  <2>6. \A j \in 0 .. n + 1 : j \in 0 .. n \/ j = n + 1
    BY <1>2
  <2> QED BY <1>2, <1>3, <2>4, <2>5, <2>6 DEF Gated
<1>7. Framed(more, q)
  <2>1. \A i \in 1 .. n + 1 : more[i].kind \in {"bind", "macro"} => more[i].frame \in {0, i}
    BY <1>0, <1>2 DEF IInv, Framed
  <2>2. CallerIn(st, n, r.caller)
    BY <1>2 DEF IInv, Framed, At
  <2>0. /\ q.staged = 0
        /\ q.caller = IF a.kind \in Bodies THEN 0 ELSE r.caller
        /\ a.kind # "macro"
    BY <1>0 DEF Opening
  <2>3. CallerIn(more, n + 1, q.caller)
    <3>1. CASE a.kind \in Bodies
      BY <1>2, <2>0, <3>1 DEF CallerIn, InnermostBody
    <3>2. CASE a.kind \notin Bodies
      <4>1. \A b \in 1 .. n : InnermostBody(more, b, n + 1) => InnermostBody(st, b, n)
        BY <1>2 DEF InnermostBody
      <4>2. ~ InnermostBody(more, n + 1, n + 1)
        BY <1>2, <3>2 DEF InnermostBody
      <4>3. \A b \in 1 .. n + 1 : b \in 1 .. n \/ b = n + 1
        BY <1>2
      <4>4. (\A b \in 1 .. n + 1 : more[b].kind \notin Bodies) => q.caller = 0
        <5>1. (\A b \in 1 .. n + 1 : more[b].kind \notin Bodies)
                => \A b \in 1 .. n : st[b].kind \notin Bodies
          BY <1>2
        <5> QED BY <2>0, <2>2, <3>2, <5>1 DEF CallerIn
      <4>5. ASSUME NEW b \in 1 .. n + 1, InnermostBody(more, b, n + 1)
            PROVE  q.caller = IF more[b].kind = "macro" /\ more[b].frame = b THEN b ELSE 0
        <5>1. b \in 1 .. n /\ InnermostBody(st, b, n)
          BY <4>1, <4>2, <4>3, <4>5
        <5> QED BY <1>2, <2>0, <2>2, <3>2, <5>1 DEF CallerIn
      <4> QED BY <4>4, <4>5 DEF CallerIn
    <3> QED BY <3>1, <3>2
  <2>4. \A j \in 0 .. n : CallerIn(more, j, At(st, r, j).caller)
    <3> SUFFICES ASSUME NEW j \in 0 .. n PROVE CallerIn(more, j, At(st, r, j).caller)
      OBVIOUS
    <3>1. CallerIn(st, j, At(st, r, j).caller)
      BY <1>2 DEF IInv, Framed
    <3>2. \A b \in 1 .. j : more[b] = st[b] /\ (InnermostBody(more, b, j) <=> InnermostBody(st, b, j))
      BY <1>2 DEF InnermostBody
    <3> QED BY <3>1, <3>2 DEF CallerIn
  <2>5. \A j \in 0 .. n : At(st, r, j).staged = 0
    BY <1>2 DEF IInv, Framed
  <2>6. \A j \in 0 .. n + 1 : j \in 0 .. n \/ j = n + 1
    BY <1>2
  <2> QED BY <1>2, <1>3, <2>0, <2>1, <2>3, <2>4, <2>5, <2>6 DEF Framed
<1> QED BY <1>4, <1>5, <1>6, <1>7 DEF IInv, more, a

(* Entering the body of a macro whose defaults are bound. *)
LEMMA EnterPreserves ==
  ASSUME NEW st, NEW r, IInv(st, r), st # <<>>, st[Len(st)].kind = "bind",
         NEW q, DOMAIN q = Fields,
         \A f \in Steady : f \notin Keeps("macro") => q[f] = r[f],
         q.caller = st[Len(st)].frame,
         NEW a, a.kind = "macro", a.saved = r, a.frame = st[Len(st)].frame
  PROVE  IInv([st EXCEPT ![Len(st)] = a], q)
<1> DEFINE body == [st EXCEPT ![Len(st)] = a]
           n == Len(st)
<1>1. PICK S : st \in Seq(S)
  BY DEF IInv, Shaped
<1>2. /\ n \in Nat \ {0}
      /\ body \in Seq(S \cup {a}) /\ Len(body) = n
      /\ \A i \in 1 .. n - 1 : body[i] = st[i]
      /\ body[n] = a
  BY <1>1
<1> HIDE DEF body
<1>3. /\ At(body, q, n) = q
      /\ At(body, q, n - 1) = r
      /\ \A j \in 0 .. n - 2 : At(body, q, j) = At(st, r, j)
  BY <1>2 DEF At
<1>4. \A f \in Steady : r[f] = st[n].saved[f]
  <2> SUFFICES ASSUME NEW f \in Steady PROVE r[f] = st[n].saved[f]
    OBVIOUS
  <2>1. Unsaved(st, n, n, f)
    BY <1>2 DEF Unsaved, Keeps
  <2> QED BY <1>2, <2>1 DEF IInv, Chained, At
<1>5. At(st, r, n - 1) = st[n].saved
  BY <1>2 DEF At
<1>6. \A j \in 0 .. n - 1 : \A f \in Steady : At(body, q, j)[f] = At(st, r, j)[f]
  BY <1>2, <1>3, <1>4, <1>5
<1>7. Shaped(body, q)
  BY <1>2 DEF IInv, Shaped
<1>8. Chained(body, q)
  <2> SUFFICES ASSUME NEW i \in 1 .. n, NEW j \in i .. n, NEW f \in Steady,
                      Unsaved(body, i, j, f)
               PROVE  At(body, q, j)[f] = body[i].saved[f]
    BY <1>2 DEF Chained
  <2>1. CASE j \in 1 .. n - 1
    <3>0. \A k \in i .. j : body[k] = st[k]
      BY <1>2, <2>1
    <3>1. Unsaved(st, i, j, f)
      BY <3>0 DEF Unsaved
    <3>2. At(st, r, j)[f] = st[i].saved[f]
      BY <1>2, <3>1 DEF IInv, Chained
    <3> QED BY <1>2, <1>6, <2>1, <3>2
  <2>2. CASE j = n
    <3>1. q[f] = r[f]
      BY <1>2, <2>2 DEF Unsaved
    <3>2. CASE i = n
      BY <1>2, <1>3, <2>2, <3>1, <3>2
    <3>3. CASE i \in 1 .. n - 1
      <4>1. Unsaved(st, i, n - 1, f)
        BY <1>2, <2>2, <3>3 DEF Unsaved
      <4>2. At(st, r, n - 1)[f] = st[i].saved[f]
        BY <1>2, <3>3, <4>1 DEF IInv, Chained
      <4> QED BY <1>2, <1>3, <1>4, <1>5, <2>2, <3>1, <3>3, <4>2
    <3> QED BY <1>2, <3>2, <3>3
  <2> QED BY <1>2, <2>1, <2>2
<1>9. Gated(body, q)
  <2> SUFFICES ASSUME NEW j \in 0 .. n
               PROVE  /\ At(body, q, j).gate \in BOOLEAN
                      /\ At(body, q, j).gate <=> SandboxAmong(body, j)
    BY <1>2 DEF Gated
  <2>1. At(body, q, j).gate = At(st, r, j).gate
    <3>1. CASE j = n
      BY <1>2, <1>3, <3>1 DEF At, Steady, Fields, Keeps
    <3>2. CASE j \in 0 .. n - 1
      BY <1>6, <3>2 DEF Steady, Fields
    <3> QED BY <1>2, <3>1, <3>2
  <2>2. \A i \in 1 .. j : body[i].kind = "sandbox" <=> st[i].kind = "sandbox"
    BY <1>2
  <2>3. SandboxAmong(body, j) <=> SandboxAmong(st, j)
    BY <2>2 DEF SandboxAmong
  <2>4. At(st, r, j).gate \in BOOLEAN /\ (At(st, r, j).gate <=> SandboxAmong(st, j))
    BY <1>2 DEF IInv, Gated
  <2> QED BY <2>1, <2>3, <2>4
<1>10. Framed(body, q)
  <2>1. \A i \in 1 .. n : body[i].kind \in {"bind", "macro"} => body[i].frame \in {0, i}
    BY <1>2 DEF IInv, Framed
  <2> SUFFICES ASSUME NEW j \in 0 .. n
               PROVE  At(body, q, j).staged = 0 /\ CallerIn(body, j, At(body, q, j).caller)
    BY <1>2, <2>1 DEF Framed
  <2>2. At(st, r, j).staged = 0 /\ CallerIn(st, j, At(st, r, j).caller)
    BY <1>2 DEF IInv, Framed
  <2>3. CASE j \in 0 .. n - 1
    <3>1. /\ At(body, q, j).staged = At(st, r, j).staged
          /\ At(body, q, j).caller = At(st, r, j).caller
      BY <1>6, <2>3 DEF Steady, Fields
    <3>2. \A b \in 1 .. j : body[b] = st[b]
      BY <1>2, <2>3
    <3>3. \A b \in 1 .. j : InnermostBody(body, b, j) <=> InnermostBody(st, b, j)
      BY <2>3, <3>2 DEF InnermostBody
    <3> QED BY <2>2, <3>1, <3>2, <3>3 DEF CallerIn
  <2>4. CASE j = n
    <3>1. q.staged = r.staged
      BY DEF Steady, Fields, Keeps
    <3>2. body[n].kind \in Bodies /\ body[n].frame \in {0, n}
      BY <1>2, <2>1 DEF Bodies
    <3>3. \A b \in 1 .. n : InnermostBody(body, b, n) => b = n
      BY <1>2, <3>2 DEF InnermostBody
    <3>4. CallerIn(body, n, q.caller)
      BY <1>2, <3>2, <3>3 DEF CallerIn
    <3> QED BY <1>2, <1>3, <2>2, <2>4, <3>1, <3>4 DEF At
  <2> QED BY <1>2, <2>3, <2>4
<1> QED BY <1>7, <1>8, <1>9, <1>10 DEF IInv, body

-----------------------------------------------------------------------------
(* A set of positions on the stack has a first one. *)
LEMMA FirstPosition ==
  ASSUME NEW S, S \subseteq Nat, S # {}
  PROVE  Min(S) \in S /\ \A e \in S : Min(S) <= e
<1>1. PICK x \in S : \A y \in S : ~(<<y, x>> \in OpToRel(<, Nat))
  BY NatLessThanWellFounded, WFMin
<1>2. \A y \in S : x <= y
  <2> SUFFICES ASSUME NEW y \in S, ~(x <= y) PROVE FALSE
    OBVIOUS
  <2>1. <<y, x>> \in OpToRel(<, Nat)
    BY DEF OpToRel
  <2> QED BY <1>1, <2>1
<1> QED BY <1>2 DEF Min

(* What Fail makes of the fields is what the operand of is defined found:   *)
(* the outermost construct that saves a field had it from there.            *)
Keepers(st, p, f) == {i \in p .. Len(st) : f \in Keeps(st[i].kind)}
LEMMA UnwindReturns ==
  ASSUME NEW st, NEW r, IInv(st, r), NEW p \in 1 .. Len(st), NEW f \in Steady
  PROVE  (IF Keepers(st, p, f) = {} THEN r[f] ELSE st[Min(Keepers(st, p, f))].saved[f])
           = st[p].saved[f]
<1> DEFINE K == Keepers(st, p, f)
<1>0. K = {i \in p .. Len(st) : f \in Keeps(st[i].kind)}
  BY DEF Keepers
<1> HIDE DEF K
<1>1. Len(st) \in Nat
  <2>1. PICK S : st \in Seq(S)
    BY DEF IInv, Shaped
  <2> QED BY <2>1
<1>2. CASE K = {}
  <2>1. Unsaved(st, p, Len(st), f)
    BY <1>0, <1>2 DEF Unsaved
  <2>2. r[f] = st[p].saved[f]
    BY <1>1, <2>1 DEF IInv, Chained, At
  <2> QED BY <1>2, <2>2 DEF K
<1>3. CASE K # {}
  <2>1. Min(K) \in K /\ \A e \in K : Min(K) <= e
    <3>1. K \subseteq Nat
      BY <1>0, <1>1
    <3> QED BY <1>3, <3>1, FirstPosition
  <2> DEFINE m == Min(K)
  <2>2. m \in p .. Len(st)
    BY <1>0, <2>1
  <2> HIDE DEF m
  <2>3. CASE m = p
    BY <1>3, <2>3 DEF m, K
  <2>4. CASE m > p
    <3>1. m - 1 \in p .. Len(st) /\ m - 1 # Len(st)
      BY <1>1, <2>2, <2>4
    <3>2. Unsaved(st, p, m - 1, f)
      <4> SUFFICES ASSUME NEW k \in p .. m - 1 PROVE f \notin Keeps(st[k].kind)
        BY DEF Unsaved
      <4>1. k \notin K
        BY <1>1, <2>1, <2>2 DEF m
      <4> QED BY <1>0, <1>1, <2>2, <4>1
    <3>3. At(st, r, m - 1)[f] = st[p].saved[f]
      BY <3>1, <3>2 DEF IInv, Chained
    <3>4. At(st, r, m - 1) = st[m].saved
      BY <1>1, <2>2, <3>1 DEF At
    <3> QED BY <1>3, <3>3, <3>4 DEF m, K
  <2> QED BY <1>1, <2>2, <2>3, <2>4
<1> QED BY <1>2, <1>3

(* Text, which changes nothing but the line-start flag. *)
LEMMA TextPreserves ==
  ASSUME NEW st, NEW r, IInv(st, r),
         NEW q, DOMAIN q = Fields, \A f \in Steady : q[f] = r[f]
  PROVE  IInv(st, q)
<1>1. \A j \in 0 .. Len(st) : \A f \in Steady : At(st, q, j)[f] = At(st, r, j)[f]
  BY DEF At
<1>2. Len(st) \in Nat
  <2>1. PICK S : st \in Seq(S)
    BY DEF IInv, Shaped
  <2> QED BY <2>1
<1>3. Shaped(st, q)
  BY DEF IInv, Shaped
<1>4. Chained(st, q)
  <2> SUFFICES ASSUME NEW i \in 1 .. Len(st), NEW j \in i .. Len(st), NEW f \in Steady,
                      Unsaved(st, i, j, f)
               PROVE  At(st, q, j)[f] = st[i].saved[f]
    BY DEF Chained
  <2>1. At(st, r, j)[f] = st[i].saved[f]
    BY DEF IInv, Chained
  <2>2. j \in 0 .. Len(st)
    BY <1>2
  <2> QED BY <1>1, <2>1, <2>2
<1>5. \A j \in 0 .. Len(st) : /\ At(st, q, j).gate = At(st, r, j).gate
                             /\ At(st, q, j).staged = At(st, r, j).staged
                             /\ At(st, q, j).caller = At(st, r, j).caller
  BY <1>1 DEF Steady, Fields
<1>6. Gated(st, q)
  BY <1>5 DEF IInv, Gated
<1>7. Framed(st, q)
  BY <1>5 DEF IInv, Framed
<1> QED BY <1>3, <1>4, <1>6, <1>7 DEF IInv

LEMMA InitInv == Init => IInv(stack, regs)
<1> SUFFICES ASSUME Init PROVE IInv(stack, regs)
  OBVIOUS
<1>1. PICK s \in Strategies :
        regs = Fresh("page", "layout", <<"page", "layout">>, 1, s, FALSE)
  BY DEF Init
<1>2. stack = <<>> /\ Len(stack) = 0 /\ stack \in Seq({})
  BY DEF Init
<1>3. \A j \in 0 .. Len(stack) : j = 0 /\ At(stack, regs, j) = regs
  BY <1>2 DEF At
<1>4. Shaped(stack, regs)
  BY <1>1, <1>2 DEF Shaped, Fresh, Fields
<1>5. Chained(stack, regs)
  BY <1>2 DEF Chained
<1>6. regs.gate = FALSE /\ regs.staged = 0 /\ regs.caller = 0
  BY <1>1 DEF Fresh
<1>7. ~ SandboxAmong(stack, 0)
  BY DEF SandboxAmong
<1>8. Gated(stack, regs)
  BY <1>3, <1>6, <1>7 DEF Gated
<1>9. CallerIn(stack, 0, 0)
  BY DEF CallerIn
<1>10. Framed(stack, regs)
  BY <1>2, <1>3, <1>6, <1>9 DEF Framed
<1> QED BY <1>4, <1>5, <1>8, <1>10 DEF IInv

-----------------------------------------------------------------------------
(* The operations, a few at a time. *)

(* Regions and sites that render in place or capture. *)
LEMMA RegionInv ==
  ASSUME IInv(stack, regs),
         \/ OpenTab \/ OpenSandbox \/ OpenApply \/ OpenCache \/ OpenRecursive
         \/ BlockSite \/ AskDefined \/ \E s \in Strategies : OpenEscape(s)
  PROVE  IInv(stack', regs')
<1>1. DOMAIN regs = Fields /\ regs.staged = 0
  <2>1. Len(stack) \in Nat
    BY DEF IInv, Shaped
  <2> QED BY <2>1 DEF IInv, Shaped, Framed, At
<1> DEFINE Opened(kind) == [kind |-> kind, saved |-> regs, frame |-> 0]
<1>2. ASSUME NEW kind, stack' = Append(stack, Opened(kind)),
             Opening(kind, regs, regs'), kind \notin {"macro", "bind"}
      PROVE  IInv(stack', regs')
  BY <1>2, PushPreserves
<1>3. CASE OpenTab
  <2>1. stack' = Append(stack, Opened("tab")) /\ regs' = [regs EXCEPT !.indent = @ + 1, !.bol = TRUE]
    BY <1>3 DEF OpenTab, Push
  <2>2. Opening("tab", regs, regs')
    BY <1>1, <2>1 DEF Opening, Bodies, Keeps, Steady, Fields
  <2> QED BY <1>2, <2>1, <2>2
<1>4. CASE OpenSandbox
  <2>1. stack' = Append(stack, Opened("sandbox")) /\ regs' = [regs EXCEPT !.gate = TRUE]
    BY <1>4 DEF OpenSandbox, Push
  <2>2. Opening("sandbox", regs, regs')
    BY <1>1, <2>1 DEF Opening, Bodies, Keeps, Steady, Fields
  <2> QED BY <1>2, <2>1, <2>2
<1>5. CASE OpenApply
  <2>1. stack' = Append(stack, Opened("apply")) /\ regs' = Captured(regs)
    BY <1>5 DEF OpenApply, Push
  <2>2. Opening("apply", regs, regs')
    BY <1>1, <2>1 DEF Opening, Captured, Bodies, Keeps, Steady, Fields
  <2> QED BY <1>2, <2>1, <2>2
<1>6. CASE OpenCache
  <2>1. stack' = Append(stack, Opened("cache")) /\ regs' = Captured(regs)
    BY <1>6 DEF OpenCache, Push
  <2>2. Opening("cache", regs, regs')
    BY <1>1, <2>1 DEF Opening, Captured, Bodies, Keeps, Steady, Fields
  <2> QED BY <1>2, <2>1, <2>2
<1>7. CASE OpenRecursive
  <2>1. stack' = Append(stack, Opened("recursive")) /\ regs' = [regs EXCEPT !.loops = Append(@, regs.text)]
    BY <1>7 DEF OpenRecursive, Push
  <2>2. Opening("recursive", regs, regs')
    BY <1>1, <2>1 DEF Opening, Bodies, Keeps, Steady, Fields
  <2> QED BY <1>2, <2>1, <2>2
<1>8. CASE BlockSite
  <2>1. /\ stack' = Append(stack, Opened("block"))
        /\ regs' = [regs EXCEPT !.block = 1, !.text = regs.chain[1]]
    BY <1>8 DEF BlockSite, Push
  <2>2. Opening("block", regs, regs')
    BY <1>1, <2>1 DEF Opening, Bodies, Keeps, Steady, Fields
  <2> QED BY <1>2, <2>1, <2>2
<1>9. CASE AskDefined
  <2>1. stack' = Append(stack, Opened("defined")) /\ regs' = regs
    BY <1>9 DEF AskDefined, Push
  <2>2. Opening("defined", regs, regs')
    BY <1>1, <2>1 DEF Opening, Bodies, Steady, Fields, Keeps
  <2> QED BY <1>2, <2>1, <2>2
<1>10. ASSUME NEW s \in Strategies, OpenEscape(s) PROVE IInv(stack', regs')
  <2>1. stack' = Append(stack, Opened("escape")) /\ regs' = [regs EXCEPT !.escape = s]
    BY <1>10 DEF OpenEscape, Push
  <2>2. Opening("escape", regs, regs')
    BY <1>1, <2>1 DEF Opening, Bodies, Keeps, Steady, Fields
  <2> QED BY <1>2, <2>1, <2>2
<1> QED BY <1>3, <1>4, <1>5, <1>6, <1>7, <1>8, <1>9, <1>10

(* The composition builtins, which divert the output and keep caller() as it *)
(* is, and caller() itself, which suspends it.                               *)
LEMMA BuiltinInv ==
  ASSUME IInv(stack, regs),
         CallCaller \/ CallParent \/ CallBlockFunction \/ CallBlockOfOther \/ Descend
  PROVE  IInv(stack', regs')
<1>1. DOMAIN regs = Fields /\ regs.staged = 0
  <2>1. Len(stack) \in Nat
    BY DEF IInv, Shaped
  <2> QED BY <2>1 DEF IInv, Shaped, Framed, At
<1> DEFINE Opened(kind) == [kind |-> kind, saved |-> regs, frame |-> 0]
<1>2. ASSUME NEW kind, stack' = Append(stack, Opened(kind)),
             Opening(kind, regs, regs'), kind \notin {"macro", "bind"}
      PROVE  IInv(stack', regs')
  BY <1>2, PushPreserves
<1>3. CASE CallCaller
  <2>1. /\ stack' = Append(stack, Opened("caller"))
        /\ regs' = [Captured(Suspended(regs)) EXCEPT !.text = stack[regs.caller].saved.text]
    BY <1>3 DEF CallCaller, Push
  <2>2. Opening("caller", regs, regs')
    BY <1>1, <2>1 DEF Opening, Captured, Suspended, CallerKeeps, Keeps, Steady, Fields, Bodies
  <2> QED BY <1>2, <2>1, <2>2
<1>4. CASE CallParent
  <2>1. /\ stack' = Append(stack, Opened("parent"))
        /\ regs' = [Diverted(regs) EXCEPT !.block = @ + 1, !.text = regs.chain[regs.block + 1]]
    BY <1>4 DEF CallParent, Push
  <2>2. Opening("parent", regs, regs')
    BY <1>1, <2>1 DEF Opening, Diverted, Keeps, Steady, Fields, Bodies
  <2> QED BY <1>2, <2>1, <2>2
<1>5. CASE CallBlockFunction
  <2>1. /\ stack' = Append(stack, Opened("blockfn"))
        /\ regs' = [Diverted(regs) EXCEPT !.block = 1, !.text = regs.chain[1]]
    BY <1>5 DEF CallBlockFunction, Push
  <2>2. Opening("blockfn", regs, regs')
    BY <1>1, <2>1 DEF Opening, Diverted, Keeps, Steady, Fields, Bodies
  <2> QED BY <1>2, <2>1, <2>2
<1>6. CASE CallBlockOfOther
  <2>1. stack' = Append(stack, Opened("blockother")) /\ regs' = [Diverted(regs) EXCEPT !.text = "lib"]
    BY <1>6 DEF CallBlockOfOther, Push
  <2>2. Opening("blockother", regs, regs')
    BY <1>1, <2>1 DEF Opening, Diverted, Keeps, Steady, Fields, Bodies
  <2> QED BY <1>2, <2>1, <2>2
<1>7. CASE Descend
  <2>1. stack' = Append(stack, Opened("descent")) /\ regs' = [Diverted(regs) EXCEPT !.text = Last(regs.loops)]
    BY <1>7 DEF Descend, Push
  <2>2. Opening("descent", regs, regs')
    BY <1>1, <2>1 DEF Opening, Diverted, Keeps, Steady, Fields, Bodies
  <2> QED BY <1>2, <2>1, <2>2
<1> QED BY <1>3, <1>4, <1>5, <1>6, <1>7

(* Nested interpreters and macro calls. *)
LEMMA CallInv ==
  ASSUME IInv(stack, regs),
         Include \/ Embed \/ CallMacro \/ CallBlock \/ EnterMacro
  PROVE  IInv(stack', regs')
<1>1. DOMAIN regs = Fields /\ regs.staged = 0 /\ Len(stack) \in Nat
  <2>1. Len(stack) \in Nat
    BY DEF IInv, Shaped
  <2> QED BY <2>1 DEF IInv, Shaped, Framed, At
<1>2. ASSUME NEW kind \in {"include", "embed"}, NEW chain, NEW sink,
             stack' = Append(stack, [kind |-> kind, saved |-> regs, frame |-> 0]),
             regs' = Fresh("lib", "lib", chain, sink, regs.escape, regs.gate)
      PROVE  IInv(stack', regs')
  <2>1. DOMAIN regs' = Fields /\ regs'.staged = 0 /\ regs'.caller = 0 /\ regs'.gate = regs.gate
    BY <1>2 DEF Fresh, Fields
  <2>2. Keeps(kind) = Fields /\ kind \in Bodies /\ kind \notin {"macro", "bind", "sandbox"}
    BY DEF Keeps, Bodies
  <2>3. Opening(kind, regs, regs')
    BY <2>1, <2>2 DEF Opening, Steady
  <2> QED BY <1>2, <2>2, <2>3, PushPreserves
<1>3. CASE Include
  <2>1. /\ stack' = Append(stack, [kind |-> "include", saved |-> regs, frame |-> 0])
        /\ regs' = Fresh("lib", "lib", <<>>, Len(sinks) + 1, regs.escape, regs.gate)
    BY <1>3 DEF Include, Push
  <2> QED BY <1>2, <2>1
<1>4. CASE Embed
  <2>1. /\ stack' = Append(stack, [kind |-> "embed", saved |-> regs, frame |-> 0])
        /\ regs' = Fresh("lib", "lib", <<regs.text, "lib">>, regs.sink, regs.escape, regs.gate)
    BY <1>4 DEF Embed, Push
  <2> QED BY <1>2, <2>1
<1>5. ASSUME NEW frame \in {0, Len(stack) + 1},
             stack' = Append(stack, [kind |-> "bind", saved |-> regs, frame |-> frame]),
             regs' = [regs EXCEPT !.staged = 0]
      PROVE  IInv(stack', regs')
  <2>1. \A f \in Fields : regs'[f] = regs[f]
    BY <1>1, <1>5
  <2>2. DOMAIN regs' = Fields /\ regs'.staged = 0 /\ regs'.caller = regs.caller /\ regs'.gate = regs.gate
    BY <1>1, <1>5, <2>1 DEF Fields
  <2>3. Opening("bind", regs, regs')
    BY <2>1, <2>2 DEF Opening, Bodies, Steady
  <2> QED BY <1>5, <2>3, PushPreserves
<1>6. CASE CallMacro
  <2>1. /\ stack' = Append(stack, [kind |-> "bind", saved |-> regs, frame |-> regs.staged])
        /\ regs' = [regs EXCEPT !.staged = 0]
    BY <1>6 DEF CallMacro, Invoke, Consumed, Push
  <2> QED BY <1>1, <1>5, <2>1
<1>7. CASE CallBlock
  <2>1. /\ stack' = Append(stack, [kind |-> "bind", saved |-> regs, frame |-> Len(stack) + 1])
        /\ regs' = [regs EXCEPT !.staged = 0]
    BY <1>1, <1>7 DEF CallBlock, Invoke, Consumed, Push, Fields
  <2> QED BY <1>5, <2>1
<1>8. CASE EnterMacro
  <2> DEFINE a == [stack[Len(stack)] EXCEPT !.kind = "macro", !.saved = regs]
  <2>1. /\ stack # <<>> /\ stack[Len(stack)].kind = "bind"
        /\ regs' = Body(regs, stack[Len(stack)].frame)
        /\ stack' = [stack EXCEPT ![Len(stack)] = a]
    BY <1>8 DEF EnterMacro, Top
  <2>2. /\ DOMAIN regs' = Fields
        /\ \A f \in Steady : f \notin Keeps("macro") => regs'[f] = regs[f]
        /\ regs'.caller = stack[Len(stack)].frame
    BY <1>1, <2>1 DEF Body, Captured, Keeps, Steady, Fields
  <2>3. a.kind = "macro" /\ a.saved = regs /\ a.frame = stack[Len(stack)].frame
    OBVIOUS
  <2> HIDE DEF a
  <2> QED BY <2>1, <2>2, <2>3, EnterPreserves
<1> QED BY <1>3, <1>4, <1>6, <1>7, <1>8

(* Leaving: Close and Fail return to the construct at some position of the   *)
(* stack with the fields that construct saved.                               *)
Leaving(p) ==
  /\ stack' = SubSeq(stack, 1, p - 1)
  /\ DOMAIN regs' = Fields
  /\ \A f \in Steady : regs'[f] = stack[p].saved[f]

LEMMA CloseLeaves ==
  ASSUME IInv(stack, regs), Close
  PROVE  Len(stack) \in DOMAIN stack /\ Leaving(Len(stack))
<1> DEFINE n == Len(stack)
           r == Restored(Top, regs)
<1>1. PICK S : stack \in Seq(S)
  BY DEF IInv, Shaped
<1>2. n \in Nat \ {0} /\ n \in DOMAIN stack
  BY <1>1 DEF Close
<1>3. \A f \in Steady : r[f] = stack[n].saved[f]
  <2> SUFFICES ASSUME NEW f \in Steady PROVE r[f] = stack[n].saved[f]
    OBVIOUS
  <2>1. f \in Fields
    BY DEF Steady
  <2>2. CASE f \in Keeps(stack[n].kind)
    BY <2>1, <2>2 DEF Restored, Top
  <2>3. CASE f \notin Keeps(stack[n].kind)
    <3>1. Unsaved(stack, n, n, f)
      BY <1>2, <2>3 DEF Unsaved
    <3>2. regs[f] = stack[n].saved[f]
      BY <1>2, <3>1 DEF IInv, Chained, At
    <3> QED BY <2>1, <2>3, <3>2 DEF Restored, Top
  <2> QED BY <2>2, <2>3
<1>4. DOMAIN r = Fields
  BY DEF Restored
<1> HIDE DEF r
<1>5. PICK bol : regs' = [r EXCEPT !.bol = bol] /\ stack' = SubSeq(stack, 1, n - 1)
  BY DEF Close, r
<1>6. \A f \in Steady : regs'[f] = r[f]
  BY <1>4, <1>5 DEF Steady
<1> QED BY <1>2, <1>3, <1>4, <1>5, <1>6 DEF Leaving

LEMMA FailLeaves ==
  ASSUME IInv(stack, regs), Fail
  PROVE  \E p \in DOMAIN stack : Leaving(p)
<1>1. PICK S : stack \in Seq(S)
  BY DEF IInv, Shaped
<1>2. PICK p \in DOMAIN stack :
        LET keepers(f) == {i \in p .. Len(stack) : f \in Keeps(stack[i].kind)}
            r == [f \in Fields |-> IF keepers(f) = {} THEN regs[f]
                                   ELSE stack[Min(keepers(f))].saved[f]]
        IN regs' = r /\ stack' = SubSeq(stack, 1, p - 1)
  BY DEF Fail
<1>3. p \in 1 .. Len(stack)
  BY <1>1
<1>4. ASSUME NEW f \in Steady PROVE regs'[f] = stack[p].saved[f]
  <2>1. regs'[f] = IF Keepers(stack, p, f) = {} THEN regs[f]
                   ELSE stack[Min(Keepers(stack, p, f))].saved[f]
    BY <1>2 DEF Keepers, Steady
  <2> QED BY <1>3, <2>1, UnwindReturns
<1>5. DOMAIN regs' = Fields
  BY <1>2
<1> QED BY <1>2, <1>4, <1>5 DEF Leaving

LEMMA LeavingInv ==
  ASSUME IInv(stack, regs), NEW p \in DOMAIN stack, Leaving(p)
  PROVE  IInv(stack', regs')
<1>1. PICK S : stack \in Seq(S)
  BY DEF IInv, Shaped
<1>2. p \in 1 .. Len(stack)
  BY <1>1
<1> QED BY <1>2, PopPreserves DEF Leaving

LEMMA LeavingReturns ==
  ASSUME IInv(stack, regs), NEW p \in DOMAIN stack, Leaving(p)
  PROVE  \A f \in Fields \ {"bol"} : regs'[f] = stack[Len(stack') + 1].saved[f]
<1>1. PICK S : stack \in Seq(S)
  BY DEF IInv, Shaped
<1>2. p \in 1 .. Len(stack) /\ Len(SubSeq(stack, 1, p - 1)) = p - 1
  BY <1>1
<1>3. Len(stack') + 1 = p
  BY <1>2 DEF Leaving
<1> QED BY <1>3 DEF Leaving, Steady

(* Text and a cache entry that is written change the line-start flag only.   *)
LEMMA TextInv ==
  ASSUME IInv(stack, regs), Text \/ CacheHit
  PROVE  IInv(stack', regs') /\ stack' = stack
<1>1. PICK bol : regs' = [regs EXCEPT !.bol = bol] /\ stack' = stack
  BY DEF Text, CacheHit
<1>2. DOMAIN regs = Fields
  BY DEF IInv, Shaped
<1>3. DOMAIN regs' = Fields /\ \A f \in Steady : regs'[f] = regs[f]
  BY <1>1, <1>2 DEF Steady
<1> QED BY <1>1, <1>3, TextPreserves

LEMMA NextInv == IInv(stack, regs) /\ [Next]_vars => IInv(stack', regs')
<1> SUFFICES ASSUME IInv(stack, regs), [Next]_vars PROVE IInv(stack', regs')
  OBVIOUS
<1>1. CASE Text \/ CacheHit
  BY <1>1, TextInv
<1>2. CASE OpenTab \/ OpenSandbox \/ OpenApply \/ OpenCache \/ OpenRecursive
           \/ BlockSite \/ AskDefined \/ \E s \in Strategies : OpenEscape(s)
  BY <1>2, RegionInv
<1>3. CASE CallCaller \/ CallParent \/ CallBlockFunction \/ CallBlockOfOther \/ Descend
  BY <1>3, BuiltinInv
<1>4. CASE Include \/ Embed \/ CallMacro \/ CallBlock \/ EnterMacro
  BY <1>4, CallInv
<1>5. CASE Close
  BY <1>5, CloseLeaves, LeavingInv
<1>6. CASE Fail
  BY <1>6, FailLeaves, LeavingInv
<1>7. CASE UNCHANGED vars
  BY <1>7 DEF vars
<1> QED BY <1>1, <1>2, <1>3, <1>4, <1>5, <1>6, <1>7 DEF Next

Inv == IInv(stack, regs)

THEOREM Invariant == Spec => []Inv
<1>1. Init => Inv
  BY InitInv DEF Inv
<1>2. Inv /\ [Next]_vars => Inv'
  BY NextInv DEF Inv
<1> QED BY <1>1, <1>2, PTL DEF Spec

-----------------------------------------------------------------------------
(* However regions, calls, blocks and includes nest, and however many        *)
(* expressions fail inside `is defined`, a construct that ends leaves every  *)
(* field of the interpreter but the line-start flag as it found it (the      *)
(* deferred restores of internal/interp).                                    *)
THEOREM FieldsReturn == Spec => RegistersReturn
<1> DEFINE Returned == Len(stack') < Len(stack) =>
             \A f \in Fields \ {"bol"} : regs'[f] = stack[Len(stack') + 1].saved[f]
<1>1. Inv /\ [Next]_vars => [Returned]_vars
  <2> SUFFICES ASSUME IInv(stack, regs), Next, Len(stack') < Len(stack)
               PROVE  Returned
    BY DEF Inv
  <2>1. PICK S : stack \in Seq(S)
    BY DEF IInv, Shaped
  <2>2. ASSUME NEW a, stack' = Append(stack, a) PROVE FALSE
    <3>1. stack \in Seq(S \cup {a})
      BY <2>1
    <3>2. Len(stack') = Len(stack) + 1 /\ Len(stack) \in Nat
      BY <2>2, <3>1
    <3> QED BY <3>2
  <2>3. CASE Close
    BY <2>3, CloseLeaves, LeavingReturns
  <2>4. CASE Fail
    BY <2>4, FailLeaves, LeavingReturns
  <2>5. CASE Text \/ CacheHit
    <3>1. stack' = stack
      BY <2>5, TextInv
    <3> QED BY <2>1, <3>1
  <2>6. CASE EnterMacro
    <3>1. PICK a : stack' = [stack EXCEPT ![Len(stack)] = a]
      BY <2>6 DEF EnterMacro
    <3>2. Len(stack') = Len(stack) /\ Len(stack) \in Nat
      BY <2>1, <3>1
    <3> QED BY <3>2
  <2>7. ASSUME NEW kind, NEW r, NEW frame, Push(kind, r, frame) PROVE FALSE
    BY <2>2, <2>7 DEF Push
  <2>8. CASE OpenTab \/ OpenSandbox \/ OpenApply \/ OpenCache \/ OpenRecursive
             \/ BlockSite \/ AskDefined \/ \E s \in Strategies : OpenEscape(s)
    BY <2>7, <2>8 DEF OpenTab, OpenSandbox, OpenApply, OpenCache, OpenRecursive,
                      BlockSite, AskDefined, OpenEscape
  <2>9. CASE CallCaller \/ CallParent \/ CallBlockFunction \/ CallBlockOfOther \/ Descend
    BY <2>7, <2>9 DEF CallCaller, CallParent, CallBlockFunction, CallBlockOfOther, Descend
  <2>10. CASE Include \/ Embed \/ CallMacro \/ CallBlock
    BY <2>7, <2>10 DEF Include, Embed, CallMacro, CallBlock, Invoke
  <2> QED BY <2>3, <2>4, <2>5, <2>6, <2>8, <2>9, <2>10 DEF Next
<1>2. RegistersReturn <=> [][Returned]_vars
  BY PTL DEF RegistersReturn
<1> QED BY <1>1, <1>2, Invariant, PTL DEF Spec

(* The sandbox gate is on exactly while an @sandbox region is open, in every *)
(* interpreter a render nests (execSandbox, renderInclude, execEmbed).       *)
THEOREM GateFollowsRegions == Spec => []SandboxWhileOpen
<1>1. Inv => SandboxWhileOpen
  <2> SUFFICES ASSUME IInv(stack, regs) PROVE SandboxWhileOpen
    BY DEF Inv
  <2>1. PICK S : stack \in Seq(S)
    BY DEF IInv, Shaped
  <2>2. Len(stack) \in Nat /\ DOMAIN stack = 1 .. Len(stack)
    BY <2>1
  <2>3. regs.gate \in BOOLEAN /\ (regs.gate <=> SandboxAmong(stack, Len(stack)))
    <3>1. At(stack, regs, Len(stack)) = regs
      BY DEF At
    <3> QED BY <2>2, <3>1 DEF IInv, Gated
  <2> QED BY <2>2, <2>3 DEF SandboxAmong, SandboxWhileOpen
<1> QED BY <1>1, Invariant, PTL

(* caller() is visible in the body of the macro an @call invokes and nowhere *)
(* else, whatever that macro, its defaults or the block of the call do       *)
(* (invokeMacro, execCallBlock, callCaller).                                 *)
THEOREM CallerStaysInItsMacro == Spec => []CallerOnlyInItsMacro
<1>1. Inv => CallerOnlyInItsMacro
  <2> SUFFICES ASSUME IInv(stack, regs) PROVE CallerOnlyInItsMacro
    BY DEF Inv
  <2>1. Len(stack) \in Nat
    BY DEF IInv, Shaped
  <2> QED BY <2>1 DEF IInv, Framed, At, CallerOnlyInItsMacro
<1> QED BY <1>1, Invariant, PTL

-----------------------------------------------------------------------------
(* Text: the sinks and the render cache *)

(* What @tab and the render cache go by. *)
Sane(r) == r.indent \in Nat /\ r.root \in Templates
Same(q, r) == q.indent = r.indent /\ q.root = r.root

Sinks(kind) == IF kind \in Captures THEN 1 ELSE 0

(* Every construct that captures, and no other, wrote into a sink of its    *)
(* own when just the first j constructs were open; n sinks are open now.    *)
Sunk(st, r, n) ==
  /\ r.sink = n
  /\ \A j \in 0 .. Len(st) : At(st, r, j).sink \in Nat \ {0} /\ Sane(At(st, r, j))
  /\ \A i \in 1 .. Len(st) : At(st, r, i).sink = st[i].saved.sink + Sinks(st[i].kind)
  /\ \A i, j \in 0 .. Len(st) : i <= j => At(st, r, i).sink <= At(st, r, j).sink

(* A cell that is a printed value was escaped by the strategy in force.     *)
Fine(cell) ==
  /\ cell.c \in {"nl", "ind", "x"}
  /\ cell.c = "x" =>
       /\ DOMAIN cell = {"c", "escaped", "under", "lvl"}
       /\ cell.escaped = IF cell.under = Off THEN <<>> ELSE <<cell.under>>

(* The open sinks and the render cache hold such cells. *)
FineIn(C, ss, ks) ==
  /\ \A cell \in C : Fine(cell)
  /\ ss \in Seq(Seq(C))
  /\ DOMAIN ks = Templates
  /\ \A t \in Templates : ks[t].text \in Seq(C)

TextInvariant ==
  /\ Sunk(stack, regs, Len(sinks))
  /\ \E C : FineIn(C, sinks, kept)

-----------------------------------------------------------------------------
(* The active sink *)

LEMMA SunkPush ==
  ASSUME NEW st, NEW r, IInv(st, r), NEW n, Sunk(st, r, n),
         NEW q, NEW kind, NEW frame,
         q.sink = r.sink + Sinks(kind), Sane(q)
  PROVE  Sunk(Append(st, [kind |-> kind, saved |-> r, frame |-> frame]), q, q.sink)
<1> USE DEF Sane, Same
<1> DEFINE a == [kind |-> kind, saved |-> r, frame |-> frame]
<1>0. a.kind = kind /\ a.saved = r
  OBVIOUS
<1> HIDE DEF a
<1> DEFINE more == Append(st, a)
<1>1. PICK S : st \in Seq(S)
  BY DEF IInv, Shaped
<1>2. PICK m \in Nat : m = Len(st)
  BY <1>1
<1>3. /\ more \in Seq(S \cup {a}) /\ Len(more) = m + 1
      /\ \A i \in 1 .. m : more[i] = st[i]
      /\ more[m + 1] = a
  <2>1. st \in Seq(S \cup {a})
    BY <1>1
  <2> QED BY <1>2, <2>1
<1> HIDE DEF more
<1>4. /\ At(more, q, m + 1) = q
      /\ \A j \in 0 .. m : At(more, q, j) = At(st, r, j)
      /\ At(st, r, m) = r
  BY <1>0, <1>2, <1>3 DEF At
<1>5. Sinks(kind) \in {0, 1} /\ r.sink \in Nat \ {0}
  BY <1>2, <1>4 DEF Sinks, Sunk
<1>6. \A j \in 0 .. m + 1 : j \in 0 .. m \/ j = m + 1
  BY <1>2
<1>7. \A j \in 0 .. m + 1 : At(more, q, j).sink \in Nat \ {0} /\ Sane(At(more, q, j))
  BY <1>2, <1>4, <1>5, <1>6 DEF Sunk
<1>8. ASSUME NEW i \in 1 .. m + 1
      PROVE  At(more, q, i).sink = more[i].saved.sink + Sinks(more[i].kind)
  <2>1. CASE i \in 1 .. m
    BY <1>2, <1>3, <1>4, <2>1 DEF Sunk
  <2>2. CASE i = m + 1
    BY <1>0, <1>3, <1>4, <2>2
  <2> QED BY <1>2, <2>1, <2>2
<1>9. ASSUME NEW i \in 0 .. m + 1, NEW j \in 0 .. m + 1, i <= j
      PROVE  At(more, q, i).sink <= At(more, q, j).sink
  <2>1. CASE j \in 0 .. m
    BY <1>2, <1>4, <1>9, <2>1 DEF Sunk
  <2>2. CASE j = m + 1 /\ i \in 0 .. m
    <3>1. At(st, r, i).sink <= r.sink /\ At(st, r, i).sink \in Nat
      BY <1>2, <1>4, <2>2 DEF Sunk
    <3> QED BY <1>4, <1>5, <2>2, <3>1
  <2>3. CASE j = m + 1 /\ i = m + 1
    BY <1>7, <2>3
  <2> QED BY <1>6, <2>1, <2>2, <2>3
<1> QED BY <1>3, <1>7, <1>8, <1>9 DEF Sunk, more, a

LEMMA SunkEnter ==
  ASSUME NEW st, NEW r, IInv(st, r), NEW n, Sunk(st, r, n), st # <<>>, st[Len(st)].kind = "bind",
         NEW q, q.sink = r.sink + 1, Sane(q),
         NEW a, a.kind = "macro", a.saved = r
  PROVE  Sunk([st EXCEPT ![Len(st)] = a], q, q.sink)
<1> USE DEF Sane, Same
<1> DEFINE body == [st EXCEPT ![Len(st)] = a]
<1>1. PICK S : st \in Seq(S)
  BY DEF IInv, Shaped
<1>2. PICK m \in Nat \ {0} : m = Len(st)
  BY <1>1
<1>3. /\ body \in Seq(S \cup {a}) /\ Len(body) = m
      /\ \A i \in 1 .. m - 1 : body[i] = st[i]
      /\ body[m] = a
  BY <1>1, <1>2
<1> HIDE DEF body
<1>4. /\ At(body, q, m) = q
      /\ At(body, q, m - 1) = r
      /\ \A j \in 0 .. m - 2 : At(body, q, j) = At(st, r, j)
      /\ At(st, r, m) = r
      /\ At(st, r, m - 1) = st[m].saved
  BY <1>2, <1>3 DEF At
<1>5. r.sink \in Nat \ {0} /\ Sane(r) /\ r.sink = st[m].saved.sink
  <2>1. r.sink = st[m].saved.sink + Sinks("bind") /\ st[m].saved.sink \in Nat
    BY <1>2, <1>4 DEF Sunk
  <2> QED BY <1>2, <1>4, <2>1 DEF Sinks, Captures, Sunk
<1>6. \A j \in 0 .. m - 1 : At(body, q, j).sink = At(st, r, j).sink /\ Sane(At(body, q, j))
  BY <1>2, <1>4, <1>5 DEF Sunk
<1>7. \A j \in 0 .. m : At(body, q, j).sink \in Nat \ {0} /\ Sane(At(body, q, j))
  BY <1>2, <1>4, <1>5, <1>6 DEF Sunk
<1>8. ASSUME NEW i \in 1 .. m
      PROVE  At(body, q, i).sink = body[i].saved.sink + Sinks(body[i].kind)
  <2>1. CASE i \in 1 .. m - 1
    BY <1>2, <1>3, <1>6, <2>1 DEF Sunk
  <2>2. CASE i = m
    BY <1>3, <1>4, <2>2 DEF Sinks, Captures
  <2> QED BY <1>2, <2>1, <2>2
<1>9. ASSUME NEW i \in 0 .. m, NEW j \in 0 .. m, i <= j
      PROVE  At(body, q, i).sink <= At(body, q, j).sink
  <2>1. CASE j \in 0 .. m - 1
    BY <1>2, <1>6, <1>9, <2>1 DEF Sunk
  <2>2. CASE j = m /\ i \in 0 .. m - 1
    <3>1. At(st, r, i).sink <= r.sink /\ At(st, r, i).sink \in Nat
      BY <1>2, <1>4, <2>2 DEF Sunk
    <3> QED BY <1>4, <1>5, <1>6, <2>2, <3>1
  <2>3. CASE j = m /\ i = m
    BY <1>7, <2>3
  <2> QED BY <1>2, <2>1, <2>2, <2>3
<1> QED BY <1>3, <1>7, <1>8, <1>9 DEF Sunk, body

LEMMA SunkPop ==
  ASSUME NEW st, NEW r, IInv(st, r), NEW n, Sunk(st, r, n), NEW p \in 1 .. Len(st),
         NEW q, q.sink = st[p].saved.sink, Same(q, st[p].saved)
  PROVE  /\ Sunk(SubSeq(st, 1, p - 1), q, q.sink)
         /\ q.sink \in 1 .. n /\ Sane(q) /\ n \in Nat
         /\ p = Len(st) => n = q.sink + Sinks(st[p].kind)
<1> USE DEF Sane, Same
<1> DEFINE rest == SubSeq(st, 1, p - 1)
<1>1. PICK S : st \in Seq(S)
  BY DEF IInv, Shaped
<1>2. /\ Len(st) \in Nat /\ p \in Nat
      /\ rest \in Seq(S) /\ Len(rest) = p - 1
      /\ \A i \in 1 .. p - 1 : rest[i] = st[i]
  BY <1>1
<1> HIDE DEF rest
<1>3. \A j \in 0 .. p - 1 : At(rest, q, j).sink = At(st, r, j).sink
                            /\ Same(At(rest, q, j), At(st, r, j))
  BY <1>2 DEF At
<1>4. At(st, r, Len(st)) = r /\ At(st, r, p - 1) = st[p].saved
  BY <1>2 DEF At
<1>5. Sunk(rest, q, q.sink)
  <2>1. ASSUME NEW j \in 0 .. p - 1
        PROVE  At(rest, q, j).sink \in Nat \ {0} /\ Sane(At(rest, q, j))
    <3>1. j \in 0 .. Len(st)
      BY <1>2
    <3>2. At(st, r, j).sink \in Nat \ {0} /\ Sane(At(st, r, j))
      BY <3>1 DEF Sunk
    <3> QED BY <1>3, <3>2
  <2>2. ASSUME NEW i \in 1 .. p - 1
        PROVE  At(rest, q, i).sink = rest[i].saved.sink + Sinks(rest[i].kind)
    BY <1>2, <1>3 DEF Sunk
  <2>3. ASSUME NEW i \in 0 .. p - 1, NEW j \in 0 .. p - 1, i <= j
        PROVE  At(rest, q, i).sink <= At(rest, q, j).sink
    <3>1. i \in 0 .. Len(st) /\ j \in 0 .. Len(st)
      BY <1>2
    <3>2. At(st, r, i).sink <= At(st, r, j).sink
      BY <2>3, <3>1 DEF Sunk
    <3> QED BY <1>3, <3>2
  <2> QED BY <1>2, <2>1, <2>2, <2>3 DEF Sunk
<1>6. r.sink = n /\ n \in Nat
  BY <1>2, <1>4 DEF Sunk
<1>7. q.sink <= n /\ q.sink \in Nat \ {0} /\ Sane(q)
  BY <1>2, <1>4, <1>6 DEF Sunk
<1>8. p = Len(st) => n = q.sink + Sinks(st[p].kind)
  BY <1>2, <1>4, <1>6 DEF Sunk
<1> QED BY <1>5, <1>6, <1>7, <1>8 DEF rest

-----------------------------------------------------------------------------
(* What is written *)

LEMMA PutFine ==
  ASSUME NEW C, Indent \in C, NEW r, r.indent \in Nat, NEW B, {TRUE, FALSE} \subseteq B,
         NEW acc \in [sink : Seq(C), bol : B], NEW cell \in C
  PROVE  Put(acc, cell, r) \in [sink : Seq(C), bol : B]
<1>1. <<cell>> \in Seq(C) /\ <<>> \in Seq(C)
  OBVIOUS
<1>2. [i \in 1 .. r.indent |-> Indent] \in Seq(C)
  OBVIOUS
<1>3. acc.sink \in Seq(C)
  OBVIOUS
<1> DEFINE front == IF acc.bol THEN [i \in 1 .. r.indent |-> Indent] ELSE <<>>
<1>4. front \in Seq(C)
  BY <1>1, <1>2
<1> HIDE DEF front
<1>5. acc.sink \o front \in Seq(C)
  BY <1>3, <1>4
<1>6. acc.sink \o front \o <<cell>> \in Seq(C)
  BY <1>1, <1>5
<1>7. Append(acc.sink, cell) \in Seq(C)
  BY <1>3
<1> QED BY <1>6, <1>7 DEF Put, front

LEMMA WrittenFine ==
  ASSUME NEW C, Indent \in C, NEW r, r.indent \in Nat, sinks[r.sink] \in Seq(C),
         NEW text \in Seq(C)
  PROVE  Written(text, r).sink \in Seq(C)
<1> DEFINE n == Len(text)
           base == [sink |-> sinks[r.sink], bol |-> r.bol]
           B == {TRUE, FALSE, r.bol}
           X == [sink : Seq(C), bol : B]
           F(f) == f = [i \in 0 .. n |-> IF i = 0 THEN base ELSE Put(f[i - 1], text[i], r)]
           put == CHOOSE f : F(f)
           step == [p \in (1 .. n) \X X |-> Put(p[2], text[p[1]], r)]
<1>1. n \in Nat /\ \A i \in 1 .. n : text[i] \in C
  OBVIOUS
<1>2. base \in X
  OBVIOUS
<1>3. step \in [(1 .. n) \X X -> X]
  <2> SUFFICES ASSUME NEW i \in 1 .. n, NEW acc \in X PROVE Put(acc, text[i], r) \in X
    OBVIOUS
  <2>1. text[i] \in C /\ {TRUE, FALSE} \subseteq B
    BY <1>1
  <2> HIDE DEF B
  <2> QED BY <2>1, PutFine
<1>4. Written(text, r) = put[n]
  BY DEF Written
<1> HIDE DEF n, base, X, step, F
<1>5. PICK g \in [0 .. n -> X] : Steps(g, n, base, step)
  BY <1>1, <1>2, <1>3, StepsExist
<1>6. F(g)
  <2>1. ASSUME NEW i \in 0 .. n, i # 0 PROVE g[i] = Put(g[i - 1], text[i], r)
    <3>1. i \in 1 .. n /\ i - 1 \in 0 .. n
      BY <1>1, <2>1
    <3>2. g[i - 1] \in X
      BY <1>5, <3>1
    <3>3. <<i, g[i - 1]>> \in (1 .. n) \X X
      BY <3>1, <3>2
    <3> QED BY <1>5, <3>1, <3>3 DEF Steps, step
  <2>2. g[0] = base
    BY <1>5 DEF Steps
  <2>3. g = [i \in 0 .. n |-> IF i = 0 THEN base ELSE Put(g[i - 1], text[i], r)]
    BY <1>5, <2>1, <2>2
  <2> QED BY <2>3 DEF F
<1>7. F(put)
  BY <1>6
<1>8. put = [i \in 0 .. n |-> IF i = 0 THEN base ELSE Put(put[i - 1], text[i], r)]
  BY <1>7 DEF F
<1> HIDE DEF put
<1>9. put[0] \in X
  BY <1>1, <1>2, <1>8
<1>10. ASSUME NEW i \in 1 .. n, put[i - 1] \in X PROVE put[i] \in X
  <2>1. put[i] = Put(put[i - 1], text[i], r)
    BY <1>1, <1>8
  <2>2. text[i] \in C /\ {TRUE, FALSE} \subseteq B
    BY <1>1
  <2> HIDE DEF B
  <2>3. PICK acc \in [sink : Seq(C), bol : B] : acc = put[i - 1]
    BY <1>10 DEF X
  <2>4. Put(acc, text[i], r) \in [sink : Seq(C), bol : B]
    BY <2>2, PutFine
  <2>5. Put(put[i - 1], text[i], r) \in X
    BY <2>3, <2>4 DEF X
  <2> QED BY <2>1, <2>5
<1>11. \A i \in 0 .. n : put[i] \in X
  BY <1>1, <1>9, <1>10, StepsStay
<1>12. put[n] \in X
  BY <1>1, <1>11
<1> QED BY <1>4, <1>12 DEF X

(* What moves: the cells of a text, at the place they go to. *)
MoveCell(cell, st) == [cell EXCEPT !.lvl = @ + Levels(st)]
MovedCells(C, st) == C \cup {MoveCell(cell, st) : cell \in {c \in C : c.c = "x"}}

LEMMA MovedFine ==
  ASSUME NEW C, \A cell \in C : Fine(cell), NEW st, NEW text \in Seq(C)
  PROVE  /\ C \subseteq MovedCells(C, st)
         /\ \A cell \in MovedCells(C, st) : Fine(cell)
         /\ Moved(text, st) \in Seq(MovedCells(C, st))
<1> DEFINE D == MovedCells(C, st)
<1>1. ASSUME NEW cell \in C, cell.c = "x" PROVE Fine(MoveCell(cell, st))
  <2>1. DOMAIN cell = {"c", "escaped", "under", "lvl"}
    BY <1>1 DEF Fine
  <2>2. /\ DOMAIN MoveCell(cell, st) = DOMAIN cell
        /\ MoveCell(cell, st).c = cell.c
        /\ MoveCell(cell, st).escaped = cell.escaped /\ MoveCell(cell, st).under = cell.under
    BY <2>1 DEF MoveCell
  <2> QED BY <1>1, <2>1, <2>2 DEF Fine
<1>2. \A cell \in D : Fine(cell)
  BY <1>1 DEF MovedCells
<1>3. C \subseteq D /\ \A cell \in C : cell.c = "x" => MoveCell(cell, st) \in D
  BY DEF MovedCells
<1>4. Moved(text, st) \in Seq(D)
  <2>1. Len(text) \in Nat /\ DOMAIN text = 1 .. Len(text) /\ \A i \in DOMAIN text : text[i] \in C
    OBVIOUS
  <2>2. Moved(text, st) = [i \in 1 .. Len(text) |-> IF text[i].c = "x" THEN MoveCell(text[i], st) ELSE text[i]]
    BY <2>1 DEF Moved, MapText, MoveCell
  <2>3. \A i \in 1 .. Len(text) : (IF text[i].c = "x" THEN MoveCell(text[i], st) ELSE text[i]) \in D
    BY <1>3, <2>1
  <2> HIDE DEF D
  <2> QED BY <2>1, <2>2, <2>3
<1> QED BY <1>2, <1>3, <1>4

(* A captured text is a Safe value, or there is no strategy to escape it by. *)
LEMMA ResultVerbatim ==
  ASSUME NEW text, NEW r
  PROVE  Emitted(Result(text, r), r) = text
BY DEF Emitted, Result

LEMMA SplicedFine ==
  ASSUME NEW C, \A cell \in C : Fine(cell), NEW text \in Seq(C), NEW a, NEW r, NEW rest
  PROVE  Spliced(a, text, r, rest) \in Seq(MovedCells(C, rest))
<1>1. Moved(text, rest) \in Seq(MovedCells(C, rest)) /\ <<>> \in Seq(MovedCells(C, rest))
  BY MovedFine, EmptySeq
<1>2. Emitted(Result(Moved(text, rest), r), r) \in Seq(MovedCells(C, rest))
  BY <1>1, ResultVerbatim
<1> QED BY <1>1, <1>2 DEF Spliced

-----------------------------------------------------------------------------
(* The steps *)

(* Growing the set of cells, to use it with the cells a step brings. *)
LEMMA FineGrows ==
  ASSUME NEW C, FineIn(C, sinks, kept), NEW D, C \subseteq D, \A cell \in D : Fine(cell)
  PROVE  FineIn(D, sinks, kept)
<1>1. Seq(C) \subseteq Seq(D)
  OBVIOUS
<1>2. Seq(Seq(C)) \subseteq Seq(Seq(D))
  BY <1>1
<1> QED BY <1>1, <1>2 DEF FineIn

LEMMA ActiveSink ==
  ASSUME IInv(stack, regs), Sunk(stack, regs, Len(sinks)), NEW C, FineIn(C, sinks, kept)
  PROVE  /\ DOMAIN regs = Fields /\ Sane(regs)
         /\ Len(sinks) \in Nat \ {0} /\ regs.sink = Len(sinks)
         /\ sinks[regs.sink] \in Seq(C)
<1> USE DEF Sane, Same
<1>1. Len(stack) \in Nat
  BY DEF IInv, Shaped
<1>2. At(stack, regs, Len(stack)) = regs
  BY DEF At
<1>3. regs.sink \in Nat \ {0} /\ Sane(regs) /\ regs.sink = Len(sinks)
  BY <1>1, <1>2 DEF Sunk
<1> QED BY <1>3 DEF IInv, Shaped, FineIn

(* Writing a text of such cells to the active sink of the fields r. *)
LEMMA WriteStep ==
  ASSUME NEW C, FineIn(C, sinks, kept), NEW r, r.sink \in 1 .. Len(sinks), r.indent \in Nat,
         NEW text \in Seq(C)
  PROVE  \E D : /\ C \subseteq D /\ FineIn(D, sinks, kept)
               /\ Written(text, r).sink \in Seq(D)
<1> USE DEF Sane, Same
<1> DEFINE D == C \cup {Indent}
<1>1. \A cell \in D : Fine(cell)
  <2>1. Fine(Indent)
    BY DEF Fine, Indent
  <2> QED BY <2>1 DEF FineIn
<1>2. FineIn(D, sinks, kept)
  BY <1>1, FineGrows
<1>3. Indent \in D /\ text \in Seq(D)
  OBVIOUS
<1> HIDE DEF D
<1>4. sinks[r.sink] \in Seq(D)
  BY <1>2 DEF FineIn
<1>5. Written(text, r).sink \in Seq(D)
  BY <1>3, <1>4, WrittenFine
<1> QED BY <1>2, <1>5 DEF D

LEMMA PushText ==
  ASSUME IInv(stack, regs), TextInvariant, NEW kind, NEW q, NEW frame, Push(kind, q, frame),
         q.sink = regs.sink + Sinks(kind), Sane(q)
  PROVE  TextInvariant'
<1>1. PICK C : FineIn(C, sinks, kept)
  BY DEF TextInvariant
<1>2. Len(sinks) \in Nat \ {0} /\ regs.sink = Len(sinks) /\ sinks \in Seq(Seq(C))
  BY <1>1, ActiveSink DEF TextInvariant, FineIn
<1>3. Sunk(stack', regs', q.sink)
  BY SunkPush DEF Push, TextInvariant
<1>4. <<>> \in Seq(C)
  BY EmptySeq
<1>5. sinks' \in Seq(Seq(C)) /\ Len(sinks') = q.sink
  BY <1>2, <1>4 DEF Push, Sinks
<1>6. FineIn(C, sinks', kept')
  BY <1>1, <1>5 DEF Push, FineIn
<1> QED BY <1>3, <1>5, <1>6 DEF TextInvariant

LEMMA RegionText ==
  ASSUME IInv(stack, regs), TextInvariant,
         \/ OpenTab \/ OpenSandbox \/ OpenApply \/ OpenCache \/ OpenRecursive
         \/ BlockSite \/ AskDefined \/ \E s \in Strategies : OpenEscape(s)
  PROVE  TextInvariant'
<1> USE DEF Sane, Same
<1>1. PICK C : FineIn(C, sinks, kept)
  BY DEF TextInvariant
<1>2. /\ DOMAIN regs = Fields /\ Sane(regs)
      /\ Len(sinks) \in Nat \ {0} /\ regs.sink = Len(sinks)
  BY <1>1, ActiveSink DEF TextInvariant
<1> USE DEF Sinks, Captures, Fields, Captured
<1>3. CASE OpenTab
  <2> DEFINE q == [regs EXCEPT !.indent = @ + 1, !.bol = TRUE]
  <2>1. q.sink = regs.sink /\ Sane(q)
    BY <1>2
  <2>2. Push("tab", q, 0)
    BY <1>3 DEF OpenTab
  <2> HIDE DEF q
  <2> QED BY <1>2, <2>1, <2>2, PushText
<1>4. CASE OpenSandbox
  <2> DEFINE q == [regs EXCEPT !.gate = TRUE]
  <2>1. q.sink = regs.sink /\ Sane(q)
    BY <1>2
  <2> QED BY <1>2, <1>4, <2>1, PushText DEF OpenSandbox
<1>5. CASE OpenApply \/ OpenCache
  <2> DEFINE q == Captured(regs)
  <2>1. q.sink = regs.sink + 1 /\ Sane(q)
    BY <1>2
  <2>2. PICK kind \in {"apply", "cache"} : Push(kind, q, 0)
    BY <1>5 DEF OpenApply, OpenCache
  <2> QED BY <2>1, <2>2, PushText
<1>6. CASE OpenRecursive
  <2> DEFINE q == [regs EXCEPT !.loops = Append(@, regs.text)]
  <2>1. q.sink = regs.sink /\ Sane(q)
    BY <1>2
  <2> QED BY <1>2, <1>6, <2>1, PushText DEF OpenRecursive
<1>7. CASE BlockSite
  <2> DEFINE q == [regs EXCEPT !.block = 1, !.text = regs.chain[1]]
  <2>1. q.sink = regs.sink /\ Sane(q)
    BY <1>2
  <2>2. Push("block", q, 0)
    BY <1>7 DEF BlockSite
  <2> HIDE DEF q
  <2> QED BY <1>2, <2>1, <2>2, PushText
<1>8. CASE AskDefined
  BY <1>2, <1>8, PushText DEF AskDefined
<1>9. ASSUME NEW s \in Strategies, OpenEscape(s) PROVE TextInvariant'
  <2> DEFINE q == [regs EXCEPT !.escape = s]
  <2>1. q.sink = regs.sink /\ Sane(q)
    BY <1>2
  <2> QED BY <1>2, <1>9, <2>1, PushText DEF OpenEscape
<1> QED BY <1>3, <1>4, <1>5, <1>6, <1>7, <1>8, <1>9

LEMMA BuiltinText ==
  ASSUME IInv(stack, regs), TextInvariant,
         CallCaller \/ CallParent \/ CallBlockFunction \/ CallBlockOfOther \/ Descend
  PROVE  TextInvariant'
<1> USE DEF Sane, Same
<1>1. PICK C : FineIn(C, sinks, kept)
  BY DEF TextInvariant
<1>2. /\ DOMAIN regs = Fields /\ Sane(regs)
      /\ Len(sinks) \in Nat \ {0} /\ regs.sink = Len(sinks)
  BY <1>1, ActiveSink DEF TextInvariant
<1>3. ASSUME NEW kind \in {"caller", "parent", "blockfn", "blockother", "descent"}, NEW q,
             Push(kind, q, 0), q.sink = Len(sinks) + 1, Sane(q)
      PROVE  TextInvariant'
  <2>1. q.sink = regs.sink + Sinks(kind)
    BY <1>2, <1>3 DEF Sinks, Captures
  <2> QED BY <1>3, <2>1, PushText
<1> USE DEF Fields, Captured, Diverted, Suspended
<1>4. CASE CallCaller
  <2> DEFINE q == [Captured(Suspended(regs)) EXCEPT !.text = stack[regs.caller].saved.text]
  <2>1. q.sink = Len(sinks) + 1 /\ Sane(q)
    BY <1>2
  <2> QED BY <1>3, <1>4, <2>1 DEF CallCaller
<1>5. CASE CallParent
  <2> DEFINE q == [Diverted(regs) EXCEPT !.block = @ + 1, !.text = regs.chain[regs.block + 1]]
  <2>1. q.sink = Len(sinks) + 1 /\ Sane(q)
    BY <1>2
  <2> QED BY <1>3, <1>5, <2>1 DEF CallParent
<1>6. CASE CallBlockFunction
  <2> DEFINE q == [Diverted(regs) EXCEPT !.block = 1, !.text = regs.chain[1]]
  <2>1. q.sink = Len(sinks) + 1 /\ Sane(q)
    BY <1>2
  <2> QED BY <1>3, <1>6, <2>1 DEF CallBlockFunction
<1>7. CASE CallBlockOfOther
  <2> DEFINE q == [Diverted(regs) EXCEPT !.text = "lib"]
  <2>1. q.sink = Len(sinks) + 1 /\ Sane(q)
    BY <1>2
  <2> QED BY <1>3, <1>7, <2>1 DEF CallBlockOfOther
<1>8. CASE Descend
  <2> DEFINE q == [Diverted(regs) EXCEPT !.text = Last(regs.loops)]
  <2>1. q.sink = Len(sinks) + 1 /\ Sane(q)
    BY <1>2
  <2> QED BY <1>3, <1>8, <2>1 DEF Descend
<1> QED BY <1>4, <1>5, <1>6, <1>7, <1>8

LEMMA CallText ==
  ASSUME IInv(stack, regs), TextInvariant,
         Include \/ Embed \/ CallMacro \/ CallBlock \/ EnterMacro
  PROVE  TextInvariant'
<1> USE DEF Sane, Same
<1>1. PICK C : FineIn(C, sinks, kept)
  BY DEF TextInvariant
<1>2. /\ DOMAIN regs = Fields /\ Sane(regs)
      /\ Len(sinks) \in Nat \ {0} /\ regs.sink = Len(sinks)
  BY <1>1, ActiveSink DEF TextInvariant
<1> USE DEF Sinks, Captures, Fields
<1>3. CASE Include
  <2> DEFINE q == Fresh("lib", "lib", <<>>, Len(sinks) + 1, regs.escape, regs.gate)
  <2>1. q.sink = regs.sink + 1 /\ Sane(q)
    BY <1>2 DEF Fresh, Templates
  <2> QED BY <1>3, <2>1, PushText DEF Include
<1>4. CASE Embed
  <2> DEFINE q == Fresh("lib", "lib", <<regs.text, "lib">>, regs.sink, regs.escape, regs.gate)
  <2>1. q.sink = regs.sink /\ Sane(q)
    BY <1>2 DEF Fresh, Templates
  <2> QED BY <1>2, <1>4, <2>1, PushText DEF Embed
<1>5. CASE CallMacro \/ CallBlock
  <2>1. PICK r, frame : /\ DOMAIN r = Fields /\ r.sink = regs.sink /\ Same(r, regs)
                        /\ Push("bind", Consumed(r), frame)
    <3> DEFINE staged == [regs EXCEPT !.staged = Len(stack) + 1]
    <3>1. DOMAIN staged = Fields /\ staged.sink = regs.sink /\ Same(staged, regs)
      BY <1>2
    <3> HIDE DEF staged
    <3>2. CASE CallMacro
      BY <1>2, <3>2 DEF CallMacro, Invoke
    <3>3. CASE CallBlock
      BY <3>1, <3>3 DEF CallBlock, Invoke, staged
    <3> QED BY <1>5, <3>2, <3>3
  <2>2. Consumed(r).sink = regs.sink /\ Sane(Consumed(r))
    BY <1>2, <2>1 DEF Consumed
  <2> QED BY <1>2, <2>1, <2>2, PushText
<1>6. CASE EnterMacro
  <2> DEFINE a == [stack[Len(stack)] EXCEPT !.kind = "macro", !.saved = regs]
             q == Body(regs, stack[Len(stack)].frame)
  <2>1. /\ stack # <<>> /\ stack[Len(stack)].kind = "bind"
        /\ regs' = q /\ stack' = [stack EXCEPT ![Len(stack)] = a]
        /\ sinks' = Append(sinks, <<>>) /\ kept' = kept
    BY <1>6 DEF EnterMacro, Top
  <2>2. q.sink = regs.sink + 1 /\ Sane(q)
    BY <1>2 DEF Body, Captured, Templates
  <2>3. a.kind = "macro" /\ a.saved = regs
    OBVIOUS
  <2> HIDE DEF a, q
  <2>4. Sunk(stack', regs', q.sink)
    BY <2>1, <2>2, <2>3, SunkEnter DEF TextInvariant
  <2>5. <<>> \in Seq(C) /\ sinks \in Seq(Seq(C))
    BY <1>1, EmptySeq DEF FineIn
  <2>6. sinks' \in Seq(Seq(C)) /\ Len(sinks') = q.sink
    BY <1>2, <2>1, <2>2, <2>5
  <2>7. FineIn(C, sinks', kept')
    BY <1>1, <2>1, <2>6 DEF FineIn
  <2> QED BY <2>4, <2>6, <2>7 DEF TextInvariant
<1> QED BY <1>3, <1>4, <1>5, <1>6

(* Leaving a construct whose surroundings get the text `text`. *)
LEMMA LeaveSinks ==
  ASSUME IInv(stack, regs), TextInvariant, NEW p \in DOMAIN stack, Leaving(p)
  PROVE  /\ Sunk(stack', regs', regs'.sink)
         /\ regs'.sink \in 1 .. Len(sinks) /\ Sane(regs') /\ Len(sinks) \in Nat
         /\ p = Len(stack) => Len(sinks) = regs'.sink + Sinks(stack[p].kind)
<1> USE DEF Sane, Same
<1>1. p \in 1 .. Len(stack)
  BY DEF IInv, Shaped
<1>2. regs'.sink = stack[p].saved.sink /\ Same(regs', stack[p].saved)
  BY DEF Leaving, Steady, Fields
<1>3. stack' = SubSeq(stack, 1, p - 1)
  BY DEF Leaving
<1> QED BY <1>1, <1>2, <1>3, SunkPop DEF TextInvariant

LEMMA CloseText ==
  ASSUME IInv(stack, regs), TextInvariant, Close
  PROVE  TextInvariant'
<1> USE DEF Sane, Same
<1> DEFINE n == Len(stack)
           rest == SubSeq(stack, 1, n - 1)
           r == Restored(Top, regs)
           text == sinks[Len(sinks)]
           w == Written(Spliced(Top, text, r, rest), r)
<1>1. n \in DOMAIN stack /\ Leaving(n)
  BY CloseLeaves
<1>2. /\ regs' = [r EXCEPT !.bol = w.bol]
      /\ sinks' = IF Top.kind \in Captures
                  THEN [SubSeq(sinks, 1, Len(sinks) - 1) EXCEPT ![r.sink] = w.sink]
                  ELSE sinks
      /\ kept' = IF Top.kind = "cache"
                 THEN [kept EXCEPT ![r.root] = [text |-> text, by |-> r.text]]
                 ELSE kept
  BY DEF Close
<1>3. /\ Sunk(stack', regs', regs'.sink)
      /\ regs'.sink \in 1 .. Len(sinks) /\ Sane(regs') /\ Len(sinks) \in Nat
      /\ Len(sinks) = regs'.sink + Sinks(Top.kind)
  BY <1>1, LeaveSinks DEF Top
<1>4. DOMAIN r = Fields /\ r.sink = regs'.sink /\ Same(r, regs')
  <2>1. DOMAIN r = Fields
    BY DEF Restored
  <2> HIDE DEF r
  <2> QED BY <1>2, <2>1 DEF Fields
<1>5. PICK C : FineIn(C, sinks, kept)
  BY DEF TextInvariant
<1>6. /\ \A cell \in C : Fine(cell)
      /\ sinks \in Seq(Seq(C)) /\ text \in Seq(C)
  BY <1>3, <1>5 DEF FineIn
<1> HIDE DEF text
<1> DEFINE M == MovedCells(C, rest)
<1>7. Spliced(Top, text, r, rest) \in Seq(M)
  BY <1>6, SplicedFine
<1>8. FineIn(M, sinks, kept)
  <2>1. C \subseteq M /\ \A cell \in M : Fine(cell)
    BY <1>6, MovedFine
  <2> QED BY <1>5, <2>1, FineGrows
<1> HIDE DEF r, rest, M
<1>9. PICK D : M \subseteq D /\ FineIn(D, sinks, kept) /\ w.sink \in Seq(D)
  BY <1>3, <1>4, <1>7, <1>8, WriteStep
<1>10. text \in Seq(D)
  BY <1>3, <1>9 DEF FineIn, text
<1> HIDE DEF w
<1>11. \A t \in Templates : kept'[t].text \in Seq(D)
  <2>1. \A t \in Templates : kept[t].text \in Seq(D) /\ DOMAIN kept = Templates
    BY <1>9 DEF FineIn
  <2> DEFINE entry == [text |-> text, by |-> r.text]
  <2>2. entry.text \in Seq(D)
    BY <1>10
  <2>3. kept' = kept \/ kept' = [kept EXCEPT ![r.root] = entry]
    BY <1>2
  <2> HIDE DEF entry
  <2> QED BY <2>1, <2>2, <2>3
<1>12. DOMAIN kept' = Templates
  <2>1. DOMAIN kept = Templates
    BY <1>9 DEF FineIn
  <2> QED BY <1>2, <2>1
<1>13. sinks' \in Seq(Seq(D)) /\ Len(sinks') = regs'.sink
  <2>1. sinks \in Seq(Seq(D))
    BY <1>9 DEF FineIn
  <2>2. CASE Top.kind \in Captures
    <3>1. Len(sinks) = regs'.sink + 1 /\ regs'.sink \in Nat \ {0}
      BY <1>3, <2>2 DEF Sinks
    <3> DEFINE left == SubSeq(sinks, 1, Len(sinks) - 1)
    <3>2. left \in Seq(Seq(D)) /\ Len(left) = regs'.sink
      BY <2>1, <3>1
    <3>3. sinks' = [left EXCEPT ![regs'.sink] = w.sink]
      BY <1>2, <1>4, <2>2
    <3> HIDE DEF left
    <3> QED BY <1>9, <3>1, <3>2, <3>3, ExceptSeq
  <2>3. CASE Top.kind \notin Captures
    BY <1>2, <1>3, <2>1, <2>3 DEF Sinks
  <2> QED BY <2>2, <2>3
<1>14. FineIn(D, sinks', kept')
  BY <1>9, <1>11, <1>12, <1>13 DEF FineIn
<1> QED BY <1>3, <1>13, <1>14 DEF TextInvariant

LEMMA FailText ==
  ASSUME IInv(stack, regs), TextInvariant, Fail
  PROVE  TextInvariant'
<1>1. PICK p \in DOMAIN stack : Leaving(p)
  BY FailLeaves
<1>2. /\ Sunk(stack', regs', regs'.sink)
      /\ regs'.sink \in 1 .. Len(sinks) /\ Len(sinks) \in Nat
  BY <1>1, LeaveSinks
<1>3. PICK C : FineIn(C, sinks, kept)
  BY DEF TextInvariant
<1>4. sinks' = SubSeq(sinks, 1, regs'.sink) /\ kept' = kept
  BY DEF Fail
<1>5. sinks' \in Seq(Seq(C)) /\ Len(sinks') = regs'.sink
  <2>1. sinks \in Seq(Seq(C))
    BY <1>3 DEF FineIn
  <2> QED BY <1>2, <1>4, <2>1
<1>6. FineIn(C, sinks', kept')
  BY <1>3, <1>4, <1>5 DEF FineIn
<1> QED BY <1>2, <1>5, <1>6 DEF TextInvariant

(* Text and cache entries: the sink grows by such cells. *)
LEMMA GrowText ==
  ASSUME IInv(stack, regs), TextInvariant, NEW C, FineIn(C, sinks, kept), NEW text \in Seq(C),
         stack' = stack, kept' = kept,
         sinks' = [sinks EXCEPT ![regs.sink] = Written(text, regs).sink],
         NEW bol, regs' = [regs EXCEPT !.bol = bol]
  PROVE  TextInvariant'
<1> USE DEF Sane, Same
<1>1. /\ DOMAIN regs = Fields /\ Sane(regs)
      /\ Len(sinks) \in Nat \ {0} /\ regs.sink = Len(sinks)
  BY ActiveSink DEF TextInvariant
<1>2. PICK D : C \subseteq D /\ FineIn(D, sinks, kept) /\ Written(text, regs).sink \in Seq(D)
  BY <1>1, WriteStep
<1>3. sinks' \in Seq(Seq(D)) /\ Len(sinks') = Len(sinks)
  BY <1>1, <1>2, ExceptSeq DEF FineIn
<1>4. FineIn(D, sinks', kept')
  BY <1>2, <1>3 DEF FineIn
<1>5. Sunk(stack', regs', Len(sinks'))
  <2>1. regs'.sink = regs.sink /\ Same(regs', regs)
    BY <1>1 DEF Fields
  <2>2. \A j \in 0 .. Len(stack) : /\ At(stack', regs', j).sink = At(stack, regs, j).sink
                                   /\ Same(At(stack', regs', j), At(stack, regs, j))
    BY <2>1 DEF At
  <2>3. Len(stack) \in Nat
    BY DEF IInv, Shaped
  <2>4. \A j \in 0 .. Len(stack') : /\ At(stack', regs', j).sink \in Nat \ {0}
                                    /\ Sane(At(stack', regs', j))
    BY <2>2, <2>3 DEF Sunk, TextInvariant
  <2>5. ASSUME NEW i \in 1 .. Len(stack')
        PROVE  At(stack', regs', i).sink = stack'[i].saved.sink + Sinks(stack'[i].kind)
    <3>1. i \in 0 .. Len(stack) /\ i \in 1 .. Len(stack)
      BY <2>3
    <3>2. At(stack, regs, i).sink = stack[i].saved.sink + Sinks(stack[i].kind)
      BY <3>1 DEF Sunk, TextInvariant
    <3> QED BY <2>2, <3>1, <3>2
  <2>6. ASSUME NEW i \in 0 .. Len(stack'), NEW j \in 0 .. Len(stack'), i <= j
        PROVE  At(stack', regs', i).sink <= At(stack', regs', j).sink
    <3>1. i \in 0 .. Len(stack) /\ j \in 0 .. Len(stack)
      OBVIOUS
    <3>2. At(stack, regs, i).sink <= At(stack, regs, j).sink
      BY <2>6, <3>1 DEF Sunk, TextInvariant
    <3> QED BY <2>2, <3>1, <3>2
  <2> QED BY <1>1, <1>3, <2>1, <2>4, <2>5, <2>6 DEF Sunk
<1> QED BY <1>4, <1>5 DEF TextInvariant

(* A piece of text is one cell. *)
LEMMA WritesOne ==
  ASSUME NEW text \in {<<Newline>>,
                       Emitted([text |-> <<Printed(Levels(stack))>>, safe |-> FALSE], regs)}
  PROVE  \E one : /\ text = <<one>> /\ Fine(one)
                  /\ one.c \in {"nl", "x"} /\ (one.c = "x" => one.lvl = Levels(stack))
<1> DEFINE cell == Printed(Levels(stack))
           value == [text |-> <<cell>>, safe |-> FALSE]
           shown == [cell EXCEPT !.escaped = Append(@, regs.escape)]
           done == Emitted(value, regs)
           One(c) == c.c \in {"nl", "x"} /\ (c.c = "x" => c.lvl = Levels(stack))
<1>1. /\ Fine(Newline) /\ One(Newline)
      /\ regs.escape = Off => Fine(cell) /\ One(cell)
      /\ regs.escape # Off => Fine(shown) /\ One(shown)
  <2>1. Fine(Newline) /\ One(Newline)
    BY DEF Fine, Newline
  <2>2. /\ DOMAIN cell = {"c", "escaped", "under", "lvl"} /\ cell.c = "x"
        /\ cell.escaped = <<>> /\ cell.under = regs.escape /\ cell.lvl = Levels(stack)
    BY DEF Printed
  <2>3. /\ DOMAIN shown = DOMAIN cell /\ shown.c = cell.c /\ shown.under = cell.under
        /\ shown.escaped = Append(<<>>, regs.escape) /\ shown.lvl = cell.lvl
    BY <2>2
  <2>4. Append(<<>>, regs.escape) = <<regs.escape>>
    OBVIOUS
  <2> HIDE DEF cell, shown
  <2> QED BY <2>1, <2>2, <2>3, <2>4 DEF Fine
<1>2. done = IF regs.escape = Off THEN <<cell>> ELSE <<shown>>
  <2>1. cell.c = "x"
    BY DEF Printed
  <2>2. value.text = <<cell>> /\ ~ value.safe
    OBVIOUS
  <2>3. regs.escape # Off => done = [i \in DOMAIN <<cell>> |-> shown]
    <3> HIDE DEF cell, value
    <3>1. regs.escape # Off =>
            done = [i \in DOMAIN <<cell>> |->
                      IF <<cell>>[i].c = "x"
                      THEN [<<cell>>[i] EXCEPT !.escaped = Append(@, regs.escape)] ELSE <<cell>>[i]]
      BY <2>2 DEF Emitted, MapText
    <3>2. \A i \in DOMAIN <<cell>> : <<cell>>[i] = cell
      OBVIOUS
    <3> QED BY <2>1, <3>1, <3>2
  <2> HIDE DEF cell, shown, value
  <2>4. [i \in DOMAIN <<cell>> |-> shown] = <<shown>>
    <3>1. DOMAIN <<cell>> = 1 .. 1
      OBVIOUS
    <3> QED BY <3>1
  <2>5. regs.escape = Off => done = <<cell>>
    BY <2>2 DEF Emitted
  <2> QED BY <2>3, <2>4, <2>5
<1>3. text = <<Newline>> \/ text = done
  OBVIOUS
<1> HIDE DEF cell, shown, value, done, One
<1>4. \E one : text = <<one>> /\ Fine(one) /\ One(one)
  BY <1>1, <1>2, <1>3
<1> QED BY <1>4 DEF One

LEMMA TextText ==
  ASSUME IInv(stack, regs), TextInvariant, Text
  PROVE  TextInvariant'
<1>1. PICK text \in {<<Newline>>,
                     Emitted([text |-> <<Printed(Levels(stack))>>, safe |-> FALSE], regs)} :
        /\ sinks' = [sinks EXCEPT ![regs.sink] = Written(text, regs).sink]
        /\ regs' = [regs EXCEPT !.bol = Written(text, regs).bol]
        /\ stack' = stack /\ kept' = kept
  BY DEF Text
<1>2. PICK C : FineIn(C, sinks, kept)
  BY DEF TextInvariant
<1>3. PICK c : Fine(c) /\ text = <<c>>
  BY WritesOne
<1> DEFINE D == C \cup {c}
<1>4. FineIn(D, sinks, kept)
  <2>1. \A e \in D : Fine(e)
    BY <1>2, <1>3 DEF FineIn
  <2> QED BY <1>2, <2>1, FineGrows
<1>5. text \in Seq(D)
  BY <1>3
<1> HIDE DEF D
<1> QED BY <1>1, <1>4, <1>5, GrowText

LEMMA CacheHitText ==
  ASSUME IInv(stack, regs), TextInvariant, CacheHit
  PROVE  TextInvariant'
<1> DEFINE text == kept[regs.root].text
<1>1. /\ sinks' = [sinks EXCEPT ![regs.sink] = Written(Moved(text, stack), regs).sink]
      /\ regs' = [regs EXCEPT !.bol = Written(Moved(text, stack), regs).bol]
      /\ stack' = stack /\ kept' = kept
  BY DEF CacheHit
<1>2. PICK C : FineIn(C, sinks, kept)
  BY DEF TextInvariant
<1>3. regs.root \in Templates
  BY <1>2, ActiveSink DEF TextInvariant, Sane
<1>4. text \in Seq(C) /\ \A cell \in C : Fine(cell)
  BY <1>2, <1>3 DEF FineIn
<1> HIDE DEF text
<1> DEFINE M == MovedCells(C, stack)
<1>5. Moved(text, stack) \in Seq(M) /\ FineIn(M, sinks, kept)
  BY <1>2, <1>4, MovedFine, FineGrows
<1> HIDE DEF M
<1> QED BY <1>1, <1>5, GrowText

LEMMA InitText == Init => TextInvariant
<1> SUFFICES ASSUME Init PROVE TextInvariant
  OBVIOUS
<1>1. PICK s \in Strategies :
        regs = Fresh("page", "layout", <<"page", "layout">>, 1, s, FALSE)
  BY DEF Init
<1>2. stack = <<>> /\ Len(stack) = 0 /\ sinks = << <<>> >> /\ Len(sinks) = 1
  BY DEF Init
<1>3. regs.sink = 1 /\ Sane(regs)
  BY <1>1 DEF Fresh, Sane, Templates
<1>4. \A j \in 0 .. Len(stack) : j = 0 /\ At(stack, regs, j) = regs
  BY <1>2 DEF At
<1>5. Sunk(stack, regs, Len(sinks))
  BY <1>2, <1>3, <1>4 DEF Sunk
<1>6. <<>> \in Seq({})
  BY EmptySeq
<1>7. sinks \in Seq(Seq({}))
  BY <1>2, <1>6
<1>8. DOMAIN kept = Templates /\ \A t \in Templates : kept[t].text = <<>>
  BY DEF Init, NoEntry
<1>9. FineIn({}, sinks, kept)
  BY <1>6, <1>7, <1>8 DEF FineIn
<1> QED BY <1>5, <1>9 DEF TextInvariant

LEMMA NextText == Inv /\ TextInvariant /\ [Next]_vars => TextInvariant'
<1> SUFFICES ASSUME IInv(stack, regs), TextInvariant, [Next]_vars PROVE TextInvariant'
  BY DEF Inv
<1>1. CASE OpenTab \/ OpenSandbox \/ OpenApply \/ OpenCache \/ OpenRecursive
           \/ BlockSite \/ AskDefined \/ \E s \in Strategies : OpenEscape(s)
  BY <1>1, RegionText
<1>2. CASE CallCaller \/ CallParent \/ CallBlockFunction \/ CallBlockOfOther \/ Descend
  BY <1>2, BuiltinText
<1>3. CASE Include \/ Embed \/ CallMacro \/ CallBlock \/ EnterMacro
  BY <1>3, CallText
<1>4. CASE Text
  BY <1>4, TextText
<1>5. CASE CacheHit
  BY <1>5, CacheHitText
<1>6. CASE Close
  BY <1>6, CloseText
<1>7. CASE Fail
  BY <1>7, FailText
<1>8. CASE UNCHANGED vars
  BY <1>8 DEF vars, TextInvariant
<1> QED BY <1>1, <1>2, <1>3, <1>4, <1>5, <1>6, <1>7, <1>8 DEF Next

(* A printed value is escaped exactly once, by the strategy in force where   *)
(* it was printed, through any captures, results, includes and cache entries *)
(* (emit, the Safe results, the verbatim splices).                           *)
THEOREM ValuesEscapedOnce == Spec => []EscapedExactlyOnce
<1>1. TextInvariant => EscapedExactlyOnce
  <2> SUFFICES ASSUME TextInvariant, NEW n \in DOMAIN sinks, NEW i \in DOMAIN sinks[n]
               PROVE  Fine(sinks[n][i])
    BY DEF EscapedExactlyOnce, Fine
  <2>1. PICK C : (\A cell \in C : Fine(cell)) /\ sinks \in Seq(Seq(C))
    BY DEF TextInvariant, FineIn
  <2>2. sinks[n] \in Seq(C)
    BY <2>1
  <2> QED BY <2>1, <2>2
<1>2. Init => TextInvariant
  BY InitText
<1>3. Inv /\ TextInvariant /\ [Next]_vars => TextInvariant'
  BY NextText
<1> QED BY <1>1, <1>2, <1>3, Invariant, PTL DEF Spec

(* Text goes to the sink opened last and to no other: none reaches a sink    *)
(* that was closed or one outside the capture being filled (captureItems).   *)
THEOREM ActiveSinkIsInnermost == Spec => [](regs.sink = Len(sinks))
<1>1. TextInvariant => regs.sink = Len(sinks)
  BY DEF TextInvariant, Sunk
<1>2. Init => TextInvariant
  BY InitText
<1>3. Inv /\ TextInvariant /\ [Next]_vars => TextInvariant'
  BY NextText
<1> QED BY <1>1, <1>2, <1>3, Invariant, PTL DEF Spec
=============================================================================
