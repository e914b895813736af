----------------------------- MODULE LoopLowering -----------------------------
(***************************************************************************)
(* The loop analysis of the compiled backend (internal/compile/loopopt.go):*)
(* which loops are lowered without a loop value, which reads of the loop   *)
(* become arithmetic, and which loops iterate over the live array.  It     *)
(* walks what the lowering inlines: a program is its items, its partials   *)
(* by name, and for each block the chain of its definitions, the           *)
(* overriding one first.                                                   *)
(***************************************************************************)
EXTENDS LoopEscape

NoLimit == 64
Program(items, partials, blocks) == [items |-> items, partials |-> partials, blocks |-> blocks]
\* block is the definition being walked, including the partials being walked.
In(program) == [program |-> program, stack |-> Root, arrow |-> FALSE, inline |-> TRUE, block |-> <<>>, including |-> <<>>, depth |-> 0]

chaseParent(stack, from) ==
  LET at == Max({0} \cup {i \in 1..from - 1 : stack[i].kind # "filter" \/ stack[i].binds})
  IN IF at > 0 /\ stack[at].kind = "loop" THEN at ELSE 0

RECURSIVE Chased(_, _, _)
\* The loops that a chain of parents goes through from the one at "at"; <<>> when one step has none.
Chased(stack, at, steps) ==
  IF at = 0 THEN <<>>
  ELSE IF steps = 0 THEN <<stack[at].for>>
  ELSE LET rest == Chased(stack, chaseParent(stack, at), steps - 1) IN IF rest = <<>> THEN <<>> ELSE <<stack[at].for>> \o rest

\* The loops an approved read goes through, the one it starts from first.
tryChain(n, stack) ==
  LET loop == attributeLoop(stack) IN
  IF FieldChain(n) = <<>> \/ loop.for = "" \/ ~loop.clean THEN <<>>
  ELSE Chased(stack, loop.at, Len(FieldChain(n)) - 2)

(***************************************************************************)
(* What may write to an array while a loop iterates over it                *)
(***************************************************************************)
RECURSIVE nodeMutates(_), setTargetMutates(_)
setTargetMutates(t) == t.k \in {"Attr", "Index"} \/ \E i \in DOMAIN t.c : setTargetMutates(t.c[i])
nodeMutates(n) ==
  \/ n.k = "Do"
  \/ n.k = "Set" /\ setTargetMutates(n.c[1])
  \/ n.k = "Call" /\ n.c[1].k = "Name" /\ n.c[1].s = "attribute"
  \/ n.k = "Call" /\ n.c[1].k = "Attr" /\ ~LoopChanged(n)
  \/ \E i \in DOMAIN n.c : nodeMutates(n.c[i])
bodyMutates_OwnTargets(items) == \E i \in DOMAIN items : items[i].k = "Set" /\ setTargetMutates(items[i].c[1])
bodyMutates(items) == \E i \in DOMAIN items : nodeMutates(items[i])

(***************************************************************************)
(* The walk                                                                *)
(***************************************************************************)
RECURSIVE lowerExpr(_, _), lowerStmt(_, _), lowerItems(_, _), uwalkBlockAt(_, _, _), walkEmbedBody(_, _)
uwalkBlockAt(name, depth, st) ==
  IF name \notin DOMAIN st.program.blocks \/ st.depth >= NoLimit THEN Nothing
  ELSE IF depth > Len(st.program.blocks[name]) THEN Nothing
  ELSE lowerItems(st.program.blocks[name][depth].c, [st EXCEPT !.block = <<[name |-> name, depth |-> depth]>>, !.depth = @ + 1])

uwalkBlockSite(n, st) == IF n.s \in DOMAIN st.program.blocks THEN uwalkBlockAt(n.s, 1, st) ELSE lowerItems(n.c, st)

Splices(n) == n.k = "Call" /\ n.c[1].k = "Name" /\ n.c[1].s \in {"parent", "block"}
uwalkCall(n, st) ==
  CASE n.c[1].s = "parent" -> IF st.block = <<>> THEN Nothing ELSE uwalkBlockAt(st.block[1].name, st.block[1].depth + 1, st)
    [] n.c[1].s = "block" -> uwalkBlockAt(n.c[2].s, 1, st)

\* A chain is approved, or its node is read as a value at this visit.
lowerRead(n, st) ==
  IF st.inline /\ tryChain(n, st.stack) # <<>> THEN [Nothing EXCEPT !.reads = {[node |-> n, chain |-> tryChain(n, st.stack)]}]
  ELSE And([Nothing EXCEPT !.noInline = {n}], AllOf([i \in DOMAIN n.c |-> lowerExpr(n.c[i], st)]))

lowerExpr(n, st) ==
  LET children(ns) == AllOf([i \in DOMAIN ns |-> lowerExpr(ns[i], st)])
      deferred == IF st.arrow THEN escapeInnermost(st.stack) ELSE Nothing
  IN CASE n.k = "Name" -> IF n.s = "loop" THEN Escaping({attributeLoop(st.stack).for}) ELSE Nothing
       [] n.k = "_context" -> escapeInnermost(st.stack)
       [] n.k \in {"Attr", "Index"} -> lowerRead(n, st)
       [] n.k = "Call" /\ LoopChanged(n) -> children(Tail(n.c))
       [] n.k = "Call" /\ Splices(n) -> uwalkCall(n, st)
       [] n.k = "Call" /\ ~LoopChanged(n) /\ ~Splices(n) -> And(IF n.c[1].k = "Name" THEN deferred ELSE Nothing, children(n.c))
       [] n.k = "Filter" -> And(deferred, children(n.c))
       [] n.k = "Test" -> lowerExpr(n.c[1], [st EXCEPT !.inline = @ /\ n.s # "defined"])
       [] n.k = "Assign" -> And(IF n.s = "loop" THEN escapeInnermost(st.stack) ELSE Nothing, children(n.c))
       [] n.k = "Arrow" -> lowerExpr(n.c[1], [Under(st, Frame("arrow", "", FALSE)) EXCEPT !.arrow = TRUE])
       [] OTHER -> children(n.c)

lowerFor(n, st) ==
  LET body == n.c[BodyAt(n)].c
      filter == Under(st, Frame("filter", "", n.s = "loop" \/ exprBindsLoop(n.c[2])))
  IN AllOf(<<[Nothing EXCEPT !.visits = <<[for |-> n.s, parent |-> nearestLoop(st.stack)]>>,
                             !.escapes = IF n.s = "loop" THEN {n.s} ELSE {},
                             !.fused = IF "if" \in n.f THEN {n.s} ELSE {},
                             !.mutates = IF bodyMutates(body) THEN {n.s} ELSE {}],
             lowerExpr(n.c[1], st),
             IF "if" \in n.f THEN lowerExpr(n.c[2], filter) ELSE Nothing,
             lowerItems(body, Under(st, Frame("loop", n.s, FALSE))),
             IF "else" \in n.f THEN lowerItems(Last(n.c).c, st) ELSE Nothing>>)

lowerSet(n, st) ==
  AllOf(<<IF BindsLoop(n.c[1]) THEN escapeInnermost(st.stack) ELSE Nothing,
          AllOf([i \in DOMAIN PathKeys(n.c[1]) |-> lowerExpr(PathKeys(n.c[1])[i], st)]),
          lowerExpr(n.c[2], st)>>)

\* The map of a with is read where the include or the embed stands.
WithMap(n, st) == IF "with" \in n.f THEN lowerExpr(n.c[1], st) ELSE Nothing
Inside(n, st) == [Under(st, Frame(IF "only" \in n.f THEN "withOnly" ELSE "with", "", FALSE)) EXCEPT !.including = Append(@, n.s)]
Reachable(n, st) == n.s \in DOMAIN st.program.partials /\ ~Contains(st.including, n.s)

walkInclude(n, st) ==
  And(WithMap(n, st), IF Reachable(n, st) THEN lowerItems(st.program.partials[n.s], Inside(n, st)) ELSE Nothing)

walkEmbedBody(items, st) ==
  AllOf([i \in DOMAIN items |-> IF items[i].k = "Block" THEN walkEmbedBody(items[i].c, st) ELSE lowerStmt(items[i], st)])
walkEmbed(n, st) ==
  And(WithMap(n, st),
      IF ~Reachable(n, st) THEN Nothing
      ELSE And(walkEmbedBody(st.program.partials[n.s], Inside(n, st)),
               walkEmbedBody(SelectSeq(n.c, LAMBDA ch : ch.k = "Block"), Inside(n, st))))

lowerStmt(n, st) ==
  LET first == lowerExpr(n.c[1], st)
      clause(cl) == IF "if" \in cl.f THEN And(lowerExpr(cl.c[1], st), lowerItems(Tail(cl.c), st)) ELSE lowerItems(cl.c, st)
  IN CASE n.k \in {"Print", "Do", "Log"} -> first
       [] n.k = "If" -> AllOf([i \in DOMAIN n.c |-> clause(n.c[i])])
       [] n.k = "For" -> lowerFor(n, st)
       [] n.k = "Set" -> lowerSet(n, st)
       [] n.k = "Capture" -> And(IF n.s = "loop" THEN escapeInnermost(st.stack) ELSE Nothing, lowerItems(n.c, st))
       [] n.k = "With" -> And(first, lowerItems(Tail(n.c), Under(st, Frame(IF "only" \in n.f THEN "withOnly" ELSE "with", "", FALSE))))
       [] n.k = "TabBlock" -> And(first, lowerItems(Tail(n.c), st))
       [] n.k = "Escape" -> lowerItems(n.c, st)
       [] n.k = "Block" -> uwalkBlockSite(n, st)
       [] n.k = "Include" -> walkInclude(n, st)
       [] n.k = "Embed" -> walkEmbed(n, st)
       [] OTHER -> Nothing
lowerItems(items, st) == AllOf([i \in DOMAIN items |-> lowerStmt(items[i], st)])

(***************************************************************************)
(* The plan                                                                *)
(***************************************************************************)
Bases(reads) == {r.chain[1] : r \in reads}
\* Reads that one lowering cannot serve at every place they are inlined.
Ambiguous(facts) == {r \in facts.reads : r.node \in facts.noInline \/ \E o \in facts.reads : o.node = r.node /\ o.chain # r.chain}

RECURSIVE fixpoint(_, _)
\* A loop with a value needs the enclosing one's, and so do the reads that go through it.
fixpoint(facts, values) ==
  LET through == {r \in facts.reads : ToSet(Tail(r.chain)) \cap values # {}}
      more == values \cup Parents(facts, values) \cup Bases(through)
  IN IF more = values THEN values ELSE fixpoint(facts, more)

analyzeUnitLoops(program) ==
  LET facts == lowerItems(program.items, In(program))
      materialized == fixpoint(facts, facts.escapes \cup Revisited(facts) \cup Bases(Ambiguous(facts)))
      inline == Analyzed(facts) \ materialized
  IN [inline |-> inline, live |-> inline \ (facts.fused \cup facts.mutates),
      reads |-> {r \in facts.reads : r.chain[1] \notin materialized /\ r.node \notin facts.noInline}]
=============================================================================
