------------------------------ MODULE LoopEscape ------------------------------
(***************************************************************************)
(* The escape analysis that Prepare runs over every @for                   *)
(* (internal/interp/loopescape.go): a loop whose loop value cannot outlive *)
(* its iteration may reuse one loop value for all its iterations and draw  *)
(* its snapshot of the collection from a pool.                             *)
(*                                                                         *)
(* A @for is named by its target.  Its children are the iterand, the       *)
(* condition when "if" is among its flags, the body, and the else body     *)
(* when "else" is.  What a walk finds is a record of facts.                *)
(***************************************************************************)
EXTENDS Tree, FiniteSetsExt

Fields == {"index", "index0", "revindex", "revindex0", "first", "last", "length", "prev", "next"}

\* "visits" has an entry for each time the walk meets a @for, in order.
Nothing == [visits |-> <<>>, escapes |-> {}, fused |-> {}, mutates |-> {}, reads |-> {}, noInline |-> {}]
And(a, b) == [visits |-> a.visits \o b.visits, escapes |-> a.escapes \cup b.escapes, fused |-> a.fused \cup b.fused,
              mutates |-> a.mutates \cup b.mutates, reads |-> a.reads \cup b.reads, noInline |-> a.noInline \cup b.noInline]
AllOf(facts) == FoldLeft(And, Nothing, facts)
Escaping(names) == [Nothing EXCEPT !.escapes = names \ {""}]

(***************************************************************************)
(* The frames between a reference to the name loop and what it resolves to *)
(***************************************************************************)
Frame(kind, for, binds) == [kind |-> kind, for |-> for, binds |-> binds]
Root == <<Frame("root", "", FALSE)>>
Blurs_NotArrows(frame) == frame.kind = "with" \/ (frame.kind = "filter" /\ frame.binds)
Blurs(frame) == frame.kind \in {"with", "arrow"} \/ (frame.kind = "filter" /\ frame.binds)

\* The position of the innermost frame of these kinds, 0 when there is none.
Innermost(stack, kinds) == Max({0} \cup {i \in DOMAIN stack : stack[i].kind \in kinds})
ForAt(stack, i) == IF i = 0 THEN "" ELSE stack[i].for

attributeLoop(stack) ==
  LET at == Innermost(stack, {"loop", "withOnly", "root"})
  IN [for |-> ForAt(stack, at), at |-> at, clean |-> \A i \in at + 1..Len(stack) : ~Blurs(stack[i])]
nearestLoop(stack) == ForAt(stack, Innermost(stack, {"loop", "withOnly"}))
escapeInnermost(stack) == Escaping({ForAt(stack, Innermost(stack, {"loop"}))})

(***************************************************************************)
(* Names bound                                                             *)
(***************************************************************************)
RECURSIVE exprBindsLoop(_), patternBindsLoop(_), setRootOf(_), Chain(_), PathKeys(_)
exprBindsLoop(n) ==
  /\ n.k # "Arrow"
  /\ (n.k = "Assign" /\ n.s = "loop") \/ \E i \in DOMAIN n.c : exprBindsLoop(n.c[i])
patternBindsLoop(t) == (t.k = "Target" /\ t.s = "loop") \/ \E i \in DOMAIN t.c : patternBindsLoop(t.c[i])
setRootOf(t) == IF t.k \in {"Attr", "Index"} THEN setRootOf(t.c[1]) ELSE t
BindsLoop(t) == patternBindsLoop(setRootOf(t))
\* The computed keys along a member path.
PathKeys(t) == IF t.k \notin {"Attr", "Index"} THEN <<>> ELSE PathKeys(t.c[1]) \o Tail(t.c)

\* The members read from the outermost inwards; <<>> for what is no chain of members of loop.
Chain(n) ==
  CASE n.k = "Name" /\ n.s = "loop" -> <<"loop">>
    [] n.k = "Attr" /\ "?" \notin n.f -> LET inner == Chain(n.c[1]) IN IF inner = <<>> THEN <<>> ELSE <<n.s>> \o inner
    [] OTHER -> <<>>
\* Only the outermost member may be a subscript.
FieldChain(n) ==
  LET chain == IF n.k = "Index" /\ "?" \notin n.f /\ Len(n.c) = 1 THEN Chain([n EXCEPT !.k = "Attr"]) ELSE Chain(n)
  IN IF Len(chain) > 1 /\ chain[1] \in Fields /\ \A i \in 2..Len(chain) - 1 : chain[i] = "parent" THEN chain ELSE <<>>

safeLoopRead(n, stack) ==
  LET loop == attributeLoop(stack) IN FieldChain(n) # <<>> /\ loop.for # "" /\ loop.clean

LoopChanged(n) == n.k = "Call" /\ n.c[1].k = "Attr" /\ n.c[1].s = "changed" /\ n.c[1].c[1].k = "Name" /\ n.c[1].c[1].s = "loop"

(***************************************************************************)
(* The walk                                                                *)
(***************************************************************************)
At(stack) == [stack |-> stack, arrow |-> FALSE, inline |-> TRUE]
Under(st, frame) == [st EXCEPT !.stack = Append(@, frame)]

RECURSIVE walkExpr(_, _), walkStmt(_, _), walkItems(_, _)
walkExpr(n, st) ==
  LET children(ns) == AllOf([i \in DOMAIN ns |-> walkExpr(ns[i], st)])
      deferred == IF st.arrow THEN escapeInnermost(st.stack) ELSE Nothing
  IN CASE n.k = "Name" -> IF n.s = "loop" THEN Escaping({attributeLoop(st.stack).for}) ELSE Nothing
       [] n.k = "_context" -> escapeInnermost(st.stack)
       [] n.k \in {"Attr", "Index"} -> IF st.inline /\ safeLoopRead(n, st.stack) THEN Nothing ELSE children(n.c)
       [] n.k = "Call" /\ LoopChanged(n) -> children(Tail(n.c))
       [] n.k = "Call" /\ ~LoopChanged(n) -> And(IF n.c[1].k = "Name" THEN deferred ELSE Nothing, children(n.c))
       [] n.k = "Filter" -> And(deferred, children(n.c))
       [] n.k = "Test" -> walkExpr(n.c[1], [st EXCEPT !.inline = @ /\ n.s # "defined"])
       [] n.k = "Assign" -> And(IF n.s = "loop" THEN escapeInnermost(st.stack) ELSE Nothing, children(n.c))
       [] n.k = "Arrow" -> walkExpr(n.c[1], [Under(st, Frame("arrow", "", FALSE)) EXCEPT !.arrow = TRUE])
       [] OTHER -> children(n.c)

BodyAt(n) == IF "if" \in n.f THEN 3 ELSE 2
walkFor(n, st) ==
  LET body == n.c[BodyAt(n)].c
      filter == Under(st, Frame("filter", "", n.s = "loop" \/ exprBindsLoop(n.c[2])))
  IN AllOf(<<[Nothing EXCEPT !.visits = <<[for |-> n.s, parent |-> nearestLoop(st.stack)]>>,
                             !.escapes = IF n.s = "loop" THEN {n.s} ELSE {},
                             !.fused = IF "if" \in n.f THEN {n.s} ELSE {}],
             walkExpr(n.c[1], st),
             IF "if" \in n.f THEN walkExpr(n.c[2], filter) ELSE Nothing,
             walkItems(body, Under(st, Frame("loop", n.s, FALSE))),
             IF "else" \in n.f THEN walkItems(Last(n.c).c, st) ELSE Nothing>>)

walkSet(n, st) ==
  AllOf(<<IF BindsLoop(n.c[1]) THEN escapeInnermost(st.stack) ELSE Nothing,
          AllOf([i \in DOMAIN PathKeys(n.c[1]) |-> walkExpr(PathKeys(n.c[1])[i], st)]),
          walkExpr(n.c[2], st)>>)

\* A block runs wherever it is dispatched: the loop around its definition
\* escapes, and its body is read as one that can reach no loop.
walkBlock(n, st) == And(escapeInnermost(st.stack), walkItems(n.c, Under(st, Frame("withOnly", "", FALSE))))

Leaves == {"Text", "Macro", "Import", "Use", "Flush", "Types"}
walkStmt(n, st) ==
  LET first == walkExpr(n.c[1], st)
      clause(cl) == IF "if" \in cl.f THEN And(walkExpr(cl.c[1], st), walkItems(Tail(cl.c), st)) ELSE walkItems(cl.c, st)
  IN CASE n.k \in Leaves -> Nothing
       [] n.k \in {"Print", "Do", "Log"} -> first
       [] n.k = "If" -> AllOf([i \in DOMAIN n.c |-> clause(n.c[i])])
       [] n.k = "For" -> walkFor(n, st)
       [] n.k = "Set" -> walkSet(n, st)
       [] n.k = "Capture" -> And(IF n.s = "loop" THEN escapeInnermost(st.stack) ELSE Nothing, walkItems(n.c, st))
       [] n.k = "With" -> And(first, walkItems(Tail(n.c), Under(st, Frame(IF "only" \in n.f THEN "withOnly" ELSE "with", "", FALSE))))
       [] n.k \in {"TabBlock", "Guard"} -> And(first, walkItems(Tail(n.c), st))
       [] n.k \in {"Escape", "Sandbox"} -> walkItems(n.c, st)
       [] n.k = "Block" -> walkBlock(n, st)
       [] OTHER -> escapeInnermost(st.stack)
walkItems(items, st) == AllOf([i \in DOMAIN items |-> walkStmt(items[i], st)])

(***************************************************************************)
(* The loops that do not escape                                            *)
(***************************************************************************)
Analyzed(facts) == {facts.visits[i].for : i \in DOMAIN facts.visits}
Revisited(facts) == {facts.visits[i].for : i \in {j \in DOMAIN facts.visits : \E h \in 1..j - 1 : facts.visits[h].for = facts.visits[j].for}}
Parents(facts, names) == {facts.visits[i].parent : i \in {j \in DOMAIN facts.visits : facts.visits[j].for \in names}} \ {""}

RECURSIVE propagate(_, _)
\* An escaping loop value reaches the enclosing one through its parent.
propagate(facts, escaping) ==
  IF Parents(facts, escaping) \subseteq escaping THEN escaping ELSE propagate(facts, escaping \cup Parents(facts, escaping))

analyzeLoopEscapes(items) ==
  LET facts == walkItems(items, At(Root))
  IN Analyzed(facts) \ (propagate(facts, facts.escapes \cup Revisited(facts)) \cup facts.fused)

=============================================================================
