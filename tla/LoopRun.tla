------------------------------- MODULE LoopRun -------------------------------
(***************************************************************************)
(* What a program with loops prints, by the three ways there are to run    *)
(* its loops: with a fresh loop value and a fresh snapshot for each        *)
(* (internal/interp/exec.go, both switches off), with one loop value and a *)
(* pooled snapshot for the loops that LoopEscape clears, and by the        *)
(* lowering of internal/compile that LoopLowering plans.                   *)
(*                                                                         *)
(* Frames, arrays, loop values and snapshots live in heaps of the machine, *)
(* so a value kept after its iteration shows what became of it.  A value   *)
(* is a text, an array, a loop, a cell (a host object with one member), an *)
(* arrow with its frame, or absent.                                        *)
(***************************************************************************)
EXTENDS LoopLowering, TLC

Value(k, v) == [k |-> k, v |-> v, n |-> Empty, t |-> ""]
TextOf(s) == [Value("text", 0) EXCEPT !.t = s]
NullValue == Value("null", 0)
Absent == Value("absent", 0)
Pair(key, val) == [key |-> key, val |-> val]

Mode(safe, plan) == [safe |-> safe, inline |-> plan.inline, live |-> plan.live, reads |-> plan.reads]
NoPlan == [inline |-> {}, live |-> {}, reads |-> {}]
Start(program, mode) ==
  \* The host passes a cell, and the pool has a buffer from an earlier render.
  [frames |-> <<[vars |-> "box" :> Value("cell", 0), up |-> 0]>>, arrays |-> <<>>, loops |-> <<>>, buffers |-> <<<<Pair("0", TextOf("old")), Pair("1", TextOf("old"))>>>>, pool |-> <<1>>,
   cell |-> NullValue, running |-> <<>>, block |-> <<>>, blocks |-> program.blocks, program |-> program, mode |-> mode, out |-> <<>>, e |-> ""]

(***************************************************************************)
(* Scopes: a name is bound in the frame at hand and read from the nearest  *)
(***************************************************************************)
Bound(m, f, name) == name \in DOMAIN m.frames[f].vars
RECURSIVE Get(_, _, _), VisibleNames(_, _)
Get(m, f, name) == IF f = 0 THEN Absent ELSE IF Bound(m, f, name) THEN m.frames[f].vars[name] ELSE Get(m, m.frames[f].up, name)
VisibleNames(m, f) == IF f = 0 THEN {} ELSE DOMAIN m.frames[f].vars \cup VisibleNames(m, m.frames[f].up)
Bind(m, f, name, v) == [m EXCEPT !.frames[f].vars = (name :> v) @@ @]
Child(m, f) == [m EXCEPT !.frames = Append(@, [vars |-> <<>>, up |-> f])]
BindAll(m, f, pairs) == FoldLeft(LAMBDA acc, p : Bind(acc, f, p.key, p.val), m, pairs)
CopyBack(m, from, to, except) ==
  FoldLeft(LAMBDA acc, name : Bind(acc, to, name, Get(m, from, name)), m, SetToSeq(VisibleNames(m, to) \ except))

Got(m, v) == [m |-> m, v |-> v]
Failed(m, e) == [m EXCEPT !.e = IF @ = "" THEN e ELSE @]
NewArray(m, pairs) == Got([m EXCEPT !.arrays = Append(@, pairs)], Value("array", Len(m.arrays) + 1))
NewLoop(m, step, buffer, size, parent) ==
  Got([m EXCEPT !.loops = Append(@, [step |-> step, buffer |-> buffer, size |-> size, parent |-> parent])], Value("loop", Len(m.loops) + 1))
\* Every visible name with its value; a loop lowered without a value gets one here.
ContextOf(m, f) ==
  LET names == SetToSeq({name \in VisibleNames(m, f) : Get(m, f, name).k # "absent"})
      run == Last(m.running)
      lowered == "loop" \in VisibleNames(m, f) /\ Get(m, f, "loop").k = "absent"
      loop == NewLoop(m, run.step, run.buffer, run.size, NullValue)
      pairs == [i \in DOMAIN names |-> Pair(names[i], Get(m, f, names[i]))]
  IN IF lowered THEN NewArray(loop.m, Append(pairs, Pair("loop", loop.v))) ELSE NewArray(m, pairs)

(***************************************************************************)
(* The members of a loop                                                   *)
(***************************************************************************)
GetField(field, step, size, entries, parent) ==
  CASE field = "index" -> TextOf(ToString(step + 1))
    [] field = "first" -> TextOf(IF step = 0 THEN "1" ELSE "")
    [] field = "last" -> TextOf(IF step = size - 1 THEN "1" ELSE "")
    [] field = "length" -> TextOf(ToString(size))
    [] field = "prev" -> IF step > 0 THEN entries[step].val ELSE NullValue
    [] field = "next" -> IF step < size - 1 THEN entries[step + 2].val ELSE NullValue
    [] field = "parent" -> parent
    [] OTHER -> Absent

\* The registers of the innermost run of a lowered loop.
emitInlineLoopField(m, read) ==
  LET run == Last(SelectSeq(m.running, LAMBDA r : r.for = Last(read.chain)))
  IN GetField(read.node.s, run.step, run.size, IF run.live THEN m.arrays[run.array] ELSE m.buffers[run.buffer], NullValue)

Member(m, recv, name) ==
  CASE recv.k = "loop" -> LET l == m.loops[recv.v] IN GetField(name, l.step, l.size, m.buffers[l.buffer], l.parent)
    [] recv.k = "cell" -> IF name = "value" THEN m.cell ELSE Absent
    [] recv.k = "array" -> LET at == {i \in DOMAIN m.arrays[recv.v] : m.arrays[recv.v][i].key = name}
                           IN IF at = {} THEN Absent ELSE m.arrays[recv.v][CHOOSE i \in at : TRUE].val
    [] OTHER -> Absent

(***************************************************************************)
(* Expressions                                                             *)
(***************************************************************************)
Plain(v) == v.k = "text" /\ v.t # ""
RECURSIVE eval(_, _, _), elements(_, _, _), exec(_, _, _), execItems(_, _, _), renderBlockAt(_, _, _, _)
elements(ns, m, f) ==
  FoldLeft(LAMBDA acc, n : LET r == eval(n, acc.m, f) IN [m |-> r.m, vals |-> Append(acc.vals, r.v)], [m |-> m, vals |-> <<>>], ns)

Inlined(n, m) == \E r \in m.mode.reads : r.node = n
evalCall(n, m, f) ==
  LET name == n.c[1].s
      captured(after) == Got([after EXCEPT !.out = m.out, !.block = m.block], TextOf(FoldLeft(LAMBDA a, b : a \o b, "", SubSeq(after.out, Len(m.out) + 1, Len(after.out)))))
  IN CASE n.c[1].k = "Name" /\ name = "block" -> captured(renderBlockAt(n.c[2].s, 1, m, f))
       [] n.c[1].k = "Name" /\ name = "parent" -> captured(renderBlockAt(m.block[1].name, m.block[1].depth + 1, m, f))
       [] n.c[1].k = "Name" /\ name = "context" -> ContextOf(m, f)
       [] OTHER -> LET arrow == eval(n.c[1], m, f) \* a name bound to an arrow
                       in == Child(arrow.m, arrow.v.v)
                   IN IF arrow.v.k # "arrow" THEN Got(Failed(arrow.m, "call"), NullValue)
                      ELSE eval(arrow.v.n, in, Len(in.frames))

eval(n, m, f) ==
  LET inner == eval(n.c[1], m, f) IN
  CASE m.e # "" -> Got(m, NullValue)
    [] m.e = "" /\ n.k = "String" -> Got(m, TextOf(n.s))
    [] m.e = "" /\ n.k = "Null" -> Got(m, NullValue)
    [] m.e = "" /\ n.k = "Name" -> LET v == Get(m, f, n.s) IN IF v.k = "absent" THEN Got(Failed(m, "undefined"), NullValue) ELSE Got(m, v)
    [] m.e = "" /\ n.k = "_context" -> ContextOf(m, f)
    [] m.e = "" /\ n.k \in {"Attr", "Index"} ->
         IF Inlined(n, m) THEN Got(m, emitInlineLoopField(m, CHOOSE r \in m.mode.reads : r.node = n))
         ELSE LET v == Member(inner.m, inner.v, n.s) IN IF v.k = "absent" THEN Got(Failed(inner.m, "miss"), NullValue) ELSE Got(inner.m, v)
    [] m.e = "" /\ n.k = "List" -> LET r == elements(n.c, m, f) IN NewArray(r.m, [i \in DOMAIN r.vals |-> Pair(ToString(i - 1), r.vals[i])])
    [] m.e = "" /\ n.k = "Map" -> LET r == elements(n.c, m, f) IN NewArray(r.m, [i \in DOMAIN r.vals |-> Pair(n.s, r.vals[i])])
    [] m.e = "" /\ n.k = "Test" -> Got(inner.m, TextOf(IF inner.v.k = "null" THEN "1" ELSE ""))
    [] m.e = "" /\ n.k = "Filter" -> inner
    [] m.e = "" /\ n.k = "Assign" -> Got(Bind(inner.m, f, n.s, inner.v), inner.v)
    [] m.e = "" /\ n.k = "Arrow" -> Got(m, [Value("arrow", f) EXCEPT !.n = n.c[1]])
    [] m.e = "" /\ n.k = "Call" -> evalCall(n, m, f)

(***************************************************************************)
(* Statements                                                              *)
(***************************************************************************)
renderBlockAt(name, depth, m, f) ==
  IF name \notin DOMAIN m.blocks THEN Failed(m, "block")
  ELSE IF depth > Len(m.blocks[name]) THEN Failed(m, "block")
  ELSE [execItems(m.blocks[name][depth].c, [m EXCEPT !.block = <<[name |-> name, depth |-> depth]>>], f) EXCEPT !.block = m.block]

assignMember(m, f, target, v) ==
  LET recv == eval(target.c[1].c[1], m, f)
      id == recv.m.cell.v
  IN IF recv.v.k # "cell" \/ recv.m.cell.k # "array" THEN Failed(recv.m, "kind")
     ELSE [recv.m EXCEPT !.arrays[id] = [i \in DOMAIN @ |-> IF @[i].key = target.s THEN Pair(target.s, v) ELSE @[i]]]

execSet(n, m, f) ==
  LET r == eval(n.c[2], m, f)
      target == n.c[1]
  IN CASE r.m.e # "" -> r.m
       [] r.m.e = "" /\ target.k = "Target" -> Bind(r.m, f, target.s, r.v)
       [] r.m.e = "" /\ target.k = "Attr" -> [r.m EXCEPT !.cell = r.v]
       [] OTHER -> assignMember(r.m, f, target, r.v)

\* A pooled buffer that is long enough is overwritten where it is.
acquirePairBuf(m, pairs) ==
  LET buffer == Last(m.pool)
      rest == [m EXCEPT !.pool = Front(@)]
  IN IF m.pool # <<>> /\ Len(m.buffers[buffer]) >= Len(pairs)
     THEN Got([rest EXCEPT !.buffers[buffer] = pairs \o SubSeq(@, Len(pairs) + 1, Len(@))], buffer)
     ELSE Got([IF m.pool # <<>> THEN rest ELSE m EXCEPT !.buffers = Append(@, pairs)], Len(m.buffers) + 1)
releasePairBuf(m, buffer) == [m EXCEPT !.pool = Append(@, buffer)]
Snapshot(m, pairs, pooled) == IF pooled THEN acquirePairBuf(m, pairs) ELSE Got([m EXCEPT !.buffers = Append(@, pairs)], Len(m.buffers) + 1)

filterLoopPairs(n, m, pairs, f) ==
  LET scope == Child(m, f)
      g == Len(scope.frames)
      try(acc, p) == LET r == eval(n.c[2], Bind(acc.m, g, n.s, p.val), g)
                     IN [m |-> r.m, kept |-> IF r.m.e = "" /\ Plain(r.v) THEN Append(acc.kept, p) ELSE acc.kept]
  IN IF "if" \in n.f THEN FoldLeft(try, [m |-> scope, kept |-> <<>>], pairs) ELSE [m |-> m, kept |-> pairs]

execFor(n, m, f) ==
  LET safe == n.s \in m.mode.safe
      inline == n.s \in m.mode.inline
      live == n.s \in m.mode.live
      coll == eval(n.c[1], m, f)
      filtered == filterLoopPairs(n, coll.m, coll.m.arrays[coll.v.v], f)
      pairs == filtered.kept
      taken == Snapshot(filtered.m, pairs, safe)
      parent == IF "loop" \in VisibleNames(m, f) /\ Get(m, f, "loop").k # "absent" THEN Get(m, f, "loop") ELSE NullValue
      pushed == Child([taken.m EXCEPT !.running = Append(@, [for |-> n.s, step |-> 0, size |-> Len(pairs), buffer |-> taken.v, array |-> coll.v.v, live |-> live])], f)
      g == Len(pushed.frames)
      cursor == NewLoop(pushed, 0, taken.v, Len(pairs), parent)
      loopAt(acc, i) ==
        CASE inline -> Got(acc, Absent)
          [] safe -> Got([acc EXCEPT !.loops[cursor.v.v].step = i - 1], cursor.v)
          [] OTHER -> NewLoop(acc, i - 1, taken.v, Len(pairs), parent)
      element(acc, i) == IF live THEN acc.arrays[coll.v.v][i].val ELSE acc.buffers[taken.v][i].val
      iterate(acc, i) ==
        IF acc.e # "" THEN acc
        ELSE LET stepped == [acc EXCEPT !.running[Len(acc.running)].step = i - 1]
                 loop == loopAt(Bind(stepped, g, n.s, element(stepped, i)), i)
             IN execItems(n.c[BodyAt(n)].c, Bind(loop.m, g, "loop", loop.v), g)
      ran == FoldLeft(iterate, IF safe THEN cursor.m ELSE pushed, [i \in DOMAIN pairs |-> i])
      left == [(IF safe THEN releasePairBuf(ran, taken.v) ELSE ran) EXCEPT !.running = m.running]
  IN CASE coll.m.e # "" \/ coll.v.k # "array" -> Failed(coll.m, "iterate")
       [] coll.m.e = "" /\ filtered.m.e # "" -> filtered.m
       [] coll.m.e = "" /\ filtered.m.e = "" /\ pairs = <<>> -> IF "else" \in n.f THEN execItems(Last(n.c).c, filtered.m, f) ELSE filtered.m
       [] OTHER -> IF left.e # "" THEN left ELSE CopyBack(left, g, f, {n.s, "loop"})

RECURSIVE execIf(_, _, _)
execIf(clauses, m, f) ==
  IF clauses = <<>> THEN m
  ELSE IF "if" \notin clauses[1].f THEN execItems(clauses[1].c, m, f)
  ELSE LET cond == eval(clauses[1].c[1], m, f) IN
       IF cond.m.e = "" /\ Plain(cond.v) THEN execItems(Tail(clauses[1].c), cond.m, f) ELSE execIf(Tail(clauses), cond.m, f)

\* A body in a scope of its own, over the map that the statement gives it.
Enclosed(n, m, f, map, items) ==
  LET own == IF map = <<>> THEN Got(m, NullValue) ELSE eval(map[1], m, f)
      pushed == Child(own.m, IF "only" \in n.f THEN 0 ELSE f)
      g == Len(pushed.frames)
  IN execItems(items, IF own.v.k = "array" THEN BindAll(pushed, g, own.m.arrays[own.v.v]) ELSE pushed, g)

\* An embed renders its target with its own blocks over the target's.
EmbedBlocks(n, items) ==
  LET over(b) == SelectSeq(n.c, LAMBDA ch : ch.k = "Block" /\ ch.s = b.s)
      blocks == SelectSeq(items, LAMBDA it : it.k = "Block")
  IN FoldLeft(LAMBDA acc, b : (b.s :> Append(over(b), b)) @@ acc, <<>>, blocks)

exec(n, m, f) ==
  LET first == eval(n.c[1], m, f)
      withMap == IF "with" \in n.f THEN <<n.c[1]>> ELSE <<>>
  IN CASE n.k = "Print" -> IF first.m.e = "" /\ first.v.k \notin {"text", "null"} THEN Failed(first.m, "kind") ELSE [first.m EXCEPT !.out = Append(@, first.v.t)]
       [] n.k = "Do" -> first.m
       [] n.k = "If" -> execIf(n.c, m, f)
       [] n.k = "For" -> execFor(n, m, f)
       [] n.k = "Set" -> execSet(n, m, f)
       [] n.k = "Capture" -> LET body == execItems(n.c, m, f) IN [Bind(body, f, n.s, TextOf("captured")) EXCEPT !.out = m.out]
       [] n.k = "With" -> Enclosed(n, m, f, <<n.c[1]>>, Tail(n.c))
       [] n.k = "Escape" -> execItems(n.c, m, f)
       [] n.k = "TabBlock" -> execItems(Tail(n.c), first.m, f)
       [] n.k = "Block" -> renderBlockAt(n.s, 1, m, f)
       [] n.k = "Include" -> Enclosed(n, m, f, withMap, m.program.partials[n.s])
       [] n.k = "Embed" ->
            LET items == m.program.partials[n.s]
            IN [Enclosed(n, [m EXCEPT !.blocks = EmbedBlocks(n, items)], f, withMap, items) EXCEPT !.blocks = m.blocks]
       [] OTHER -> m
execItems(items, m, f) == FoldLeft(LAMBDA acc, n : IF acc.e # "" THEN acc ELSE exec(n, acc, f), m, items)

Rendered(program, mode) == LET m == execItems(program.items, Start(program, mode), 1) IN [out |-> m.out, e |-> m.e]

(***************************************************************************)
(* Properties                                                              *)
(***************************************************************************)
Templates(program) == {program.items} \cup {program.partials[p] : p \in DOMAIN program.partials}
                        \cup UNION {{<<def>> : def \in ToSet(program.blocks[b])} : b \in DOMAIN program.blocks}
forSafe(program) == UNION {analyzeLoopEscapes(items) : items \in Templates(program)}

RECURSIVE Direct(_)
\* The nodes that run with the statement they stand in: not those of an arrow's body.
Direct(n) == {n} \cup IF n.k = "Arrow" THEN {} ELSE UNION {Direct(n.c[i]) : i \in DOMAIN n.c}
Nodes(items) == UNION {Direct(items[i]) : i \in DOMAIN items}
LoopBodies(program) == {n.c[BodyAt(n)].c : n \in {x \in UNION {Nodes(items) : items \in Templates(program)} : x.k = "For"}}
Calls(n, names) == n.k = "Call" /\ n.c[1].k = "Name" /\ n.c[1].s \in names

\* A call that runs a body of the template in the scope of the loop, or hands
\* that scope to a host function, is no escape for loopescape.go (458-479).
HandsScope(program) == \E body \in LoopBodies(program) : \E n \in Nodes(body) : Calls(n, {"block", "parent", "context"})
\* loopopt.go (685) looks for writes in the text of the loop's body, not in
\* the partials and the block definitions that the lowering inlines there.
WritesElsewhere(program) ==
  /\ \E items \in Templates(program) \ {program.items} : bodyMutates(items)
  /\ \E body \in LoopBodies(program) : \E n \in Nodes(body) : n.k \in {"Include", "Block"} \/ Calls(n, {"block", "parent"})

(* exec.go:636 "This is sound precisely because the escape proof guarantees  *)
(* no earlier step's loop value is still reachable to observe the in-place   *)
(* index advance": one loop value for all iterations, and a snapshot drawn   *)
(* from the pool, print what fresh ones do.                                  *)
RendersAsFresh(program) ==
  HandsScope(program) \/ Rendered(program, Mode(forSafe(program), NoPlan)) = Rendered(program, Mode({}, NoPlan))

(* loopopt.go:15 "Any use the analysis cannot prove inline-able forces that  *)
(* loop to materialize the fresh per-iteration value exactly as the          *)
(* interpreter binds it, so frozen-capture semantics stay byte-identical",   *)
(* and a loop over the live array prints what its snapshot would.            *)
LoweredAsInterpreted(program) ==
  WritesElsewhere(program) \/ Rendered(program, Mode({}, analyzeUnitLoops(program))) = Rendered(program, Mode({}, NoPlan))
=============================================================================
