------------------------------- MODULE MCSlots -------------------------------
(***************************************************************************)
(* Every template of up to MaxOps operations, and what it should print.    *)
(***************************************************************************)
EXTENDS Slots

CONSTANTS
  MaxOps,          \* bound: operations in a template
  YieldInProvide,  \* templates may @yield inside a @provide body
  SlotInCache,     \* templates may call slot() inside a @cache body
  A, B, K          \* model values

TwoLabels == {A, B}
OneKey == {K}
LabelSymmetry == Permutations(TwoLabels)

Atoms(inProvide, inCache) ==
  {Op("text", None)}
  \cup {Op("yield", l) : l \in IF inProvide /\ ~YieldInProvide THEN {} ELSE TwoLabels}
  \cup {Op("slot", l) : l \in IF inCache /\ ~SlotInCache THEN {} ELSE TwoLabels}

Brackets == {Op("include", None), Op("cache", K)}
            \cup {Op("provide", l) : l \in {A, B}}

Concat(S, T) == {s \o t : s \in S, t \in T}

(* Shapes[n, p, c]: what n operations can be, inside a provide (p) or a    *)
(* cache (c), by the first of them.                                        *)
Shapes[n \in 0..MaxOps, inProvide, inCache \in BOOLEAN] ==
  IF n = 0 THEN {<<>>}
  ELSE Concat({<<a>> : a \in Atoms(inProvide, inCache)}, Shapes[n-1, inProvide, inCache])
       \cup UNION {Concat({<<b>>},
                          Concat(Shapes[m, inProvide \/ b.op = "provide", inCache \/ b.op = "cache"],
                                 Concat({<<Op("end", None)>>}, Shapes[n-2-m, inProvide, inCache]))) :
                     m \in 0..(n-2), b \in Brackets}

(* A key names one region: two regions under one key share their text. *)
MCTemplates ==
  {p \in Shapes[MaxOps, FALSE, FALSE] : Cardinality({i \in DOMAIN p : p[i].op = "cache"}) <= 1}

ASSUME FragmentAssumption ==
  \A p \in Templates : /\ ~YieldInProvide => YieldsOutsideProvides(p)
                       /\ ~SlotInCache => SlotsOutsideCaches(p)

-----------------------------------------------------------------------------
(* The reference: text goes to the innermost enclosing provide, or to the  *)
(* output; slot(l) copies what was provided before it, @yield l all of it. *)

Sink(p, i) ==
  Max({0} \cup {j \in 1..i : p[j].op = "provide" /\ EndOf(p, j) > i})

RECURSIVE Written(_, _), Held(_, _, _)

(* What the operations of p write to the output (0) or in provide b. *)
Written(p, b) ==
  FlattenSeq([i \in DOMAIN p |->
    CASE Sink(p, i) # b -> <<>>
      [] p[i].op = "text" -> <<i>>
      [] p[i].op = "slot" -> Held(p, p[i].arg, i)
      [] p[i].op = "yield" -> Held(p, p[i].arg, Len(p) + 1)
      [] OTHER -> <<>>])

(* What slot l holds when operation i runs: the provides closed by then. *)
Held(p, l, i) ==
  FlattenSeq([e \in 1..(i-1) |->
    FlattenSeq(SetToSeq({Written(p, b) :
      b \in {j \in 1..e : p[j].op = "provide" /\ p[j].arg = l
                          /\ EndOf(p, j) = e}}))])

(* A render that ends well prints what the template says, however its text was
   captured, cached, replayed from the cache or deferred. *)
PrintsReference ==
  result # None /\ ~failed => [i \in DOMAIN result |-> result[i].text] = Written(prog, 0)

(* The operations done with before the outermost capture open at pc. *)
Reached ==
  Min({pc} \cup {j \in DOMAIN prog : /\ prog[j].op \in {"provide", "cache", "include"}
                                     /\ Encloses(prog, j, pc)})

Before == SubSeq(prog, 1, Reached - 1)

(* A render that fails hands back exactly what came before the error outside
   every capture (renderBuffered returns the partial buffer): slots read and
   cached bodies replayed by then are in it, a deferred slot is still its
   placeholder, and nothing of a capture that never ended is. *)
PartialPrints ==
  failed => /\ LET text == SelectSeq(result, LAMBDA item : ~IsPlaceholder(item))
                IN  [i \in DOMAIN text |-> text[i].text]
                      = Written([i \in DOMAIN Before |-> IF Before[i].op = "yield"
                                                         THEN Op("yield", None) ELSE Before[i]], 0)
            /\ \A l \in TwoLabels :
                 Cardinality({i \in DOMAIN result : result[i] = Placeholder(render, l)})
                   = Cardinality({i \in DOMAIN Before : Before[i] = Op("yield", l)})
=============================================================================
