---------------------------- MODULE LoopPrograms ----------------------------
(***************************************************************************)
(* The programs the loop analyses are checked on: two nested loops in      *)
(* which an expression of the loop variable is stored or rendered from one *)
(* place through one construct, and what was stored is read after both     *)
(* loops have ended; and a live loop over a collection that its body, or   *)
(* text spliced into it, writes in place.                                  *)
(***************************************************************************)
EXTENDS LoopRun

Name(x) == N("Name", x, <<>>)
Loop == Name("loop")
Attr(e, m) == N("Attr", m, <<e>>)
Str(x) == N("String", x, <<>>)
Show(e) == N("Print", "", <<e>>)
To(x, e) == N("Set", "", <<N("Target", x, <<>>), e>>)
MapOf(k, e) == N("Map", k, <<e>>)
Two(a, b) == N("List", "", <<Str(a), Str(b)>>)
Arrow(e) == N("Arrow", "", <<e>>)
Call(f, args) == N("Call", "", <<Name(f)>> \o args)
If(c, items) == N("If", "", <<Node("Clause", "", {"if"}, <<c>> \o items)>>)
For(x, coll, items) == N("For", x, <<coll, N("Body", "", items)>>)
ForIf(x, coll, cond, items) == Node("For", x, {"if"}, <<coll, cond, N("Body", "", items)>>)

\* The cell that outlives the loops; it keeps the first value it is given.
Held == Attr(Name("box"), "value")
Hold(e) == N("Set", "", <<Held, e>>)
Once(items) == <<If(N("Test", "null", <<Held>>), items)>>

\* What is stored: the loop value, something it holds, or something that closes over it.
Escapees ==
  {Loop, Attr(Loop, "parent"), Attr(Loop, "prev"), Attr(Loop, "index"), N("Index", "next", <<Loop>>), Attr(Attr(Loop, "parent"), "index"),
   Attr(Attr(Loop, "parent"), "next"), Node("Attr", "index", {"?"}, <<Loop>>), N("List", "", <<Loop>>), MapOf("k", Attr(Loop, "parent")),
   N("_context", "", <<>>), Call("context", <<>>), N("Assign", "loop", <<Loop>>), N("Assign", "loop", <<Attr(Loop, "parent")>>), N("Filter", "raw", <<Loop>>),
   Arrow(Loop), Arrow(Attr(Loop, "next")), Arrow(Attr(Loop, "index")), Arrow(Attr(Attr(Loop, "parent"), "prev")), Arrow(Call("context", <<>>)),
   Arrow(N("Filter", "raw", <<Attr(Loop, "next")>>))}

\* The construct it is stored through.
Wraps == {"plain", "name", "with", "only", "withloop", "capture", "block", "call", "do", "include", "includewith", "embed"}
Wrapped(e, w) ==
  CASE w = "plain" -> Once(<<Hold(e)>>)
    [] w = "name" -> <<If(N("Test", "null", <<Name("keep")>>), <<To("keep", e)>>)>>
    [] w = "with" -> <<N("With", "", <<MapOf("a", Str("1"))>> \o Once(<<Hold(e)>>))>>
    [] w = "only" -> <<Node("With", "", {"only"}, <<MapOf("box", Name("box"))>> \o Once(<<Hold(Str("x"))>>))>>
    [] w = "withloop" -> <<N("With", "", <<MapOf("loop", e)>> \o Once(<<Hold(Loop)>>))>>
    [] w = "capture" -> <<N("Capture", "t", Once(<<Hold(e)>>))>>
    [] w = "block" -> <<N("Block", "b", <<>>)>>
    [] w = "call" -> <<Show(Call("block", <<Str("b")>>))>>
    [] w = "do" -> Once(<<N("Do", "", <<N("Assign", "t", <<e>>)>>), Hold(Name("t"))>>)
    [] w = "include" -> <<N("Include", "p", <<>>)>>
    [] w = "includewith" -> <<Node("Include", "p", {"with", "only"}, <<MapOf("loop", Loop)>>)>>
    [] w = "embed" -> <<N("Embed", "p", <<N("Block", "e", Once(<<Hold(e)>>))>>)>>
Partials(e, w) ==
  [p |-> CASE w \in {"include", "includewith"} -> Once(<<Hold(e)>>) [] w = "embed" -> <<N("Block", "e", <<>>)>> [] OTHER -> <<>>]
BlocksOf(w, items) == IF w \in {"block", "call"} THEN [b |-> <<N("Block", "b", items)>>] ELSE <<>>

Places == {"outer", "inner", "after"}
Inners == {"plain", "fused", "fusedloop", "same"}
InnerFor(k, items) ==
  CASE k = "plain" -> For("j", Two("c", "d"), items)
    [] k = "fused" -> ForIf("j", Two("c", "d"), Attr(Loop, "index"), items)
    [] k = "fusedloop" -> ForIf("j", Two("c", "d"), N("Assign", "loop", <<Name("j")>>), items)
    [] k = "same" -> For("loop", Two("c", "d"), items)

\* How what was stored is read at the end.
K == Name("k")
Readers ==
  {<<Show(e)>> : e \in {K, Call("k", <<>>), Attr(K, "index"), Attr(K, "prev"), Attr(K, "next"), Attr(Attr(K, "parent"), "index"),
     Attr(Attr(K, "parent"), "next"), Attr(Attr(K, "loop"), "next"), Attr(Attr(K, "loop"), "index"), Attr(Attr(K, "0"), "next"), Attr(Attr(K, "k"), "index")}}
  \cup {<<To("q", Call("k", <<>>)), Show(Attr(Name("q"), "next"))>>}

Keeping(x) ==
  LET stored == Wrapped(x.e, x.w)
      Here(place) == IF x.p = place THEN stored ELSE <<>>
      outer == For("i", Two("a", "b"), Here("outer") \o <<InnerFor(x.i, Here("inner") \o <<Show(Name("j"))>>)>> \o Here("after"))
  IN Program(<<To("keep", N("Null", "", <<>>)), outer, For("z", Two("e", "f"), <<Show(Name("z"))>>),
               To("k", IF x.w = "name" THEN Name("keep") ELSE Held)>> \o x.r,
             Partials(x.e, x.w), BlocksOf(x.w, Once(<<Hold(x.e)>>)))

\* The live loop's own text, an override or a partial writes the collection it is over.
Write == N("Set", "", <<N("Index", "1", <<Held>>), Str("z")>>)
Writer(w, own) ==
  CASE w = "with" -> <<N("With", "", <<MapOf("a", Str("1")), Write>>)>>
    [] w = "capture" -> <<N("Capture", "t", <<Write>>)>>
    [] w = "block" -> <<N("Block", "b", IF own THEN <<Write>> ELSE <<>>)>>
    [] w = "call" -> <<Show(Call("block", <<Str("b")>>))>>
    [] w = "include" -> <<N("Include", "p", <<>>)>>
    [] w = "embed" -> <<N("Embed", "p", <<N("Block", "e", <<Write>>)>>)>>
    [] OTHER -> <<Write>>
Writing(x) ==
  LET body == <<Show(Name("i"))>> \o (IF x.p = "inner" THEN <<For("j", Two("c", "d"), Writer(x.w, x.own))>> ELSE Writer(x.w, x.own)) \o <<Show(x.e)>>
      loop == IF x.p = "after" THEN ForIf("i", Held, Attr(Loop, "index"), body) ELSE For("i", Held, body)
  IN Program(<<Hold(Two("a", "b")), loop>>,
             [p |-> CASE x.w = "include" -> <<Write>> [] x.w = "embed" -> <<N("Block", "e", <<>>)>> [] OTHER -> <<>>],
             BlocksOf(x.w, <<Write>>))

Shapes(e) ==
  {[e |-> e, w |-> w, i |-> i, p |-> p, r |-> r] : w \in Wraps, i \in Inners, p \in Places, r \in Readers}
WritesOf(e) ==
  IF e \in {Attr(Loop, "index"), Attr(Loop, "prev"), Attr(Loop, "next")}
  THEN {[e |-> e, w |-> w, p |-> p, own |-> own] : w \in Wraps, p \in Places, own \in BOOLEAN} ELSE {}
=============================================================================
