------------------------------ MODULE Documents ------------------------------
(***************************************************************************)
(* The documents the parser is checked on: every expression in every place *)
(* of every expression, two deep, and every statement with the expressions *)
(* and bodies that are hardest to tell from what follows them.             *)
(***************************************************************************)
EXTENDS Grammar

Var(v) == N("Name", v, <<>>)
X == Var("x")
Y == Var("y")
Numeral1 == N("Int", "1", <<>>)
Str == N("String", "'s'", <<>>)
Arg(e) == N("Arg", "", <<e>>)
Named(e) == Node("Arg", "y", {"named"}, <<e>>)
Rest(e) == Node("Arg", "", {"..."}, <<e>>)
Infixes == {"or", "xor", "and", "b_or", "b_xor", "b_and", "<", "..", "~", "+", "-", "*", "//"}
Infix(op, a, b) == N(IF op \in {"or", "xor", "and"} THEN "Logical" ELSE "Binary", op, <<a, b>>)
Test(e, args) == N("Test", "even", <<e>> \o args)

\* Every place of an expression that an expression can stand in.
Around(t) ==
  UNION {{Infix(op, t, Y), Infix(op, Y, t)} : op \in Infixes}
  \cup UNION {{N(k, "", <<t, Y>>), N(k, "", <<Y, t>>)} : k \in {"Coalesce", "Elvis", "Power", "Index"}}
  \cup {Node("Membership", "not", {"in"}, <<t, Y>>), Node("Membership", "has", {"every"}, <<Y, t>>)}
  \cup {N("Unary", op, <<t>>) : op \in {"not", "-"}}
  \cup {N("Ternary", "", <<t, X, Y>>), N("Ternary", "", <<X, t, Y>>), N("Ternary", "", <<X, Y, t>>), N("Ternary", "", <<X, t, Empty>>)}
  \cup {N("Assign", "", <<N("Target", "x", <<>>), t>>), N("Arrow", "", <<N("Param", "x", <<>>), t>>),
        N("Arrow", "", <<Node("Param", "x", {":", "="}, <<N("Type", "int", <<>>), t>>), Node("Param", "y", {"..."}, <<>>), X>>)}
  \cup {N("Attr", "f", <<t>>), Node("Attr", "in", {"?"}, <<t>>), Node("Index", "", {"?"}, <<Y, t>>),
        N("Slice", "", <<Y, t, Elided>>), N("Slice", "", <<Y, Elided, t>>), N("Slice", "", <<t, X, Y>>)}
  \cup {N("Call", "", <<t, Arg(X), Named(Y)>>), N("Call", "", <<X, Rest(t), Named(t), Rest(Y)>>), N("Filter", "f", <<t>>), N("Filter", "f", <<Y, Arg(t)>>)}
  \cup {Test(t, <<>>), Test(Y, <<Arg(t)>>), Node("Test", "divisible", {"not", "by"}, <<t, Arg(Numeral1)>>)}
  \cup {N("List", "", <<t, N("Spread", "", <<Y>>)>>), N("Map", "", <<N("Entry", "x", <<>>), Node("Entry", "y", {":"}, <<t>>), Node("Entry", "", {"("}, <<t, X>>)>>)}
  \cup {N("Quoted", "", <<t>>), N("Quoted", "", <<Str, t, X>>)}

PlainTypes == {N("Type", "int", <<>>), N("Type", "list", <<N("Type", "any", <<>>)>>), N("Type", "Object", <<Str>>)}
Annotations == PlainTypes \cup {N("Type", "map", <<a, b>>) : a, b \in PlainTypes} \cup {Node("Type", "union", {"?"}, <<a>>) : a \in PlainTypes}
  \cup {N("Type", "union", <<a, b>>) : a, b \in PlainTypes} \cup {N("Type", "arrow", <<a, b>>) : a, b \in PlainTypes} \cup {N("Type", "group", <<a>>) : a \in PlainTypes}

Slots == {N("Target", "x", <<>>), N("Target", "x", <<N("Type", "int", <<>>)>>), Elided, N("ListPattern", "", <<N("Target", "y", <<>>)>>),
          N("MapPattern", "", <<N("MapTarget", "x", <<>>), Node("MapTarget", "y", {":"}, <<Var("f")>>)>>)}
Maybe == N("Optional", "", <<N("Target", "y", <<>>)>>)
SpreadTail == N("Spread", "", <<Var("f")>>)
Patterns == {N("ListPattern", "", p) : p \in {<<a, b>> : a, b \in Slots \ {Elided}} \cup {<<Elided, a, Maybe, Maybe>> : a \in Slots \ {Elided}} \cup {<<a, Maybe, SpreadTail>> : a \in Slots}}

Exprs == {X, Test(X, <<>>), Infix("or", X, Test(Y, <<>>)), N("Map", "", <<Node("Entry", "x", {":"}, <<Numeral1>>)>>), N("Arrow", "", <<N("Param", "x", <<>>), X>>),
  N("Power", "", <<N("Unary", "-", <<X>>), Numeral1>>), N("Quoted", "", <<Str, Infix("*", X, Y)>>)}
Bodies == {<<>>, <<N("Text", "", <<>>), N("Print", "", <<X>>)>>, <<N("@sandbox", "", <<N("Text", "", <<>>)>>)>>}
Params == {N("Params", "", p) : p \in {<<>>, <<N("Param", "x", <<>>), Node("Param", "y", {"="}, <<Numeral1>>)>>, <<Node("Param", "x", {"..."}, <<>>), Node("Param", "y", {"**"}, <<>>)>>}}
Clause(c, b) == Node("Clause", "", {"if"}, <<c>> \o b)
Else(b) == N("Clause", "", b)
BodyNode(b) == N("Body", "", b)
Mods == SUBSET {"with", "only", "missing"}

Statements ==
  {N(k, "", <<e>>) : k \in {"@do", "@log", "@extends"}, e \in Exprs} \cup {N("@flush", "", <<>>), N("@line", "1", <<>>), N("@yield", "f", <<>>)}
  \cup {N("@deprecated", "", <<Str>>), Node("@deprecated", "", {"since"}, <<Str, Str>>)}
  \cup {Node("@include", "", m, <<e>> \o (IF "with" \in m THEN <<Y>> ELSE <<>>)) : m \in Mods, e \in Exprs}
  \cup {Node("@embed", "", m, <<Str>> \o (IF "with" \in m THEN <<e>> ELSE <<>>) \o b) : m \in Mods, e \in Exprs, b \in Bodies}
  \cup {N("@use", "", <<e>>) : e \in Exprs} \cup {Node("@use", "", {"with"}, <<e, N("Map", "", <<Node("Entry", "x", {":"}, <<Y>>)>>)>>) : e \in Exprs}
  \cup {N("@import", "f", <<e>>) : e \in Exprs \cup {N("SpecialName", "_self", <<>>)}}
  \cup {N("@from", "", <<e, N("FromItem", "f", <<>>), N("FromItem", "g", <<X>>)>>) : e \in Exprs}
  \cup {N("@with", "", <<e>> \o b) : e \in Exprs, b \in Bodies} \cup {Node("@with", "", {"only"}, <<e>> \o b) : e \in Exprs, b \in Bodies}
  \cup {N("@escape", "html", b) : b \in Bodies} \cup {N("@provide", "f", b) : b \in Bodies} \cup {N("@sandbox", "", b) : b \in Bodies}
  \cup {N("@tab", "", <<e>> \o b) : e \in Exprs, b \in Bodies}
  \cup {N("@guard", "filter", <<Str>> \o b \o c) : b \in Bodies, c \in {<<>>} \cup {<<Else(d)>> : d \in Bodies}}
  \cup {N("@apply", "", <<N("ApplyFilter", "f", <<>>), N("ApplyFilter", "g", <<Arg(e)>>)>> \o b) : e \in Exprs, b \in Bodies}
  \cup {N("@cache", "", <<N("CacheArg", "x", <<e>>), N("CacheArg", "y", <<d>>)>> \o b) : e \in Exprs, d \in Exprs, b \in Bodies}
  \cup {N("@types", "", c) : c \in {<<>>} \cup {<<N("TypeDecl", "x", <<t>>), N("TypeDecl", "y", <<u>>)>> : t, u \in Annotations}}
  \cup {N("@macro", "f", <<ps>> \o t \o b) : ps \in Params, t \in {<<>>} \cup {<<u>> : u \in Annotations}, b \in Bodies}
  \cup {N("@call", "f", <<ps, Arg(e), Rest(X), BodyNode(b)>>) : ps \in Params, e \in Exprs, b \in Bodies}
  \cup {N("@block", "f", b) : b \in Bodies} \cup {Node("@block", "f", {"params"}, <<ps>> \o b) : ps \in Params, b \in Bodies}
  \cup {Node("@block", "f", {"value"}, <<e>>) : e \in Exprs} \cup {Node("@block", "f", {"value", "params"}, <<ps, N("Type", "int", <<>>), e>>) : ps \in Params, e \in Exprs}
  \cup {N("@if", "", <<Clause(e, b)>> \o c) : e \in Exprs, b \in Bodies, c \in {<<>>, <<Clause(Y, <<>>)>>, <<Else(<<>>)>>, <<Clause(Y, <<>>), Clause(X, <<>>), Else(<<N("Text", "", <<>>)>>)>>}}
  \cup {Node("@for", "", f, <<N("Target", "x", <<>>)>> \o (IF "two" \in f THEN <<N("Target", "y", <<N("Type", "int", <<>>)>>)>> ELSE <<>>) \o <<e>> \o g
            \o <<BodyNode(b)>> \o (IF "else" \in f THEN <<BodyNode(b)>> ELSE <<>>)) :
         f \in SUBSET {"two", "recursive", "else"}, e \in Exprs, g \in {<<>>} \cup {<<Clause(d, <<>>)>> : d \in Exprs}, b \in Bodies}
  \cup {N("Capture", "x", t \o b) : t \in {<<>>, <<N("Type", "int", <<>>)>>}, b \in Bodies}
  \cup {N("Set", "", <<N("Targets", "", <<t>>), e>>) : t \in Patterns \cup (Slots \ {Elided}), e \in Exprs}
  \cup {N("Set", "", <<N("Targets", "", <<t, u>>), e, X>>) : t, u \in Slots \ {Elided}, e \in Exprs}
  \cup {N("Set", "", <<N("Targets", "", <<N("Attr", "f", <<N("Index", "", <<X, e>>)>>)>>), e>>) : e \in Exprs}
  \cup {N("Print if", w, <<e, d>> \o o) : w \in {"if", "unless"}, e, d \in Exprs, o \in {<<>>, <<Y>>}}

Printed(t) == <<N("Print", "", <<t>>)>>

\* What the parser is known not to read back (see Grammar).
Exempt(items) ==
  LET toks == SpellItems(items)
  IN GroupInString(toks) \/ OptionalInParams(toks) \/ TestThenWord(toks) \/ ValueInParens(toks)
=============================================================================
