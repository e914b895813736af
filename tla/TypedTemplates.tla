--------------------------- MODULE TypedTemplates ---------------------------
(***************************************************************************)
(* The templates the type checker is checked on: two names of every pair   *)
(* of declared types in every expression one deep, narrowed by every test  *)
(* and pair of tests, in assignments, loops and @if chains, one annotated  *)
(* with the type of the other, and two deep for some types.                *)
(***************************************************************************)
EXTENDS Typing

Type(k, ts) == N("Type", k, ts)
IntType == Type("int", <<>>)
StringType == Type("string", <<>>)
HostType == Type("Object", <<N("String", "H", <<>>)>>)
ListType(t) == Type("list", <<t>>)
MapType(t, u) == Type("map", <<t, u>>)
Opt(t) == Node("Type", "union", {"?"}, <<t>>)
Or(t, u) == Type("union", <<t, u>>)

DeclaredTypes ==
  {IntType, StringType, Type("float", <<>>), Type("bool", <<>>), Type("any", <<>>), HostType, Opt(IntType), Opt(HostType), Or(IntType, Type("float", <<>>)), Or(IntType, StringType),
   ListType(IntType), ListType(StringType), ListType(ListType(IntType)), Opt(ListType(IntType)), MapType(StringType, IntType), MapType(IntType, StringType), Or(MapType(StringType, IntType), HostType),
   Or(ListType(IntType), MapType(StringType, StringType))}
DeepTypes == {IntType, StringType, Opt(HostType), Or(IntType, StringType), ListType(IntType), Opt(ListType(IntType)), MapType(StringType, IntType)}

X == N("Name", "x", <<>>)
Y == N("Name", "y", <<>>)
Literals == {N("Int", "", <<>>), N("String", "", <<>>), N("Null", "", <<>>)}
Binary(op, t, u) == N("Binary", op, <<t, u>>)
Map(es) == N("Map", "", es)

\* Every place of an expression that an operand can stand in.
Around(t) ==
  {Binary(op, t, u) : op \in {"+", "/", "~", "==", "<", "<=>"}, u \in {Y} \cup Literals} \cup {Binary(op, Y, t) : op \in {"*", "~"}}
  \cup {N("Power", "", <<t, Y>>), N("Unary", "-", <<t>>), N("Unary", "not", <<t>>), N("List", "", <<t, Y>>), N("List", "", <<N("Spread", "", <<t>>), Y>>)}
  \cup {Map(<<Node("Entry", "f", {":"}, <<t>>), Node("Entry", "g", {":"}, <<Y>>)>>), Map(<<Node("Entry", "", {"("}, <<t, Y>>)>>), Map(<<Node("Entry", "", {"..."}, <<t>>)>>)}
  \cup {Node("Attr", "f", q, <<t>>) : q \in {{}, {"?"}}} \cup {N("Attr", "g", <<t>>)} \cup {Node("Index", "", q, <<t, u>>) : q \in {{}, {"?"}}, u \in {Y} \cup Literals}
  \cup {N("Filter", "default", <<t, N("Arg", "", <<Y>>)>>), N("Coalesce", "", <<t, Y>>), N("Elvis", "", <<t, Y>>), N("Logical", "and", <<t, Y>>), N("Test", "defined", <<t>>)}
  \cup {N("Ternary", "", <<t, X, Y>>), N("Ternary", "", <<Y, t, Y>>)}

Tests == {Node("Test", w, q, <<X>>) : w \in {"null", "int", "string", "float", "iterable", "sequence", "mapping"}, q \in {{}, {"not"}}}
Guarded ==
  {N("Ternary", "", <<c, t, N("Int", "", <<>>)>>) :
     c \in Tests \cup {N("Logical", op, <<c, d>>) : op \in {"and", "or"}, c, d \in Tests},
     t \in {Binary("+", X, X), N("Attr", "f", <<X>>), Binary("~", X, X), N("Unary", "-", <<X>>), X}}

Types(t, u) == N("@types", "", <<N("TypeDecl", "x", <<t>>), N("TypeDecl", "y", <<u>>)>>)
Shown(e) == N("Print", "", <<e>>)
Target(x) == N("Target", x, <<>>)
Set(x, e) == N("Set", "", <<N("Targets", "", <<Target(x)>>), e>>)
For(targets, e, body) == Node("@for", "", IF Len(targets) = 2 THEN {"two"} ELSE {}, targets \o <<e, N("Body", "", body)>>)
Uses(x) == Shown(Binary("+", N("Name", x, <<>>), Y))
Chain(c, d, last) ==
  N("@if", "", <<Node("Clause", "", {"if"}, <<c, Uses("x")>>), Node("Clause", "", {"if"}, <<d, Shown(Binary("~", X, Y))>>), N("Clause", "", <<last>>)>>)

\* A name whose annotation takes over x.
SetTyped(t) == N("Set", "", <<N("Targets", "", <<N("Target", "a", <<t>>)>>), X>>)
A == N("Name", "a", <<>>)
Looks ==
  {Binary("+", A, Y), Binary("~", A, Y), Binary("<", A, Y), N("Attr", "f", <<A>>), Node("Attr", "f", {"?"}, <<A>>), N("Index", "", <<A, Y>>),
   N("Ternary", "", <<Node("Test", "null", {"not"}, <<A>>), Binary("+", A, A), Y>>)}
=============================================================================
