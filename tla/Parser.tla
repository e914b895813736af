------------------------------- MODULE Parser -------------------------------
(***************************************************************************)
(* The parser (pkg/parse): a token stream becomes a syntax tree or an      *)
(* error.  A parser position is a number; every operator returns the node  *)
(* it read and the position after it, or Fails, which is the panic that    *)
(* Parse turns into an error.  Wording and positions of errors are left    *)
(* out.  A token is its spelling; a word operator is an ordinary name, as  *)
(* the lexer leaves it, and a double-quoted string carries its parts.      *)
(***************************************************************************)
EXTENDS Tree

CONSTANT MaxDepth

Ints == {"1", "2"}
Strings == {"'s'", "'t'"}
Keywords == {"true", "false", "null"}
WordOperators == {"and", "or", "xor", "in", "is", "matches", "starts", "ends", "has", "not", "b_and", "b_or", "b_xor"}
Words == WordOperators \cup
  {"x", "y", "f", "g", "even", "same", "as", "divisible", "by", "with", "some", "every", "_self", "_context",
   "if", "unless", "else", "recursive", "capture", "only", "ignore", "missing", "import", "since", "filter",
   "list", "map", "Object", "int", "any", "html"}
Openers == {"(", "[", "{"}
Closers == {")", "]", "}"}

Token(s) == [s |-> s, parts |-> <<>>]
Tokens(ss) == [i \in DOMAIN ss |-> Token(ss[i])]

(***************************************************************************)
(* Results                                                                 *)
(***************************************************************************)
Fails == <<>>
Then(r, K(_, _)) == IF r = Fails THEN Fails ELSE K(r[1], r[2])

\* buildMatch: every bracket is matched with the one that closes it, whatever
\* their kinds; 0 is an opener that nothing closes.
RECURSIVE Matched(_, _, _, _)
Matched(toks, i, stack, m) ==
  IF i > Len(toks) THEN m
  ELSE LET s == toks[i].s
       IN IF s \in Openers THEN Matched(toks, i + 1, <<i>> \o stack, m)
          ELSE IF s \in Closers /\ stack # <<>> THEN Matched(toks, i + 1, Tail(stack), [m EXCEPT ![stack[1]] = i])
          ELSE Matched(toks, i + 1, stack, m)
buildMatch(toks) == Matched(toks, 1, <<>>, [i \in 1..Len(toks) |-> 0])

Parser(toks) == [toks |-> toks, match |-> buildMatch(toks), depth |-> 0]
\* The parser of an interpolated expression starts with no table.
SubParser(toks) == [toks |-> toks, match |-> <<>>, depth |-> 0]

Cur(p, i) == IF i > Len(p.toks) THEN "EOF" ELSE p.toks[i].s
NameAt(p, i) == Cur(p, i) \in Words
Expect(p, r, s) == Then(r, LAMBDA n, j : IF Cur(p, j) = s THEN <<n, j + 1>> ELSE Fails)
Make(r, k, s, before) == Then(r, LAMBDA n, j : <<N(k, s, Append(before, n)), j>>)

enter(p) == [p EXCEPT !.depth = @ + 1]

RECURSIVE Expr(_, _), Coalesce(_, _), Climb(_, _, _), More(_, _, _, _), parsePower(_, _), Unary(_, _), Primary(_, _),
          Postfix(_, _, _), Listed(_, _, _, _, _), Type(_, _), Atoms(_, _, _), Target(_, _), parseTarget(_, _, _), Member(_, _, _),
          Body(_, _), Items(_, _, _), Elseifs(_, _, _), Filters(_, _, _), CacheArgs(_, _, _), FromItems(_, _, _), Types(_, _, _), Pieces(_, _, _, _)

(***************************************************************************)
(* The precedence ladder                                                   *)
(***************************************************************************)
\* Levels 1 and 2: assignment and ternary, which take a whole expression on the right.
Ternary(p, i) ==
  Then(Coalesce(p, i), LAMBDA cond, j :
    IF Cur(p, j) # "?" THEN <<cond, j>>
    ELSE Then(Expr(p, j + 1), LAMBDA then, k :
           IF Cur(p, k) = ":" THEN Make(Expr(p, k + 1), "Ternary", "", <<cond, then>>)
           ELSE <<N("Ternary", "", <<cond, then, Empty>>), k>>))

Expr(p, i) ==
  Then(Ternary(p, i), LAMBDA left, j :
    IF Cur(p, j) # "=" THEN <<left, j>>
    ELSE Then(Expr(p, j + 1), LAMBDA right, k :
           Then(Target(left, k), LAMBDA target, m : <<N("Assign", "", <<target, right>>), m>>)))

Coalesce(p, i) ==
  Then(Climb(p, 4, i), LAMBDA left, j :
    CASE Cur(p, j) = "??" -> Make(Coalesce(p, j + 1), "Coalesce", "", <<left>>)
      [] Cur(p, j) = "?:" -> Make(Coalesce(p, j + 1), "Elvis", "", <<left>>)
      [] OTHER -> <<left, j>>)

\* Levels 4 to 9 and 12 to 14 associate to the left; the operators of each.
LeftLevels == (4..9) \cup (12..14)
LeftOperators(l) ==
  CASE l = 4 -> {"or", "||"} [] l = 5 -> {"xor"} [] l = 6 -> {"and", "&&"}
    [] l = 7 -> {"b_or", "|||"} [] l = 8 -> {"b_xor", "^"} [] l = 9 -> {"b_and", "&"}
    [] l = 12 -> {"~"} [] l = 13 -> {"+", "-"} [] l = 14 -> {"*", "/", "//", "%"}
Canonical(s) ==
  CASE s = "||" -> "or" [] s = "&&" -> "and" [] s = "|||" -> "b_or" [] s = "^" -> "b_xor" [] s = "&" -> "b_and" [] OTHER -> s
KindAt(l) == IF l \in 4..6 THEN "Logical" ELSE "Binary"

More(p, l, left, j) ==
  IF Cur(p, j) \notin LeftOperators(l) THEN <<left, j>>
  ELSE Then(Climb(p, l + 1, j + 1), LAMBDA right, k : More(p, l, N(KindAt(l), Canonical(Cur(p, j)), <<left, right>>), k))

\* Level 10: comparison, membership and test, one at a time.
Comparisons == {"==", "!=", "<", ">", "<=", ">=", "<=>"}
TwoWords == [not |-> {"in"}, starts |-> {"with"}, ends |-> {"with"}, has |-> {"some", "every"}]
\* How many tokens the operator at j has; 0 when there is none.
cmpOp(p, j) ==
  CASE Cur(p, j) \in Comparisons \cup {"in", "matches"} -> 1
    [] Cur(p, j) \in DOMAIN TwoWords -> IF Cur(p, j + 1) \in TwoWords[Cur(p, j)] THEN 2 ELSE 0
    [] OTHER -> 0
Compared(p, j, left, right) ==
  IF Cur(p, j) \in Comparisons THEN N("Binary", Cur(p, j), <<left, right>>)
  ELSE Node("Membership", Cur(p, j), IF cmpOp(p, j) = 2 THEN {Cur(p, j + 1)} ELSE {}, <<left, right>>)

twoWordTest(first, second) == <<first, second>> \in {<<"same", "as">>, <<"divisible", "by">>}
startsTestArg(p, i) == Cur(p, i) \in (Ints \cup Strings \cup Keywords \cup Openers \cup Words) \ WordOperators

parseTest(p, subject, i) ==
  LET neg == IF Cur(p, i) = "not" THEN 1 ELSE 0
      at == i + neg
      two == IF twoWordTest(Cur(p, at), Cur(p, at + 1)) THEN 1 ELSE 0
      next == at + 1 + two
      test == Node("Test", Cur(p, at), (IF neg = 1 THEN {"not"} ELSE {}) \cup (IF two = 1 THEN {Cur(p, at + 1)} ELSE {}), <<subject>>)
  IN IF Cur(p, at) \notin Words \cup Keywords THEN Fails
     ELSE IF Cur(p, next) = "("
     THEN Then(Expect(p, Listed(p, "arg", ")", next + 1, <<>>), ")"), LAMBDA args, k : <<Add(test, args), k>>)
     ELSE IF startsTestArg(p, next)
     THEN Then(Primary(p, next), LAMBDA a, k : <<Add(test, <<N("Arg", "", <<a>>)>>), k>>)
     ELSE <<test, next>>

parseCmp(p, i) ==
  LET Alone(r) == Then(r, LAMBDA n, k : IF cmpOp(p, k) > 0 \/ Cur(p, k) = "is" THEN Fails ELSE <<n, k>>)
  IN Then(Climb(p, 11, i), LAMBDA left, j :
       IF cmpOp(p, j) > 0
       THEN Alone(Then(Climb(p, 11, j + cmpOp(p, j)), LAMBDA right, k : <<Compared(p, j, left, right), k>>))
       ELSE IF Cur(p, j) = "is" THEN Alone(parseTest(p, left, j + 1)) ELSE <<left, j>>)

\* Level 11: a range, which does not chain.
parseRange(p, i) ==
  Then(Climb(p, 12, i), LAMBDA left, j :
    IF Cur(p, j) # ".." THEN <<left, j>>
    ELSE Then(Climb(p, 12, j + 1), LAMBDA right, k :
           IF Cur(p, k) = ".." THEN Fails ELSE <<N("Binary", "..", <<left, right>>), k>>))

Climb(p, l, i) ==
  CASE l \in LeftLevels -> Then(Climb(p, l + 1, i), LAMBDA left, j : More(p, l, left, j))
    [] l = 10 -> parseCmp(p, i)
    [] l = 11 -> parseRange(p, i)
    [] l = 15 -> parsePower(p, i)

\* Levels 15 and 16: a power takes a unary base and a power as exponent; a sign
\* takes a whole power, the other prefixes one unary.
parsePower(p, i) ==
  Then(Unary(p, i), LAMBDA base, j :
    IF Cur(p, j) = "**" THEN Make(parsePower(p, j + 1), "Power", "", <<base>>) ELSE <<base, j>>)

(* Mutant: a sign takes one unary, so that it binds tighter than a power. *)
Prefixed_SignFirst(p, i) ==
  CASE Cur(p, i) \in {"not", "!"} -> Make(Unary(p, i + 1), "Unary", "not", <<>>)
    [] Cur(p, i) \in {"-", "+"} -> Make(Unary(p, i + 1), "Unary", Cur(p, i), <<>>)
    [] Cur(p, i) = "..." -> Make(Unary(p, i + 1), "Spread", "", <<>>)

Prefixed(p, i) ==
  CASE Cur(p, i) \in {"not", "!"} -> Make(Unary(p, i + 1), "Unary", "not", <<>>)
    [] Cur(p, i) \in {"-", "+"} -> Make(parsePower(p, i + 1), "Unary", Cur(p, i), <<>>)
    [] Cur(p, i) = "..." -> Make(Unary(p, i + 1), "Spread", "", <<>>)

Unary(p, i) ==
  IF Cur(p, i) \in {"not", "!", "-", "+", "..."} THEN Prefixed(p, i)
  ELSE Then(Primary(p, i), LAMBDA n, j : Postfix(p, n, j))

(***************************************************************************)
(* Postfix operators and arguments                                         *)
(***************************************************************************)
parseSubscript(p, recv, i) ==
  IF Cur(p, i) = "?["
  THEN Then(Expect(p, Expr(p, i + 1), "]"), LAMBDA key, k : <<Node("Index", "", {"?"}, <<recv, key>>), k>>)
  ELSE Then(IF Cur(p, i + 1) = ":" THEN <<Elided, i + 1>> ELSE Expr(p, i + 1), LAMBDA start, j :
         IF Cur(p, j) # ":" THEN Expect(p, <<N("Index", "", <<recv, start>>), j>>, "]")
         ELSE Expect(p, IF Cur(p, j + 1) = "]" THEN <<N("Slice", "", <<recv, start, Elided>>), j + 1>>
                        ELSE Make(Expr(p, j + 1), "Slice", "", <<recv, start>>), "]"))

parseFilter(p, recv, i) ==
  LET n == N("Filter", Cur(p, i + 1), <<recv>>)
  IN IF ~NameAt(p, i + 1) THEN Fails
     ELSE IF Cur(p, i + 2) # "(" THEN <<n, i + 2>>
     ELSE Then(Expect(p, Listed(p, "arg", ")", i + 3, <<>>), ")"), LAMBDA args, k : <<Add(n, args), k>>)

Postfix(p, recv, j) ==
  LET c == Cur(p, j)
      Continue(r) == Then(r, LAMBDA n, k : Postfix(p, n, k))
  IN CASE c \in {".", "?."} ->
            IF NameAt(p, j + 1) THEN Postfix(p, Node("Attr", Cur(p, j + 1), IF c = "?." THEN {"?"} ELSE {}, <<recv>>), j + 2) ELSE Fails
       [] c \in {"[", "?["} -> Continue(parseSubscript(p, recv, j))
       [] c = "(" -> Continue(Then(Expect(p, Listed(p, "arg", ")", j + 1, <<>>), ")"),
                                   LAMBDA args, k : <<N("Call", "", <<recv>> \o args), k>>))
       [] c = "|" -> Continue(parseFilter(p, recv, j))
       [] OTHER -> <<recv, j>>

parseArg(p, i) ==
  CASE Cur(p, i) = "..." -> Then(Expr(p, i + 1), LAMBDA e, j : <<Node("Arg", "", {"..."}, <<e>>), j>>)
    [] NameAt(p, i) /\ Cur(p, i + 1) = ":" -> Then(Expr(p, i + 2), LAMBDA e, j : <<Node("Arg", Cur(p, i), {"named"}, <<e>>), j>>)
    [] OTHER -> Make(Expr(p, i), "Arg", "", <<>>)

parseParam(p, i) ==
  IF Cur(p, i) \in {"...", "**"}
  THEN IF NameAt(p, i + 1) THEN <<Node("Param", Cur(p, i + 1), {Cur(p, i)}, <<>>), i + 2>> ELSE Fails
  ELSE IF ~NameAt(p, i) THEN Fails
  ELSE Then(IF Cur(p, i + 1) = ":" THEN Type(p, i + 2) ELSE <<Elided, i + 1>>, LAMBDA type, j :
         LET typed == IF type = Elided THEN N("Param", Cur(p, i), <<>>) ELSE Node("Param", Cur(p, i), {":"}, <<type>>)
         IN IF Cur(p, j) # "=" THEN <<typed, j>>
            ELSE Then(Expr(p, j + 1), LAMBDA e, k : <<Add([typed EXCEPT !.f = @ \cup {"="}], <<e>>), k>>))

parseMapEntry(p, i) ==
  CASE Cur(p, i) = "..." -> Then(Expr(p, i + 1), LAMBDA e, j : <<Node("Entry", "", {"..."}, <<e>>), j>>)
    [] Cur(p, i) = "(" ->
         Then(Expect(p, Expect(p, Expr(p, i + 1), ")"), ":"), LAMBDA key, j :
           Then(Expr(p, j), LAMBDA v, k : <<Node("Entry", "", {"("}, <<key, v>>), k>>))
    [] Cur(p, i) \in Words \cup Strings /\ Cur(p, i + 1) = ":" ->
         Then(Expr(p, i + 2), LAMBDA v, k : <<Node("Entry", Cur(p, i), {":"}, <<v>>), k>>)
    [] NameAt(p, i) /\ Cur(p, i + 1) # ":" -> <<N("Entry", Cur(p, i), <<>>), i + 1>>
    [] OTHER -> Fails

\* The elements of a list, by what the list is of.
Element(p, what, i) ==
  CASE what = "arg" -> parseArg(p, i)
    [] what \in {"param", "arrow param"} -> parseParam(p, i)
    [] what = "item" -> Expr(p, i)
    [] what = "entry" -> parseMapEntry(p, i)
    [] what = "type" -> Type(p, i)
    [] what = "slot" ->
         CASE Cur(p, i) \in {",", "]"} -> <<Elided, i>>
           [] Cur(p, i) = "..." -> IF NameAt(p, i + 1) THEN <<N("Spread", "", <<N("Name", Cur(p, i + 1), <<>>)>>), i + 2>> ELSE Fails
           [] OTHER -> Then(parseTarget(p, "slot", i), LAMBDA t, j : IF Cur(p, j) = "?" THEN <<N("Optional", "", <<t>>), j + 1>> ELSE <<t, j>>)

\* What may not follow what in an argument list, a parameter list and a pattern.
InOrder(p, what, acc, e, j) ==
  LET Saw(flag) == \E m \in DOMAIN acc : flag \in acc[m].f
  IN CASE what = "arg" -> e.f = {} => ~Saw("named")
       [] what = "param" -> ~Saw("**") /\ (Saw("...") => "**" \in e.f)
       [] what = "arrow param" -> "**" \notin e.f
       [] what = "slot" -> /\ e.k \notin {"Spread", "Optional"} => \A m \in DOMAIN acc : acc[m].k # "Optional"
                           /\ e.k = "Spread" => Cur(p, j) = "]"
       [] OTHER -> TRUE

Listed(p, what, close, i, acc) ==
  IF Cur(p, i) \in {close, "EOF"} THEN <<acc, i>>
  ELSE Then(Element(p, what, i), LAMBDA e, j :
         IF ~InOrder(p, what, acc, e, j) THEN Fails
         ELSE IF Cur(p, j) = "," THEN Listed(p, what, close, j + 1, Append(acc, e)) ELSE <<Append(acc, e), j>>)

\* A bracketed list becomes the children of one node.
Bracketed(p, what, close, i, k, s) ==
  Then(Expect(p, Listed(p, what, close, i, <<>>), close), LAMBDA es, j : <<N(k, s, es), j>>)

(***************************************************************************)
(* Primaries                                                               *)
(***************************************************************************)
parenIsArrow(p, i) == p.match[i] > 0 /\ Cur(p, p.match[i] + 1) = "=>"

\* Without the table, indexing it panics, and the sub-parser reports a malformed expression.
parseGroupOrArrow(p, i) ==
  IF i \notin DOMAIN p.match THEN Fails
  ELSE IF parenIsArrow(p, i)
  THEN Then(Expect(p, Expect(p, Listed(p, "arrow param", ")", i + 1, <<>>), ")"), "=>"), LAMBDA params, j : Make(Expr(p, j), "Arrow", "", params))
  ELSE Expect(p, Expr(p, i + 1), ")")

parseNameOrArrow(p, i) ==
  IF Cur(p, i + 1) = "=>" THEN Make(Expr(p, i + 2), "Arrow", "", <<N("Param", Cur(p, i), <<>>)>>)
  ELSE <<N(IF Cur(p, i) \in {"_self", "_context"} THEN "SpecialName" ELSE "Name", Cur(p, i), <<>>), i + 1>>

\* One part of a double-quoted string: its text, or an expression read whole.
Segment(part) ==
  IF part.toks = <<>> THEN <<N("String", part.lit, <<>>), 0>>
  ELSE LET sub == SubParser(part.toks)
       IN Then(Expr(sub, 1), LAMBDA e, j : IF Cur(sub, j) = "EOF" THEN <<e, j>> ELSE Fails)

Concat(a, b) == N("Binary", "~", <<a, b>>)
parseInterpString(parts) ==
  LET segments == [m \in DOMAIN parts |-> Segment(parts[m])]
      nodes == [m \in DOMAIN parts |-> segments[m][1]]
  IN CASE \E m \in DOMAIN parts : segments[m] = Fails -> Fails
       [] parts = <<>> -> <<Empty, 0>>
       [] Len(parts) = 1 /\ nodes[1].k # "String" -> <<Concat(Empty, nodes[1]), 0>>
       [] OTHER -> <<FoldLeft(Concat, nodes[1], Tail(nodes)), 0>>

Primary(outer, i) ==
  LET p == enter(outer)
      s == Cur(p, i)
      Literal(k) == <<N(k, s, <<>>), i + 1>>
  IN CASE p.depth > MaxDepth -> Fails
       [] s \in Ints -> Literal("Int")
       [] s \in Strings -> Literal("String")
       [] s = "dq" -> Then(parseInterpString(p.toks[i].parts), LAMBDA n, j : <<n, i + 1>>)
       [] s \in Keywords -> Literal(IF s = "null" THEN "Null" ELSE "Bool")
       [] s \in Words -> parseNameOrArrow(p, i)
       [] s = "(" -> parseGroupOrArrow(p, i)
       [] s = "[" -> Bracketed(p, "item", "]", i + 1, "List", "")
       [] s = "{" -> Bracketed(p, "entry", "}", i + 1, "Map", "")
       [] OTHER -> Fails

(***************************************************************************)
(* Types                                                                   *)
(***************************************************************************)
parseParenType(p, i) ==
  Then(Expect(p, Listed(p, "type", ")", i + 1, <<>>), ")"), LAMBDA params, j :
    CASE Cur(p, j) = "=>" -> Make(Type(p, j + 1), "Type", "arrow", params)
      [] Cur(p, j) # "=>" /\ Len(params) = 1 -> <<N("Type", "group", params), j>>
      [] OTHER -> Fails)

parseAtomType(p, i) ==
  LET s == Cur(p, i)
  IN CASE s = "(" -> parseParenType(p, i)
       [] s \notin Words \cup {"("} -> Fails
       [] s \in {"list", "map", "Object"} /\ Cur(p, i + 1) # "<" -> Fails
       [] s = "list" -> Expect(p, Make(Type(p, i + 2), "Type", s, <<>>), ">")
       [] s = "map" -> Then(Expect(p, Type(p, i + 2), ","), LAMBDA key, j : Expect(p, Make(Type(p, j), "Type", s, <<key>>), ">"))
       [] s = "Object" -> IF Cur(p, i + 2) \in Strings THEN Expect(p, <<N("Type", s, <<N("String", Cur(p, i + 2), <<>>)>>), i + 3>>, ">") ELSE Fails
       [] OTHER -> <<N("Type", s, <<>>), i + 1>>

Atoms(p, n, i) ==
  CASE Cur(p, i) = "|" -> Then(parseAtomType(p, i + 1), LAMBDA a, j : Atoms(p, Add(n, <<a>>), j))
    [] Cur(p, i) = "?" -> <<[n EXCEPT !.f = {"?"}], i + 1>>
    [] OTHER -> <<n, i>>
Type(p, i) ==
  Then(parseAtomType(p, i), LAMBDA first, j : IF Cur(p, j) \in {"|", "?"} THEN Atoms(p, N("Type", "union", <<first>>), j) ELSE <<first, j>>)

(***************************************************************************)
(* Targets                                                                 *)
(***************************************************************************)
Pattern(k, slots, at) ==
  IF \E m \in DOMAIN slots : slots[m] = Fails THEN Fails ELSE <<N(k, "", [m \in DOMAIN slots |-> slots[m][1]]), at>>

mapToPattern(e, at) ==
  Pattern("MapPattern", [m \in DOMAIN e.c |->
    LET entry == e.c[m]
    IN CASE entry.f = {} -> <<N("MapTarget", entry.s, <<>>), 0>>
         [] entry.f = {":"} /\ entry.c[1].k = "Name" -> <<Node("MapTarget", entry.s, {":"}, entry.c), 0>>
         [] OTHER -> Fails], at)

listToPattern(e, at) ==
  Pattern("ListPattern", [m \in DOMAIN e.c |->
    IF e.c[m].k # "Spread" THEN Target(e.c[m], 0) ELSE IF m = Len(e.c) THEN <<e.c[m], 0>> ELSE Fails], at)

\* toTarget: the left side of an assignment, read as an expression, becomes a target.
Target(e, at) ==
  CASE e.k = "Name" -> <<N("Target", e.s, <<>>), at>>
    [] e.k = "List" -> listToPattern(e, at)
    [] e.k = "Map" -> mapToPattern(e, at)
    [] OTHER -> Fails

Member(p, recv, i) ==
  CASE Cur(p, i) = "." -> IF NameAt(p, i + 1) THEN Member(p, N("Attr", Cur(p, i + 1), <<recv>>), i + 2) ELSE Fails
    [] Cur(p, i) = "[" -> Then(Expect(p, Make(Expr(p, i + 1), "Index", "", <<recv>>), "]"), LAMBDA n, j : Member(p, n, j))
    [] OTHER -> <<recv, i>>

\* A target read from tokens: a slot of a pattern, or what @set binds, which may
\* also be a path of members.
parseTarget(p, what, i) ==
  CASE Cur(p, i) = "[" -> Bracketed(p, "slot", "]", i + 1, "ListPattern", "")
    [] Cur(p, i) = "{" -> Then(Bracketed(p, "entry", "}", i + 1, "Map", ""), LAMBDA m, j : mapToPattern(m, j))
    [] what = "set" /\ NameAt(p, i) /\ Cur(p, i + 1) \in {".", "["} -> Member(p, N("Name", Cur(p, i), <<>>), i + 1)
    [] NameAt(p, i) /\ Cur(p, i + 1) = ":" -> Make(Type(p, i + 2), "Target", Cur(p, i), <<>>)
    [] NameAt(p, i) -> <<N("Target", Cur(p, i), <<>>), i + 1>>
    [] OTHER -> Fails

\* A loop target is a name, with its type.
parseForTarget(p, i) == IF NameAt(p, i) THEN parseTarget(p, "slot", i) ELSE Fails

(***************************************************************************)
(* Statements                                                              *)
(*                                                                         *)
(* A statement is its keyword and a form: the pieces its handler reads     *)
(* after it, in order.  "{:" and "@}" are the lexer's block tokens and     *)
(* "NL" its end of statement.                                              *)
(***************************************************************************)
Body(p, i) == IF Cur(p, i) = "{:" THEN Expect(p, Items(enter(p), i + 1, <<>>), "@}") ELSE Fails

parsePrint(p, i) ==
  Expect(p, Then(Expr(p, i + 1), LAMBDA e, j :
    IF Cur(p, j) \notin {"if", "unless"} THEN <<N("Print", "", <<e>>), j>>
    ELSE Then(Expr(p, j + 1), LAMBDA cond, k :
           Then(IF Cur(p, k) = "else" THEN Expr(p, k + 1) ELSE <<Empty, k>>, LAMBDA els, m :
             <<N("Print", "", <<N("Ternary", "", IF Cur(p, j) = "if" THEN <<cond, e, els>> ELSE <<cond, Empty, e>>)>>), m>>))), "}}")

DoForm == <<"expr", "end">>
LogForm == <<"expr", "end">>
ExtendsForm == <<"expr", "end">>
FlushForm == <<"end">>
LineForm == <<"int", "end">>
YieldForm == <<"name", "end">>
DeprecatedForm == <<"string", "since?", "end">>
IncludeForm == <<"expr", "with?", "only?", "missing?", "end">>
EmbedForm == <<"expr", "with?", "only?", "missing?", "body">>
UseForm == <<"expr", "with map?", "end">>
ImportForm == <<"source", "as", "name", "end">>
FromForm == <<"source", "import", "from items", "end">>
IfForm == <<"clause", "elseifs", "else clause?">>
ForForm == <<"target", "second target?", "in", "expr", "recursive?", "filter?", "block", "else block?">>
WithForm == <<"expr", "only?", "body">>
ApplyForm == <<"filters", "body">>
GuardForm == <<"guard kind", "(", "string", ")", "body", "else clause?">>
TypesForm == <<"types">>
EscapeForm == <<"name", "body">>
SandboxForm == <<"body">>
TabForm == <<"(", "expr", ")", "body">>
CacheForm == <<"cache args", "body">>
BlockForm == <<"name", "params?", "type?", "body or value">>
MacroForm == <<"name", "params", "type?", "body">>
ProvideForm == <<"name", "body">>
CallForm == <<"caller params", "name", "(", "args", ")", "block">>
SetForm == <<"set">>

\* parseStatement dispatches on the keyword; any other is an error.
parseStatement(s) ==
  CASE s = "@do" -> DoForm [] s = "@log" -> LogForm [] s = "@extends" -> ExtendsForm [] s = "@flush" -> FlushForm
    [] s = "@line" -> LineForm [] s = "@yield" -> YieldForm [] s = "@deprecated" -> DeprecatedForm
    [] s = "@include" -> IncludeForm [] s = "@embed" -> EmbedForm [] s = "@use" -> UseForm
    [] s = "@import" -> ImportForm [] s = "@from" -> FromForm [] s = "@if" -> IfForm [] s = "@for" -> ForForm
    [] s = "@with" -> WithForm [] s = "@apply" -> ApplyForm [] s = "@guard" -> GuardForm [] s = "@types" -> TypesForm
    [] s = "@escape" -> EscapeForm [] s = "@sandbox" -> SandboxForm [] s = "@tab" -> TabForm [] s = "@cache" -> CacheForm
 [] s = "@block" -> BlockForm [] s = "@macro" -> MacroForm
    [] s = "@provide" -> ProvideForm [] s = "@call" -> CallForm [] s = "@set" -> SetForm [] OTHER -> <<"unknown">>

Elseifs(p, i, n) ==
  IF Cur(p, i) # "@elseif" THEN <<n, i>>
  ELSE Then(Expr(p, i + 1), LAMBDA cond, j : Then(Body(p, j), LAMBDA items, k :
         Elseifs(p, k, Add(n, <<Node("Clause", "", {"if"}, <<cond>> \o items)>>))))

Filters(p, i, n) ==
  IF Cur(p, i) # "|" THEN IF n.c = <<>> THEN Fails ELSE <<n, i>>
  ELSE Then(parseFilter(p, Elided, i), LAMBDA f, j : Filters(p, j, Add(n, <<[f EXCEPT !.k = "ApplyFilter", !.c = Tail(@)]>>)))

CacheArgs(p, i, n) ==
  IF ~NameAt(p, i) THEN <<n, i>>
  ELSE IF Cur(p, i + 1) # "=" THEN Fails
  ELSE Then(Expr(p, i + 2), LAMBDA e, j : CacheArgs(p, j, Add(n, <<N("CacheArg", Cur(p, i), <<e>>)>>)))

FromItems(p, i, n) ==
  LET aliased == Cur(p, i + 1) = "as"
      next == IF aliased THEN i + 3 ELSE i + 1
      item == N("FromItem", Cur(p, i), IF aliased THEN <<N("Name", Cur(p, i + 2), <<>>)>> ELSE <<>>)
  IN IF ~NameAt(p, i) \/ (aliased /\ ~NameAt(p, i + 2)) THEN Fails
     ELSE IF Cur(p, next) = "," THEN FromItems(p, next + 1, Add(n, <<item>>)) ELSE <<Add(n, <<item>>), next>>

\* The declarations of a @types body arrive as text and are read by a parser of their own.
Types(sub, i, n) ==
  CASE Cur(sub, i) = "EOF" -> <<n, i>>
    [] NameAt(sub, i) /\ Cur(sub, i + 1) = ":" ->
         Then(Type(sub, i + 2), LAMBDA t, j : Types(sub, IF Cur(sub, j) = "," THEN j + 1 ELSE j, Add(n, <<N("TypeDecl", Cur(sub, i), <<t>>)>>)))
    [] OTHER -> Fails

parseTypes(p, i, n) ==
  IF Cur(p, i) # "{:" THEN Fails
  ELSE IF Cur(p, i + 1) # "TEXT" THEN Expect(p, <<n, i + 1>>, "@}")
  ELSE Then(Types(SubParser(p.toks[i + 1].parts), 1, n), LAMBDA m, j : Expect(p, <<m, i + 2>>, "@}"))

\* One target, a capture of a block, or as many targets as values.
parseSet(p, i, n) ==
  LET Targets[j \in 1..(Len(p.toks) + 1)] ==
        Then(parseTarget(p, "set", j), LAMBDA t, k :
          IF Cur(p, k) # "," THEN <<<<t>>, k>> ELSE Then(Targets[k + 1], LAMBDA ts, m : <<<<t>> \o ts, m>>))
      Values[j \in 1..(Len(p.toks) + 1)] ==
        Then(Expr(p, j), LAMBDA e, k :
          IF Cur(p, k) # "," THEN <<<<e>>, k>> ELSE Then(Values[k + 1], LAMBDA es, m : <<<<e>> \o es, m>>))
  IN Then(parseTarget(p, "set", i), LAMBDA first, j :
       IF first.k = "Target" /\ Cur(p, j) = "=" /\ Cur(p, j + 1) = "capture"
       THEN Then(Body(p, j + 2), LAMBDA items, k : <<N("Capture", first.s, first.c \o items), k>>)
       ELSE Then(Expect(p, Targets[i], "="), LAMBDA ts, k : Then(Values[k], LAMBDA es, m :
              IF Len(ts) > 1 /\ Len(ts) # Len(es) THEN Fails ELSE Expect(p, <<N("Set", "", <<N("Targets", "", ts)>> \o es), m>>, "NL"))))

\* The names of the optional words, and what follows each.
Flagged(n, f) == [n EXCEPT !.f = @ \cup {f}]
Optional(p, piece, i, n) ==
  CASE piece = "only?" -> IF Cur(p, i) = "only" THEN <<Flagged(n, "only"), i + 1>> ELSE <<n, i>>
    [] piece = "recursive?" -> IF Cur(p, i) = "recursive" THEN <<Flagged(n, "recursive"), i + 1>> ELSE <<n, i>>
    [] piece = "missing?" -> IF Cur(p, i) = "ignore" /\ Cur(p, i + 1) = "missing" THEN <<Flagged(n, "missing"), i + 2>> ELSE <<n, i>>
    [] piece = "since?" -> IF Cur(p, i) # "since" THEN <<n, i>>
         ELSE IF Cur(p, i + 1) \in Strings THEN <<Add(Flagged(n, "since"), <<N("String", Cur(p, i + 1), <<>>)>>), i + 2>> ELSE Fails
    [] piece = "with?" -> IF Cur(p, i) # "with" THEN <<n, i>> ELSE Then(Expr(p, i + 1), LAMBDA e, j : <<Add(Flagged(n, "with"), <<e>>), j>>)
    [] piece = "with map?" -> IF Cur(p, i) # "with" THEN <<n, i>>
         ELSE Then(Bracketed(p, "entry", "}", i + 2, "Map", ""), LAMBDA m, j : <<Add(Flagged(n, "with"), <<m>>), j>>)
    [] piece = "second target?" -> IF Cur(p, i) # "," THEN <<n, i>> ELSE Then(parseForTarget(p, i + 1), LAMBDA t, j : <<Add(Flagged(n, "two"), <<t>>), j>>)
    [] piece = "filter?" -> IF Cur(p, i) # "if" THEN <<n, i>>
         ELSE Then(Expr(p, i + 1), LAMBDA e, j : <<Add(n, <<Node("Clause", "", {"if"}, <<e>>)>>), j>>)
    [] piece = "type?" -> IF Cur(p, i) # "->" THEN <<n, i>> ELSE Then(Type(p, i + 1), LAMBDA t, j : <<Add(n, <<t>>), j>>)
    [] piece = "params?" -> IF Cur(p, i) # "(" THEN <<n, i>>
         ELSE Then(Bracketed(p, "param", ")", i + 1, "Params", ""), LAMBDA ps, j : <<Add(Flagged(n, "params"), <<ps>>), j>>)
    [] piece = "else clause?" -> IF Cur(p, i) # "@else" THEN <<n, i>> ELSE Then(Body(p, i + 1), LAMBDA items, j : <<Add(n, <<N("Clause", "", items)>>), j>>)
    [] piece = "else block?" -> IF Cur(p, i) # "@else" THEN <<n, i>>
         ELSE Then(Body(p, i + 1), LAMBDA items, j : <<Add(Flagged(n, "else"), <<N("Body", "", items)>>), j>>)
Optionals == {"only?", "recursive?", "missing?", "since?", "with?", "with map?", "second target?", "filter?", "type?", "params?", "else clause?", "else block?"}

Added(r, n) == Then(r, LAMBDA e, j : <<Add(n, <<e>>), j>>)
Piece(p, piece, i, n) ==
  LET s == Cur(p, i)
      When(test, m) == IF test THEN <<m, i + 1>> ELSE Fails
  IN CASE piece \in Optionals -> Optional(p, piece, i, n)
       [] piece \in {"(", ")", "as", "import", "in"} -> When(s = piece, n)
       [] piece = "end" -> When(s = "NL", n)
       [] piece = "expr" -> Added(Expr(p, i), n)
       [] piece = "source" -> IF s = "_self" THEN <<Add(n, <<N("SpecialName", s, <<>>)>>), i + 1>> ELSE Added(Expr(p, i), n)
       [] piece = "name" -> When(s \in Words, [n EXCEPT !.s = s])
       [] piece = "guard kind" -> When(s \in {"filter", "function", "test"}, [n EXCEPT !.s = s])
       [] piece = "string" -> When(s \in Strings, Add(n, <<N("String", s, <<>>)>>))
       [] piece = "int" -> When(s \in Ints, [n EXCEPT !.s = s])
       [] piece = "target" -> Added(parseForTarget(p, i), n)
       [] piece = "body" -> Then(Body(p, i), LAMBDA items, j : <<Add(n, items), j>>)
       [] piece = "block" -> Then(Body(p, i), LAMBDA items, j : <<Add(n, <<N("Body", "", items)>>), j>>)
       [] piece = "body or value" ->
            IF s = "{:" THEN Then(Body(p, i), LAMBDA items, j : <<Add(n, items), j>>)
            ELSE Expect(p, Added(Expr(p, i), Flagged(n, "value")), "NL")
       [] piece = "clause" -> Then(Expr(p, i), LAMBDA cond, j : Then(Body(p, j), LAMBDA items, k :
            <<Add(n, <<Node("Clause", "", {"if"}, <<cond>> \o items)>>), k>>))
       [] piece = "elseifs" -> Elseifs(p, i, n)
       [] piece = "params" -> IF s = "(" THEN Added(Bracketed(p, "param", ")", i + 1, "Params", ""), n) ELSE Fails
       [] piece = "caller params" -> IF s = "(" THEN Added(Bracketed(p, "param", ")", i + 1, "Params", ""), n) ELSE <<Add(n, <<N("Params", "", <<>>)>>), i>>
       [] piece = "args" -> Then(Listed(p, "arg", ")", i, <<>>), LAMBDA as, j : <<Add(n, as), j>>)
       [] piece = "filters" -> Filters(p, i, n)
       [] piece = "cache args" -> CacheArgs(p, i, n)
       [] piece = "from items" -> FromItems(p, i, n)
       [] piece = "types" -> parseTypes(p, i, n)
       [] piece = "set" -> parseSet(p, i, n)
       [] OTHER -> Fails

Pieces(p, form, i, n) ==
  IF form = <<>> THEN <<n, i>> ELSE Then(Piece(p, Head(form), i, n), LAMBDA m, j : Pieces(p, Tail(form), j, m))

parseVerbatim(p, i) ==
  LET at == IF Cur(p, i + 1) = "{:" THEN i + 2 ELSE i + 1
      next == IF Cur(p, at) = "VERBATIM" THEN at + 1 ELSE at
  IN <<N("Verbatim", IF Cur(p, at) = "VERBATIM" THEN "raw" ELSE "", <<>>), IF Cur(p, next) = "@}" THEN next + 1 ELSE next>>

parseItem(p, i) ==
  LET s == Cur(p, i)
  IN CASE s = "TEXT" -> <<N("Text", "", <<>>), i + 1>>
       [] s = "VERBATIM" -> <<N("Verbatim", "raw", <<>>), i + 1>>
       [] s = "{{" -> parsePrint(p, i)
       [] s = "@verbatim" -> parseVerbatim(p, i)
       [] s = "@}" -> Fails
       [] OTHER -> Pieces(p, parseStatement(s), i + 1, N(s, "", <<>>))

Items(p, i, acc) ==
  IF p.depth > MaxDepth THEN Fails
  ELSE IF Cur(p, i) \in {"@}", "EOF"} THEN <<acc, i>>
  ELSE Then(parseItem(p, i), LAMBDA n, j : Items(p, j, Append(acc, n)))

parseModule(toks) ==
  LET p == Parser(toks)
  IN Then(Items(p, 1, <<>>), LAMBDA items, j : IF Cur(p, j) = "EOF" THEN <<N("Module", "", items), j>> ELSE Fails)
=============================================================================
