------------------------------ MODULE Grammar ------------------------------
(***************************************************************************)
(* The grammar of docs/reference/grammar.md, written the other way round:  *)
(* Spell gives the tokens of a tree, with parentheses only where the       *)
(* seventeen levels of the ladder need them.  The parser must read each    *)
(* tree back.                                                              *)
(***************************************************************************)
EXTENDS Parser

BinaryLevel(s) ==
  CASE s = "or" -> 4 [] s = "xor" -> 5 [] s = "and" -> 6 [] s = "b_or" -> 7 [] s = "b_xor" -> 8 [] s = "b_and" -> 9
    [] s \in Comparisons -> 10 [] s = ".." -> 11 [] s = "~" -> 12 [] s \in {"+", "-"} -> 13 [] OTHER -> 14

\* A ternary without an else would take the else of whatever follows: it stands alone.
Level(t) ==
  CASE t.k = "Ternary" -> IF t.c[3] = Empty THEN 0 ELSE 2
    [] t.k \in {"Assign", "Arrow"} -> 1
    [] t.k \in {"Coalesce", "Elvis"} -> 3
    [] t.k \in {"Logical", "Binary"} -> BinaryLevel(t.s)
    [] t.k \in {"Membership", "Test"} -> 10
    [] t.k = "Power" -> 15
    [] t.k \in {"Unary", "Spread"} -> 16
    [] OTHER -> 17

\* The tokens between commas.
Joined(seqs) == IF seqs = <<>> THEN <<>> ELSE FoldLeft(LAMBDA acc, s : acc \o <<Token(",")>> \o s, seqs[1], Tail(seqs))
T(s) == <<Token(s)>>
Paren(toks) == T("(") \o toks \o T(")")
If(cond, toks) == IF cond THEN toks ELSE <<>>
One(S) == CHOOSE x \in S : TRUE

\* A sign on the left of a power would take the whole power.
RECURSIVE OpensSign(_)
OpensSign(t) == t.k = "Unary" /\ (t.s # "not" \/ OpensSign(t.c[1]))

RECURSIVE Spell(_, _), SpellType(_), SpellTarget(_), SpellItem(_)
SpellAll(nodes, Op(_)) == Joined([i \in DOMAIN nodes |-> Op(nodes[i])])

SpellArg(a) ==
  CASE "..." \in a.f -> T("...") \o Spell(a.c[1], 0)
    [] "named" \in a.f -> T(a.s) \o T(":") \o Spell(a.c[1], 0)
    [] OTHER -> Spell(a.c[1], 0)
SpellArgs(args) == Paren(SpellAll(args, SpellArg))

SpellParam(q) ==
  LET variadic == q.f \cap {"...", "**"}
  IN If(variadic # {}, T(One(variadic))) \o T(q.s)
     \o If(":" \in q.f, T(":") \o SpellType(q.c[1])) \o If("=" \in q.f, T("=") \o Spell(q.c[Len(q.c)], 0))
SpellParams(ps) == Paren(SpellAll(ps, SpellParam))

SpellEntry(e) ==
  CASE e.f = {} -> T(e.s)
    [] ":" \in e.f -> T(e.s) \o T(":") \o Spell(e.c[1], 0)
    [] "(" \in e.f -> Paren(Spell(e.c[1], 0)) \o T(":") \o Spell(e.c[2], 0)
    [] OTHER -> T("...") \o Spell(e.c[1], 0)

Bare(a) == a.f = {} /\ a.c[1].k \in {"Int", "List"}
SpellTest(t) ==
  LET args == Tail(t.c)
      words == (IF "not" \in t.f THEN <<"not">> ELSE <<>>) \o <<t.s>> \o SetToSeq(t.f \ {"not"})
  IN Spell(t.c[1], 11) \o T("is") \o Tokens(words)
     \o CASE args = <<>> -> <<>> [] Len(args) = 1 /\ Bare(args[1]) -> Spell(args[1].c[1], 17) [] OTHER -> SpellArgs(args)

SpellOpen(t) ==
  LET c == t.c
  IN CASE t.k = "Ternary" -> Spell(c[1], 3) \o T("?") \o Spell(c[2], 1) \o If(c[3] # Empty, T(":") \o Spell(c[3], 1))
       [] t.k = "Assign" -> SpellTarget(c[1]) \o T("=") \o Spell(c[2], 1)
       [] t.k = "Arrow" -> SpellParams(Front(c)) \o T("=>") \o Spell(Last(c), 1)
       [] t.k = "Coalesce" -> Spell(c[1], 4) \o T("??") \o Spell(c[2], 3)
       [] t.k = "Elvis" -> Spell(c[1], 4) \o T("?:") \o Spell(c[2], 3)
       [] t.k \in {"Logical", "Binary"} ->
            LET l == BinaryLevel(t.s) IN Spell(c[1], IF l \in {10, 11} THEN l + 1 ELSE l) \o T(t.s) \o Spell(c[2], l + 1)
       [] t.k = "Membership" -> Spell(c[1], 11) \o T(t.s) \o Tokens(SetToSeq(t.f)) \o Spell(c[2], 11)
       [] t.k = "Test" -> SpellTest(t)
       [] t.k = "Power" -> (IF OpensSign(c[1]) THEN Paren(Spell(c[1], 0)) ELSE Spell(c[1], 16)) \o T("**") \o Spell(c[2], 15)
       [] t.k = "Unary" -> T(t.s) \o Spell(c[1], IF t.s = "not" THEN 16 ELSE 15)
       [] t.k = "Spread" -> T("...") \o Spell(c[1], 16)
       [] t.k = "Attr" -> Spell(c[1], 17) \o T(IF t.f = {} THEN "." ELSE "?.") \o T(t.s)
       [] t.k = "Index" -> Spell(c[1], 17) \o T(IF t.f = {} THEN "[" ELSE "?[") \o Spell(c[2], 1) \o T("]")
       [] t.k = "Slice" -> Spell(c[1], 17) \o T("[") \o If(c[2] # Elided, Spell(c[2], 1)) \o T(":") \o If(c[3] # Elided, Spell(c[3], 1)) \o T("]")
       [] t.k = "Call" -> (IF c[1].k = "Filter" THEN Paren(Spell(c[1], 17)) ELSE Spell(c[1], 17)) \o SpellArgs(Tail(c))
       [] t.k = "Filter" -> Spell(c[1], 17) \o T("|") \o T(t.s) \o If(Len(c) > 1, SpellArgs(Tail(c)))
       [] t.k = "List" -> T("[") \o SpellAll(c, LAMBDA e : Spell(e, 1)) \o T("]")
       [] t.k = "Map" -> T("{") \o SpellAll(c, SpellEntry) \o T("}")
       [] t.k = "Quoted" -> <<[s |-> "dq", parts |-> [i \in DOMAIN c |->
            IF c[i].k = "String" THEN [lit |-> c[i].s, toks |-> <<>>] ELSE [lit |-> "", toks |-> Spell(c[i], 0)]]]>>
       [] OTHER -> T(t.s)

Spell(t, l) == IF Level(t) < l THEN Paren(SpellOpen(t)) ELSE SpellOpen(t)

SpellType(t) ==
  CASE t.s = "union" -> FoldLeft(LAMBDA acc, a : IF acc = <<>> THEN SpellType(a) ELSE acc \o T("|") \o SpellType(a), <<>>, t.c) \o Tokens(SetToSeq(t.f))
    [] t.s = "group" -> Paren(SpellType(t.c[1]))
    [] t.s = "arrow" -> Paren(SpellAll(Front(t.c), SpellType)) \o T("=>") \o SpellType(Last(t.c))
    [] t.s = "Object" -> T("Object") \o T("<") \o T(t.c[1].s) \o T(">")
    [] t.c # <<>> -> T(t.s) \o T("<") \o SpellAll(t.c, SpellType) \o T(">")
    [] OTHER -> T(t.s)

SpellTarget(t) ==
  CASE t.k = "ListPattern" -> T("[") \o SpellAll(t.c, SpellTarget) \o T("]")
    [] t.k = "MapPattern" -> T("{") \o SpellAll(t.c, SpellTarget) \o T("}")
    [] t.k = "MapTarget" -> T(t.s) \o If(t.f # {}, T(":") \o T(t.c[Len(t.c)].s))
    [] t.k = "Optional" -> SpellTarget(t.c[1]) \o T("?")
    [] t.k = "Spread" -> T("...") \o T(t.c[1].s)
    [] t.k = "Elided" -> <<>>
    [] t.k = "Target" -> T(t.s) \o If(t.c # <<>>, T(":") \o SpellType(t.c[Len(t.c)]))
    [] OTHER -> Spell(t, 17)

(***************************************************************************)
(* Statements                                                              *)
(***************************************************************************)
E(t) == Spell(t, 0)
SpellItems(items) == FlattenSeq([i \in DOMAIN items |-> SpellItem(items[i])])
Braced(items) == T("{:") \o SpellItems(items) \o T("@}")
SpellClause(head, c) == IF "if" \in c.f THEN T(head) \o E(c.c[1]) \o Braced(Tail(c.c)) ELSE T("@else") \o Braced(c.c)
Modifiers(n) ==
  If("with" \in n.f, T("with") \o E(n.c[2])) \o If("only" \in n.f, T("only")) \o If("missing" \in n.f, Tokens(<<"ignore", "missing">>))
NL == T("NL")
After(n, j) == SubSeq(n.c, j, Len(n.c))

SpellFor(n) ==
  LET targets == IF "two" \in n.f THEN 2 ELSE 1
      rest == After(n, targets + 1)
      filter == rest[2].k = "Clause"
      body == rest[IF filter THEN 3 ELSE 2]
  IN SpellAll(SubSeq(n.c, 1, targets), SpellTarget) \o T("in") \o E(rest[1]) \o If("recursive" \in n.f, T("recursive"))
     \o If(filter, T("if") \o E(rest[2].c[1])) \o Braced(body.c) \o If("else" \in n.f, T("@else") \o Braced(Last(rest).c))

SpellBlock(n) ==
  LET signature == If("params" \in n.f, SpellParams(n.c[1].c))
      types == SelectSeq(n.c, LAMBDA x : x.k = "Type")
      rest == SelectSeq(n.c, LAMBDA x : x.k \notin {"Params", "Type"})
  IN T(n.s) \o signature \o If(types # <<>>, T("->") \o SpellType(types[Len(types)]))
     \o (IF "value" \in n.f THEN E(rest[1]) \o NL ELSE Braced(rest))

SpellHead(n) ==
  LET c == n.c
  IN CASE n.k \in {"@do", "@log", "@extends"} -> E(c[1]) \o NL
       [] n.k = "@flush" -> NL
       [] n.k \in {"@line", "@yield"} -> T(n.s) \o NL
       [] n.k = "@deprecated" -> T(c[1].s) \o If("since" \in n.f, T("since") \o T(Last(c).s)) \o NL
       [] n.k = "@include" -> E(c[1]) \o Modifiers(n) \o NL
       [] n.k = "@embed" -> E(c[1]) \o Modifiers(n) \o Braced(After(n, IF "with" \in n.f THEN 3 ELSE 2))
       [] n.k = "@use" -> E(c[1]) \o If("with" \in n.f, T("with") \o E(Last(c))) \o NL
       [] n.k = "@import" -> E(c[1]) \o T("as") \o T(n.s) \o NL
       [] n.k = "@from" -> E(c[1]) \o T("import") \o SpellAll(Tail(c), LAMBDA m : T(m.s) \o If(m.c # <<>>, T("as") \o T(m.c[Len(m.c)].s))) \o NL
       [] n.k = "@with" -> E(c[1]) \o If("only" \in n.f, T("only")) \o Braced(Tail(c))
       [] n.k = "@sandbox" -> Braced(c)
       [] n.k \in {"@escape", "@provide"} -> T(n.s) \o Braced(c)
       [] n.k = "@tab" -> Paren(E(c[1])) \o Braced(Tail(c))
       [] n.k = "@guard" -> T(n.s) \o Paren(T(c[1].s)) \o Braced(SelectSeq(Tail(c), LAMBDA x : x.k # "Clause"))
                            \o If(Last(c).k = "Clause", SpellClause("@else", Last(c)))
       [] n.k = "@apply" -> LET filters == SelectSeq(c, LAMBDA x : x.k = "ApplyFilter")
                            IN FlattenSeq([i \in DOMAIN filters |-> T("|") \o T(filters[i].s) \o If(filters[i].c # <<>>, SpellArgs(filters[i].c))])
                               \o Braced(SelectSeq(c, LAMBDA x : x.k # "ApplyFilter"))
       [] n.k = "@cache" -> LET args == SelectSeq(c, LAMBDA x : x.k = "CacheArg")
                            IN FlattenSeq([i \in DOMAIN args |-> T(args[i].s) \o T("=") \o E(args[i].c[1])])
                               \o Braced(SelectSeq(c, LAMBDA x : x.k # "CacheArg"))
       [] n.k = "@types" -> T("{:") \o If(c # <<>>, <<[s |-> "TEXT", parts |-> SpellAll(c, LAMBDA d : T(d.s) \o T(":") \o SpellType(d.c[1]))]>>) \o T("@}")
       [] n.k = "@macro" -> T(n.s) \o SpellParams(c[1].c) \o If(Len(c) > 1 /\ c[2].k = "Type", T("->") \o SpellType(c[2]))
                            \o Braced(SelectSeq(Tail(c), LAMBDA x : x.k # "Type"))
       [] n.k = "@call" -> If(c[1].c # <<>>, SpellParams(c[1].c)) \o T(n.s) \o SpellArgs(SubSeq(c, 2, Len(c) - 1)) \o Braced(Last(c).c)
       [] n.k = "@for" -> SpellFor(n)
       [] n.k = "@block" -> SpellBlock(n)

SpellItem(n) ==
  CASE n.k = "Text" -> T("TEXT")
    [] n.k = "Verbatim" -> T("VERBATIM")
    [] n.k = "Print" -> T("{{") \o E(n.c[1]) \o T("}}")
    [] n.k = "Print if" -> T("{{") \o E(n.c[1]) \o T(n.s) \o E(n.c[2]) \o If(Len(n.c) > 2, T("else") \o E(n.c[Len(n.c)])) \o T("}}")
    [] n.k = "Capture" -> T("@set") \o SpellTarget([n EXCEPT !.k = "Target", !.c = SelectSeq(@, LAMBDA x : x.k = "Type")])
                          \o T("=") \o T("capture") \o Braced(SelectSeq(n.c, LAMBDA x : x.k # "Type"))
    [] n.k = "Set" -> T("@set") \o SpellAll(n.c[1].c, SpellTarget) \o T("=") \o SpellAll(Tail(n.c), E) \o NL
    [] n.k = "@if" -> FlattenSeq([i \in DOMAIN n.c |-> SpellClause(IF i = 1 THEN "@if" ELSE "@elseif", n.c[i])])
    [] OTHER -> T(n.k) \o SpellHead(n)

(***************************************************************************)
(* What a tree means once it is read: a quoted string is the concatenation *)
(* of its parts, a conditional print a ternary.                            *)
(***************************************************************************)
RECURSIVE Meaning(_)
Meaning(t) ==
  LET c == [i \in DOMAIN t.c |-> Meaning(t.c[i])]
  IN CASE t.k = "Quoted" /\ c = <<>> -> Empty
       [] t.k = "Quoted" /\ Len(c) = 1 -> IF c[1].k = "String" THEN c[1] ELSE N("Binary", "~", <<Empty, c[1]>>)
       [] t.k = "Quoted" -> FoldLeft(LAMBDA a, b : N("Binary", "~", <<a, b>>), c[1], Tail(c))
       [] t.k = "Print if" -> LET other == IF Len(c) > 2 THEN c[Len(c)] ELSE Empty
                              IN N("Print", "", <<N("Ternary", "", IF t.s = "if" THEN <<c[2], c[1], other>> ELSE <<c[2], Empty, c[1]>>)>>)
       [] OTHER -> [t EXCEPT !.c = c]

\* The four places where the parser does not follow the grammar: a parenthesis
\* inside a quoted string is indexed in a table that was not built; "?[" is missing
\* from that table while its "]" is not, so parameters that hold it lose their
\* arrow; a word after a test without arguments is read as its argument; a block's
\* value that opens with a parenthesis is read as its signature.
Grouped(toks) == \E i \in DOMAIN toks : toks[i].s = "(" /\ (i = 1 \/ toks[i - 1].s \notin (Words \ WordOperators) \cup {")", "]"})
RECURSIVE GroupInString(_)
GroupInString(toks) == \E i \in DOMAIN toks : \E m \in DOMAIN toks[i].parts :
  toks[i].s = "dq" /\ (Grouped(toks[i].parts[m].toks) \/ GroupInString(toks[i].parts[m].toks))
OptionalInParams(toks) == \E i, j, m \in DOMAIN toks :
  i < j /\ j < m /\ toks[i].s = "(" /\ toks[j].s = "?[" /\ toks[m].s = "=>" /\ toks[m - 1].s = ")"
TestThenWord(toks) == \E i \in DOMAIN toks : \E j \in {i + 1, i + 2, i + 3} :
  /\ i + 1 < j /\ j <= Len(toks) /\ toks[i].s = "is" /\ toks[j].s \in Words \ WordOperators
  /\ \A m \in (i + 1)..(j - 1) : toks[m].s \in Words \cup Keywords
  /\ ~(j = i + 2 /\ (toks[i + 1].s = "not" \/ twoWordTest(toks[i + 1].s, toks[j].s)))
  /\ ~(j = i + 3 /\ toks[i + 1].s = "not" /\ twoWordTest(toks[i + 2].s, toks[j].s))
ValueInParens(toks) == \E i \in 1..(Len(toks) - 2) : toks[i].s = "@block" /\ toks[i + 2].s = "("

\* The parser reads back the tree that a text of the grammar spells: precedence,
\* associativity, argument lists, patterns, types and statement heads.
ReadBack(items) == LET r == parseModule(SpellItems(items)) IN r # Fails /\ r[1] = Meaning(N("Module", "", items))
=============================================================================
