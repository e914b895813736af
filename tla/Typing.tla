-------------------------------- MODULE Typing --------------------------------
(***************************************************************************)
(* The type checker against the run time: the expressions and statements   *)
(* of TypeCheck evaluated as internal/interp does (eval.go, operators.go), *)
(* with the members, subscripts and traversals of pkg/runtime.  A result   *)
(* is a value, or an error: "kind" for a value of the wrong kind, "miss"   *)
(* for an absent name, member or key, "value" for overflow and division by *)
(* zero.  HostFields gives the fields of the host objects.                 *)
(***************************************************************************)
EXTENDS TypeCheck, Values

CONSTANT HostFields

(***************************************************************************)
(* Values, and what it is to conform to a type                             *)
(***************************************************************************)
Val(k, v) == [k |-> k, v |-> v]
Null == Val("null", 0)
Boolean(b) == Val("bool", IF b THEN 1 ELSE 0)
Array(entries) == Val("array", entries)
Entry(key, val) == [key |-> key, val |-> val]
OfList(vals) == Array([i \in DOMAIN vals |-> Entry(canonInt(i - 1), vals[i])])

\* Strings are numbers: 0 is empty, 3 is the digit zero, the others are letters.
textOf(v) ==
  CASE v.k = "str" -> IF v.v = 0 THEN <<>> ELSE IF v.v = 3 THEN <<0>> ELSE <<10 + v.v>>
    [] v.k \in {"int", "float"} -> Decimal(v.v)
    [] v.k = "null" -> <<>>
    [] OTHER -> <<30 + v.v>>
Letters == [f |-> 1, g |-> 2]
MemberKey(name) == canonicalizeStringKey(textOf(Val("str", Letters[name])))
FromKey(enc) == IF isCanonicalIntKey(enc) THEN Val("int", fastCanonInt(enc)) ELSE Val("str", IF enc = <<>> THEN 0 ELSE enc[1] - 10)

RECURSIVE Conforms(_, _)
Conforms(v, t) ==
  CASE t.k = "any" -> TRUE
    [] t.k = "union" -> \E arm \in t.u : Conforms(v, arm)
    [] t.k = "string" -> v.k = "str"
    [] t.k \in {"null", "bool", "int", "float"} -> v.k = t.k
    [] t.k = "Object" -> v.k = "object"
    [] t.k = "list" -> v.k = "array" /\ IsList(v.v) /\ \A i \in DOMAIN v.v : Conforms(v.v[i].val, t.a[1])
    [] t.k = "map" -> v.k = "array" /\ \A i \in DOMAIN v.v : Conforms(FromKey(v.v[i].key), t.a[1]) /\ Conforms(v.v[i].val, t.a[2])
    [] OTHER -> FALSE

RECURSIVE Samples(_)
\* Values that conform to t, enough to reach each outcome.
Samples(t) ==
  CASE t.k = "any" -> <<Null, Val("int", 2), Val("str", 1), OfList(<<Val("int", 1)>>)>>
    [] t.k = "null" -> <<Null>>
    [] t.k = "bool" -> <<Boolean(TRUE), Boolean(FALSE)>>
    [] t.k = "int" -> <<Val("int", 0), Val("int", 2)>>
    [] t.k = "float" -> <<Val("float", 0), Val("float", 1)>>
    [] t.k = "string" -> <<Val("str", 0), Val("str", 1), Val("str", 3)>>
    [] t.k = "Object" -> <<Val("object", 1)>>
    [] t.k = "list" -> <<OfList(<<>>)>> \o [i \in DOMAIN Samples(t.a[1]) |-> OfList(<<Samples(t.a[1])[i]>>)]
    [] t.k = "map" ->
         LET key == IF Conforms(Val("str", 1), t.a[1]) THEN MemberKey("f") ELSE canonInt(0)
         IN <<Array(<<>>)>> \o [i \in DOMAIN Samples(t.a[2]) |-> Array(<<Entry(key, Samples(t.a[2])[i])>>)]
    [] t.k = "union" -> FlattenSeq([i \in 1..Cardinality(t.u) |-> Samples(SetToSeq(t.u)[i])])

(***************************************************************************)
(* Expressions                                                             *)
(***************************************************************************)
Yields(v) == [v |-> v, e |-> ""]
Raise(e) == [v |-> Null, e |-> e]
After1(r, Of(_)) == IF r.e # "" THEN r ELSE Of(r.v)
absent(allowed) == IF allowed THEN Yields(Null) ELSE Raise("miss")

ReadKey(recv, enc, allowed) ==
  LET at == IndexOf(recv.v, enc) IN IF at = {} THEN absent(allowed) ELSE Yields(recv.v[CHOOSE i \in at : TRUE].val)

getDot(recv, name, allowed) ==
  CASE recv.k = "array" -> ReadKey(recv, MemberKey(name), allowed)
    [] recv.k = "object" -> IF name \in DOMAIN HostFields THEN Yields(HostFields[name]) ELSE absent(allowed)
    [] OTHER -> Raise("kind")

\* keyOf writes any scalar as a key; a collection becomes the empty key.
keyOf(v) == IF v.k \in {"array", "object"} THEN <<>> ELSE canonicalizeStringKey(textOf(v))
getIndex(recv, key, allowed) == IF recv.k = "array" THEN ReadKey(recv, keyOf(key), allowed) ELSE Raise("kind")

arith(op, l, r) ==
  LET n == Arith(op, l.v, r.v)
  IN CASE ~(Numeric(l) /\ Numeric(r)) -> Raise("kind")
       [] l.k = "int" /\ r.k = "int" -> IF n.k = "error" THEN Raise("value") ELSE Yields(Val(n.k, n.v))
       [] OTHER -> IF op \in {"/", "//", "%"} /\ r.v = 0 THEN Raise("value") ELSE Yields(Val("float", 1))

Renders(v) == v.k \notin {"array", "object"}

evalBinary(op, l, r) ==
  CASE op \in {"+", "-", "*", "/", "//", "%", "**"} -> arith(op, l, r)
    [] op = "~" -> IF Renders(l) /\ Renders(r) THEN Yields(Val("str", 1)) ELSE Raise("kind")
    [] op \in {"==", "!="} -> Yields(Boolean(Equal(l, r) <=> op = "=="))
    [] op = "<" -> IF Orderable(l, r) THEN Yields(Boolean(Order(l, r) < 0)) ELSE Raise("kind")
    [] op = "<=>" -> IF Orderable(l, r) THEN Yields(Val("int", Order(l, r))) ELSE Raise("kind")

evalUnary(op, v) ==
  CASE op = "not" -> Yields(Boolean(~Truthy(v)))
    [] op # "not" /\ Numeric(v) -> Yields(IF op = "+" THEN v ELSE Val(v.k, IF v.k = "int" THEN Wrap(-v.v) ELSE -v.v))
    [] OTHER -> Raise("kind")

TestHolds(test, v) ==
  CASE test = "null" -> v.k = "null"
    [] test = "string" -> v.k = "str"
    [] test \in {"int", "float", "bool"} -> v.k = test
    [] test = "iterable" -> v.k = "array"
    [] test = "sequence" -> v.k = "array" /\ IsList(v.v)
    [] test = "mapping" -> v.k = "object" \/ (v.k = "array" /\ ~IsList(v.v))

RECURSIVE eval(_, _, _), elements(_, _), entries(_, _)
elements(ns, env) ==
  IF ns = <<>> THEN [vals |-> <<>>, e |-> ""]
  ELSE LET spread == ns[1].k = "Spread"
           r == eval(IF spread THEN ns[1].c[1] ELSE ns[1], env, FALSE)
           new == IF ~spread THEN <<r.v>> ELSE IF r.v.k = "array" THEN [i \in DOMAIN r.v.v |-> r.v.v[i].val] ELSE <<>>
           rest == elements(Tail(ns), env)
       IN IF r.e # "" THEN [vals |-> <<>>, e |-> r.e] ELSE [vals |-> new \o rest.vals, e |-> rest.e]

entries(ns, env) ==
  FoldLeft(LAMBDA acc, n :
      LET key == eval(n.c[1], env, FALSE)
          val == IF n.f = {} THEN eval(N("Name", n.s, <<>>), env, FALSE) ELSE eval(Last(n.c), env, FALSE)
      IN CASE acc.e # "" -> acc
           [] acc.e = "" /\ n.f = {"("} -> After1(key, LAMBDA k : After1(val, LAMBDA v : Yields(Array(Put(acc.v.v, keyOf(k), v)))))
           [] acc.e = "" /\ n.f = {"..."} ->
                After1(val, LAMBDA v : Yields(Array(FoldLeft(LAMBDA a, p : Put(a, p.key, p.val), acc.v.v, IF v.k = "array" THEN v.v ELSE <<>>))))
           [] OTHER -> After1(val, LAMBDA v : Yields(Array(Put(acc.v.v, MemberKey(n.s), v)))),
    Yields(Array(<<>>)), ns)

\* isDefined never fails: the receiver is read with absence allowed, and looked into.
isDefined(n, env) ==
  LET recv == eval(n.c[1], env, TRUE)
      key == eval(n.c[2], env, TRUE)
  IN CASE n.k = "Name" -> n.s \in DOMAIN env
       [] n.k = "Attr" -> recv.e = "" /\ getDot(recv.v, n.s, FALSE).e = ""
       [] n.k = "Index" -> recv.e = "" /\ key.e = "" /\ getIndex(recv.v, key.v, FALSE).e = ""
       [] OTHER -> eval(n, env, TRUE).e = ""

eval(n, env, allowed) ==
  LET First(Of(_)) == After1(eval(n.c[1], env, FALSE), Of)
      Second(Of(_)) == After1(eval(n.c[2], env, FALSE), Of)
      Both(Of(_, _)) == First(LAMBDA l : Second(LAMBDA r : Of(l, r)))
      Suppressed(Of(_)) == After1(eval(n.c[1], env, TRUE), Of)
  IN CASE n.k = "Int" -> Yields(Val("int", 1))
       [] n.k = "Float" -> Yields(Val("float", 1))
       [] n.k = "String" -> Yields(Val("str", 1))
       [] n.k = "Bool" -> Yields(Boolean(TRUE))
       [] n.k = "Null" -> Yields(Null)
       [] n.k = "Name" -> IF n.s \in DOMAIN env THEN Yields(env[n.s]) ELSE absent(allowed)
       [] n.k = "List" -> LET r == elements(n.c, env) IN IF r.e # "" THEN Raise(r.e) ELSE Yields(OfList(r.vals))
       [] n.k = "Map" -> entries(n.c, env)
       [] n.k = "Attr" ->
            After1(eval(n.c[1], env, allowed), LAMBDA recv :
              IF recv.k = "null" /\ ("?" \in n.f \/ allowed) THEN Yields(Null) ELSE getDot(recv, n.s, allowed))
       [] n.k = "Index" ->
            After1(eval(n.c[1], env, allowed), LAMBDA recv :
              IF recv.k = "null" /\ ("?" \in n.f \/ allowed) THEN Yields(Null) ELSE Second(LAMBDA key : getIndex(recv, key, allowed)))
       [] n.k = "Filter" -> Suppressed(LAMBDA v : IF v.k # "null" THEN Yields(v) ELSE eval(n.c[2].c[1], env, FALSE))
       [] n.k = "Unary" -> First(LAMBDA v : evalUnary(n.s, v))
       [] n.k = "Binary" -> Both(LAMBDA l, r : evalBinary(n.s, l, r))
       [] n.k = "Power" -> Both(LAMBDA l, r : arith("**", l, r))
       [] n.k = "Logical" ->
            First(LAMBDA l : IF n.s \in {"and", "or"} /\ Truthy(l) = (n.s = "or") THEN Yields(Boolean(Truthy(l)))
                             ELSE Second(LAMBDA r : Yields(Boolean(IF n.s = "xor" THEN Truthy(l) # Truthy(r) ELSE Truthy(r)))))
       [] n.k = "Test" ->
            IF n.s = "defined" THEN Yields(Boolean(isDefined(n.c[1], env) <=> "not" \notin n.f))
            ELSE First(LAMBDA v : Yields(Boolean(TestHolds(n.s, v) <=> "not" \notin n.f)))
       [] n.k = "Ternary" -> First(LAMBDA c : eval(n.c[IF Truthy(c) THEN 2 ELSE 3], env, FALSE))
       [] n.k = "Coalesce" -> Suppressed(LAMBDA v : IF v.k # "null" THEN Yields(v) ELSE eval(n.c[2], env, FALSE))
       [] n.k = "Elvis" -> Suppressed(LAMBDA v : IF Truthy(v) THEN Yields(v) ELSE eval(n.c[2], env, FALSE))

(***************************************************************************)
(* Statements                                                              *)
(***************************************************************************)
RECURSIVE run(_, _), exec(_, _), chosen(_, _)
run(items, env) == FoldLeft(LAMBDA acc, n : IF acc.e # "" THEN acc ELSE exec(n, acc.env), [env |-> env, e |-> ""], items)

\* The body of the first clause whose condition is true.
chosen(clauses, env) ==
  IF clauses = <<>> THEN [env |-> env, e |-> ""]
  ELSE LET n == clauses[1]
           cond == IF "if" \in n.f THEN eval(n.c[1], env, FALSE) ELSE Yields(Boolean(TRUE))
       IN CASE cond.e # "" -> [env |-> env, e |-> cond.e]
            [] cond.e = "" /\ Truthy(cond.v) -> run(IF "if" \in n.f THEN Tail(n.c) ELSE n.c, env)
            [] OTHER -> chosen(Tail(clauses), env)

exec(n, env) ==
  LET r == eval(IF n.k = "Set" THEN n.c[2] ELSE n.c[Len(n.c) - 1], env, FALSE)
      loop(entry) == IF "two" \in n.f THEN (n.c[1].s :> FromKey(entry.key)) @@ (n.c[2].s :> entry.val) ELSE n.c[1].s :> entry.val
  IN CASE n.k = "@types" -> [env |-> env, e |-> ""]
       [] n.k = "Print" -> LET v == eval(n.c[1], env, FALSE) IN [env |-> env, e |-> IF v.e = "" /\ ~Renders(v.v) THEN "kind" ELSE v.e]
       [] n.k = "Set" -> [env |-> IF r.e = "" THEN (n.c[1].c[1].s :> r.v) @@ env ELSE env, e |-> r.e]
       [] n.k = "@if" -> chosen(n.c, env)
       [] n.k = "@for" ->
            IF r.e # "" \/ r.v.k # "array" THEN [env |-> env, e |-> IF r.e # "" THEN r.e ELSE "kind"]
            ELSE LET body(acc, entry) == IF acc # "" THEN acc ELSE run(Last(n.c).c, loop(entry) @@ env).e
                 IN [env |-> env, e |-> FoldLeft(body, "", r.v.v)]

(***************************************************************************)
(* Properties                                                              *)
(***************************************************************************)
RECURSIVE MentionsAny(_)
MentionsAny(t) == t = AnyT \/ (\E i \in DOMAIN t.a : MentionsAny(t.a[i])) \/ \E arm \in t.u : MentionsAny(arm)

Picks(sc) == {p \in [DOMAIN sc -> 1..8] : \A n \in DOMAIN sc : p[n] <= Len(Samples(sc[n]))}
Env(sc, p) == [n \in DOMAIN sc |-> Samples(sc[n])[p[n]]]

RECURSIVE Nodes(_)
Nodes(n) == {n} \cup UNION {Nodes(n.c[i]) : i \in DOMAIN n.c}

(***************************************************************************)
(* The scope each part of a template is judged in: a branch is narrowed by *)
(* its condition, a loop binds its targets, and a statement sees what the  *)
(* ones before it set.                                                     *)
(***************************************************************************)
ScopeOf(n, i, sc) ==
  LET Behind(from, start) == checkItems(<< >>, SubSeq(n.c, from, i - 1), start).sc
  IN CASE n.k = "Ternary" /\ i = 2 -> narrowTrue(n.c[1], sc)
       [] n.k = "Clause" /\ "if" \in n.f /\ i > 1 -> Behind(2, narrowTrue(n.c[1], sc))
       [] n.k = "Clause" /\ "if" \notin n.f -> Behind(1, sc)
       [] n.k \in {"Module", "Body"} -> Behind(1, sc)
       [] n.k = "@for" /\ n.c[i].k = "Body" -> loopScope(<< >>, n, sc).sc
       [] OTHER -> sc

RECURSIVE Judged(_, _)
\* Every part of n, with its scope and the results of its own parts.
Judged(n, sc) ==
  {[n |-> n, of |-> [i \in DOMAIN n.c |-> exprType(<< >>, n.c[i], ScopeOf(n, i, sc))]]}
  \cup UNION {Judged(n.c[i], ScopeOf(n, i, sc)) : i \in DOMAIN n.c}

Has(t, kinds) == \E arm \in Arms(t) : arm.k \in kinds
PartsOf(root, sc, kinds) == {j \in Judged(root, sc) : j.n.k \in kinds}
TypeAt(j, i) == j.of[i].t

\* The operands that an operation can find to be of the wrong kind.
Operands(n) ==
  CASE n.k \in {"Print", "Attr", "Index"} -> {1}
    [] n.k = "@for" -> {Len(Targets(n)) + 1}
    [] n.k = "Unary" /\ n.s # "not" -> {1}
    [] n.k = "Power" \/ (n.k = "Binary" /\ n.s \notin {"==", "!="}) -> {1, 2}
    [] OTHER -> {}

\* An operation works on a value that the checker left to the run time.
Dynamic(root, sc) ==
  \E j \in Judged(root, sc) : \E i \in Operands(j.n) : j.of[i].e = "" /\ Has(TypeAt(j, i), {"any"})

\* A target's annotation takes a value over from a type with any in it.
FromAny(root, sc) ==
  \/ \E j \in PartsOf(root, sc, {"Set"}) : j.n.c[1].c[1].c # <<>> /\ MentionsAny(TypeAt(j, 2))
  \/ \E j \in PartsOf(root, sc, {"@for"}) :
       (\E i \in DOMAIN Targets(j.n) : j.n.c[i].c # <<>>) /\ MentionsAny(TypeAt(j, Len(Targets(j.n)) + 1))

Kinds(root) == {n.k : n \in Nodes(root)}
NodesOf(root, kinds) == {n \in Nodes(root) : n.k \in kinds}
TypeOf(n, sc) == exprType(<< >>, n, sc).t

\* What the checker takes for granted and the run time does not do.
FloatsClaimed(root, sc) ==
  \E j \in PartsOf(root, sc, {"Binary", "Power"}) :
    j.n.s \in {"/", ""} \/ (j.n.s \in {"+", "-", "*", "//", "%"} /\ \E i \in {1, 2} : TypeAt(j, i).k = "union")
StringAsCollection(root, sc) ==
  \/ \E j \in PartsOf(root, sc, {"Index"}) : Has(TypeAt(j, 1), {"string", "Object"})
  \/ \E j \in PartsOf(root, sc, {"@for"}) : Has(TypeAt(j, Len(Targets(j.n)) + 1), {"string"})
KeysRewritten(root, sc) == \E j \in PartsOf(root, sc, {"Entry"}) : j.n.f = {"("} /\ TypeAt(j, 1) # IntT
SetInBranch(root) == \E n \in NodesOf(root, {"Clause"}) : \E i \in DOMAIN n.c : n.c[i].k = "Set"
CollectionGuessed(root, sc) ==
  \E j \in PartsOf(root, sc, {"Test"}) : j.n.s \in {"iterable", "sequence", "mapping"} /\ Has(TypeAt(j, 1), {"any", "Object"})

\* A template the checker accepts, rendered with values of the declared types, never
\* meets a value of the wrong kind unless it works on one that is of type any where it is
\* used, narrowing included; and every name it sets holds a value of the type the checker
\* gave it, whatever unions and nested collections that is made of.
AcceptedIsTyped(items) ==
  LET root == N("Module", "", items)
      before == seedTypes(items).sc
      after == checkItems(<< >>, items, before)
      trusted == FromAny(root, before) \/ StringAsCollection(root, before) \/ KeysRewritten(root, before) \/ SetInBranch(root) \/ CollectionGuessed(root, before)
  IN Check(items) = "" /\ ~trusted =>
       \A p \in Picks(before) :
         LET out == run(items, Env(before, p))
         IN /\ out.e = "kind" => Dynamic(root, before)
            /\ out.e = "" /\ ~FloatsClaimed(root, before) => \A name \in DOMAIN after.sc : Conforms(out.env[name], after.sc[name])

\* What the checker refuses though the run time has an answer.
MixedNumber(root, sc) == \E n \in NodesOf(root, {"Unary"}) : n.s # "not" /\ TypeOf(n.c[1], sc).k = "union"
KeyIsText(root, sc) == \E n \in NodesOf(root, {"Index"}) : TypeOf(n.c[2], sc) # IntT
LenientChain(root) ==
  \E n \in NodesOf(root, {"Coalesce", "Elvis", "Filter", "Test"}) : IF n.k = "Test" THEN n.s = "defined" ELSE n.c[1].k \in {"Attr", "Index"}
DeadFallback(root, sc) == \E n \in NodesOf(root, {"Coalesce", "Filter"}) : ~Has(TypeOf(n.c[1], sc), {"null", "any"})
OneWay(n, sc) == Cardinality({Truthy(eval(n.c[1], Env(sc, p), FALSE).v) : p \in Picks(sc)}) = 1
Taken(clause, env) == "if" \in clause.f => Truthy(eval(clause.c[1], env, FALSE).v)
NeverTaken(n, i, sc) == \A p \in Picks(sc) : Taken(n.c[i], Env(sc, p)) => \E j \in 1..(i - 1) : Taken(n.c[j], Env(sc, p))
Names(n) == {m.s : m \in NodesOf(n, {"Name"})}
DeadArm(root, sc) ==
  \/ \E n \in NodesOf(root, {"@if"}) : \E i \in DOMAIN n.c : NeverTaken(n, i, sc)
  \/ \E n \in NodesOf(root, {"Ternary", "Elvis", "Logical", "Clause"}) : (n.k = "Clause" => n.f # {}) /\ OneWay(n, sc)
  \/ \E n \in NodesOf(root, {"Ternary", "Elvis", "Logical"}) :
       ~(n.k = "Ternary" /\ n.c[1].k = "Test") /\ \E i \in 2..Len(n.c) : Names(n.c[1]) \cap Names(n.c[i]) # {}
NotNarrowed(root, sc) ==
  \E n \in NodesOf(root, {"Test"}) :
    n.s \in {"iterable", "sequence", "mapping"} /\ ("not" \in n.f \/ (Has(TypeOf(n.c[1], sc), {"list"}) /\ Has(TypeOf(n.c[1], sc), {"map"})))
MixedElements(root, sc) == \E n \in NodesOf(root, {"List", "Map"}) : \E i \in DOMAIN TypeOf(n, sc).a : TypeOf(n, sc).a[i].k = "union"
ElvisKeepsNull(root, sc) == \E n \in NodesOf(root, {"Elvis"}) : Has(TypeOf(n.c[1], sc), {"null"})
Claims(root) == "Type" \in {n.k : n \in UNION {Nodes(m) : m \in NodesOf(root, {"Targets", "@for"})}}

\* A template the checker refuses does fail for some values of the declared types:
\* a static rejection is the shadow of an error at run time.
RefusedFails(items) ==
  LET root == N("Module", "", items)
      before == seedTypes(items).sc
      refused == MixedNumber(root, before) \/ KeyIsText(root, before) \/ LenientChain(root) \/ DeadFallback(root, before) \/ DeadArm(root, before) \/ NotNarrowed(root, before) \/ MixedElements(root, before) \/ ElvisKeepsNull(root, before) \/ Claims(root)
  IN Check(items) # "" /\ ~refused => \E p \in Picks(before) : run(items, Env(before, p)).e # ""
=============================================================================
