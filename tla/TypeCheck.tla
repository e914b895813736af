------------------------------ MODULE TypeCheck ------------------------------
(***************************************************************************)
(* The gradual type checker (pkg/check): a template is walked before it    *)
(* renders, every expression gets a static type or the first error, and    *)
(* the annotations, calls and loops are checked for consistency.  A type   *)
(* is a kind, a host name, a sequence of parts and a set of union arms; an *)
(* error is "type", or "absent" for the misses that ??, default and is     *)
(* defined suppress.  A scope is the function of the names visible in it.  *)
(***************************************************************************)
EXTENDS Tree, TLC

\* HostTypes: the shape of every registered host type; HostSignatures: of every
\* registered callable.
CONSTANTS HostTypes, HostSignatures

(***************************************************************************)
(* Types                                                                   *)
(***************************************************************************)
Ty(k, s, a, u) == [k |-> k, s |-> s, a |-> a, u |-> u]
Scalar(k) == Ty(k, "", <<>>, {})
AnyT == Scalar("any")
NullT == Scalar("null")
BoolT == Scalar("bool")
IntT == Scalar("int")
FloatT == Scalar("float")
StringT == Scalar("string")
Never == Scalar("never")
ListOf(elem) == Ty("list", "", <<elem>>, {})
MapOf(key, val) == Ty("map", "", <<key, val>>, {})
ObjectOf(name) == Ty("Object", name, <<>>, {})
ArrowOf(params, ret) == Ty("arrow", "", Append(params, ret), {})

Arms(t) == IF t.k = "union" THEN t.u ELSE {t}
hasNull(t) == NullT \in Arms(t)
unionOf(S) ==
  LET flat == UNION {Arms(t) : t \in S \ {Never}}
  IN CASE AnyT \in S -> AnyT
       [] AnyT \notin S /\ flat = {} -> Never
       [] AnyT \notin S /\ Cardinality(flat) = 1 -> CHOOSE t \in flat : TRUE
       [] OTHER -> Ty("union", "", <<>>, flat)
join(a, b) == unionOf({a, b})
removeNull(t) == unionOf(Arms(t) \ {NullT})

RECURSIVE fromAST(_)
fromAST(n) ==
  LET parts == [i \in DOMAIN n.c |-> fromAST(n.c[i])]
  IN CASE n.k # "Type" -> AnyT
       [] n.s = "Object" -> ObjectOf(n.c[1].s)
       [] n.s = "group" -> parts[1]
       [] n.s = "union" -> unionOf(ToSet(parts) \cup IF "?" \in n.f THEN {NullT} ELSE {})
       [] n.s \in {"list", "map", "arrow"} -> Ty(n.s, "", parts, {})
       [] OTHER -> Scalar(n.s)

(***************************************************************************)
(* The registry                                                            *)
(***************************************************************************)
nominal == DOMAIN HostTypes # {}
knowsType(name) == nominal => name \in DOMAIN HostTypes

\* A member or a method of a type or of the first supertype that has it: <<"none">>
\* when none has, and <<"opaque">> for a name the host did not register.
RECURSIVE Inherited(_, _, _)
Inherited(table, name, m) ==
  IF name \notin DOMAIN HostTypes THEN <<"opaque">>
  ELSE LET t == HostTypes[name]
           found == SelectSeq([i \in DOMAIN t.supertypes |-> Inherited(table, t.supertypes[i], m)], LAMBDA r : r[1] # "none")
       IN CASE m \in DOMAIN t[table] -> <<"found", t[table][m]>>
            [] m \notin DOMAIN t[table] /\ found # <<>> -> found[1]
            [] OTHER -> <<"none">>

RECURSIVE subtypeOf(_, _)
subtypeOf(sub, sup) ==
  sub = sup \/ (sub \in DOMAIN HostTypes /\ \E i \in DOMAIN HostTypes[sub].supertypes : subtypeOf(HostTypes[sub].supertypes[i], sup))

stringifies(name) == name \in DOMAIN HostTypes => HostTypes[name].stringify

(***************************************************************************)
(* Relations on types                                                      *)
(***************************************************************************)
RECURSIVE consistent(_, _), consistent_SomeArm(_, _)
(* Mutant: a union fits when one of its arms does. *)
consistent_SomeArm(s, t) ==
  CASE AnyT \in {s, t} \/ s = Never -> TRUE
    [] AnyT \notin {s, t} /\ s # Never /\ "union" \in {s.k, t.k} -> \E a \in Arms(s), b \in Arms(t) : consistent_SomeArm(a, b)
    [] OTHER -> s.k = t.k /\ (s.k = "Object" => subtypeOf(s.s, t.s)) /\ \A i \in DOMAIN s.a : consistent_SomeArm(s.a[i], t.a[i])

consistent(s, t) ==
  CASE AnyT \in {s, t} \/ s = Never -> TRUE
    [] AnyT \notin {s, t} /\ s.k = "union" -> \A arm \in s.u : consistent(arm, t)
    [] AnyT \notin {s, t} /\ s.k \notin {"union", "never"} /\ t.k = "union" -> \E arm \in t.u : consistent(s, arm)
    [] OTHER -> /\ s.k = t.k
                /\ s.k = "Object" => subtypeOf(s.s, t.s)
                /\ Len(s.a) = Len(t.a) /\ \A i \in DOMAIN s.a : consistent(s.a[i], t.a[i])

RECURSIVE renderable(_)
renderable(t) == t.k \notin {"list", "map", "arrow"} /\ (t.k = "Object" => stringifies(t.s)) /\ \A arm \in t.u : renderable(arm)

RECURSIVE numeric(_)
numeric(t) == t \in {IntT, FloatT} \/ (t.k = "union" /\ \A arm \in t.u : numeric(arm))

\* What a loop over t binds, or nothing when t is not iterable.
Iterates(elem, key) == <<[elem |-> elem, key |-> key]>>
RECURSIVE iterableElem(_)
iterableElem(t) ==
  CASE t = AnyT -> Iterates(AnyT, AnyT)
    [] t.k = "list" -> Iterates(t.a[1], IntT)
    [] t.k = "map" -> Iterates(t.a[2], t.a[1])
    [] t = StringT -> Iterates(StringT, IntT)
    [] t.k = "Object" ->
         IF t.s \notin DOMAIN HostTypes THEN Iterates(AnyT, AnyT)
         ELSE IF HostTypes[t.s].elem = Never THEN <<>> ELSE Iterates(HostTypes[t.s].elem, AnyT)
    [] t.k = "union" ->
         IF \E arm \in t.u : iterableElem(arm) = <<>> THEN <<>>
         ELSE Iterates(unionOf({iterableElem(arm)[1].elem : arm \in t.u}), unionOf({iterableElem(arm)[1].key : arm \in t.u}))
    [] OTHER -> <<>>

RECURSIVE validMapKey(_), validateType(_)
validMapKey(t) == t \in {AnyT, IntT, StringT} \/ (t.k = "union" /\ \A arm \in t.u : validMapKey(arm))
validateType(t) ==
  /\ t.k = "map" => validMapKey(t.a[1])
  /\ t.k = "Object" => t.s # "" /\ knowsType(t.s)
  /\ \A i \in DOMAIN t.a : validateType(t.a[i])
  /\ \A arm \in t.u : validateType(arm)

(***************************************************************************)
(* Narrowing in the branch where a condition holds                         *)
(***************************************************************************)
Lookup(sc, name) == IF name \in DOMAIN sc THEN sc[name] ELSE AnyT
Bind(sc, name, t) == (name :> t) @@ sc

(* Mutant: a guard on a union keeps the arms it excludes. *)
narrowTo_Widens(cur, target, negated) ==
  IF negated THEN IF cur = AnyT THEN cur ELSE unionOf(Arms(cur) \ {target})
  ELSE IF target \in Arms(cur) THEN cur ELSE target

narrowTo(cur, target, negated) ==
  IF negated THEN IF cur = AnyT THEN cur ELSE unionOf(Arms(cur) \ {target}) ELSE target

narrowToCollection(cur, fallback) ==
  LET kept == {arm \in Arms(cur) : arm.k \in {"list", "map"}}
  IN IF kept = {} THEN fallback ELSE unionOf(kept)

ScalarTests == {"int", "float", "string", "bool"}
narrowTest(cond, sc) ==
  LET name == cond.c[1].s
      cur == Lookup(sc, name)
      negated == "not" \in cond.f
  IN CASE cond.c[1].k # "Name" -> sc
       [] cond.c[1].k = "Name" /\ cond.s \in {"null", "none"} -> Bind(sc, name, IF negated THEN removeNull(cur) ELSE NullT)
       [] cond.c[1].k = "Name" /\ cond.s \in ScalarTests -> Bind(sc, name, narrowTo(cur, Scalar(cond.s), negated))
       [] cond.c[1].k = "Name" /\ cond.s \in {"iterable", "sequence"} /\ ~negated -> Bind(sc, name, narrowToCollection(cur, ListOf(AnyT)))
       [] cond.c[1].k = "Name" /\ cond.s = "mapping" /\ ~negated -> Bind(sc, name, narrowToCollection(cur, MapOf(AnyT, AnyT)))
       [] OTHER -> sc

RECURSIVE narrowTrue(_, _), narrowTrue_Either(_, _)
(* Mutant: both sides of an "or" narrow. *)
narrowTrue_Either(cond, sc) ==
  CASE cond.k = "Test" -> narrowTest(cond, sc)
    [] cond.k = "Logical" /\ cond.s \in {"and", "or"} -> narrowTrue_Either(cond.c[2], narrowTrue_Either(cond.c[1], sc))
    [] OTHER -> sc

narrowTrue(cond, sc) ==
  CASE cond.k = "Test" -> narrowTest(cond, sc)
    [] cond.k = "Logical" /\ cond.s = "and" -> narrowTrue(cond.c[2], narrowTrue(cond.c[1], sc))
    [] OTHER -> sc

(***************************************************************************)
(* Signatures                                                              *)
(***************************************************************************)
Sig(params, optional, ret) == [params |-> params, optional |-> optional, variadic |-> FALSE, varElem |-> AnyT, ret |-> ret]
Variadic(params, ret) == [Sig(params, 0, ret) EXCEPT !.variadic = TRUE]

builtinFilterSigs ==
  [f \in {"upper", "lower", "title", "capitalize", "ucfirst", "nl2br", "spaceless"} |-> Sig(<<StringT>>, 0, StringT)]
  @@ "trim" :> Sig(<<StringT, StringT>>, 1, StringT) @@ "striptags" :> Sig(<<StringT, AnyT>>, 1, StringT)
  @@ "url_encode" :> Sig(<<AnyT>>, 0, StringT) @@ [f \in {"escape", "e"} |-> Sig(<<AnyT, StringT>>, 1, StringT)]
  @@ "indent" :> Sig(<<StringT, IntT, StringT>>, 2, StringT) @@ "replace" :> Sig(<<StringT, AnyT>>, 0, StringT)
  @@ "format" :> Variadic(<<StringT>>, StringT) @@ "abs" :> Sig(<<AnyT>>, 0, AnyT)
  @@ "round" :> Sig(<<AnyT, IntT, StringT>>, 2, FloatT) @@ "number_format" :> Sig(<<AnyT, IntT, StringT, StringT>>, 3, StringT)
  @@ "length" :> Sig(<<AnyT>>, 0, IntT) @@ "join" :> Sig(<<ListOf(AnyT), StringT>>, 1, StringT)
  @@ "keys" :> Sig(<<AnyT>>, 0, ListOf(AnyT)) @@ "json" :> Sig(<<AnyT, AnyT>>, 1, StringT) @@ "tab" :> Sig(<<AnyT, IntT>>, 1, StringT)
builtinFunctionSigs ==
  "range" :> Sig(<<IntT, IntT, IntT>>, 1, ListOf(IntT)) @@ "max" :> Variadic(<<AnyT>>, AnyT) @@ "min" :> Variadic(<<AnyT>>, AnyT)
  @@ "len" :> Sig(<<AnyT>>, 0, IntT) @@ "length" :> Sig(<<AnyT>>, 0, IntT)

\* The first table that has the name.
Signature(name, builtin) ==
  CASE name \in DOMAIN HostSignatures -> <<HostSignatures[name]>>
    [] name \notin DOMAIN HostSignatures /\ name \in DOMAIN builtin -> <<builtin[name]>>
    [] OTHER -> <<>>

paramType(q) == IF ":" \in q.f THEN fromAST(q.c[1]) ELSE AnyT
fillParamSig(ps, ret) ==
  LET slots == SelectSeq(ps, LAMBDA q : q.f \cap {"...", "**"} = {})
      required == {i \in DOMAIN slots : "=" \notin slots[i].f}
      rest == SelectSeq(ps, LAMBDA q : "..." \in q.f)
  IN [params |-> [i \in DOMAIN slots |-> paramType(slots[i])],
      optional |-> Len(slots) - (IF required = {} THEN 0 ELSE CHOOSE i \in required : \A j \in required : j <= i),
      variadic |-> rest # <<>>, varElem |-> IF rest = <<>> THEN AnyT ELSE paramType(rest[1]), ret |-> ret]

macroSignature(n) ==
  LET types == SelectSeq(Tail(n.c), LAMBDA x : x.k = "Type")
  IN fillParamSig(n.c[1].c, IF types = <<>> THEN AnyT ELSE fromAST(types[1]))

\* indexCallables: the signature of every macro, wherever the template defines it;
\* the last definition of a name wins.
RECURSIVE indexCallables(_)
indexCallables(n) ==
  LET own == IF n.k = "@macro" THEN n.s :> macroSignature(n) ELSE << >>
  IN FoldLeft(LAMBDA acc, child : indexCallables(child) @@ acc, own, n.c)

(***************************************************************************)
(* Expressions: a type, or the first error                                 *)
(***************************************************************************)
Typed(t) == [t |-> t, e |-> ""]
Reject == [t |-> AnyT, e |-> "type"]
Absent == [t |-> AnyT, e |-> "absent"]
\* The result r, unless one of the results before it is an error.
After(rs, r) == LET bad == SelectSeq(rs, LAMBDA x : x.e # "") IN IF bad = <<>> THEN r ELSE bad[1]
lenient(r) == IF r.e = "absent" THEN Typed(AnyT) ELSE r
JoinAll(ts) == LET t == unionOf(ts) IN IF t = Never THEN AnyT ELSE t
\* The arms of a union in the order of their spelling: objects come first.
JoinArms(rs) == IF Absent \in rs THEN Absent ELSE IF Reject \in rs THEN Reject ELSE Typed(unionOf({r.t : r \in rs}))

RECURSIVE memberOf(_, _), subscriptOf(_, _)
memberOf(t, m) ==
  LET found == Inherited("members", t.s, m)
  IN CASE t = AnyT \/ (t.k = "Object" /\ (~nominal \/ found[1] = "opaque")) -> Typed(AnyT)
       [] t.k = "Object" /\ nominal /\ found[1] # "opaque" -> IF found[1] = "found" THEN Typed(found[2]) ELSE Absent
       [] t.k = "map" -> Typed(t.a[2])
       [] t.k = "union" -> JoinArms({memberOf(arm, m) : arm \in t.u})
       [] OTHER -> Reject

subscriptOf(t, key) ==
  CASE t = AnyT \/ t.k = "Object" -> Typed(AnyT)
    [] t.k = "list" -> IF consistent(key, IntT) THEN Typed(t.a[1]) ELSE Reject
    [] t.k = "map" -> IF consistent(key, t.a[1]) THEN Typed(t.a[2]) ELSE Reject
    [] t = StringT -> Typed(StringT)
    [] t.k = "union" -> JoinArms({subscriptOf(arm, key) : arm \in t.u})
    [] OTHER -> Reject

\* ?. and ?[ read the value a nullable receiver may hold; null makes the result nullable.
Reached(safe, recv, Of(_)) ==
  LET r == Of(IF safe THEN removeNull(recv) ELSE recv)
  IN IF r.e = "" /\ safe /\ hasNull(recv) THEN Typed(join(r.t, NullT)) ELSE r

arithType(op, l, r) ==
  CASE AnyT \in {l, r} -> Typed(AnyT)
    [] AnyT \notin {l, r} /\ ~(numeric(l) /\ numeric(r)) -> Reject
    [] OTHER -> Typed(IF op # "/" /\ l = IntT /\ r = IntT THEN IntT ELSE FloatT)

(* Mutant: any two known types are ordered. *)
checkOrder_Lax(l, r) == TRUE

checkOrder(l, r) == AnyT \in {l, r} \/ (numeric(l) /\ numeric(r)) \/ (l = StringT /\ r = StringT)

binaryType(op, l, r) ==
  CASE op \in {"+", "-", "*", "/", "//", "%"} -> arithType(op, l, r)
    [] op \in {"==", "!="} -> Typed(BoolT)
    [] op \in {"<", ">", "<=", ">=", "<=>"} -> IF checkOrder(l, r) THEN Typed(IF op = "<=>" THEN IntT ELSE BoolT) ELSE Reject
    [] op = ".." -> Typed(ListOf(IntT))
    [] OTHER -> Typed(AnyT)

\* Each operand of ~ is typed and must render, before the next one is looked at.
concatType(l, r) ==
  LET Rendered(x) == IF x.e = "" /\ ~renderable(x.t) THEN Reject ELSE x
  IN After(<<Rendered(l), Rendered(r)>>, Typed(StringT))

unaryType(op, t) ==
  CASE op = "not" -> Typed(BoolT)
    [] op # "not" /\ t \in {AnyT, IntT, FloatT} -> Typed(t)
    [] OTHER -> Reject

\* checkArgs: the arguments' results paired with a signature's parameters; piped is
\* the filtered value, before them.
checkArgs(sig, piped, args, rs) ==
  LET at == {i \in DOMAIN args : args[i].f = {}}
      given == SetToSortSeq(at, LAMBDA i, j : i < j)
      pos == piped \o [i \in DOMAIN given |-> rs[given[i]].t]
      count == Len(pos)
      expected(i) == IF i <= Len(sig.params) THEN sig.params[i] ELSE IF sig.variadic THEN sig.varElem ELSE AnyT
      arity == count >= Len(sig.params) - sig.optional /\ (sig.variadic \/ count <= Len(sig.params))
  IN IF (at = DOMAIN args => arity) /\ \A i \in DOMAIN pos : consistent(pos[i], expected(i)) THEN Typed(sig.ret) ELSE Reject

HigherOrder == {"map", "filter", "sort", "reduce", "find"}
Value(arg) == arg.c[1]

RECURSIVE exprType(_, _, _), arrowType(_, _, _, _)
arrowArg(M, arg, hints, sc) ==
  LET r == arrowType(M, Value(arg), hints, sc)
  IN IF Value(arg).k # "Arrow" THEN After(<<exprType(M, Value(arg), sc)>>, Typed(AnyT))
     ELSE IF r.e = "" THEN Typed(Last(r.t.a)) ELSE r

\* An arrow: a parameter has its annotation, or the element the pipeline passes it.
arrowType(M, n, hints, sc) ==
  LET ps == Front(n.c)
      hint(i) == IF i <= Len(hints) THEN hints[i] ELSE AnyT
      type(i) == IF ":" \in ps[i].f THEN paramType(ps[i]) ELSE hint(i)
      bad == \E i \in DOMAIN ps : ":" \in ps[i].f /\ ~(validateType(type(i)) /\ consistent(hint(i), type(i)))
      inner == FoldLeft(LAMBDA s, i : Bind(s, ps[i].s, type(i)), sc, [i \in DOMAIN ps |-> i])
      body == exprType(M, Last(n.c), inner)
  IN IF bad THEN Reject ELSE After(<<body>>, Typed(ArrowOf([i \in DOMAIN ps |-> type(i)], body.t)))

higherOrderFilter(M, n, piped, sc) ==
  LET loop == iterableElem(piped)
      elem == loop[1].elem
      args == Tail(n.c)
      seed == IF Len(args) >= 2 THEN exprType(M, Value(args[2]), sc) ELSE Typed(AnyT)
      hints == CASE n.s = "sort" -> <<elem, elem>> [] n.s = "reduce" -> <<seed.t, elem>> [] OTHER -> <<elem>>
      arrow == IF args = <<>> THEN Typed(AnyT) ELSE arrowArg(M, args[1], hints, sc)
      result == CASE n.s = "map" -> ListOf(arrow.t)
                  [] n.s = "reduce" -> seed.t
                  [] n.s = "find" -> IF piped = AnyT THEN AnyT ELSE join(elem, NullT)
                  [] OTHER -> IF piped = AnyT THEN AnyT ELSE ListOf(elem)
  IN IF loop = <<>> THEN Reject ELSE After(IF n.s = "reduce" THEN <<seed, arrow>> ELSE <<arrow>>, Typed(result))

filterType(M, n, sc) ==
  LET piped == exprType(M, n.c[1], sc)
      args == Tail(n.c)
      rs == [i \in DOMAIN args |-> exprType(M, Value(args[i]), sc)]
      sig == Signature(n.s, builtinFilterSigs)
      fallback == IF args = <<>> THEN Typed(AnyT) ELSE rs[1]
  IN CASE n.s = "default" -> After(<<lenient(piped), fallback>>, Typed(join(removeNull(lenient(piped).t), fallback.t)))
       [] n.s # "default" /\ piped.e # "" -> piped
       [] n.s \in HigherOrder /\ piped.e = "" -> higherOrderFilter(M, n, piped.t, sc)
       [] OTHER -> After(rs, IF sig = <<>> THEN Typed(AnyT) ELSE checkArgs(sig[1], <<piped.t>>, args, rs))

callType(M, n, sc) ==
  LET callee == n.c[1]
      args == Tail(n.c)
      rs == [i \in DOMAIN args |-> exprType(M, Value(args[i]), sc)]
      recv == exprType(M, callee.c[1], sc)
      method == Inherited("methods", recv.t.s, callee.s)
      sig == IF callee.s \in DOMAIN M THEN <<M[callee.s]>> ELSE Signature(callee.s, builtinFunctionSigs)
  IN CASE callee.k = "Attr" ->
            After(<<recv>>, IF ~(recv.t.k = "Object" /\ nominal) \/ method[1] = "opaque" THEN After(rs, Typed(AnyT))
                            ELSE IF method[1] = "none" THEN Reject ELSE After(rs, checkArgs(method[2], <<>>, args, rs)))
       [] callee.k = "Name" /\ sig # <<>> -> After(rs, checkArgs(sig[1], <<>>, args, rs))
       [] OTHER -> After(rs, Typed(AnyT))

mapType(entries, rs) ==
  LET of(i) == CASE entries[i].f = {"("} -> <<rs[i][1].t, rs[i][2].t>>
                 [] entries[i].f = {"..."} -> <<AnyT, AnyT>>
                 [] OTHER -> <<StringT, rs[i][1].t>>
  IN After(FlattenSeq(rs), Typed(MapOf(JoinAll({of(i)[1] : i \in DOMAIN entries}), JoinAll({of(i)[2] : i \in DOMAIN entries}))))

exprType(M, n, sc) ==
  LET r(i) == exprType(M, n.c[i], sc)
      all == [i \in DOMAIN n.c |-> r(i)]
  IN CASE n.k = "Int" -> Typed(IntT)
       [] n.k = "Float" -> Typed(FloatT)
       [] n.k = "String" -> Typed(StringT)
       [] n.k = "Bool" -> Typed(BoolT)
       [] n.k = "Null" -> Typed(NullT)
       [] n.k = "Name" -> Typed(Lookup(sc, n.s))
       [] n.k = "List" ->
            LET elem(i) == IF n.c[i].k # "Spread" THEN r(i).t ELSE IF r(i).t.k = "list" THEN r(i).t.a[1] ELSE AnyT
            IN After(all, Typed(ListOf(JoinAll({elem(i) : i \in DOMAIN n.c}))))
       [] n.k = "Map" ->
            mapType(n.c, [i \in DOMAIN n.c |-> IF n.c[i].f = {} THEN <<Typed(Lookup(sc, n.c[i].s))>>
                                               ELSE [j \in DOMAIN n.c[i].c |-> exprType(M, n.c[i].c[j], sc)]])
       [] n.k = "Attr" -> After(all, Reached("?" \in n.f, r(1).t, LAMBDA t : memberOf(t, n.s)))
       [] n.k = "Index" -> After(all, Reached("?" \in n.f, r(1).t, LAMBDA t : subscriptOf(t, r(2).t)))
       [] n.k = "Slice" ->
            After(all, IF \E i \in {2, 3} : n.c[i].k # "Elided" /\ ~consistent(r(i).t, IntT) THEN Reject
                       ELSE Typed(IF r(1).t.k \in {"list", "string"} THEN r(1).t ELSE AnyT))
       [] n.k = "Call" -> callType(M, n, sc)
       [] n.k = "Filter" -> filterType(M, n, sc)
       [] n.k = "Unary" -> After(all, unaryType(n.s, r(1).t))
       [] n.k = "Spread" -> r(1)
       [] n.k = "Binary" /\ n.s = "~" -> concatType(r(1), r(2))
       [] n.k = "Binary" /\ n.s # "~" -> After(all, binaryType(n.s, r(1).t, r(2).t))
       [] n.k = "Power" -> After(all, arithType("**", r(1).t, r(2).t))
       [] n.k = "Logical" -> After(all, Typed(BoolT))
       [] n.k = "Membership" ->
            LET loop == iterableElem(r(1).t)
                right == IF n.c[2].k = "Arrow" THEN arrowType(M, n.c[2], IF loop = <<>> THEN <<>> ELSE <<loop[1].elem>>, sc) ELSE r(2)
            IN After(<<r(1), right>>, Typed(BoolT))
       [] n.k = "Test" ->
            LET args == [i \in 1..(Len(n.c) - 1) |-> exprType(M, Value(n.c[i + 1]), sc)]
            IN After(<<IF n.s = "defined" THEN lenient(r(1)) ELSE r(1)>> \o args, Typed(BoolT))
       [] n.k = "Ternary" ->
            LET then == exprType(M, n.c[2], narrowTrue(n.c[1], sc))
            IN After(<<r(1), then, r(3)>>, Typed(join(then.t, r(3).t)))
       [] n.k = "Coalesce" -> After(<<lenient(r(1)), r(2)>>, Typed(join(removeNull(lenient(r(1)).t), r(2).t)))
       [] n.k = "Elvis" -> After(all, Typed(join(r(1).t, r(2).t)))
       [] n.k = "Arrow" -> arrowType(M, n, <<>>, sc)
       [] OTHER -> Typed(AnyT)

(***************************************************************************)
(* Statements: the scope after them, or the first error                    *)
(***************************************************************************)
Passed(sc) == [sc |-> sc, e |-> ""]
Stop(sc, e) == [sc |-> sc, e |-> e]
\* The next piece is checked only when the one before it passed.
Onward(a, Of(_)) == IF a.e # "" THEN a ELSE Of(a.sc)
\* What is checked in a scope of its own leaves sc as it was.
Apart(sc, rs) == Stop(sc, After(rs, Typed(AnyT)).e)
Outcome(r) == [t |-> AnyT, e |-> r.e]

annotation(n) == SelectSeq(n.c, LAMBDA x : x.k = "Type")
BodyOf(n, heads) == SelectSeq(n.c, LAMBDA x : x.k \notin heads)

RECURSIVE bindPatternNames(_, _)
bindPatternNames(sc, n) ==
  CASE n.k = "Target" -> Bind(sc, n.s, IF n.c = <<>> THEN AnyT ELSE fromAST(n.c[1]))
    [] n.k = "Name" -> Bind(sc, n.s, AnyT)
    [] n.k = "MapTarget" -> Bind(sc, IF ":" \in n.f THEN n.c[1].s ELSE n.s, AnyT)
    [] n.k \in {"Spread", "Optional", "ListPattern", "MapPattern"} -> FoldLeft(bindPatternNames, sc, n.c)
    [] OTHER -> sc

\* A declared type must be well formed and what is bound consistent with it.
Declared(sc, name, ann, found) ==
  LET t == fromAST(ann) IN IF validateType(t) /\ consistent(found, t) THEN Passed(Bind(sc, name, t)) ELSE Stop(sc, "type")

bindTarget(M, tg, value, sc) ==
  LET v == exprType(M, value, sc)
  IN CASE v.e # "" -> Stop(sc, v.e)
       [] tg.k \in {"Attr", "Index"} /\ v.e = "" -> Stop(sc, exprType(M, tg, sc).e)
       [] tg.k = "Target" /\ v.e = "" -> IF tg.c = <<>> THEN Passed(Bind(sc, tg.s, v.t)) ELSE Declared(sc, tg.s, tg.c[1], v.t)
       [] OTHER -> Passed(bindPatternNames(sc, tg))

checkSet(M, n, sc) ==
  LET targets == n.c[1].c
      values == Tail(n.c)
      value == exprType(M, values[1], sc)
  IN IF Len(targets) = Len(values)
     THEN FoldLeft(LAMBDA acc, i : Onward(acc, LAMBDA s : bindTarget(M, targets[i], values[i], s)), Passed(sc), [i \in DOMAIN targets |-> i])
     ELSE IF value.e # "" THEN Stop(sc, value.e) ELSE Passed(FoldLeft(bindPatternNames, sc, targets))

bindLoopTarget(sc, tg, inferred) ==
  CASE tg.k # "Target" -> Passed(sc)
    [] tg.k = "Target" /\ tg.c = <<>> -> Passed(Bind(sc, tg.s, inferred))
    [] OTHER -> Declared(sc, tg.s, tg.c[1], inferred)

bindParam(M, sc, q) ==
  LET t == paramType(q)
      default == exprType(M, Last(q.c), sc)
  IN CASE ":" \in q.f /\ ~validateType(t) -> Stop(sc, "type")
       [] "**" \in q.f -> Passed(Bind(sc, q.s, MapOf(StringT, AnyT)))
       [] "..." \in q.f -> Passed(Bind(sc, q.s, ListOf(t)))
       [] "=" \in q.f -> IF default.e # "" THEN Stop(sc, default.e)
                         ELSE IF consistent(default.t, t) THEN Passed(Bind(sc, q.s, t)) ELSE Stop(sc, "type")
       [] OTHER -> Passed(Bind(sc, q.s, t))
bindParams(M, sc, ps) == FoldLeft(LAMBDA acc, q : Onward(acc, LAMBDA s : bindParam(M, s, q)), Passed(sc), ps)

RECURSIVE checkItems(_, _, _), checkStmt(_, _, _)
checkItems(M, items, sc) == FoldLeft(LAMBDA acc, n : Onward(acc, LAMBDA s : checkStmt(M, n, s)), Passed(sc), items)

\* A value that is printed.
checkPrint(r) == IF r.e = "" /\ ~renderable(r.t) THEN Reject ELSE r

checkClause(M, n, sc) ==
  IF "if" \notin n.f THEN Outcome(checkItems(M, n.c, sc))
  ELSE LET cond == exprType(M, n.c[1], sc) IN After(<<cond>>, Outcome(checkItems(M, Tail(n.c), narrowTrue(n.c[1], sc))))

Targets(n) == SubSeq(n.c, 1, IF "two" \in n.f THEN 2 ELSE 1)
AfterTargets(n) == SubSeq(n.c, Len(Targets(n)) + 1, Len(n.c))

\* The scope of a loop's body: its targets bound to what the iterand yields.
loopScope(M, n, sc) ==
  LET binds == iterableElem(exprType(M, AfterTargets(n)[1], sc).t)[1]
      types == IF "two" \in n.f THEN <<binds.key, binds.elem>> ELSE <<binds.elem>>
  IN FoldLeft(LAMBDA acc, i : Onward(acc, LAMBDA s : bindLoopTarget(s, Targets(n)[i], types[i])), Passed(sc), [i \in DOMAIN types |-> i])

checkFor(M, n, sc) ==
  LET rest == AfterTargets(n)
      iter == exprType(M, rest[1], sc)
      loop == loopScope(M, n, sc)
      filter == [i \in 1..(IF rest[2].k = "Clause" THEN 1 ELSE 0) |-> exprType(M, rest[2].c[1], loop.sc)]
      bodies == SelectSeq(rest, LAMBDA x : x.k = "Body")
      ofBody(i) == Outcome(checkItems(M, bodies[i].c, IF i = 1 THEN loop.sc ELSE sc))
  IN CASE iter.e # "" -> iter
       [] iter.e = "" /\ iterableElem(iter.t) = <<>> -> Reject
       [] OTHER -> After(<<Outcome(loop)>> \o filter, After([i \in DOMAIN bodies |-> ofBody(i)], Typed(AnyT)))

checkBlock(M, n, sc) ==
  LET ps == IF "params" \in n.f THEN n.c[1].c ELSE <<>>
      inner == bindParams(M, sc, ps)
  IN After(<<Outcome(inner)>>, IF "value" \in n.f THEN checkPrint(exprType(M, Last(n.c), inner.sc))
                               ELSE Outcome(checkItems(M, BodyOf(n, {"Params", "Type"}), inner.sc)))

\* A macro's body sees its parameters alone.
checkMacro(M, n) ==
  LET inner == bindParams(M, << >>, n.c[1].c) IN After(<<Outcome(inner)>>, Outcome(checkItems(M, BodyOf(n, {"Params", "Type"}), inner.sc)))

checkCallBlock(M, n, sc) ==
  LET args == SelectSeq(n.c, LAMBDA x : x.k = "Arg")
      inner == bindParams(M, sc, n.c[1].c)
  IN After([i \in DOMAIN args |-> exprType(M, Value(args[i]), sc)],
       After(<<Outcome(inner)>>, Outcome(checkItems(M, Last(n.c).c, inner.sc))))

checkGuard(M, n, sc) ==
  LET branch(x) == IF x.k = "Clause" THEN checkItems(M, x.c, sc) ELSE checkStmt(M, x, sc)
  IN [i \in DOMAIN Tail(n.c) |-> Outcome(branch(Tail(n.c)[i]))]

\* The statements whose heads are expressions and whose body has a scope of its own.
Heads == [k \in {"@tab", "@with", "@escape", "@sandbox", "@provide"} |-> IF k \in {"@tab", "@with"} THEN 1 ELSE 0]
Statement == {"Print", "Set", "Capture", "@do", "@log", "@if", "@for", "@block", "@macro", "@call", "@guard", "@apply", "@cache", "@yield"} \cup DOMAIN Heads

checkApply(M, n, sc) ==
  LET filters == SelectSeq(n.c, LAMBDA x : x.k = "ApplyFilter")
      args == FlattenSeq([i \in DOMAIN filters |-> filters[i].c])
  IN Append([i \in DOMAIN args |-> exprType(M, Value(args[i]), sc)], Outcome(checkItems(M, BodyOf(n, {"ApplyFilter"}), sc)))

checkCapture(M, n, sc) ==
  LET ann == annotation(n)
      t == IF ann = <<>> THEN StringT ELSE fromAST(ann[1])
      body == checkItems(M, BodyOf(n, {"Type"}), sc)
  IN CASE ~validateType(t) -> Stop(sc, "type")
       [] validateType(t) /\ body.e # "" -> Stop(sc, body.e)
       [] OTHER -> Passed(Bind(sc, n.s, t))

\* checkChildrenExprs: a statement without a rule of its own is only walked.
checkChildren(M, n, sc) ==
  FoldLeft(LAMBDA acc, x : Onward(acc, LAMBDA s : IF x.k \in Statement THEN checkStmt(M, x, s) ELSE Stop(s, exprType(M, x, s).e)), Passed(sc), n.c)

checkStmt(M, n, sc) ==
  LET Items(from) == Outcome(checkItems(M, SubSeq(n.c, from, Len(n.c)), sc))
      HeadType(i) == exprType(M, n.c[i], sc)
  IN CASE n.k = "Print" -> Apart(sc, <<checkPrint(HeadType(1))>>)
       [] n.k = "Set" -> checkSet(M, n, sc)
       [] n.k = "Capture" -> checkCapture(M, n, sc)
       [] n.k \in {"@do", "@log"} -> Apart(sc, <<HeadType(1)>>)
       [] n.k = "@if" -> Apart(sc, [i \in DOMAIN n.c |-> checkClause(M, n.c[i], sc)])
       [] n.k = "@for" -> Apart(sc, <<checkFor(M, n, sc)>>)
       [] n.k = "@block" -> Apart(sc, <<checkBlock(M, n, sc)>>)
       [] n.k = "@macro" -> Apart(sc, <<checkMacro(M, n)>>)
       [] n.k = "@call" -> Apart(sc, <<checkCallBlock(M, n, sc)>>)
       [] n.k = "@guard" -> Apart(sc, checkGuard(M, n, sc))
       [] n.k = "@apply" -> Apart(sc, checkApply(M, n, sc))
       [] n.k = "@cache" ->
            LET args == SelectSeq(n.c, LAMBDA x : x.k = "CacheArg")
            IN Apart(sc, [i \in DOMAIN args |-> exprType(M, args[i].c[1], sc)] \o <<Outcome(checkItems(M, BodyOf(n, {"CacheArg"}), sc))>>)
       [] n.k \in DOMAIN Heads -> Apart(sc, [i \in 1..Heads[n.k] |-> HeadType(i)] \o <<Items(Heads[n.k] + 1)>>)
       [] n.k = "@yield" -> Passed(sc)
       [] OTHER -> checkChildren(M, n, sc)

seedTypes(items) ==
  LET decls == FlattenSeq([i \in DOMAIN items |-> IF items[i].k = "@types" THEN items[i].c ELSE <<>>])
  IN FoldLeft(LAMBDA acc, d : Onward(acc, LAMBDA s : Declared(s, d.s, d.c[1], AnyT)), Passed(<< >>), decls)

\* Check: "" for a template that may render, or the class of the first error.
Check(items) == Onward(seedTypes(items), LAMBDA sc : checkItems(indexCallables(N("Module", "", items)), items, sc)).e
=============================================================================
