----------------------------- MODULE MCLanguage -----------------------------
(***************************************************************************)
(* The pure algorithms of the language, each on every input of its domain: *)
(* integer arithmetic and keys, the parser, the type checker, the loop     *)
(* analyses, the composition of templates, the collection filters and the  *)
(* text filters.  A behaviour picks a seed, then a subject that grows from *)
(* it; the properties speak of the subject.                                *)
(***************************************************************************)
EXTENDS TypedTemplates

CONSTANTS MaxDepth, MaxInline
VARIABLE subject

Docs == INSTANCE Documents
Loops == INSTANCE LoopPrograms
Colls == INSTANCE Collections
Texts == INSTANCE Text
Composed == INSTANCE Pages

\* One host class H with an int field f, which is not a string.
OneHostType == "H" :> [members |-> ("f" :> IntT), methods |-> <<>>, elem |-> Never, stringify |-> FALSE, supertypes |-> <<>>]
NoSignatures == <<>>
OneField == "f" :> Val("int", 2)

UpTo(S, n) == UNION {[1..i -> S] : i \in 0..n}
KeyCharacters == {Minus, 0, 1, 5, 6, 7, 11}
HostKey(i) == [k |-> IF i > 12 THEN "uint" ELSE "int", v |-> i, s |-> <<>>]
HostIntKeys == {0, 1, 2, -1, 10, 11, 20}
HostTextKeys == {[k |-> "str", v |-> 0, s |-> s] : s \in {<<11>>, <<1>>, <<1, 0>>, <<2>>, <<0, 1>>, <<Minus, 1>>}}
HostAnyKeys == {HostKey(i) : i \in {1, 2, 10, 11}} \cup {[k |-> "str", v |-> 0, s |-> s] : s \in {<<11>>, <<1>>, <<1, 0>>}}
Orders(K) == {SetToSeq(S) : S \in {T \in SUBSET K : Cardinality(T) <= 3}}

Elements == {Colls!Num(n) : n \in {0, 8, 9}} \cup {[k |-> "float", v |-> 8], [k |-> "str", v |-> 11], Colls!Null}
Row(x) == Colls!Arr(<<[key |-> <<11>>, val |-> x]>>)
KeyRows == {<<<<11>>, <<1>>, <<12>>, <<0>>>>, <<<<2>>, <<11>>, <<0>>, <<13>>>>}
Keyed(vs) == {Colls!list(vs)} \cup {[i \in DOMAIN vs |-> [key |-> ks[i], val |-> vs[i]]] : ks \in KeyRows}

\* Text of letters, blanks, newlines and one wide character; pairs that replace into each other's keys.
Characters == 0..3
Replacements ==
  {<<[from |-> <<2>>, to |-> <<3, 3>>], [from |-> <<3, 2>>, to |-> <<2>>]>>, <<[from |-> <<2>>, to |-> <<>>], [from |-> <<2, 3>>, to |-> <<2>>]>>}

Init == subject = [what |-> "start"]

Seed ==
  /\ subject.what = "start"
  /\ \/ \E a \in Int64 : subject' = [what |-> "int", a |-> a]
     \/ \E c \in KeyCharacters : subject' = [what |-> "character", c |-> c]
     \/ \E t \in Docs!Around(Docs!X) : subject' = [what |-> "expression", t |-> t]
     \/ \E t \in DeclaredTypes : subject' = [what |-> "type", t |-> t]
     \/ \E e \in Loops!Escapees : subject' = [what |-> "escapee", e |-> e]
     \/ \E f \in Composed!Fillers : subject' = [what |-> "filler", f |-> f]
     \/ \E vs \in UpTo(Elements, 2) : subject' = [what |-> "elements", vs |-> vs]
     \/ \E w \in 0..5, pairs \in Replacements : subject' = [what |-> "width", w |-> w, pairs |-> pairs]

Numbers == subject.what = "int" /\ \E b \in Int64 : subject' = [what |-> "ints", a |-> subject.a, b |-> b]

Keys ==
  \/ subject.what = "start" /\ subject' = [what |-> "key", s |-> <<>>]
  \/ /\ subject.what = "character"
     /\ \E s \in UpTo(KeyCharacters, 2) : subject' = [what |-> "key", s |-> <<subject.c>> \o s]

HostMaps ==
  /\ subject.what = "start"
  /\ \/ \E o \in Orders(HostIntKeys) :
          subject' = [what |-> "host map", intKeyed |-> TRUE, order |-> [i \in DOMAIN o |-> [key |-> HostKey(o[i]), val |-> o[i]]]]
     \/ \E o \in Orders(HostTextKeys) \cup Orders(HostAnyKeys) :
          subject' = [what |-> "host map", intKeyed |-> FALSE, order |-> [i \in DOMAIN o |-> [key |-> o[i], val |-> i]]]

Parses ==
  \/ subject.what = "start" /\ \E n \in Docs!Statements : subject' = [what |-> "document", items |-> <<n>>]
  \/ subject.what = "expression" /\ \E t \in Docs!Around(subject.t) : subject' = [what |-> "document", items |-> Docs!Printed(t)]

Checked(items) == subject' = [what |-> "template", items |-> items]
Checks ==
  /\ subject.what = "type"
  /\ LET t == subject.t
     IN \/ \E u \in DeclaredTypes, e \in Around(X) : Checked(<<Types(t, u), Shown(e)>>)
        \/ \E u \in {IntType, StringType}, e \in Around(X) :
             \/ \E use \in {Uses("a"), Shown(Y)} : Checked(<<Types(t, u), Set("a", e), use>>)
             \/ Checked(<<Types(t, u), For(<<Target("a")>>, e, <<Uses("a")>>)>>)
        \/ \E u \in {IntType, StringType} :
             Checked(<<Types(t, u), For(<<N("Target", "y", <<u>>), Target("a")>>, X, <<Uses("a")>>)>>)
        \/ \E e \in Guarded : \E s \in {Shown(e), Set("a", e)} : Checked(<<Types(t, IntType), s>>)
        \/ \E c, d \in Tests, last \in {Set("y", X), Shown(Binary("~", Y, Y)), Shown(Binary("+", X, Y))} : Checked(<<Types(t, IntType), Chain(c, d, last), Shown(Y)>>)
        \/ \E u \in DeclaredTypes, e \in Looks : Checked(<<Types(t, IntType), SetTyped(u), Shown(e)>>)
        \/ \E u \in DeclaredTypes : Checked(<<Types(t, IntType), For(<<N("Target", "a", <<u>>)>>, X, <<Uses("a")>>)>>)
        \/ /\ t \in DeepTypes
           /\ \E e \in Around(X) : \E g \in Around(e) : Checked(<<Types(t, IntType), Shown(g)>>)

LoopsRun ==
  /\ subject.what = "escapee"
  /\ \/ \E x \in Loops!Shapes(subject.e) : subject' = [what |-> "loop", program |-> Loops!Keeping(x)]
     \/ \E x \in Loops!WritesOf(subject.e) : subject' = [what |-> "writing loop", program |-> Loops!Writing(x)]

Collects ==
  \/ /\ subject.what = "elements"
     /\ \E ws \in IF Len(subject.vs) < 2 THEN {<<>>} ELSE UpTo(Elements, 2) :
          LET vs == subject.vs \o ws
              rows == [i \in DOMAIN vs |-> Row(vs[i])]
              mixed == [i \in DOMAIN vs |-> IF i = 1 THEN rows[i] ELSE vs[i]]
          IN \/ \E a \in Keyed(vs) : subject' = [what |-> "sort", a |-> a]
             \/ /\ Len(vs) <= 3
                /\ \/ \E a \in Keyed(vs) : subject' = [what |-> "gather", a |-> a, path |-> <<>>]
                   \/ \E a \in Keyed(rows) : subject' = [what |-> "gather", a |-> a, path |-> <<<<11>>>>]
             \/ /\ Len(vs) <= 2
                /\ \/ \E a \in Keyed(rows) : subject' = [what |-> "gather", a |-> a, path |-> <<<<11>>, <<12>>>>]
                   \/ \E a \in Keyed(mixed), path \in {<<<<12>>>>, <<<<12>>, <<12>>>>} :
                        subject' = [what |-> "gather", a |-> a, path |-> path]
  \/ /\ subject.what = "start"
     /\ \E z \in 0..7, n \in 1..4 : subject' = [what |-> "split", a |-> Colls!list([i \in 1..z |-> Colls!Num(i)]), n |-> n]

Writes ==
  /\ subject.what = "width"
  /\ \E s \in UpTo(Characters, 5) : subject' = [what |-> "text", s |-> s, w |-> subject.w, pairs |-> subject.pairs]

Composes ==
  \/ subject.what = "start" /\ \E w \in Composed!HeadWorlds \cup Composed!MacroWorlds : subject' = [what |-> "templates", w |-> w]
  \/ subject.what = "filler" /\ \E w \in Composed!BlockWorlds(subject.f) : subject' = [what |-> "templates", w |-> w]

Next == Seed \/ Numbers \/ Keys \/ HostMaps \/ Parses \/ Checks \/ LoopsRun \/ Composes \/ Collects \/ Writes
Spec == Init /\ [][Next]_subject

(***************************************************************************)
(* The properties, each of the module that defines it, on these subjects.  *)
(* A large one is stated of the steps: what the step picks satisfies it.   *)
(***************************************************************************)
Of(what) == subject.what = what
Chosen(what) == subject'.what = what

\* Integer arithmetic is exact or an error, and comparison, which is not exact for large
\* integers, never turns two of them round (Values).
NumbersExact == Of("ints") => IntegersExact(subject.a, subject.b) /\ IntegersCompared(subject.a, subject.b)

\* A key has one form however it is written, and a host map whose keys are spelled apart
\* arrives in one order (Values).
KeysAgree ==
  /\ Of("key") => KeysCanonical(subject.s)
  /\ Of("host map") /\ SpelledApart(subject.order) => MapsMarshalOneWay(subject.intKeyed, subject.order)

\* What is spelled by the grammar parses back to itself (Grammar).
ParsesBack == [][Chosen("document") /\ ~Docs!Exempt(subject'.items) => Docs!ReadBack(subject'.items)]_subject

\* A template the checker accepts meets only values of the types it was given (Typing).
AcceptedTemplatesAreTyped == [][Chosen("template") => AcceptedIsTyped(subject'.items)]_subject

\* A template the checker refuses does fail on some values (Typing).
RefusedTemplatesFail == [][Chosen("template") => RefusedFails(subject'.items)]_subject

\* Reusing one loop value renders as making a fresh one each time (LoopRun).
ReuseIsUnseen == [][Chosen("loop") => Loops!RendersAsFresh(subject'.program)]_subject

\* The lowered loop renders what the interpreted one does (LoopRun).
LoweringIsUnseen == [][Chosen("loop") \/ Chosen("writing loop") => Loops!LoweredAsInterpreted(subject'.program)]_subject

\* Composed templates print one thing, linked or walked, remembered or fresh (Pages).
ComposedAsWritten == [][Chosen("templates") => Composed!ComposedAsWritten(subject'.w)]_subject

\* Sorting, the extremes and the order tests follow one order, which tells apart what unique
\* keeps unless it ties large integers (Collections).
OrderingsAgree == [][Chosen("sort") => Colls!SortsOnce(subject'.a)]_subject

\* Batches, columns, slices and groups keep every element once (Collections).
NothingLost ==
  /\ Of("gather") => Colls!GathersWhole(subject.a, subject.path)
  /\ Of("split") => Colls!SplitsWhole(subject.a, subject.n)

\* Wrapped, truncated and replaced text fits and keeps its words (Text).
TextFits == Of("text") => Texts!ShapedTextFits(subject.s, subject.w, subject.pairs)
=============================================================================
