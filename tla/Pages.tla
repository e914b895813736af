-------------------------------- MODULE Pages --------------------------------
(***************************************************************************)
(* Sets of templates that compose each other in every way the language     *)
(* has, and what their renders must satisfy: the linked unit prints what   *)
(* the interpreter does, what a composition leaves in the memo is what a   *)
(* fresh one would build, the blocks of a template come before those of    *)
(* its traits, and a macro means the same whoever calls it.                *)
(***************************************************************************)
EXTENDS UnitLink

Says(s) == N("Text", s, <<>>)
Ref(s) == N("Name", s, <<>>)
Block(name, body) == N("Block", name, body)
Call(f, args) == N("Call", f, [i \in DOMAIN args |-> Ref(args[i])])
Method(m, ns) == N("Method", m, <<Ref(ns)>>)
Include(name, flags) == Node("Include", name, flags, <<>>)
Embed(name, overrides) == N("Embed", name, overrides)
Extends(flags, names) == Node("Extends", "", flags, [i \in DOMAIN names |-> Ref(names[i])])
Use(name, aliases) == N("Use", name, [i \in DOMAIN aliases |-> N("Alias", aliases[i][1], <<Ref(aliases[i][2])>>)])
Macro(name, body) == N("Macro", name, body)
Import(src, ns) == N("Import", src, <<Ref(ns)>>)
From(src, names) == N("From", src, [i \in DOMAIN names |-> N("Item", names[i], <<Ref(names[i])>>)])

(***************************************************************************)
(* Blocks: what the body of a block may go on to do                        *)
(***************************************************************************)
Parent == Call("parent", <<>>)
Simple == {<<>>, <<Parent>>, <<Call("block", <<"a">>)>>}
Fillers ==
  Simple \cup
  {<<Call("block", <<"b">>)>>, <<Call("block", <<"a", "card">>)>>, <<Include("part", {})>>, <<Block("b", <<Says("n"), Parent>>)>>,
   <<Embed("card", <<>>), Include("card", {})>>, <<Embed("card", <<Block("a", <<Says("o"), Parent>>)>>), Include("card", {})>>,
   <<Embed("card", <<Block("a", <<Says("o")>>), Block("a", <<Says("oo"), Parent>>)>>)>>, <<Embed("card", <<Block("b", <<Says("o")>>)>>)>>}

Card(f) == <<Says("["), Block("a", <<Says("c")>> \o f), Says("]")>>
BlockWorlds(f) ==
  {("page" :> (<<Extends({}, <<"base">>)>> \o used \o <<Block("a", <<Says("p")>> \o f), Block("b", <<Says("q")>> \o g)>>)) @@
   ("base" :> <<Says("("), Block("a", <<Says("x")>>), Block("b", <<Says("y")>> \o h), Says(")")>>) @@
   ("trait" :> <<Block("a", <<Says("t")>> \o h), Block("c", <<Says("tc"), Parent>>)>>) @@
   ("card" :> Card(h)) @@ ("part" :> (<<Says("i")>> \o part)) :
     used \in {<<>>, <<Use("trait", <<>>)>>, <<Use("trait", <<<<"c", "b">>>>)>>}, g \in Fillers, h \in Simple, part \in Simple}

(***************************************************************************)
(* Traits, aliases and heads that name what is not there                   *)
(***************************************************************************)
TraitUses ==
  {<<Use("t", <<>>)>>, <<Use("u", <<>>), Use("t", <<>>)>>, <<Use("t", <<<<"a", "b">>>>), Use("u", <<>>)>>, <<Use("t", <<<<"a", "b">>, <<"b", "a">>>>)>>,
   <<Use("t", <<<<"z", "a">>>>)>>, <<Use("v", <<>>)>>, <<Use("v", <<<<"a", "b">>>>)>>, <<Use("cycle", <<>>)>>, <<Use("base", <<>>)>>, <<Use("gone", <<>>)>>}
HeadLists ==
  {<<>>, <<Extends({}, <<"base">>)>>, <<Extends({}, <<"gone">>)>>, <<Extends({}, <<"page">>)>>, <<Extends({}, <<"middle">>)>>,
   <<Extends({"list"}, <<>>)>>, <<Extends({"list"}, <<"gone", "base">>)>>, <<Extends({"list"}, <<"middle", "gone">>)>>,
   <<Extends({}, <<"gone">>), Extends({}, <<"base">>)>>}
HeadWorlds ==
  {("page" :> (heads \o uses \o <<Says("+"), Block("a", <<Says("p"), Parent>>), Embed(card, <<Block("a", <<Parent>>)>>)>>)) @@
   ("middle" :> (<<Extends({}, <<"base">>)>> \o below \o <<Block("a", <<Says("m"), Block("b", <<Says("mb"), Parent>>), Parent>>)>>)) @@
   ("base" :> <<Says("-"), Block("a", <<Says("x")>>), Block("b", <<Says("y")>>), Include("gone", flags)>>) @@
   ("t" :> <<Block("a", <<Says("t"), Parent>>), Says(Blank), Block("b", <<Says("tb"), Parent>>)>>) @@
   ("u" :> <<Block("a", <<Says("u"), Parent>>)>>) @@ ("v" :> <<Use("t", <<>>), Block("a", <<Says("v"), Parent>>)>>) @@
   ("cycle" :> <<Use("cycle", <<>>)>>) :
     heads \in HeadLists, uses \in TraitUses \cup {<<>>}, below \in TraitUses \cup {<<>>}, card \in {"base", "middle"}, flags \in {{}, {"missing"}}}

(***************************************************************************)
(* Macros of a library, called from a page that has macros of its own      *)
(***************************************************************************)
MacroBodies ==
  {<<>>, <<Call("n", <<>>)>>, <<Method("n", "_self")>>, <<Call("h", <<>>)>>, <<Call("own", <<>>)>>, <<Method("h", "hs")>>, <<Call("n", <<>>), Call("n", <<>>)>>}
MacroWorlds ==
  {("page" :> (imports \o <<Macro("n", <<Says("pn")>>), Macro("own", <<Says("own")>>), Says("("), call, again>>)) @@
   ("lib" :> (<<From("helpers", <<"h">>), Import("helpers", "hs"), Macro("m", <<Says("m")>> \o body), Macro("n", <<Says("n")>> \o nested)>>)) @@
   ("helpers" :> <<Macro("h", <<Says("h"), Call("k", <<>>)>>), Macro("k", <<Says("k")>>)>>) :
     imports \in {<<From("lib", <<"m">>)>>, <<Import("lib", "l")>>, <<Import("lib", "l"), From("lib", <<"m", "n">>)>>},
     call \in {Call("m", <<>>), Method("m", "l")}, again \in {Says(")"), Call("n", <<>>), Method("n", "_self")},
     body \in MacroBodies, nested \in {<<>>, <<Call("h", <<>>)>>, <<Method("n", "hs")>>}}

(***************************************************************************)
(* What the renders must satisfy                                           *)
(***************************************************************************)
RECURSIVE Under(_)
Under(items) == UNION {{items[i]} \cup Under(items[i].c) : i \in DOMAIN items}
All(w, kind) == {n \in UNION {Under(w[name]) : name \in DOMAIN w} : n.k = kind}
Page(w) == Prepare("page", w["page"])
Result(m) == [out |-> m.out, err |-> m.err]

\* The unit inlines a partial whose parent() and block() then reach the unit's blocks.
PartialCallsBlocks(w) ==
  \E n \in All(w, "Include") : n.s \in DOMAIN w /\ \E c \in Calls(w[n.s]) : c.s \in {"parent", "block"} /\ Len(c.c) < 2

\* Of two overrides of one name the interpreter keeps the last, the unit layers both.
OverridesTwice(w) == \E n \in All(w, "Embed") : Cardinality(Range(NamesOf(n.c))) < Len(n.c)

\* What compiles prints, or fails with, what the interpreter does.
UnitRendersAsWalked(w) ==
  LET steps == Unit(w, "page")
  IN Compiles(steps) /\ ~PartialCallsBlocks(w) /\ ~OverridesTwice(w) => Ran(steps) = Result(Rendered(w, "page", Nothing))

\* What a render published is what a fresh build gives, and a second render agrees.
MemoUnseen(w) ==
  LET once == Rendered(w, "page", Nothing)
      again == Rendered(w, "page", once.memo)
  IN /\ Result(again) = Result(once)
     /\ \A name \in DOMAIN again.memo : again.memo[name] = Composed(w, Prepare(name, w[name]))

\* Every definition of a block, nearest first: a template's own, then its traits'.
TraitUsesTrait(w) == \E n \in All(w, "Use") : n.s \in DOMAIN w /\ Prepare(n.s, w[n.s]).uses # <<>>
NearestFirst(w) ==
  LET comp == Composed(w, Page(w))
      Own(t, name) == IF Has(t.blocks, name) THEN <<Named(t.blocks, name)>> ELSE <<>>
      \* What one use brings under a name: the blocks it renames to it, and its own of that name unless renamed.
      Brought(use, name) ==
        LET blocks == Prepare(use.s, w[use.s]).blocks
        IN SelectSeq([i \in DOMAIN NamesOf(blocks) |-> Named(blocks, NamesOf(blocks)[i])], LAMBDA b : useAliases(use, b.s) = name)
      Definitions(name) ==
        FlattenSeq([i \in DOMAIN comp.chain |->
          Own(comp.chain[i], name) \o FlattenSeq([j \in DOMAIN comp.chain[i].uses |-> Brought(comp.chain[i].uses[j], name)])])
  IN comp.err = "" /\ ~TraitUsesTrait(w) => \A name \in DOMAIN comp.blocks : comp.blocks[name] = Definitions(name)

\* A macro that needs only its own template prints the same from any page as at home.
CallsBeyondHome(home) ==
  \E i \in DOMAIN home.macros : \E n \in Under(home.macros[i].c) :
    n.k \in {"Call", "Method"} /\ ~(Has(home.macros, n.s) /\ (n.k = "Call" \/ n.c[1].s = "_self"))
MacrosMeanOneThing(w) ==
  LET heads == SelectSeq(w["page"], LAMBDA n : n.k \in {"Macro", "Import", "From"})
      Printed(items) == Result(Rendered(("page" :> items) @@ w, "page", Nothing))
  IN \A name \in DOMAIN w \ {"page"} :
       LET home == Prepare(name, w[name])
       IN ~CallsBeyondHome(home) => \A macro \in Range(NamesOf(home.macros)) :
            Printed(Append(w[name], Call(macro, <<>>))) = Printed(heads \o <<From(name, <<macro>>), Call(macro, <<>>)>>)

ComposedAsWritten(w) == UnitRendersAsWalked(w) /\ MemoUnseen(w) /\ NearestFirst(w) /\ MacrosMeanOneThing(w)
=============================================================================
