----------------------------- MODULE Composition -----------------------------
(***************************************************************************)
(* How the interpreter composes templates (internal/interp/template.go,    *)
(* exec.go, compose.go): the inheritance chain, the table of block         *)
(* definitions with traits and aliases, parent() and block(), the macro    *)
(* namespace, include and embed.                                           *)
(*                                                                         *)
(* The loader serves a function w from names to the items of a template.   *)
(* An item is a text, a @block, a head, an @include, an @embed (its        *)
(* children are its overrides) or a printed call.  Rendering goes through  *)
(* [out, err, memo]: the texts printed, the first error, and the           *)
(* compositions published on templates.  A renderer is one interp.         *)
(***************************************************************************)
EXTENDS Tree, FiniteSetsExt, TLC

\* What the code bounds by 64: the length of a chain and the nesting of inlined blocks.
CONSTANT MaxInline

NoBlock == [chain |-> <<>>, depth |-> 0]
Nothing == [x \in {} |-> <<>>]
First(r, K(_)) == IF r.err # "" THEN r ELSE K(r)
Failed(r, e) == [r EXCEPT !.err = e]

(***************************************************************************)
(* Prepare: the tables of one template                                     *)
(***************************************************************************)
RECURSIVE index(_)
\* The items that index visits, in order: it enters blocks and nothing else.
index(items) ==
  FlattenSeq([i \in DOMAIN items |-> <<items[i]>> \o (IF items[i].k = "Block" THEN index(items[i].c) ELSE <<>>)])

Prepare(name, items) ==
  LET Heads(kinds) == SelectSeq(index(items), LAMBDA n : n.k \in kinds)
  IN [name |-> name, items |-> items, blocks |-> Heads({"Block"}), macros |-> Heads({"Macro"}),
      extends |-> Heads({"Extends"}), imports |-> Heads({"Import", "From"}), uses |-> Heads({"Use"})]

\* Of the nodes of one name the last counts; names are in the order first seen.
Has(nodes, name) == \E i \in DOMAIN nodes : nodes[i].s = name
Named(nodes, name) == nodes[Max({i \in DOMAIN nodes : nodes[i].s = name})]
NamesOf(nodes) == FoldLeft(LAMBDA ns, n : IF n.s \in ToSet(ns) THEN ns ELSE Append(ns, n.s), <<>>, nodes)

Blank == " "
Traitable(t) ==
  /\ t.extends = <<>> /\ t.macros = <<>>
  /\ \A i \in DOMAIN t.items : t.items[i].k \in {"Block", "Use"} \/ (t.items[i].k = "Text" /\ t.items[i].s = Blank)

(***************************************************************************)
(* The chain, the block table and the macro namespace of a render          *)
(***************************************************************************)
\* The one name of an operand, or the first candidate of a list that exists.
Resolved(w, names) ==
  IF "list" \notin names.f THEN names.c[1].s
  ELSE LET there == SelectSeq(names.c, LAMBDA n : n.s \in DOMAIN w) IN IF there = <<>> THEN "" ELSE there[1].s

RECURSIVE buildChain(_, _)
buildChain(w, r) ==
  LET heads == Last(r.chain).extends
      name == Resolved(w, Last(heads))
      longer == [r EXCEPT !.chain = Append(@, Prepare(name, w[name]))]
  IN CASE heads = <<>> -> r
       [] heads # <<>> /\ name \notin DOMAIN w -> Failed(r, IF name = "" THEN "no candidate" ELSE "not found")
       [] OTHER -> IF Len(longer.chain) > MaxInline THEN Failed(r, "chain too deep") ELSE buildChain(w, longer)

appendBlockDef(table, name, def) == (name :> (IF name \in DOMAIN table THEN Append(table[name], def) ELSE <<def>>)) @@ table

useAliases(use, name) == LET mine == SelectSeq(use.c, LAMBDA a : a.s = name) IN IF mine = <<>> THEN name ELSE Last(mine).c[1].s

\* The definitions of t that go into the table, under the names "as" gives them.
Merged(r, t, as(_)) ==
  [r EXCEPT !.blocks = FoldLeft(LAMBDA table, name : appendBlockDef(table, as(name), Named(t.blocks, name)), @, NamesOf(t.blocks))]

RECURSIVE mergeTraits(_, _, _, _)
mergeTraits(w, t, r, deep) ==
  LET Use(acc, use) == First(acc, LAMBDA found :
        LET trait == Prepare(use.s, w[use.s])
        IN CASE use.s \notin DOMAIN w -> Failed(found, "not found")
             [] use.s \in DOMAIN w /\ ~Traitable(trait) -> Failed(found, "not a trait")
             [] deep > 4 * MaxInline -> Failed(found, "overflow")
             [] OTHER -> First(mergeTraits(w, trait, found, deep + 1), LAMBDA below :
                  LET all == Merged(below, trait, LAMBDA name : useAliases(use, name))
                  IN IF \E i \in DOMAIN use.c : ~Has(trait.blocks, use.c[i].s) THEN Failed(all, "no such block") ELSE all))
  IN FoldLeft(Use, r, t.uses)

\* Mutant: the traits of a template come before its own blocks.
buildBlockTable_TraitsFirst(w, r) ==
  FoldLeft(LAMBDA acc, t : First(acc, LAMBDA found : First(mergeTraits(w, t, found, 0), LAMBDA used : Merged(used, t, LAMBDA name : name))), r, r.chain)

buildBlockTable(w, r) ==
  FoldLeft(LAMBDA acc, t : First(acc, LAMBDA found : mergeTraits(w, t, Merged(found, t, LAMBDA name : name), 0)), r, r.chain)

\* The macros of home by their names, over those that were there.
Over(macros, home) == FoldLeft(LAMBDA ms, m : (m.s :> [home |-> home, node |-> m]) @@ ms, macros, home.macros)

\* A failed load binds nothing; @import binds a name of the scope, @from macros.
loadImport(w, root, r, imp) ==
  LET name == imp.s
      src == IF name = "_self" THEN root ELSE Prepare(name, w[name])
      Selected == SelectSeq(imp.c, LAMBDA item : Has(src.macros, item.s))
      Bind(ms, item) == (item.c[1].s :> [home |-> src, node |-> Named(src.macros, item.s)]) @@ ms
  IN CASE name # "_self" /\ name \notin DOMAIN w -> r
       [] imp.k = "Import" -> [r EXCEPT !.binds = (imp.c[1].s :> src) @@ @]
       [] OTHER -> [r EXCEPT !.macros = FoldLeft(Bind, @, Selected)]
loadMacros(w, t, r) == FoldLeft(LAMBDA acc, imp : loadImport(w, t, acc, imp), [r EXCEPT !.macros = Over(@, t)], t.imports)

compositionStatic(chain) ==
  \A i \in DOMAIN chain :
    /\ chain[i].extends # <<>> => "list" \notin Last(chain[i].extends).f
    /\ \A j \in DOMAIN chain[i].imports : chain[i].imports[j].s # "_self"

Composed(w, t) ==
  First(buildChain(w, [err |-> "", chain |-> <<t>>, blocks |-> Nothing, macros |-> Nothing, binds |-> Nothing]), LAMBDA r :
    First(buildBlockTable(w, r), LAMBDA full : loadMacros(w, t, full)))

(***************************************************************************)
(* Rendering                                                               *)
(***************************************************************************)
\* A fresh interp for t under comp; ns is what the scope binds.
Renderer(t, comp, ns, deep) == [root |-> t, blocks |-> comp.blocks, macros |-> comp.macros, ns |-> comp.binds @@ ns, cur |-> NoBlock, deep |-> deep]
Deeper(in) == [in EXCEPT !.deep = @ + 1]

RECURSIVE execItems(_, _, _, _), exec(_, _, _, _)
execItems(w, in, items, m) ==
  IF in.deep > 4 * MaxInline THEN Failed(m, "overflow")
  ELSE FoldLeft(LAMBDA acc, n : First(acc, LAMBDA ok : exec(w, in, n, ok)), m, items)

renderBlockAt(w, in, chain, depth, m) ==
  IF depth > Len(chain) THEN m
  ELSE execItems(w, [Deeper(in) EXCEPT !.cur = [chain |-> chain, depth |-> depth]], chain[depth].c, m)

execBlockSite(w, in, n, m) ==
  IF n.s \in DOMAIN in.blocks THEN renderBlockAt(w, in, in.blocks[n.s], 1, m) ELSE execItems(w, Deeper(in), n.c, m)

callParent(w, in, m) ==
  IF in.cur = NoBlock THEN Failed(m, "no parent") ELSE renderBlockAt(w, in, in.cur.chain, in.cur.depth + 1, m)

callBlock(w, in, n, m) ==
  LET name == n.c[1].s
      other == IF Len(n.c) = 2 THEN n.c[2].s ELSE ""
      there == Prepare(other, w[other]).blocks
  IN CASE other = "" -> IF name \in DOMAIN in.blocks THEN renderBlockAt(w, in, in.blocks[name], 1, m) ELSE Failed(m, "no block")
       [] other # "" /\ other \notin DOMAIN w -> Failed(m, "not found")
       [] OTHER -> IF Has(there, name) THEN execItems(w, Deeper(in), Named(there, name).c, m) ELSE Failed(m, "no block there")

\* Mutant: the caller's macros win over those of the macro's home.
swapMacroHome_Under(in, home) == [in EXCEPT !.macros = @ @@ Over(Nothing, home), !.root = home, !.ns = Nothing]

\* The body of a macro sees the macros of its home over those of its caller, and no scope.
swapMacroHome(in, home) == [in EXCEPT !.macros = Over(@, home), !.root = home, !.ns = Nothing]
invokeMacro(w, in, entry, m) == execItems(w, Deeper(swapMacroHome(in, entry.home)), entry.node.c, m)
callMacro(w, in, name, m) == IF name \in DOMAIN in.macros THEN invokeMacro(w, in, in.macros[name], m) ELSE Failed(m, "unknown macro")
callMacroIn(w, in, home, name, m) ==
  IF Has(home.macros, name) THEN invokeMacro(w, in, [home |-> home, node |-> Named(home.macros, name)], m) ELSE Failed(m, "no macro there")

\* composeTemplate and the body: from the memo, or built and published.
renderTemplate(w, t, ns, deep, m) ==
  LET known == t.name \in DOMAIN m.memo
      comp == IF known THEN m.memo[t.name] ELSE Composed(w, t)
      published == IF ~known /\ comp.err = "" /\ compositionStatic(comp.chain) THEN [m EXCEPT !.memo = (t.name :> comp) @@ @] ELSE m
  IN IF deep > 4 * MaxInline THEN Failed(m, "overflow")
     ELSE IF comp.err # "" THEN Failed(m, comp.err)
     ELSE execItems(w, Renderer(t, comp, ns, deep), Last(comp.chain).items, published)

\* The overrides of an embed by name: the last of a name counts.
Layered(blocks, overrides) ==
  FoldLeft(LAMBDA table, name :
    (name :> (<<Named(overrides, name)>> \o IF name \in DOMAIN blocks THEN blocks[name] ELSE <<>>)) @@ table, blocks, NamesOf(overrides))

\* Mutant: the overrides are layered on the composition that is published.
execEmbed_Published(w, in, n, m) ==
  LET t == Prepare(n.s, w[n.s])
      comp == Composed(w, t)
      layered == [comp EXCEPT !.blocks = Layered(@, n.c)]
  IN IF n.s \notin DOMAIN w \/ comp.err # "" THEN Failed(m, "not found")
     ELSE execItems(w, Renderer(t, layered, in.ns, in.deep + 1), Last(comp.chain).items, [m EXCEPT !.memo = (n.s :> layered) @@ @])

\* An embed builds its tables afresh: its overrides must not reach what is published.
execEmbed(w, in, n, m) ==
  LET t == Prepare(n.s, w[n.s])
      comp == Composed(w, t)
      layered == [comp EXCEPT !.blocks = Layered(@, n.c)]
  IN CASE n.s \notin DOMAIN w -> IF "missing" \in n.f THEN m ELSE Failed(m, "not found")
       [] n.s \in DOMAIN w /\ in.deep > 4 * MaxInline -> Failed(m, "overflow")
       [] OTHER -> IF comp.err # "" THEN Failed(m, comp.err)
                   ELSE execItems(w, Renderer(t, layered, in.ns, in.deep + 1), Last(comp.chain).items, m)

renderInclude(w, in, n, m) ==
  IF n.s \notin DOMAIN w THEN IF "missing" \in n.f THEN m ELSE Failed(m, "not found")
  ELSE renderTemplate(w, Prepare(n.s, w[n.s]), in.ns, in.deep + 1, m)

exec(w, in, n, m) ==
  CASE n.k = "Text" -> [m EXCEPT !.out = Append(@, n.s)]
    [] n.k = "Block" -> execBlockSite(w, in, n, m)
    [] n.k = "Include" -> renderInclude(w, in, n, m)
    [] n.k = "Embed" -> execEmbed(w, in, n, m)
    [] n.k = "Call" /\ n.s = "parent" -> callParent(w, in, m)
    [] n.k = "Call" /\ n.s = "block" -> callBlock(w, in, n, m)
    [] n.k = "Call" /\ n.s \notin {"parent", "block"} -> callMacro(w, in, n.s, m)
    [] n.k = "Method" /\ n.c[1].s = "_self" -> callMacroIn(w, in, in.root, n.s, m)
    [] n.k = "Method" /\ n.c[1].s # "_self" ->
         IF n.c[1].s \in DOMAIN in.ns THEN callMacroIn(w, in, in.ns[n.c[1].s], n.s, m) ELSE Failed(m, "undefined")
    [] OTHER -> m

\* One render of a template by name; an error leaves no output.
Rendered(w, name, memo) ==
  LET m == renderTemplate(w, Prepare(name, w[name]), Nothing, 0, [out |-> <<>>, err |-> "", memo |-> memo])
  IN IF m.err = "" THEN m ELSE [m EXCEPT !.out = <<>>]
=============================================================================
