------------------------------- MODULE UnitLink -------------------------------
(***************************************************************************)
(* The static linker of the code generator (internal/compile/unit.go,      *)
(* embed.go, include.go): an entry and the templates its composition       *)
(* references become one function, with the winning block bodies, parent() *)
(* captures, partials and embedded templates written out in place.         *)
(*                                                                         *)
(* What is generated is a sequence of steps: print a text, or return an    *)
(* error.  A step "refused" anywhere makes the unit not compilable.        *)
(***************************************************************************)
EXTENDS Composition

Step(k, s) == <<[k |-> k, s |-> s]>>
Refuse == Step("refused", "")
Raise(e) == Step("error", e)
Refused(r) == [r EXCEPT !.err = "refused"]

(***************************************************************************)
(* Linking: a render-entry error of the interpreter becomes a stub         *)
(***************************************************************************)
\* A list must name its winner first, and only the unit's templates are known to exist.
staticExtendsTarget(w, names) ==
  IF "list" \in names.f /\ names.c # <<>> /\ names.c[1].s \notin DOMAIN w THEN "" ELSE IF names.c = <<>> THEN "" ELSE names.c[1].s

RECURSIVE linkChain(_, _)
linkChain(w, u) ==
  LET heads == Last(u.chain).extends
      name == staticExtendsTarget(w, Last(heads))
      parent == Prepare(name, w[name])
      longer == [u EXCEPT !.chain = Append(@, parent), !.members = @ \cup {name}]
  IN CASE heads = <<>> -> u
       [] heads # <<>> /\ Last(heads).c = <<>> -> Failed(u, "no candidate")
       [] heads # <<>> /\ Last(heads).c # <<>> /\ name \notin DOMAIN w -> Refused(u)
       [] OTHER -> IF Len(longer.chain) > MaxInline THEN Failed(longer, "chain too deep") ELSE linkChain(w, longer)

RECURSIVE linkTraits(_, _, _, _)
linkTraits(w, t, u, depth) ==
  LET Use(acc, use) == First(acc, LAMBDA found :
        LET trait == Prepare(use.s, w[use.s])
            loaded == [found EXCEPT !.members = @ \cup {use.s}]
        IN CASE use.s \notin DOMAIN w -> Refused(found)
             [] use.s \in DOMAIN w /\ ~Traitable(trait) -> Failed(loaded, "not a trait")
             [] OTHER -> First(linkTraits(w, trait, loaded, depth + 1), LAMBDA below :
                  LET all == Merged(below, trait, LAMBDA name : useAliases(use, name))
                  IN IF \E i \in DOMAIN use.c : ~Has(trait.blocks, use.c[i].s) THEN Failed(all, "no such block") ELSE all))
  IN IF depth > MaxInline THEN Refused(u) ELSE FoldLeft(Use, u, t.uses)

RECURSIVE Calls(_)
\* Every printed call below some items.
Calls(items) ==
  UNION {(IF items[i].k = "Call" THEN {items[i]} ELSE {}) \cup (IF items[i].k \in {"Block", "Embed", "Macro"} THEN Calls(items[i].c) ELSE {}) :
         i \in DOMAIN items}
BlockCallTargets(w, name) == {n.c[2].s : n \in {c \in Calls(w[name]) : c.s = "block" /\ Len(c.c) = 2}} \cap DOMAIN w

RECURSIVE Discovered(_, _)
\* The members and every template a block(name, other) call among them names.
Discovered(w, members) ==
  LET more == members \cup UNION {BlockCallTargets(w, name) : name \in members}
  IN IF more = members THEN members ELSE Discovered(w, more)

linkUnit(w, entry) ==
  LET et == Prepare(entry, w[entry])
      u == [err |-> "", chain |-> <<et>>, blocks |-> Nothing, members |-> {entry}]
      Table(chained) ==
        FoldLeft(LAMBDA acc, t : First(acc, LAMBDA found : linkTraits(w, t, Merged(found, t, LAMBDA name : name), 0)), chained, chained.chain)
  IN IF et.macros # <<>> \/ et.imports # <<>> THEN Refused(u)
     ELSE First(First(linkChain(w, u), Table), LAMBDA linked : [linked EXCEPT !.members = Discovered(w, @)])

(***************************************************************************)
(* Lowering                                                                *)
(***************************************************************************)
\* The compiler: the unit in force, the block contexts, the depth of inlined blocks,
\* and the partials and embeds being inlined.
Compiler(unit) == [unit |-> unit, blockCtx |-> <<>>, blockInline |-> 0, includes |-> {}, embeds |-> {}]

partialHasComposition(items) ==
  \E i \in DOMAIN items : items[i].k \in {"Extends", "Block", "Macro", "Import", "From", "Use", "Embed"}

\* The overrides of an embed, each in front of what its name has.
embedOverrides(blocks, overrides) ==
  FoldLeft(LAMBDA table, n : (n.s :> (<<n>> \o IF n.s \in DOMAIN table THEN table[n.s] ELSE <<>>)) @@ table, blocks, overrides)
linkEmbed(w, n) == LET sub == linkUnit(w, n.s) IN [sub EXCEPT !.blocks = embedOverrides(@, n.c)]

RECURSIVE lowerItems(_, _, _), lower(_, _, _)
lowerItems(w, c, items) == FlattenSeq([i \in DOMAIN items |-> lower(w, c, items[i])])

unitLowerBlockAt(w, c, chain, depth) ==
  CASE depth > Len(chain) -> <<>>
    [] depth <= Len(chain) /\ c.blockInline >= MaxInline -> Refuse
    [] OTHER -> lowerItems(w, [c EXCEPT !.blockInline = @ + 1, !.blockCtx = Append(@, [chain |-> chain, depth |-> depth])], chain[depth].c)

unitBlockSite(w, c, n) ==
  IF n.s \in DOMAIN c.unit.blocks THEN unitLowerBlockAt(w, c, c.unit.blocks[n.s], 1) ELSE lowerItems(w, c, n.c)

\* Mutant: parent() goes on from the block at the site, and not from the one it stands in.
unitParentCall_Outermost(w, c) ==
  IF c.blockCtx = <<>> THEN Raise("no parent") ELSE unitLowerBlockAt(w, c, c.blockCtx[1].chain, c.blockCtx[1].depth + 1)

unitParentCall(w, c) ==
  IF c.blockCtx = <<>> THEN Raise("no parent") ELSE unitLowerBlockAt(w, c, Last(c.blockCtx).chain, Last(c.blockCtx).depth + 1)

unitBlockCall(w, c, n) ==
  LET name == n.c[1].s
      other == IF Len(n.c) = 2 THEN n.c[2].s ELSE ""
      there == Prepare(other, w[other]).blocks
  IN CASE other = "" -> IF name \in DOMAIN c.unit.blocks THEN unitLowerBlockAt(w, c, c.unit.blocks[name], 1) ELSE Raise("no block")
       [] other # "" /\ other \notin c.unit.members -> Refuse
       [] OTHER -> IF ~Has(there, name) THEN Raise("no block there") ELSE lowerItems(w, c, Named(there, name).c)

\* A partial is inlined as it stands when it composes nothing of its own.
stmtInclude(w, c, n) ==
  CASE n.s \notin DOMAIN w -> IF "missing" \in n.f THEN <<>> ELSE Refuse
    [] n.s \in DOMAIN w /\ (partialHasComposition(w[n.s]) \/ n.s \in c.includes) -> Refuse
    [] OTHER -> lowerItems(w, [c EXCEPT !.includes = @ \cup {n.s}], w[n.s])

stmtEmbed(w, c, n) ==
  IF n.s \in c.embeds THEN Refuse
  ELSE IF n.s \notin DOMAIN w THEN IF "missing" \in n.f THEN <<>> ELSE Refuse
  ELSE LET sub == linkEmbed(w, n)
       IN IF sub.err # "" THEN Refuse
          ELSE lowerItems(w, [c EXCEPT !.unit = sub, !.blockCtx = <<>>, !.blockInline = 0, !.embeds = @ \cup {n.s}], Last(sub.chain).items)

lower(w, c, n) ==
  CASE n.k = "Text" -> Step("text", n.s)
    [] n.k = "Block" -> unitBlockSite(w, c, n)
    [] n.k = "Include" -> stmtInclude(w, c, n)
    [] n.k = "Embed" -> stmtEmbed(w, c, n)
    [] n.k = "Call" /\ n.s = "parent" -> unitParentCall(w, c)
    [] n.k = "Call" /\ n.s = "block" -> unitBlockCall(w, c, n)
    [] n.k = "Call" /\ n.s \notin {"parent", "block"} -> Raise("unknown macro")
    [] n.k = "Method" -> IF n.c[1].s = "_self" THEN Refuse ELSE Raise("undefined")
    [] OTHER -> <<>>

\* The function generated for a linked unit.
Unit(w, entry) ==
  LET u == linkUnit(w, entry)
  IN CASE u.err = "" -> lowerItems(w, Compiler(u), Last(u.chain).items)
       [] u.err = "refused" -> Refuse
       [] OTHER -> Raise(u.err)

Compiles(steps) == \A i \in DOMAIN steps : steps[i].k # "refused"
Ran(steps) ==
  LET errors == SelectSeq(steps, LAMBDA step : step.k = "error")
  IN IF errors = <<>> THEN [out |-> [i \in DOMAIN steps |-> steps[i].s], err |-> ""] ELSE [out |-> <<>>, err |-> errors[1].s]
=============================================================================
