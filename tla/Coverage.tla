------------------------------ MODULE Coverage ------------------------------
(***************************************************************************)
(* The instrumentation core of template coverage (internal/covercore): the *)
(* table of regions with their counters, and the two independent memos of  *)
(* what was seeded.  A program is a forest: a template, a macro, its       *)
(* parameter defaults and a block are bodies, and a node belongs to the    *)
(* body it stands in.                                                      *)
(***************************************************************************)
EXTENDS Integers, FiniteSets, FiniteSetsExt, Functions

CONSTANTS
  Collectors,   \* the collectors, each wrapping a core
  Templates,    \* template names
  Nodes,        \* the coverable nodes of all templates
  Kind,         \* Kind[n]: what node n is
  Body          \* Body[n]: the template or node whose body n stands in

VARIABLE core   \* core[c]: the Core behind collector c

\* The arms that hang off a branch (seedIfArms, seedNode).
Arms(kind) ==
  CASE kind = "clause" -> {"if-then", "if-else"}
    [] kind = "else" -> {"else"}
    [] kind = "for" -> {"for-body", "for-empty"}
    [] kind = "ternary" -> {"ternary-then", "ternary-else"}
    [] kind \in {"elvis", "coalesce"} -> {"left", "right"}
    [] kind = "guard" -> {"guard-present", "guard-absent"}
    [] OTHER -> {}

Expressions == {"ternary", "elvis", "coalesce"}
Declarations == {"defaults", "clause", "else"}   \* no unit of their own

Regions(n) ==
  {[node |-> n, kind |-> k] :
     k \in Arms(Kind[n]) \cup (IF Kind[n] \in Expressions \cup Declarations THEN {} ELSE {Kind[n]})}

\* The nodes below each template and node: those in every set of nodes that
\* holds the nodes of the root's own body and of the bodies of its members.
Under ==
  [root \in Templates \cup Nodes |->
     LET Closed == {S \in SUBSET Nodes :
                      \A n \in Nodes : Body[n] \in S \cup {root} => n \in S}
     IN {root} \cup {n \in Nodes : \A S \in Closed : n \in S}]

\* A syntax tree: every node stands in a body, and below a template.
ASSUME ForestAssumption ==
  /\ Templates \cap Nodes = {}
  /\ \A n \in Nodes : Body[n] \in Templates \cup Nodes
  /\ \A n \in Nodes : \E t \in Templates : n \in Under[t]
  /\ \A n \in Nodes : Kind[n] = "defaults" => Body[n] \in Nodes

HomeOf == [n \in Nodes |-> CHOOSE t \in Templates : n \in Under[t]]

\* seedWalk: what a walk over the subtree registers.
Walked == [root \in Templates \cup Nodes |-> UNION {Regions(n) : n \in Under[root] \cap Nodes}]

NewCore == [hits |-> <<>>, seededFull |-> {}, seededMacro |-> {}, sources |-> {}]

(* Mutant: a region that is seeded again starts from zero. *)
Seeded_FromZero(c, regions) ==
  [c EXCEPT !.hits = [r \in DOMAIN @ \cup regions |-> IF r \in regions THEN 0 ELSE @[r]]]

\* Core.region under seed: a region that is there keeps its counter.
Seeded(c, regions) ==
  [c EXCEPT !.hits = [r \in DOMAIN @ \cup regions |-> IF r \in DOMAIN @ THEN @[r] ELSE 0]]

(* Mutant: a seeded macro passes for a seeded template. *)
SeedTemplate_OneMemo(c, t) ==
  IF t \in c.seededFull \/ (\E m \in c.seededMacro : HomeOf[m] = t) THEN c
  ELSE Seeded([c EXCEPT !.seededFull = @ \cup {t}, !.sources = @ \cup {t}], Walked[t])

SeedTemplate(c, t) ==
  IF t \in c.seededFull THEN c
  ELSE Seeded([c EXCEPT !.seededFull = @ \cup {t}, !.sources = @ \cup {t}], Walked[t])

(* Mutant: the source is not captured. *)
SeedMacro_NoSource(c, m) ==
  IF HomeOf[m] \in c.seededFull \/ m \in c.seededMacro THEN c
  ELSE Seeded([c EXCEPT !.seededMacro = @ \cup {m}], Walked[m])

SeedMacro(c, m) ==
  IF HomeOf[m] \in c.seededFull THEN c
  ELSE LET known == [c EXCEPT !.sources = @ \cup {HomeOf[m]}]
       IN IF m \in c.seededMacro THEN known
          ELSE Seeded([known EXCEPT !.seededMacro = @ \cup {m}], Walked[m])

(* Mutant: the counter is a flag. *)
Hit_Flag(c, region) ==
  [c EXCEPT !.hits = [r \in DOMAIN @ \cup {region} |-> IF r = region THEN 1 ELSE @[r]]]

\* Core.Hit: a region is created on first sight.
Hit(c, region) ==
  [Seeded(c, {region}) EXCEPT !.hits[region] = @ + 1]

\* A region the core does not show counts zero.
Counter(c, r) == IF r \in DOMAIN c.hits THEN c.hits[r] ELSE 0

\* MergeReports over the snapshots of some cores: counters of a region add up.
MergedReport(cs) ==
  [hits |-> [r \in UNION {DOMAIN core[c].hits : c \in cs} |->
               SumFunctionOnSet([c \in cs |-> Counter(core[c], r)], cs)],
   sources |-> UNION {core[c].sources : c \in cs}]

CoverageInit == core = [c \in Collectors |-> NewCore]
=============================================================================
