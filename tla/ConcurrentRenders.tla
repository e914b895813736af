------------------------- MODULE ConcurrentRenders --------------------------
(***************************************************************************)
(* Renders on several goroutines that share a render cache and record      *)
(* coverage.  Two ways to attach collectors run side by side: one for each *)
(* goroutine, and one that all of them share.  A render is a walk over     *)
(* bodies; what it finds in them is free, so a step of the walk is any     *)
(* node of the body it stands in.  A step holds a mutex at most once.      *)
(***************************************************************************)
EXTENDS Coverage, RenderCaches, Sequences, SequencesExt

CONSTANTS
  Workers,      \* goroutines; a worker's own collector bears its name
  Shared,       \* the collector they share
  Chain,        \* the inheritance chain a render starts with, child first
  Partial,      \* the template an @include renders
  Embedded,     \* the template an @embed renders
  TraitBlocks,  \* the blocks of a template that another one uses (@use)
  NoKey,        \* not a key
  MaxRenders,   \* bound: renders of one worker
  MaxHits,      \* bound: regions recorded
  MaxHost,      \* bound: steps of the host
  MaxNest       \* bound: bodies open in one render

ASSUME CollectorsAssumption ==
  /\ IsFiniteSet(Workers)
  /\ Collectors = Workers \cup {Shared} /\ Shared \notin Workers

ASSUME RendersAssumption ==
  /\ Chain \in Seq(Templates) /\ Chain # <<>>
  /\ Partial \in Templates /\ Embedded \in Templates
  /\ TraitBlocks \subseteq Nodes
  /\ CacheKeys \cap (Templates \cup Nodes) = {}

VARIABLES
  walk,         \* walk[w]: the open bodies of w's render, innermost last
  renders,      \* renders[w]: renders begun
  hitCount,     \* regions recorded so far
  hostSteps     \* steps of the host so far

vars == <<core, cacheVars, walk, renders, hitCount, hostSteps>>

Home(body) == IF body \in Templates THEN body ELSE HomeOf[body]

Init ==
  /\ CoverageInit
  /\ CacheInit
  /\ walk = [w \in Workers |-> <<>>]
  /\ renders = [w \in Workers |-> 0]
  /\ hitCount = 0 /\ hostSteps = 0

Top(w) == Last(walk[w])
\* `pending` is what a body waits for: templates to seed, a macro to record, a
\* key to look up; `by` is the construct that opened it.
Opened(by, body, pending) == [by |-> by, body |-> body, pending |-> pending, key |-> NoKey]
Running(w) == walk[w] # <<>> /\ Top(w).pending = <<>>
Room(w) == Len(walk[w]) < MaxNest
Here(w) == {n \in Nodes : Body[n] = Top(w).body}

PushBody(w, f) == walk' = [walk EXCEPT ![w] = Append(@, f)]
ReplaceTop(w, f) == walk' = [walk EXCEPT ![w] = Append(Front(@), f)]
PopBody(w) == walk' = [walk EXCEPT ![w] = Front(@)]

\* A collector is attached to the render of w: its own and, beside it, the shared one.
Record(w, after) == core' = [core EXCEPT ![w] = after[w], ![Shared] = after[Shared]]
Recorded(w, n, kind) ==
  /\ hitCount < MaxHits
  /\ hitCount' = hitCount + 1
  /\ Record(w, [c \in Collectors |-> Hit(core[c], [node |-> n, kind |-> kind])])

----------------------------------------------------------------------------
(* A render.                                                               *)

\* renderTemplate: the chain is composed; its root's body comes after the seeds.
StartRender(w) ==
  /\ walk[w] = <<>> /\ renders[w] < MaxRenders
  /\ renders' = [renders EXCEPT ![w] = @ + 1]
  /\ PushBody(w, Opened("render", Last(Chain), Chain))
  /\ UNCHANGED <<core, cacheVars, hitCount, hostSteps>>

\* covSeed of the next template of the chain.
SeedNext(w) ==
  /\ walk[w] # <<>> /\ Top(w).pending # <<>> /\ Head(Top(w).pending) \in Templates
  /\ Record(w, [c \in Collectors |-> SeedTemplate(core[c], Head(Top(w).pending))])
  /\ ReplaceTop(w, [Top(w) EXCEPT !.pending = Tail(@)])
  /\ UNCHANGED <<cacheVars, renders, hitCount, hostSteps>>

\* execItem: a statement is recorded when it is dispatched.
Statement(w) ==
  /\ Running(w)
  /\ \E n \in Here(w) :
       /\ Kind[n] \notin Expressions \cup Declarations \cup {"macro", "block", "include", "embed", "cache"}
       /\ Recorded(w, n, Kind[n])
  /\ UNCHANGED <<cacheVars, walk, renders, hostSteps>>

\* execIf, execFor, execGuard, evalTernary, evalElvis, evalCoalesce: one arm.
TakeArm(w) ==
  /\ Running(w)
  /\ \E n \in Here(w) : \E arm \in Arms(Kind[n]) : Recorded(w, n, arm)
  /\ UNCHANGED <<cacheVars, walk, renders, hostSteps>>

\* execInclude: recorded, then the partial is composed and seeded.
Include(w) ==
  /\ Running(w) /\ Room(w)
  /\ \E n \in Here(w) : Kind[n] = "include" /\ Recorded(w, n, "include")
  /\ PushBody(w, Opened("include", Partial, <<Partial>>))
  /\ UNCHANGED <<cacheVars, renders, hostSteps>>

\* execEmbed: recorded, then the body of the target runs; nothing is seeded.
Embed(w) ==
  /\ Running(w) /\ Room(w)
  /\ \E n \in Here(w) : Kind[n] = "embed" /\ Recorded(w, n, "embed")
  /\ PushBody(w, Opened("embed", Embedded, <<>>))
  /\ UNCHANGED <<cacheVars, renders, hostSteps>>

\* renderBlockBody: the unit is that of the definition rendered.
EnterBlock(w, b) ==
  /\ Running(w) /\ Room(w)
  /\ Recorded(w, b, "block")
  /\ PushBody(w, Opened("block", b, <<>>))
  /\ UNCHANGED <<cacheVars, renders, hostSteps>>

Blocks == {n \in Nodes : Kind[n] = "block"}

\* A site, parent() or block(name): the definition is in a template of the chain
\* or of an open include or embed, in an embed's own body, or in a trait.
RenderBlock(w) ==
  \E b \in Blocks :
    /\ \/ HomeOf[b] \in ToSet(Chain) \cup {Home(walk[w][i].body) : i \in DOMAIN walk[w]}
       \/ b \in TraitBlocks
    /\ EnterBlock(w, b)

\* block(name, other): the definition is in any template; loading it seeds nothing.
CallBlockOfOther(w) == \E b \in Blocks : EnterBlock(w, b)

\* invokeMacro: the defaults are evaluated first,
CallMacro(w) ==
  /\ Running(w) /\ Room(w)
  /\ \E d \in {n \in Nodes : Kind[n] = "defaults"} : PushBody(w, Opened("call", d, <<>>))
  /\ UNCHANGED <<core, cacheVars, renders, hitCount, hostSteps>>

\* then the macro is seeded,
SeedInvoked(w) ==
  /\ Running(w) /\ Top(w).body \in Nodes /\ Kind[Top(w).body] = "defaults"
  /\ LET m == Body[Top(w).body]
     IN /\ Record(w, [c \in Collectors |-> SeedMacro(core[c], m)])
        /\ ReplaceTop(w, Opened("macro", m, <<m>>))
  /\ UNCHANGED <<cacheVars, renders, hitCount, hostSteps>>

\* and recorded.
EnterMacro(w) ==
  /\ walk[w] # <<>> /\ Top(w).pending # <<>> /\ Head(Top(w).pending) \in Nodes
  /\ Recorded(w, Top(w).body, "macro")
  /\ ReplaceTop(w, [Top(w) EXCEPT !.pending = <<>>])
  /\ UNCHANGED <<cacheVars, renders, hostSteps>>

\* execCache: recorded, the key evaluated,
ReachCache(w) ==
  /\ Running(w) /\ Room(w)
  /\ \E n \in Here(w) : \E key \in CacheKeys :
       /\ Kind[n] = "cache"
       /\ Recorded(w, n, "cache")
       /\ PushBody(w, [Opened("cache", n, <<key>>) EXCEPT !.key = key])
  /\ UNCHANGED <<cacheVars, renders, hostSteps>>

\* and looked up: a stored body is written, a missing one is rendered.
Lookup(w) ==
  /\ walk[w] # <<>> /\ Top(w).pending # <<>> /\ Head(Top(w).pending) \in CacheKeys
  /\ IF Found(Top(w).key) THEN PopBody(w)
     ELSE ReplaceTop(w, [Top(w) EXCEPT !.pending = <<>>])
  /\ UNCHANGED <<core, cacheVars, renders, hitCount, hostSteps>>

\* The tags come from an expression; a body that used a slot is not stored.
Store(w) ==
  /\ Running(w) /\ Top(w).key # NoKey
  /\ \E tags \in SUBSET Tags : Put(Top(w).key, tags)
  /\ PopBody(w)
  /\ UNCHANGED <<core, renders, hitCount, hostSteps>>

\* The end of a body, of a @cache body with slots among them.
Leave(w) ==
  /\ Running(w) /\ Top(w).body \notin {n \in Nodes : Kind[n] = "defaults"}
  /\ PopBody(w)
  /\ UNCHANGED <<core, cacheVars, renders, hitCount, hostSteps>>

\* An error between any two steps: it ends the render, or the operand of an
\* `is defined` in one of the open bodies.
Fail(w) ==
  /\ \E n \in 0 .. Len(walk[w]) - 1 : walk' = [walk EXCEPT ![w] = SubSeq(@, 1, n)]
  /\ UNCHANGED <<core, cacheVars, renders, hitCount, hostSteps>>

----------------------------------------------------------------------------
(* The host.                                                               *)

Host ==
  /\ hostSteps < MaxHost
  /\ hostSteps' = hostSteps + 1
  /\ (\E t \in Tags : InvalidateTag(t)) \/ Clear
  /\ UNCHANGED <<core, walk, renders, hitCount>>

Next ==
  \/ \E w \in Workers :
       \/ StartRender(w) \/ SeedNext(w) \/ Statement(w) \/ TakeArm(w) \/ Include(w)
       \/ Embed(w) \/ RenderBlock(w) \/ CallBlockOfOther(w) \/ CallMacro(w) \/ SeedInvoked(w) \/ EnterMacro(w)
       \/ ReachCache(w) \/ Lookup(w) \/ Store(w) \/ Leave(w) \/ Fail(w)
  \/ Host

Spec == Init /\ [][Next]_vars

----------------------------------------------------------------------------
(* Properties.                                                             *)

TypeOK ==
  /\ \A c \in Collectors :
       /\ DOMAIN core[c].hits \subseteq UNION {Regions(n) : n \in Nodes}
       /\ \A r \in DOMAIN core[c].hits : core[c].hits[r] \in 0 .. MaxHits
       /\ core[c].seededFull \subseteq Templates /\ core[c].sources \subseteq Templates
       /\ core[c].seededMacro \subseteq {n \in Nodes : Kind[n] = "macro"}
  /\ DOMAIN entries \subseteq CacheKeys
  /\ \A w \in Workers : Len(walk[w]) <= MaxNest

\* What the construct that opened a body enters: covSeed of a chain, covSeedMacro.
\* An @embed, block(name, other), a trait's block and parameter defaults enter nothing.
Entered(f) ==
  CASE f.by = "render" -> ToSet(Chain)
    [] f.by = "include" -> {Partial}
    [] f.by = "macro" -> {f.body}
    [] OTHER -> {}

\* "An unreached region reports 0 rather than being absent": while a render is in
\* a chain, a partial or a macro it entered, in any construct inside it, every
\* region of what it entered is in the report, in whichever way the same template
\* was entered or hit before and by whom (covSeed, covSeedMacro, the two memos).
EnteredIsMeasured ==
  \A w \in Workers : \A i \in DOMAIN walk[w] :
    walk[w][i].pending = <<>> =>
      \A root \in Entered(walk[w][i]) : \A c \in {w, Shared} :
        Walked[root] \subseteq DOMAIN core[c].hits

\* The source of every template that was entered is there to be annotated, and a
\* template without one, hit in an embed or a block but never entered, shows
\* nothing that was not reached.
SourcesAreThere ==
  /\ \A c \in Collectors : \A r \in DOMAIN core[c].hits :
       core[c].hits[r] = 0 => HomeOf[r.node] \in core[c].sources
  /\ \A w \in Workers : \A i \in DOMAIN walk[w] :
       walk[w][i].pending = <<>> =>
         \A root \in Entered(walk[w][i]) : \A c \in {w, Shared} : Home(root) \in core[c].sources

\* Collectors of their own, merged, report what one shared collector does, in
\* whatever order the goroutines entered the templates (MergeReports).
MergedIsShared ==
  /\ MergedReport(Workers).hits = core[Shared].hits
  /\ MergedReport(Workers).sources = core[Shared].sources

\* A report never loses what an earlier one showed.
CountersGrow ==
  [][\A c \in Collectors : \A r \in DOMAIN core[c].hits :
       r \in DOMAIN core'[c].hits /\ core'[c].hits[r] >= core[c].hits[r]]_vars
=============================================================================
