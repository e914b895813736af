------------------------------- MODULE EnvLoad -------------------------------
(***************************************************************************)
(* How an Environment finds the template a by-name render walks            *)
(* (environment.go loadModule, prepare, unitCoherent; internal/interp      *)
(* composeTemplate): the parse cache, the prepared memo with its module    *)
(* pointer as witness, the composition memo of a template, and the         *)
(* coherence memo that decides whether a compiled unit may serve instead.  *)
(*                                                                         *)
(* Goroutines render one page concurrently while the host edits what the   *)
(* loader serves.  One action per access to shared state.  Modules and     *)
(* templates are pointers: positions in the heaps parsed and made.  A text  *)
(* of None stands for every way a load fails: no such name, a read error, a *)
(* parse or a type error; for an optional include, that there is no such    *)
(* name.  All heads are literals and an edit changes the text of a          *)
(* template, not its heads.                                                 *)
(***************************************************************************)
EXTENDS Integers, Sequences, FiniteSets

CONSTANTS
  Goroutines,
  Names,       \* template names
  Page,        \* the template rendered
  Parent,      \* [Names -> name or None], the literal @extends operand
  Import,      \* [Names -> name or None], a literal @import source
  Include,     \* [Names -> name or None], an @include in the body
  Optional,    \* [Names -> name or None], an @include ... ignore missing in the body
  Members,     \* the compiled unit's members in order; <<>> for no unit, or
               \* one whose fingerprint the configuration does not match
  Absent,      \* the ignore-missing targets the unit was compiled without
  UnitText,    \* [Names -> the text a member had when it was compiled]
  Texts,       \* what the loader may serve under a name
  MaxEdits,    \* bound: edits of the loader's texts
  MaxRenders,  \* bound: renders of one goroutine
  Outages,     \* TRUE: an edit may make a name fail to load
  None         \* nil, no such name, "does not load"

MemberSet == {Members[i] : i \in DOMAIN Members}
AbsentSet == {Absent[i] : i \in DOMAIN Absent}

ASSUME LoadAssumption ==
  /\ Page \in Names
  /\ Parent \in [Names -> Names \cup {None}]
  /\ Import \in [Names -> Names \cup {None}]
  /\ Include \in [Names -> Names \cup {None}]
  /\ Optional \in [Names -> Names \cup {None}]
  /\ Members \in Seq(Names)
  /\ Absent \in Seq(Names)
  /\ UnitText \in [Names -> Texts]
  /\ MaxEdits \in Nat /\ MaxRenders \in Nat
  /\ Outages \in BOOLEAN
  /\ None \notin Names \cup Texts \cup Goroutines \cup Nat
  /\ None \notin [MemberSet -> Nat \cup {None}]

(* The linker writes out no more than the page, the chain of parents it       *)
(* extends, what it imports and what the top of the chain includes, and what *)
(* it leaves out is not a member.                                            *)
ASSUME UnitAssumption ==
  /\ MemberSet \cap AbsentSet = {}
  /\ \A chain \in SUBSET Names :
       Page \in chain /\ (\A n \in chain : Parent[n] \in chain \cup {None}) =>
         \A m \in MemberSet :
           \/ m \in chain
           \/ m = Import[Page]
           \/ \E n \in chain : Parent[n] = None /\ m = Include[n]

VARIABLES
  text,      \* what the loader serves: [Names -> Texts or None]
  edits,     \* edits still to come
  parsed,    \* the heap of modules: a sequence of [name, text]
  made,      \* the heap of templates: the module each was prepared from
  comp,      \* Template.comp, parallel to made: [chain, ns] or None
  cache,     \* cache.Cache: [Names -> module or None]
  prepared,  \* Environment.prepared: [Names -> [mod, tmpl] or None]
  holder,    \* who holds the unit's mu, or None
  witness,   \* compiledUnit.witness: [MemberSet -> module or None], or None
  ok,        \* compiledUnit.ok
  job        \* what each goroutine is doing

memos == <<parsed, made, comp, cache, prepared>>
unit == <<holder, witness, ok>>
loader == <<text, edits>>
vars == <<loader, memos, unit, job>>

(* A job: the step it is at; the load under way and what for (why); the     *)
(* members still to verify; the root template and what is composed from it. *)
Idle(left) ==
  [at |-> "idle", why |-> "page", name |-> Page, src |-> None, mod |-> None,
   todo |-> <<>>, recheck |-> FALSE, tmpl |-> None, chain |-> <<>>,
   ns |-> None, left |-> left]

At(g, step) == job[g].at = step
NameOf(t) == parsed[made[t]].name

(* What the loader may serve under n. *)
Serves(n) == Texts \cup IF Outages \/ n \in AbsentSet THEN {None} ELSE {}

Init ==
  /\ text \in [Names -> Texts \cup {None}]
  /\ \A n \in Names : text[n] = None => n \in AbsentSet
  /\ edits = MaxEdits
  /\ parsed = <<>>
  /\ made = <<>>
  /\ comp = <<>>
  /\ cache = [n \in Names |-> None]
  /\ prepared = [n \in Names |-> None]
  /\ holder = None
  /\ witness = None
  /\ ok = FALSE
  /\ job = [g \in Goroutines |-> Idle(MaxRenders)]

(* The host changes a template source under the loader. *)
Edit(n, v) ==
  /\ edits > 0
  /\ v # text[n]
  /\ edits' = edits - 1
  /\ text' = [text EXCEPT ![n] = v]
  /\ UNCHANGED <<memos, unit, job>>

(* The job g of a render ends, served or with an error. *)
Ended(g) == Idle(job[g].left)

(* Loading of n starts, for the purpose p. *)
Load(g, n, p) ==
  job' = [job EXCEPT ![g].at = "get", ![g].name = n, ![g].why = p]

(* Render *)
StartRender(g) ==
  /\ At(g, "idle")
  /\ job[g].left > 0
  /\ job' = [job EXCEPT ![g] = [Idle(job[g].left - 1) EXCEPT !.at = "get"]]
  /\ UNCHANGED <<loader, memos, unit>>

-----------------------------------------------------------------------------
(* loadModule *)

CacheHit(g) ==
  /\ At(g, "get")
  /\ cache[job[g].name] # None
  /\ job' = [job EXCEPT ![g].at = "look", ![g].mod = cache[job[g].name]]
  /\ UNCHANGED <<loader, memos, unit>>

CacheMiss(g) ==
  /\ At(g, "get")
  /\ cache[job[g].name] = None
  /\ job' = [job EXCEPT ![g].at = "read"]
  /\ UNCHANGED <<loader, memos, unit>>

LoaderGet(g) ==
  /\ At(g, "read")
  /\ text[job[g].name] # None
  /\ job' = [job EXCEPT ![g].at = "put", ![g].src = text[job[g].name]]
  /\ UNCHANGED <<loader, memos, unit>>

(* Parsed, checked and cached; a racing load's module is replaced. *)
CachePut(g) ==
  /\ At(g, "put")
  /\ parsed' = Append(parsed, [name |-> job[g].name, text |-> job[g].src])
  /\ cache' = [cache EXCEPT ![job[g].name] = Len(parsed')]
  /\ job' = [job EXCEPT ![g].at = "look", ![g].mod = Len(parsed'), ![g].src = None]
  /\ UNCHANGED <<loader, made, comp, prepared, unit>>

(* A page, a parent or an include that does not load fails the render. *)
RenderFails(g) ==
  /\ job[g].why \in {"page", "parent", "include"}
  /\ job' = [job EXCEPT ![g] = Ended(g)]
  /\ UNCHANGED unit

(* An optional include that exists but does not load renders nothing. *)
OptionFails(g) ==
  /\ job[g].why = "option"
  /\ job' = [job EXCEPT ![g] = Ended(g)]
  /\ UNCHANGED unit

(* loadImport binds nothing when the source does not load. *)
ImportFails(g) ==
  /\ job[g].why = "import"
  /\ job' = [job EXCEPT ![g].at = "publish"]
  /\ UNCHANGED unit

(* Mutant: the early return of a failed member keeps the unit locked. *)
MemberFails_Locked(g) ==
  /\ job[g].why = "member"
  /\ witness' = None
  /\ job' = [job EXCEPT ![g].at = "compose"]
  /\ UNCHANGED <<holder, ok>>

(* unitCoherent: a member that does not load voids the witness. *)
MemberFails(g) ==
  /\ job[g].why = "member"
  /\ witness' = None
  /\ holder' = None
  /\ job' = [job EXCEPT ![g].at = "compose"]
  /\ UNCHANGED ok

LoadFails(g) ==
  /\ At(g, "read")
  /\ text[job[g].name] = None
  /\ RenderFails(g) \/ OptionFails(g) \/ ImportFails(g) \/ MemberFails(g)
  /\ UNCHANGED <<loader, memos>>

-----------------------------------------------------------------------------
(* prepare *)

(* What becomes of the job j with the template t it asked for. *)
Used(j, t) ==
  CASE j.why = "page" ->
         [j EXCEPT !.tmpl = t, !.at = IF Members = <<>> THEN "compose" ELSE "lock"]
    [] j.why = "parent" -> [j EXCEPT !.chain = Append(j.chain, t), !.at = "chain"]
    [] j.why = "import" -> [j EXCEPT !.ns = t, !.at = "publish"]
    [] j.why = "include" -> [j EXCEPT !.at = "option"]
    [] j.why = "option" -> Idle(j.left)
Use(g, t) == job' = [job EXCEPT ![g] = Used(job[g], t)]

Looks(g) == At(g, "look") /\ job[g].why # "member"

(* Mutant: the memo is honoured whatever module it was prepared from. *)
Memoized_AnyModule(g) == prepared[job[g].name] # None

(* The memo entry was built from this exact module. *)
Memoized(g) ==
  prepared[job[g].name] # None /\ prepared[job[g].name].mod = job[g].mod

PreparedHit(g) ==
  /\ Looks(g)
  /\ Memoized(g)
  /\ Use(g, prepared[job[g].name].tmpl)
  /\ UNCHANGED <<loader, memos, unit>>

PreparedMiss(g) ==
  /\ Looks(g)
  /\ ~Memoized(g)
  /\ job' = [job EXCEPT ![g].at = "prepare"]
  /\ UNCHANGED <<loader, memos, unit>>

Prepare(g) ==
  /\ At(g, "prepare")
  /\ made' = Append(made, job[g].mod)
  /\ comp' = Append(comp, None)
  /\ prepared' = [prepared EXCEPT
       ![job[g].name] = [mod |-> job[g].mod, tmpl |-> Len(made')]]
  /\ Use(g, Len(made'))
  /\ UNCHANGED <<loader, parsed, cache, unit>>

-----------------------------------------------------------------------------
(* unitCoherent, under the unit's mu *)

Lock(g) ==
  /\ At(g, "lock")
  /\ holder = None
  /\ holder' = g
  /\ witness' = IF witness = None THEN [n \in MemberSet |-> None] ELSE witness
  /\ job' = [job EXCEPT ![g].at = "member", ![g].todo = Members,
                        ![g].recheck = (witness = None)]
  /\ UNCHANGED <<loader, memos, ok>>

NextMember(g) ==
  /\ At(g, "member")
  /\ job[g].todo # <<>>
  /\ Load(g, Head(job[g].todo), "member")
  /\ UNCHANGED <<loader, memos, unit>>

(* Mutant: a changed module is recorded but does not force a new verdict. *)
Witness_NoRecheck(g) ==
  /\ At(g, "look")
  /\ job[g].why = "member"
  /\ witness' = [witness EXCEPT ![job[g].name] = job[g].mod]
  /\ job' = [job EXCEPT ![g].at = "member", ![g].todo = Tail(job[g].todo)]
  /\ UNCHANGED <<loader, memos, holder, ok>>

(* The member's module is compared with the one last verified. *)
Witness(g) ==
  /\ At(g, "look")
  /\ job[g].why = "member"
  /\ witness' = [witness EXCEPT ![job[g].name] = job[g].mod]
  /\ job' = [job EXCEPT
       ![g].at = "member", ![g].todo = Tail(job[g].todo),
       ![g].recheck = job[g].recheck \/ witness[job[g].name] # job[g].mod]
  /\ UNCHANGED <<loader, memos, holder, ok>>

(* Mutant: the loader's text is compared, not the cached module's. *)
ByteEqual_Loader(n) == text[n] = UnitText[n]

ByteEqual(n) == parsed[witness[n]].text = UnitText[n]

Verdict(g) ==
  /\ At(g, "member")
  /\ job[g].todo = <<>>
  /\ ok' = IF job[g].recheck THEN \A n \in MemberSet : ByteEqual(n) ELSE ok
  /\ holder' = None
  /\ job' = [job EXCEPT ![g].at = IF ok' THEN "compiled" ELSE "compose",
                        ![g].todo = IF ok' THEN Absent ELSE <<>>]
  /\ UNCHANGED <<loader, memos, witness>>

(* templateExists *)
Exists(n) == cache[n] # None \/ text[n] # None

(* Mutant: the gate asks the loader alone, not the parse cache. *)
ProbeAbsent_Loader(g) ==
  /\ At(g, "compiled")
  /\ job[g].todo # <<>>
  /\ job' = IF text[Head(job[g].todo)] # None
            THEN [job EXCEPT ![g].at = "compose", ![g].todo = <<>>]
            ELSE [job EXCEPT ![g].todo = Tail(job[g].todo)]
  /\ UNCHANGED <<loader, memos, unit>>

(* compiledFor: the unit renders nothing for the ignore-missing targets it    *)
(* was compiled without, so it serves only while none of them exists.        *)
ProbeAbsent(g) ==
  /\ At(g, "compiled")
  /\ job[g].todo # <<>>
  /\ job' = IF Exists(Head(job[g].todo))
            THEN [job EXCEPT ![g].at = "compose", ![g].todo = <<>>]
            ELSE [job EXCEPT ![g].todo = Tail(job[g].todo)]
  /\ UNCHANGED <<loader, memos, unit>>

Dispatched(g) == At(g, "compiled") /\ job[g].todo = <<>>

(* The generated function renders the members it was compiled from. *)
ServeCompiled(g) ==
  /\ Dispatched(g)
  /\ job' = [job EXCEPT ![g] = Ended(g)]
  /\ UNCHANGED <<loader, memos, unit>>

-----------------------------------------------------------------------------
(* composeTemplate and the body of the page *)

ComposeMemo(g) ==
  /\ At(g, "compose")
  /\ comp[job[g].tmpl] # None
  /\ job' = [job EXCEPT ![g].at = "body",
                        ![g].chain = comp[job[g].tmpl].chain,
                        ![g].ns = comp[job[g].tmpl].ns]
  /\ UNCHANGED <<loader, memos, unit>>

ComposeFresh(g) ==
  /\ At(g, "compose")
  /\ comp[job[g].tmpl] = None
  /\ job' = [job EXCEPT ![g].at = "chain", ![g].chain = <<job[g].tmpl>>]
  /\ UNCHANGED <<loader, memos, unit>>

Top(g) == NameOf(job[g].chain[Len(job[g].chain)])

(* buildChain *)
WalkParent(g) ==
  /\ At(g, "chain")
  /\ Parent[Top(g)] # None
  /\ Load(g, Parent[Top(g)], "parent")
  /\ UNCHANGED <<loader, memos, unit>>

(* loadMacros: the root template's own imports *)
LoadMacros(g) ==
  /\ At(g, "chain")
  /\ Parent[Top(g)] = None
  /\ IF Import[Page] # None THEN Load(g, Import[Page], "import")
     ELSE job' = [job EXCEPT ![g].at = "publish"]
  /\ UNCHANGED <<loader, memos, unit>>

(* Mutant: published on the template now prepared under the page's name. *)
Publish_Current(g) ==
  /\ At(g, "publish")
  /\ comp' = [comp EXCEPT ![prepared[Page].tmpl] =
                [chain |-> job[g].chain, ns |-> job[g].ns]]
  /\ job' = [job EXCEPT ![g].at = "body"]
  /\ UNCHANGED <<loader, parsed, made, cache, prepared, unit>>

(* The heads are literals, so the composition is memoized. *)
Publish(g) ==
  /\ At(g, "publish")
  /\ comp' = [comp EXCEPT ![job[g].tmpl] = [chain |-> job[g].chain, ns |-> job[g].ns]]
  /\ job' = [job EXCEPT ![g].at = "body"]
  /\ UNCHANGED <<loader, parsed, made, cache, prepared, unit>>

Body(g) ==
  /\ At(g, "body")
  /\ IF Include[Top(g)] # None THEN Load(g, Include[Top(g)], "include")
     ELSE job' = [job EXCEPT ![g].at = "option"]
  /\ UNCHANGED <<loader, memos, unit>>

(* renderInclude: ignore missing takes a name that does not exist for nothing. *)
Option(g) ==
  /\ At(g, "option")
  /\ LET n == Optional[Top(g)]
     IN  IF n # None /\ Exists(n) THEN Load(g, n, "option")
         ELSE job' = [job EXCEPT ![g] = Ended(g)]
  /\ UNCHANGED <<loader, memos, unit>>

-----------------------------------------------------------------------------
Render(g) ==
  \/ StartRender(g)
  \/ CacheHit(g) \/ CacheMiss(g) \/ LoaderGet(g) \/ CachePut(g) \/ LoadFails(g)
  \/ PreparedHit(g) \/ PreparedMiss(g) \/ Prepare(g)
  \/ Lock(g) \/ NextMember(g) \/ Witness(g) \/ Verdict(g)
  \/ ProbeAbsent(g) \/ ServeCompiled(g)
  \/ ComposeMemo(g) \/ ComposeFresh(g) \/ WalkParent(g) \/ LoadMacros(g)
  \/ Publish(g) \/ Body(g) \/ Option(g)

Next ==
  \/ \E g \in Goroutines : Render(g)
  \/ \E n \in Names : \E v \in Serves(n) : Edit(n, v)

(* Every goroutine that can run is scheduled; the host need not edit. *)
Spec == Init /\ [][Next]_vars /\ \A g \in Goroutines : WF_vars(Render(g))

-----------------------------------------------------------------------------
(* Properties *)

OrNone(S) == S \cup {None}
Modules == DOMAIN parsed
Templates == DOMAIN made

Steps == {"idle", "get", "read", "put", "look", "prepare", "lock", "member",
          "compiled", "compose", "chain", "publish", "body", "option"}
Purposes == {"page", "member", "parent", "import", "include", "option"}
Composition == [chain : Seq(Templates), ns : OrNone(Templates)]

Jobs ==
  [at : Steps, why : Purposes, name : Names, src : OrNone(Texts),
   mod : OrNone(Modules), todo : Seq(Names), recheck : BOOLEAN,
   tmpl : OrNone(Templates), chain : Seq(Templates), ns : OrNone(Templates),
   left : 0..MaxRenders]

(* Pointers are allocated ones and every job is at a step of the code. *)
TypeOK ==
  /\ text \in [Names -> OrNone(Texts)]
  /\ edits \in 0..MaxEdits
  /\ parsed \in Seq([name : Names, text : Texts])
  /\ made \in Seq(Modules)
  /\ comp \in Seq(OrNone(Composition))
  /\ Len(comp) = Len(made)
  /\ cache \in [Names -> OrNone(Modules)]
  /\ prepared \in [Names -> OrNone([mod : Modules, tmpl : Templates])]
  /\ holder \in OrNone(Goroutines)
  /\ witness \in OrNone([MemberSet -> OrNone(Modules)])
  /\ ok \in BOOLEAN
  /\ job \in [Goroutines -> Jobs]

(* prepare: "whatever module the parse cache serves is the module the        *)
(* returned Template was prepared from": the page a goroutine goes on to     *)
(* render was prepared from the very module its own load found, whatever     *)
(* other goroutines cached and prepared under that name meanwhile.           *)
LoadedFromItsModule ==
  \A g \in Goroutines :
    At(g, "lock") \/ (At(g, "compose") /\ Members = <<>>)
    => made[job[g].tmpl] = job[g].mod

(* A memoized composition is rooted at its template and each link is the     *)
(* parent the template below names, however many first renders raced.        *)
CompositionFollowsHeads ==
  \A t \in Templates :
    comp[t] # None =>
      LET chain == comp[t].chain
      IN  /\ chain[1] = t
          /\ \A i \in 1..(Len(chain) - 1) : NameOf(chain[i+1]) = Parent[NameOf(chain[i])]
          /\ Parent[NameOf(chain[Len(chain)])] = None

(* compiledUnit: the verdict stored is that of the modules stored as its     *)
(* witness, whenever the unit is not being verified ("a source change can    *)
(* never be served through a stale verdict").                                *)
VerdictSound ==
  holder = None /\ witness # None =>
    /\ \A n \in MemberSet : witness[n] # None
    /\ ok <=> \A n \in MemberSet : ByteEqual(n)

(* What the interpreter would walk for n if it rendered g's page now. *)
Walked(g, n) ==
  LET c == comp[job[g].tmpl]
      composed == {c.chain[i] : i \in DOMAIN c.chain} \cup {c.ns}
      found == {t \in composed \ {None} : NameOf(t) = n}
  IN  IF n = Page THEN parsed[made[job[g].tmpl]].text
      ELSE IF c = None \/ n = Include[NameOf(c.chain[Len(c.chain)])]
           THEN parsed[cache[n]].text
      ELSE IF found = {} THEN None
      ELSE parsed[made[CHOOSE t \in found : TRUE]].text

Served ==
  \A g \in Goroutines : Dispatched(g)' =>
    /\ \A n \in MemberSet : Walked(g, n)' = UnitText[n]
    /\ ~Dispatched(g) => \A n \in AbsentSet : ~Exists(n)'

(* compiledUnit: "the compiled path can never serve a render whose           *)
(* interpreter counterpart would walk different source": whatever the host   *)
(* edits, a dispatched render's members are what the interpreter would walk, *)
(* and when it is dispatched the interpreter would find none of the optional *)
(* includes the unit leaves out, not even one the loader has since dropped   *)
(* and an earlier render cached.                                             *)
CompiledServesWalk == [][Served]_vars

(* Every render a goroutine starts is served or fails: nobody waits for the  *)
(* unit's lock for ever, whichever member stops loading.                     *)
EveryRenderEnds == \A g \in Goroutines : ~At(g, "idle") ~> At(g, "idle")
=============================================================================
