# A TLA+ model of the Quill template engine

Quill (`github.com/avmnu-sng/quill-template-engine`) is a Go template engine. An
`Environment` loads templates by name, parses and type-checks them, and walks
the tree to render; a code generator can turn a set of templates into Go
functions that the Environment serves instead of the interpreter when it can
prove the result is the same.

This directory models two kinds of its parts. Some are correct or not depending
on *sequences*: on what was bound, stored, provided, cached, loaded or edited
before, and by whom. Others are *algorithms over trees and values* whose cases
multiply: the lexer, the parser, the type checker, the analyses that let a loop
run with less work, arithmetic, and the collection and text filters. TLC checks
each model on small instances; TLAPS proves theorems about the copy-on-write
layer, the constructs that save and restore the fields of an interpreter and the
text they move, deferred slots and `@cache`, the Environment's memos and verdicts,
and what concurrent renders share, for every instance.

- [Inventory](#inventory)
- [Modules](#modules)
- [Runs](#runs)
- [Proofs](#proofs)
- [Disagreements with the code's own words](#disagreements)
- [Not modelled](#not-modelled)
- [Plan](#plan)

## Inventory

| component | state | operations | talks to |
|---|---|---|---|
| Environment (`environment.go`) | parse cache, prepared memo, per compiled unit: witness and verdict under a mutex | `Render`, `RenderTo`, `RenderString`, `LoadTemplate`, the dispatch gate `compiledFor` / `unitCoherent` | loader, parser, checker, interpreter, generated units |
| caches (`pkg/cache`) | `Cache`: name to module; `RenderCache`: key to text, tag to keys | `Get`, `Put`, `InvalidateTag`, `Clear` | Environment; `@cache` regions; the host |
| composition (`exec.go`, `compose.go`) | a template's published composition (chain, block table, macros, imports); an interp's own copy | chain walk, block table, traits, macro namespaces, include, embed | Environment (loads), scopes, slots |
| scopes and arrays (`pkg/runtime`) | frame stack, arrays with a shared bit | bind, look up, privatize a path, store, loop copy-back | interpreter |
| slots and `@cache` (`slots.go`, `exec.go`) | slot buffers, the token, reserved labels, nested sinks | `@provide`, `@yield`, `slot()`, `@cache`, final substitution | includes, render cache |
| loop machinery (`exec.go`, `loopescape.go`, `recursive_for.go`) | a pool of snapshot buffers, one reused loop value, a stack of recursive loops | `@for`, `loop(children)`, `loop.changed` | scopes, sinks |
| call blocks and macros (`slots.go`, `compose.go`) | staged and active caller frame, current macro home | `@call`, `caller()`, macro calls | scopes, sinks |
| output (`sink.go`, `interp.go`) | active sink, indent, at-line-start flag, first write error | captures, `@tab`, `@flush`, streaming against buffering | the host's writer |
| sandbox (`security.go`, `pkg/sandbox`) | the gate of an interp, the policy's allow lists and type graph | region entry and exit, checks of tags, filters, functions, members, coercions | composition, includes |
| coverage (`internal/covercore`, `pkg/cover`) | region counts, two seed sets, captured sources | seed a template, seed a macro, hit, snapshot, merge | interpreter, reports |
| lexer (`internal/lex`) | cursor, mode stack, line-start flag, token list | one pass with doors into code, then a trim pass | Environment, parser (interpolated strings) |
| parser (`pkg/parse`) | token position, depth, table of matching brackets | one production per construct, with look-ahead for arrows and targets | lexer, Environment |
| type checker (`pkg/check`) | type environment, narrowed scopes | consistency, join, narrowing, the type of an expression, the check of a statement | Environment (at load), host types |
| values (`pkg/runtime`, `operators.go`) | none | arithmetic, comparison, membership, canonical keys, marshalling of host maps | interpreter, filters, generated code |
| registry and standard library (`pkg/ext`) | layered tables of filters, functions, tests | register, merge, clone, look up; the filters themselves | interpreter, checker |
| loaders (`pkg/loader`) | routes, chains | get, exists | Environment |
| compile backend (`internal/compile`, `pkg/compiled`) | generated source, manifest with fingerprint and member sources; per loop, which of the interpreter's work can be left out | generate; install | Environment |

What is hard in it:

- **Aliasing.** A template variable is a value, an `*Array` is a pointer with one
  shared bit. Binding marks, writing privatizes, storing into a slot does
  neither. Whether a write leaks depends on the order of several statements.
- **Deferral.** `@yield` prints a placeholder now and its text after the walk,
  through captures, nested renders and a cache that outlives the render.
- **Memos of memos.** Parse cache, prepared memo, composition memo and the
  coherence verdict each remember what another said; goroutines fill them
  without a common lock while the host edits sources or a load fails.
- **Save and restore.** The gate of the sandbox, the caller frame, the macro
  home, the sink and the indent are fields of one interp that a construct sets
  and must put back on every path.

- **Analyses that permit short cuts.** Whether one loop value serves all
  iterations, whether a loop may range over the live array, whether it needs a
  scope: each is a syntactic answer to a question about evaluation.
- **Context.** The same characters mean different things at a line's start, in
  code, after an expression; the same name has another type behind a test.
- **Boundaries.** The limits of `int64`, digit strings as keys, zero and negative
  sizes, words longer than the line.

What makes each part correct:

- scopes and arrays: names behave as if every read copied; no write reaches the
  host's arguments, another name or another render;
- slots: the finished text is what the template says, whatever was captured,
  cached or included, with no placeholder left; with an error comes what was
  written before it;
- Environment: what is served, compiled or interpreted, comes from the source a
  walk would see; a stored verdict belongs to the stored modules; no render waits
  for ever;
- composition: the chain follows the heads, an override wins over what it
  overrides and `parent()` reaches the next one, macros see their home;
- loops: a loop ranges over the entries at entry, and a buffer or loop value is
  never reused while someone can see it;
- sandbox: nothing rendered inside a region escapes the gate, nothing outside
  is gated by it;
- coverage: every region of what a chain, an include or a macro enters is in the
  report, whatever the order of seeding and hits;
- output: bytes streamed equal bytes buffered, a failed writer gets nothing more;
- lexer: every byte of the source is in one token, or is layout of the door, the
  comment, the escape or the trim marker next to it, and statements are found at
  line starts only;
- parser: a tree written down by the grammar is read back as that tree;
- checker: an accepted template meets only values of the types it was given, and
  a refused one fails for some values it may be given;
- values: no integer result is wrong in silence, equal keys are one key, a Go map
  arrives in one order;
- loop analyses: the short cut renders what the long way renders;
- filters: one order for all that sort, no element lost or doubled, text that fits.

`PROJECT.json` lists every component with its status and the hazards at their
lines.

## Modules

`ScopeFrames` is the frame stack of `scope.go`: `Child` pushes a frame, a read
falls through to the nearest binding, a write lands on top, an isolated frame
(a macro body, `include .. only`) has no parent, and a finished `@for` copies
names of the enclosing scope back (`PopLoop`). `CowScope` and `ValueScope`
extend it.

`CowScope` is the value layer as it is: `slots` and `shared` are the arrays'
contents and bits, `frame` holds references. One action per evaluation step. A
member assignment is several: the right-hand side (`Eval..`), `OwnRoot`, an
`OwnHop` per key with any key expression (`KeyRead`, `KeyAssign`) in between,
then `Store`. `EvalName` marks as `Scope.Get` does, `SetName` and `Push` as
`Set` does, `CloneInto` is `cloneShallowCOW`. `LoopEnter` takes the snapshot,
`LoopExit` copies back. Renders follow one another over one heap with the same
argument arrays (`StartRender`, `EndRender`; an error ends a render anywhere).
Two constants describe the templates considered: `AliasStores` lets them store
any array into a slot, `KeyEffects` lets an inline assignment in a key
expression involve the root of the path.

`ValueScope` is the promise: no heap, a variable holds a value.
`CowRefines` reads every reference of `CowScope` as the value it denotes
(`Denotes`) and instantiates `ValueScope` with it.

`Slots` runs a template given as a bracketed sequence of operations (`text`,
`yield`, `slot`, `provide`..`end`, `cache`..`end`, `include`..`end`), several
times over one `store` (the `RenderCache`). `open` is the stack of captures with
what each saved, `yielded` the current interp's `yieldedLabels` (an include has
its own and merges it, `EndInclude`), `minted` the lazily minted token, whose
identity is the render's number. Rendered text is a sequence of items that
remember which operation wrote them and in which render, so a property can say
where a piece of output came from. `Abort` is an error anywhere in the walk: the
host gets the error with the `Partial` buffer, what the render's own builder holds,
in which nothing has been substituted yet.

`EnvLoad` has one job per goroutine, at a step between two accesses to shared
state: `CacheHit` or `CacheMiss`, `LoaderGet`, `CachePut` are `loadModule`;
`PreparedHit`, `PreparedMiss`, `Prepare` are `prepare`; `Lock`, `NextMember`,
`Witness`, `MemberFails`, `Verdict` are `unitCoherent` under its mutex;
`ProbeAbsent` is the end of `compiledFor`, one include the unit leaves out at a time;
`ComposeMemo`, `ComposeFresh`, `WalkParent`, `LoadMacros`, `Publish` are
`composeTemplate`; `Body` loads what the page's body includes and
`Option` what it includes if it is there. `Edit` is the
host: it changes what the loader serves or, with `Outages`, makes a name fail.
Modules and templates are positions in the heaps `parsed` and `made`, so pointer
identity is equality of positions.

`Regions` is one interpreter's fields (`regs`: the sink, the `@tab` indent and
its line-start flag, the escape strategy, the gate, the block being rendered, the
staged and the active caller frame, the macro home, the recursive loops) and the
stack of open constructs with the fields as each found them. A template is any
nesting, so the open actions are free: `OpenTab`, `OpenEscape`, `OpenSandbox`,
`OpenApply`, `OpenCache`, `OpenRecursive` and `BlockSite` are statements;
`Include` and `Embed` start a nested interpreter (`Fresh`); `CallMacro` and
`CallBlock` go through the phase in which defaults are evaluated (`Invoke`, then
`EnterMacro`); `CallCaller`, `CallParent`, `CallBlockFunction`,
`CallBlockOfOther` and `Descend` are the composition builtins. `Keeps` lists what
each construct saves and `Close` puts that back, then writes what was captured
through `Emitted` and `Written` (`emit`, `write`, `writeIndented`). `Fail` is an
error that `is defined` swallows; it unwinds every construct inside the operand.
Printed values are cells that remember which strategies escaped them and under
which they were printed, so nothing is formatted. Simplified: a macro's home, an
include and an embed are always the library, `@tab` is by one level, every
template spells its `@cache` key alike, and an error outside `is defined` ends
the render. `text` and `irregular` are history: the template whose source runs,
and whether a region met a case `IrregularTab` names.

`Coverage` is the core of a collector: the regions with their counters (`hits`),
the two memos (`seededFull`, `seededMacro`) and the templates whose source was
captured, with `SeedTemplate`, `SeedMacro`, `Hit` and the merge of reports. What
`seed.go` walks is a forest: a template, a macro, its parameter defaults and a
block are bodies, and `Walked` is what lies under one. `RenderCaches` is
`pkg/cache`'s `RenderCache`; a stored body is a number, and `doomed` (history)
remembers those that carried a tag invalidated since.

`ConcurrentRenders` composes the two: each goroutine walks bodies, and every step
takes one of the two mutexes at most once, so the order of seeds, hits, lookups,
stores and invalidations is free. `pending` is what a body still has to do before
it runs: seed the templates of a chain (`SeedNext`), record a macro
(`EnterMacro`), look a key up (`Lookup`). `Fail` is an error anywhere, which ends
the render or is swallowed in any of the open bodies. Each region is recorded both in
the goroutine's collector and in one that all share, so the two ways of
deploying collectors are compared state by state. `by` says which construct opened
a body, and `Entered` what that construct seeds: the chain of a render, an included
partial, a macro. `Embed` and `CallBlockOfOther` render another template and seed
nothing, nor does `RenderBlock` when the definition comes from a trait or an embed's
own body; what they hit is in the report all the same. The model allows more than the
code does: any node of a body may be reached at any time and any number of times, and
a block site may render any block of the chain, of a body that is open or of a trait.
Templates are not edited between renders.

`Lexer` scans one input chosen at the start. A byte is taken by class: blank,
newline, the marks that open and close code, a word, a quote, `Esc` for a text
escape. `mode` is the function that holds the cursor: `scanText`, the code of an
interpolation, the code of a statement's head, or none any more; `atLineStart` is
the flag of `lexer.go`, `buf` and `lineMark` the builder of `scanText`. An action takes
a byte of text, a token or blanks of code, or a whole door with what follows it:
a comment, a verbatim block, a close with its trim. `Finish` applies the trim
markers to the text tokens at once. Each token keeps the positions of the bytes it
stands for. The loops over a string, a mapping literal ahead and a verbatim body are
recursive functions or the least position that stops them.

The language modules are constant-level: operators over trees and values, one per
function of the code, without state of their own. `Tree` is the node.
`Parser` reads a sequence of tokens, by precedence climbing for the levels
`parseOr` to `parsePower`, and for statements by *forms*: `IncludeForm` is the
list of pieces `parseInclude` reads, and `Pieces` reads a form. A production
returns the node with the position after it, or `Fails`. `Grammar` is the
reference: it writes a tree down as tokens, with parentheses where the
precedence table of the docs asks for them. `Documents` are the trees.

`Values` has integers of `Width` bits and floats with `Mantissa` bits, strings as
sequences of codes, and the operators and comparisons over them. `TypeCheck` is
`pkg/check`: `consistent`, `join`, narrowing, the type of an expression and the
errors of a statement list. `Typing` evaluates the same trees over a few values of every
type (`Samples`) and compares: `AcceptedIsTyped`, `RefusedFails`.
`TypedTemplates` are the templates.

`LoopEscape` is `loopescape.go`: one walk collects facts about every loop (who
mentions `loop`, under which frames) and `analyzeLoopEscapes` answers which loops
may reuse their loop value and draw their snapshot from the pool. `LoopLowering` is
`loopopt.go` of the code generator: which loops need no loop value, which reads
of `loop` become arithmetic, and which loops range over the live array.
`LoopRun` runs a program of loops, assignments, arrows, captures and readers over a heap in which
arrays, loop values and pooled buffers have identity, in one of three ways: as
the interpreter does, with fresh loop values and buffers, and as the generated
code does. `LoopPrograms` are the programs.

`Collections` has `sort`, `unique`, `min`, `max`, `batch`, `columns`, `slice`,
`range`, `group_by`, `column`, `pluck` and the others of the collection filters;
`Text` has `wordwrap`, `truncate`, `indent`, `replace` and the others that
shape text.

`Composition` renders a set of templates of texts, blocks, heads, includes, embeds,
macros and calls as `exec.go` and `compose.go` do: `Composed` builds the chain, the
block table with traits and aliases, and the macro namespace; a renderer holds
them with the block being rendered and the macro home; what renders publish is
threaded through as `memo`. `UnitLink` is `unit.go`, `embed.go` and `include.go` of
the generator: the same set of templates becomes one sequence of steps, with
blocks, partials and embeds written out in place (`lower`), a stub that raises the
interpreter's error, or a refusal. It extends `Composition` for what the two have
in common by construction (a template's index, aliases, `appendBlockDef`).
`Pages` are the sets of templates and what they must satisfy. Names are static,
macros and calls have no arguments, scopes hold what `@import` binds.

`MCLanguage` enumerates one subject after another: a behaviour picks
a seed, then a subject, and each property speaks of the subjects of its kind. The
large ones are action properties, about the subject a step picks.

`MCCowScope`, `MCSlots`, `MCEnvLoad`, `MCRegions`, `MCConcurrentRenders`, `MCLexer` give the
constants their small values; the reference output of a template
(`PrintsReference`, `PartialPrints`) is in `MCSlots`.

The proofs are in modules that extend what they are about: `CowScopeProofs`,
`RegionsProofs` (fields, escaping) and `RegionsLinesProofs` (lines), `SlotsProofs`,
`EnvLoadProofs`, `ConcurrentRendersProofs`, `LexerProofs`. `FoldProofs` is about no component: it has the
inductions that the others need.

## Runs

Every run has `CHECK_DEADLOCK FALSE`: a system whose renders are used up has
stopped, and so has the code.

| run | bounds | question |
|---|---|---|
| `cow_owned` | argument `{k: {k: s}}`, two renders, two names, two frames, two hops, two allocations | Do the shared bits keep every write away from aliases, from the host and from the next render? |
| `cow_loops` | arrays of two entries, two frames, one hop, one allocation | Can an observer tell the heap from plain values, with a snapshot that outlives writes in the body? |
| `slots_fragment` | all templates of six operations, two labels, one cache key, two renders | Does a render print what its template says, and what came before the error when one ends it? |
| `regions_nesting` | three constructs, three pieces of text, two strategies | Does each construct give the fields back, and do text, gate and caller frame come out right through any nesting? |
| `shared_renders` | two goroutines, one render each, four templates with fifteen nodes, one key, two tags, two regions recorded, three open bodies, one step of the host | Is all of what was entered in the reports, and are they never shrinking and the same however collectors are shared? Is an invalidated body gone? |
| `env_single` | one goroutine, three renders, two edits, five templates | Sequentially, does the compiled unit serve only what a walk would see, and only while what it leaves out is not there? |
| `env_race` | two goroutines, one render each, a page that extends and imports one template, one edit or outage | Under races: own modules, compositions that follow the heads of their own template, sound verdicts, and every render ends. |
| `lexer` | every template of four pieces of layout, and of three pieces of any kind | Is each byte in one token, or layout of what stands next to it, do doors open at line starts only, does every scan end? |
| `language` | below | Do the parser, the checker, the loop analyses, composition, arithmetic, keys and filters do what their references say? |

Why the bounds are enough. *CowScope*: an alias needs two holders, a leak through
a nested array needs two levels, a frame effect needs two frames; two fresh
arrays let a clone and an older holder coexist, which is all a later write can
confuse. *Slots*: two nested brackets take four operations and leave two for a
contribution and a reading, in every order; two renders are enough for a stored
entry to be replayed in a render that has another token. A key names one region
(two regions with the same key share text by design). *Regions*: a capture inside
a region inside a capture takes three constructs, an `@call` whose macro calls
another or whose block calls `caller()` takes two or three, and a value escaped
twice or a line indented twice shows in the third piece of text; the proofs below
hold for every depth. *ConcurrentRenders*: a report goes wrong when a
template is entered in two ways or a region is recorded twice, and a tag list when
two goroutines that both missed store under one key, so two recorded regions
and a macro below an include are enough; the proofs hold for any number.
*EnvLoad*: two goroutines and one edit give every order of one racing load against another around a
change; a chain of two, an import and two includes give every purpose of a load, and the second edit lets the
optional include be served, cached and dropped again before the next render.
*Lexer*: a layout bug needs a head or a close, what precedes it on its line, and
what its trims or its newline meet afterwards. *Language*: five-bit integers have
every overflow that 64 bits have, and floats of three bits the same rounding
between neighbours; all pairs of integers, all keys up to three characters around
the limits. Expressions are two constructs deep, every construct around every
other, in every statement that holds one: precedence, look-ahead and bare test
arguments are between neighbours. Types are 18, with nested lists, mappings,
unions and a host class; guards are pairs of tests joined by `and`, `or`, `not`, in a
ternary that is printed or assigned and in `@if` chains; each declared type meets an
assignment and a loop annotated with each other. Host maps have up to three keys, of
integers, of strings, or of an interface that holds both.
Loop programs put 21 ways to keep a loop value or a buffer, in 12 wrappers, under
four kinds of inner loop, in three places of an outer loop, before 12 ways to look
at what was kept. Pages give two blocks of a page eleven bodies each (`parent()`,
`block()`, an include, an embed with overrides, a nested block) over a base, a
trait, a card and a partial; ten ways to use traits, at two levels of the chain,
with nine heads; and a library of macros called in six ways from a page with
macros of the same names. A chain of three and a block inlined in a block
inlined in an embed meet every case of the table; `MaxInline` is 6 where the code
says 64, which only the cycles reach. Lists have up to four elements of mixed kinds, as lists and
with string, integer and mixed keys; texts up to five characters with blanks, newlines and a wide
character, widths 0 to 5.
`MaxPieces`, `Width`, `Mantissa`, `MaxDepth` (of `Parser`), `MaxInline`, `MaxEdits`, `MaxRenders`, `MaxOps`, `MaxDepth`, `MaxOpen`, `MaxWrites`, `MaxHops`,
`MaxHits`, `MaxHost`, `MaxNest` and the set `Arrays` are the bounds, each named in
its module.

Fairness. `Lexer` has `ScanEnds` under weak fairness of its only process: the scan
is a loop that runs. `EnvLoad` has `EveryRenderEnds`, under weak
fairness of each goroutine's steps: Go schedules runnable goroutines, a step of
a job is enabled continuously once it is enabled except `Lock`, and a goroutine
waiting for `sync.Mutex` is waiting for one that holds it for a bounded number
of loads. The number of renders is bounded, so no stream of later renders can
overtake a waiter for ever; with unboundedly many, the claim would rest on the
starvation mode of `sync.Mutex`. Edits have no fairness: the host need not do
anything.

Each property has a mutant: a definition changed the way a plausible bug would
change it (a mark left out, a shallow clone, a merge forgotten, a recheck
dropped). The mutants stand next to what they mutate.

## Proofs

`CowScopeProofs` proves, for every set of names, keys, scalars, arrays and
arguments, every depth and every number of renders:

- `TypeCorrect`: `Spec => []TypeOK`. `TypeOK` is inductive as it stands, because
  it says that everything refers to *allocated* arrays, not only to arrays.
- `AliasesAreShared`: `Spec => []FrameAliasShared`. An array that two bindings
  reach is shared. The step is short because the argument is about marks:
  shared bits are never cleared, and every action that changes a frame either
  marks every array it newly binds, or rebinds one name to an array allocated by
  the same step, which nothing else can reach (`BindsMarked`, `StepMarks`,
  `AliasStep`). No assumption on what templates store.
- `ArgumentsUntouched`: `~AliasStores => (Spec => []HostUntouched)`. The
  invariant is `HostInv`: the arguments are unchanged, an argument array is
  shared as soon as a binding holds it, as soon as an array of the templates
  holds it, the receiver of a write under way is never an argument array, and a
  literal just built is not one. Each part is needed: a write goes to `at`,
  `at` is reached by `OwnHop` from a template's array, and it is an argument
  array only if the slot held one unmarked. The assumption is about templates,
  and `cow_hoststore` shows that it cannot be dropped.
- `UnsharedHasOneHolder`: `~AliasStores => (Spec => []UnsharedUnique)`. The
  invariant `OneHolder` counts the receiver of a write under way and the literal
  just built among the holders, because between `OwnHop` and `Store` an array may
  be reached through neither a binding nor a slot.
- `ReceiverStaysOwned` and `WritesArePrivate`, under `~AliasStores` and
  `~KeyEffects`: `OwnedInPlace`, and the action property `WriteReachesNoAlias`. The
  invariant `PathInv` is about the whole path: each array on it is unshared and is
  still what the one before it holds under the key that was walked. With
  `OneHolder` the last of them has no other holder, and with `HostInv` it is no
  argument. `KeyEffects` is needed: see below.

`RegionsProofs` proves, for every set of strategies and every bound:

- `FieldsReturn`: `Spec => RegistersReturn`, the action property that a
  construct that ends, by `Close` or by a swallowed error, leaves every field but
  the line-start flag as it found it.
- `GateFollowsRegions`: `Spec => []SandboxWhileOpen`.
- `CallerStaysInItsMacro`: `Spec => []CallerOnlyInItsMacro`.

All three follow from one invariant, `IInv`, which says of *every* depth of the
stack what the properties say of its top. `Chained`: a field that none of some
consecutive constructs saves is now what the first of them found. Without it
`Close` could not be trusted to return a field its construct does not save, and
an error, which puts back only what each construct saved, could not be trusted to
return any (`UnwindReturns`: the outermost construct that saves a field had it
from the operand of `is defined`). `Gated` and `Framed` give the gate and the
caller frame the fields had at each depth, so they hold again when a construct
closes. A step opens a construct (`PushPreserves`), enters a macro body
(`EnterPreserves`), returns to some depth (`PopPreserves`) or writes text
(`TextPreserves`); the lemmas over the actions only say which.

and, on top of that invariant, about the text:

- `ValuesEscapedOnce`: `Spec => []EscapedExactlyOnce`. The invariant `FineIn` has
  the property for every cell of every open sink and of every cache entry, and
  that the captured sinks keep theirs. The point is `ResultVerbatim`: a capture's
  text is spliced under the strategy its result was marked under, so `emit`
  passes it by; that needs the strategy to be the one the construct found, which
  `Chained` gives.
- `ActiveSinkIsInnermost`: `Sunk` numbers the sink each construct found by the
  captures below it, so closing one, or unwinding several, returns to the sink
  that is innermost then.

`RegionsLinesProofs` proves `LinesAreIndented`: `Spec => []LinesIndentedOnce`. The
property is about the indents found between a line's start and its first other
cell; the invariant gives every text the column it has reached after each cell
(`Columns`): the indents so far on this line, or `Mid` once it holds something
else. A text is `Indented` when each cell that comes after indents only comes
after as many as it wants (`WholeIsIndented`: then the property holds of it).
Writing one cell keeps that from a `Resumable` place, a middle of a line or a start
whose indent is still to come (`CellGrows`), and so does a captured text, whose
cells were indented for another depth: `MovedShifts` and `PutMeets` follow text and
splice side by side until their columns meet, which a text inside a region does
with its first line break. `Lined` has all this for every open sink and cache
entry, says that the indent is the number of regions open in the sink
(`Leveled`), and of *every* open construct that the text before it can be gone on
with when it ends (`Waits`): the error that unwinds several constructs comes back to
the line of the outermost. The `IrregularTab` cases are where `Waits` fails.

`SlotsProofs` proves, for every set of labels, keys and templates and any number
of renders:

- `TypeCorrect`: `Spec => []TypeOK`. Beside types the invariant has `Nested`: the
  captures open are exactly the brackets around `pc`, each with the operation that
  opened it. A cache hit jumps over a region, so the brackets it skips must balance
  (`EndOfCloses`, from the depth being the count of what opened and closed).
- `PlaceholdersAreResolved`: `NoRawPlaceholder`, for templates that defer no slot
  inside a `@provide` (`YieldsOutsideProvides`): none in the output of a render that
  ends well, and in the partial buffer of a failed one only its own, which
  `renderBuffered` hands over unresolved. The invariant is `MarkInv`: in
  every open sink a placeholder is of this render and its label is one that the
  interpreter writing the sink has reserved; what an enclosing sink's
  interpreter has reserved is not lost on the way out (`Carried`, whose last link is
  `mergeYieldedInto`); inside a `@provide` there is no placeholder; none is in a
  slot or in the cache, because a body holding one is not stored. Then substituting
  label after label leaves none (`ResolveItems`). `slots_yieldprovide` shows that
  the hypothesis is needed.
- `StoredBodiesTouchNoSlot`: `InteractionNotStored`, for templates that read no slot
  inside a `@cache` region (`SlotsOutsideCaches`). The invariant says of *every*
  open region, not the innermost only, that it has touched no slot, or the stamp
  is above the one it started from, or a placeholder is in some sink opened inside
  it. The two tests of `execCache` are both needed: a contribution raises the stamp
  and takes the placeholders of its text away (`StampGrows`), so a region whose
  `@yield` went into a nested capture shows it in one place or in the other.

`FragmentAssumption` of `MCSlots` has TLC check that the templates of
`slots_fragment` satisfy both hypotheses.

`EnvLoadProofs` proves, for every chain, every unit and any number of goroutines,
edits and outages:

- `RendersItsModule`: `Spec => []LoadedFromItsModule`.
- `MemoFollowsHeads`: `Spec => []CompositionFollowsHeads`. The invariant has the
  property for the chain each goroutine is still walking, not only for what is
  published (`MemoInv`, `JobInv`): the walk publishes what it collected.
- `VerdictIsSound`: `Spec => []VerdictSound`. `UnitInv` follows the goroutine
  that holds the unit's mutex member by member: what it has compared so far
  is the verdict of the witnesses recorded so far.
- `TypeCorrect`: the heaps, memos and jobs are well typed.

The last part of `EnvLoadProofs` is about one goroutine, for every chain and every
history of edits:

- `OneServesWalk`: `Spec => CompiledServesWalk`, with a loader that does not
  fail and at most one include left out (`Alone`). `OneInv` says that what the unit
  witnessed, what the parse cache holds and what compositions link are the same
  modules. Each hypothesis is needed: TLC finds the property violated with two
  goroutines, with `Outages`, and with two includes left out (below).

`ConcurrentRendersProofs` proves, for every program, every finite set of
goroutines, every set of keys and tags and every bound:

- `InvalidationReaches`: `Spec => []InvalidatedIsGone`. The invariant is
  `CacheInv`: every stored body is listed under each of its tags, which is what
  `InvalidateTag` relies on, and two keys never hold the same body.
  `StepsOfTheCache` says that a step of the renders is one call of the cache or
  none, so the rest is about `Put`, `InvalidateTag` and `Clear` alone.
- `ReportsGrow`: `Spec => CountersGrow`. `StepsOfTheCores` says that a step does
  to each core one seed, one hit or nothing; `SeededGrows` and `HitGrows` that
  none of them takes a region away or lowers a counter.
- `RunningIsMeasured`: `Spec => []EnteredIsMeasured`, and `ReportsHaveSources`:
  `Spec => []SourcesAreThere`. `CoresInv` ties each memo of what was seeded to the
  regions and sources that are there, and says that only a hit makes a region
  without a source, so none at zero; `WalkInv` says of every open body that what its
  construct enters is reached or still to be seeded, so a template hit by an embed
  or by another goroutine first changes nothing.
  `seedWalk` recurses over the tree; here the nodes below one are the least set
  closed under the members' bodies, so lemmas about the forest need no recursion.
- `MergedReportsAgree`: `Spec => []MergedIsShared`, counters included. For a region
  the counters of all goroutines' collectors sum up to that of the shared one: a
  step raises both sides by the same (`SumAdds`, `SumOfOne`).

`LexerProofs` proves, for every set of templates of any length:

- `EachByteOnce`: `Spec => []EveryByteOnce`. Two invariants carry it through every
  action. `Laid` is the order: each token's positions rise, they lie before the
  cursor, and every token's lie before those of the next, the text in the builder
  last of all. `Spent` is the loss: of the bytes before the cursor, each is held, was
  consumed, or is `Layout`: the backslash of an escape whose byte is held, the
  newline right after a comment, or a byte `Beside` a token that is there, which
  says for each kind of token which bytes before or after it go with it. A door
  keeps both when what it passes over was consumed or is beside it or the token
  before it (`GoodAppend`, `GoodSkip`); that no door moves the cursor back or beyond
  the end is proved of each look-ahead (`RunEnds`, `StringEnds`, `VerbatimCloses`,
  `FenceLines`, `AfterDoors`). After an `ERROR` only the order is claimed, as in the
  property (`GoodFault`). At the end `applyTrims` drops bytes from both ends of a text,
  each because a neighbour's marker strips it, with nothing kept between the
  two (`LeftTrimmed`, `RightTrims`); the byte of an escape is never among them, so its
  backslash stays accounted for (`TrimGood`).
- `DoorsStandAtLineStarts`: `Spec => []DoorsStartLines`. While `atLineStart` is set the
  line up to the cursor is blank or escaped (`LineOpen`), unless a body was just
  closed on it (`Ended`), and what the builder has of the line is too, with only blanks,
  braces and backslashes from there to the cursor (`Indent`), so
  `flushBeforeStatement` throws nothing else away.

The two need each other: the indentation a statement drops is layout because
the flag is truthful (`DoorGood`). `LexInv` is the invariant; TLC agrees that it holds of the
templates of `lexer`.

`FoldProofs` has what stands in for induction, whose library theorems take an
operator as a parameter that the provers cannot instantiate: a set of naturals has
a least member, so a property that the first value of a function has and every step
keeps, all its values have (`StepsStay`, and `SubsetsStay` for finite sets); a
function computed step by step exists (`StepsExist`, `SumsExist`). From these, what
`FlattenSeq` and `SumFunctionOnSet` compute. It is why `Resolve` and `Written` are
written as recursive functions.

Assumptions, each evaluated by TLC in the runs over its module:
`FramesAssumption` and `CowAssumption` over `CowScope`; `OffAssumption` and
`BoundsAssumption` over `Regions`; `SlotsAssumption` (templates are balanced, the
labels finite) over `Slots`; `LoadAssumption` and `UnitAssumption` over `EnvLoad`;
`ForestAssumption` (the nodes are trees), `RendersAssumption` and
`CollectorsAssumption` over `ConcurrentRenders`; `InputsAssumption` (templates are
finite sequences, and no byte is spelled like a token's kind or the mark for the end)
over `Lexer`.

Model-checked only: `PrintsReference`, `PartialPrints` and the refinement `ValueSemantics`, which
use RECURSIVE operators that TLAPS cannot reason about; the language modules, which recurse over trees; and liveness
(`EveryRenderEnds`, `ScanEnds`), for which the provers have no support.

## Disagreements

Three runs look for a violation of something the code's comments say, and find
it.

- `cow_hoststore`: no store into a slot marks what it stores.
  `@set x.k = arg.k`, then `@set x.k.k = 1`, writes the host's array.
- `slots_yieldprovide`: substitution runs once per reserved label in order of
  reservation, so a placeholder that arrives inside a slot's content after its
  own label's turn stays in the output.
- `regions_cachekey`: a `@cache` entry is filed under the interpreter's root,
  which is not the template whose text runs in `block(name, other)` or in the
  block of an `@call`; two templates' regions with one key share an entry.

The passing runs keep away from more, each by a constant, a definition or a bound
that names it:

- `AliasStores = FALSE`: one array stored in two places is written through both
  (`WriteReachesNoAlias` fails with `TRUE`).
- `KeyEffects = FALSE`: `assignMember` privatizes the receiver and then evaluates
  the last key; a key that assigns from the path's own root, `@set a[(b = a)] = 1`,
  gives the receiver a second name before the write lands.
- `SlotInCache = FALSE`: a `@cache` body that reads `slot(l)` leaves the slot
  stamp and the text without a trace, so it is stored and replays an earlier
  render's slot (`InteractionNotStored` fails with `TRUE`).
- `irregular = FALSE` in `LinesIndentedOnce`: inside an `@tab` region, `parent()`,
  `block()` and `loop()` swap the sink but leave the indent on, so their text is
  indented when written and again when printed; an embed writes to the same sink
  without the indent; a region opened in the middle of a line inside another one
  leaves the line-start flag set when it ends on that line. Each of the cases
  `IrregularTab` marks is needed for the property to hold.
- `Outages = FALSE` in `env_single`: an import that fails to load is skipped in
  silence and the composition without it is memoized (`compose.go:165`). After the
  loader recovers, the compiled unit renders the import and the interpreter never
  does, so `CompiledServesWalk` fails with `TRUE`.
- `doc.go:40` says that a template loads once and is memoized. `loadModule` does not
  ask the cache again before it puts: two goroutines that miss a name together
  both load and parse it, and the later `Put` replaces the module from which the
  other one already renders. `CachePut` does so; `LoadedFromItsModule` is what holds
  all the same.
- For that reason `env_race` does not check `CompiledServesWalk`: two cold loads of the page
  around an edit let a goroutine prepare its template from one module and verify
  the unit against the other.
- The second half of `CompiledServesWalk` is about the moment of dispatch, and the
  unit leaves out one name. A host that starts to serve it after the probe
  gets the page without it; with two such names, probed one after the other, the
  first may appear before the second is probed.
- `Entered` in `EnteredIsMeasured` and `SourcesAreThere` names what is seeded.
  `core.go:268` of `covercore` and `docs/coverage.md:178` say that an executed
  `@embed` target is among it, but `execEmbed` renders its body without a seed
  (`compose.go:656`), and `block(name, other)` renders a block of a template
  that is not seeded either (`compose.go:110`): both are in the model and unseeded. `docs/coverage.md:213` says that traits are seeded under
  their own names, but `mergeTraits` absorbs their blocks without a seed. Of all of
  these only the reached regions are in the report, without the source when nothing
  else entered their template. Parameter defaults are evaluated before the macro is
  seeded: when one fails, its recorded arm stands alone.

Two more facts a reader of `ConcurrentRenders` meets. A `@cache` region is counted
when it is reached, also when the stored body is served, though
`docs/coverage.md:52` says that it is covered when its body is entered. And a
body rendered before `InvalidateTag` may be stored after it: nothing in the code
promises otherwise, so `InvalidatedIsGone` speaks of stored bodies only.

The language modules hold these, each where it is named:

- Lexer. `InIndent`: a text escape does not clear the line-start flag (`lexer.go:142`),
  so a statement head right after one opens a door, and the escaped byte goes with
  the indentation (`Indentation`).
- Parser. `GroupInString`: an interpolated expression is parsed without the table of
  matching brackets (`literal.go:161`), so a group in `"#{ (a + b) }"` is refused.
  `TestThenWord`: a word after a test that takes no argument is taken for one.
  `ValueInParens`: `@block name (expr)` is read as a signature.
  `OptionalInParams`: the matching table does not know `?[`
  (`parser.go:102`), so look-ahead for an arrow's parameters misses their end. Also, `listToPattern` accepts any expression after `...`, and
  `parseInterpString` counts braces without regard to quotes inside.
- Checker. `type.go:19` says that "the checker never accepts a program the
  runtime would reject; every static rejection is the static shadow of an existing
  runtime error". `AcceptedIsTyped` and `RefusedFails` are these two claims but for
  the cases they name. In `AcceptedIsTyped` each part is judged in the scope the
  checker judges it in, so a narrowed branch is held to its narrowed types; an error
  at run time is excused only where an operation works on an operand that is of type
  `any` there (`Dynamic`). Accepted, with another type or an error at run time: `/`,
  `**` and arithmetic with a union are typed float but may give an int
  (`FloatsClaimed`, which excuses the types and no error), a string is iterated or
  subscripted (`StringAsCollection`), a computed key changes its form
  (`KeysRewritten`), a name set in one branch of `@if` keeps its type outside
  (`SetInBranch`; templates that set nothing in a branch are not excused), an
  annotated target takes over an `any` unchecked (`FromAny`), a collection test takes
  an `any` for a list or a mapping of a kind it need not be, and `is mapping` takes an
  object for a map (`CollectionGuessed`). Refused though it runs: `-(c ? 1 : 2.5)`
  (`MixedNumber`), a missing member behind `??` or `is defined` (`LenientChain`), a
  fallback that can never be reached (`DeadFallback`), an arm the values do not take (`DeadArm`),
  a collection behind `is mapping` that keeps its list arms (`NotNarrowed`), null behind
  `?:` (`ElvisKeepsNull`), and annotations of loop targets, which are never checked
  at run time (`Claims`).
- Loops. `HandsScope`: `loopescape.go:458` does not count a bare `block(..)`,
  `parent()`, `include()` or a call that takes the context as keeping the loop
  value. `WritesElsewhere`: `bodyMutates` (`loopopt.go:685`) looks at the loop's own
  text, so a write inside a spliced block or include is not seen and the lowered
  loop sees it in the live array. `loop.parent` of an outermost loop makes the compiled loop keep its value
  though the interpreter does not.
- Composition. `PartialCallsBlocks`: `include.go:166` of the generator refuses a
  partial that declares blocks but not one that calls `parent()` or `block()`;
  inlined inside a unit's block these reach the unit's blocks, where the interpreter
  renders the partial alone and raises an error, although `unit.go:167` promises
  the interpreter's bytes. `OverridesTwice`: of two overrides of one name in an embed the
  interpreter keeps the last (`compose.go:585`), the generator layers both.
  `TraitUsesTrait`: `mergeTraits` puts the blocks of a trait's own traits before
  its own, so "later own blocks still win" (`exec.go:220`), and the same in
  `docs/guide/composition.md:97`, is false one level down; the outer aliases do not
  reach them either. Traits that use each other overflow the stack
  (the generator refuses them). `CallsBeyondHome`: a macro body sees its home's own macros over
  its *caller's* namespace (`compose.go:413`), not what its home imports, so a
  call beyond its own template depends on who calls it.
- Slices. `Mismeasured`: `a[1:-1]` passes end minus start as a length
  (`eval.go:254`, `expr.go:283`), and a negative length counts from the end, so the
  subscript drops two elements and `a[2:1]` is not empty.
- Values and filters. `RangeEnds`: `range` next to the limits of `int64` never ends
  (`core.go:549`); `sum` wraps; a start plus a length wraps in `sliceBounds`
  (`core.go:508`); `Order` compares integers as floats, so large neighbours tie
  (`IntegersCompared` bounds which, `Tied` keeps `SortsOnce` from expecting `sort` and
  `unique` to agree there), and
  equality of integers with floats is not transitive; `abs` of the least integer
  wraps. `SpelledApart`: `fromgo.go:206` says that a
  Go map arrives in a deterministic order, but in a map with interface keys `1` and
  `"1"` are spelled alike, tie in the unstable `sort.Slice` (`fromgo.go:244`) and are one key of
  the array, so which of the two entries is kept is left to chance. `KeysOverlap`: `core.go:185` says that `replace` tries the longest key
  first, and `strings.NewReplacer` takes them in argument order. `stdlib.go:530`
  says that a missing segment of a `pluck` path yields null; one that is not the
  last is an error. `stdlib.go:338` says that reading `columns` column by column
  gives the original order; row by row does. `truncate` with `preserve` goes back a word even where the cut is a word's end.

## Not modelled

Formatting, escaping, date and JSON filters, reflection over Go values, error
texts, positions, the report writers, the command line tool, benchmarks and
editor support: pure conversions or I/O with no state that outlives a call.
The Go text the generator emits: what is modelled is the decision to serve a
unit, and of the generator the analyses that choose a cheaper loop. Data races on
an `*Array` or `Scope`: their contract confines each to one goroutine. The
streaming writer: every write error is returned up the walk, so what remains is
the rule that the first one wins.

## Plan

1. Templates edited between renders in `Coverage`; `EnvLoad` extended with shadow
   verification, which may report a divergence when the host edits between its two
   renders; `Regions` with the policy's type graph.
