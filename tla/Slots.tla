-------------------------------- MODULE Slots --------------------------------
(***************************************************************************)
(* Deferred content slots and the @cache region (internal/interp slots.go  *)
(* and exec.go execCache).  @yield writes a placeholder carrying a token   *)
(* unique to the render, @provide appends rendered text to a slot buffer,  *)
(* slot(l) reads a buffer at once, and the finished output has its         *)
(* placeholders substituted.  Captures nest: a @provide body, a @cache     *)
(* body and an included template each render into a sink of their own.     *)
(*                                                                         *)
(* A template is a bracketed sequence of operations; it is rendered        *)
(* several times over one render cache.  Rendered text is a sequence of    *)
(* items, one per operation that wrote something.                          *)
(***************************************************************************)
EXTENDS Integers, FiniteSets, FiniteSetsExt, SequencesExt

CONSTANTS
  Labels,          \* slot labels
  CacheKeys,       \* keys of @cache regions
  Templates,       \* the templates considered, sequences of Ops
  MaxRenders,      \* bound: renders of the template
  None             \* "no such entry", "not provided"

Op(name, arg) == [op |-> name, arg |-> arg]

Ops == {Op("text", None), Op("include", None), Op("end", None)}
       \cup {Op(o, l) : o \in {"yield", "slot", "provide"}, l \in Labels}
       \cup {Op("cache", k) : k \in CacheKeys}

VARIABLES
  prog,     \* the template
  render,   \* number of the current render; its @yield token
  pc,       \* next operation
  open,     \* the enclosing captures, outermost first
  out,      \* what the innermost sink holds
  slots,    \* Labels -> provided text, or None
  touches,  \* history: slot constructs this render has executed
  minted,   \* a @yield of this render minted the token
  yielded,  \* yieldedLabels of the current (nested) interp
  store,    \* RenderCache.entries
  result,   \* what the host got of the ended render, or None
  failed    \* the ended render returned an error

vars == <<prog, render, pc, open, out, slots, touches, minted, yielded,
          store, result, failed>>

(* Items: what operation i wrote in render r, and a placeholder. *)
TextAt(i, r) == [text |-> i, of |-> r]
Placeholder(r, l) == [token |-> r, label |-> l]
IsPlaceholder(item) == "token" \in DOMAIN item

Items == [text : Nat \ {0}, of : 1..MaxRenders]
         \cup [token : 1..MaxRenders, label : Labels]

(* slotContent: what is in a slot, nothing when it was never provided. *)
Content(l) == IF slots[l] = None THEN <<>> ELSE slots[l]

(* slotStamp: the number of labels and the total size of the buffers. *)
Stamp ==
  LET provided == {l \in Labels : slots[l] # None}
  IN  <<Cardinality(provided), SumFunctionOnSet([l \in Labels |-> Len(Content(l))], Labels)>>

(* Brackets: operations from i on up to the "end" that closes level 0. *)
Depth(p, i) ==
  Cardinality({j \in 1..i : p[j].op \in {"provide", "cache", "include"}})
  - Cardinality({j \in 1..i : p[j].op = "end"})

Balanced(p) ==
  Depth(p, Len(p)) = 0 /\ \A i \in 1..Len(p) : Depth(p, i) >= 0

ASSUME SlotsAssumption ==
  /\ \A p \in Templates : p \in Seq(Ops) /\ Balanced(p)
  /\ MaxRenders \in Nat \ {0}
  /\ IsFiniteSet(Labels)
  /\ None \notin Labels \cup CacheKeys \cup Seq(Items)

(* The position of the "end" closing the bracket opened at i. *)
EndOf(p, i) ==
  CHOOSE j \in i..Len(p) :
    Depth(p, j) = Depth(p, i) - 1 /\ \A m \in i..(j-1) : Depth(p, m) >= Depth(p, i)

(* The bracket that operation j opens is still open when operation i runs. *)
Encloses(p, j, i) == j < i /\ \A m \in j..(i-1) : Depth(p, m) >= Depth(p, j)
Within(p, name, i) == \E j \in 1..i : p[j].op = name /\ Encloses(p, j, i)

(* Templates that defer no slot from inside the content of another, and     *)
(* those that read no slot from inside a @cache region.                      *)
YieldsOutsideProvides(p) == \A i \in DOMAIN p : p[i].op = "yield" => ~Within(p, "provide", i)
SlotsOutsideCaches(p)    == \A i \in DOMAIN p : p[i].op = "slot" => ~Within(p, "cache", i)

-----------------------------------------------------------------------------
NoSlots == [l \in Labels |-> None]

Init ==
  /\ prog \in Templates
  /\ render = 1
  /\ pc = 1
  /\ open = <<>>
  /\ out = <<>>
  /\ slots = NoSlots
  /\ touches = 0
  /\ minted = FALSE
  /\ yielded = <<>>
  /\ store = [k \in CacheKeys |-> None]
  /\ result = None
  /\ failed = FALSE

Runs(name) == /\ result = None
              /\ pc \in 1..Len(prog)
              /\ prog[pc].op = name

Arg == prog[pc].arg

Text ==
  /\ Runs("text")
  /\ out' = Append(out, TextAt(pc, render))
  /\ pc' = pc + 1
  /\ UNCHANGED <<prog, render, open, slots, touches, minted, yielded, store, result, failed>>

(* execYield *)
Yield ==
  /\ Runs("yield")
  /\ minted' = TRUE
  /\ yielded' = Append(yielded, Arg)
  /\ out' = Append(out, Placeholder(render, Arg))
  /\ touches' = touches + 1
  /\ pc' = pc + 1
  /\ UNCHANGED <<prog, render, open, slots, store, result, failed>>

(* callSlot: {{ slot(l) }} *)
CallSlot ==
  /\ Runs("slot")
  /\ out' = out \o Content(Arg)
  /\ touches' = touches + 1
  /\ pc' = pc + 1
  /\ UNCHANGED <<prog, render, open, slots, minted, yielded, store, result, failed>>

(* A capture opens: the sink and the interp's labels are set aside. *)
Capture(labels) ==
  /\ open' = Append(open, [op |-> prog[pc].op, arg |-> Arg, out |-> out,
                           yielded |-> yielded, stamp |-> Stamp,
                           touches |-> touches])
  /\ out' = <<>>
  /\ yielded' = labels
  /\ pc' = pc + 1
  /\ UNCHANGED <<prog, render, slots, touches, minted, store, result, failed>>

Provide == Runs("provide") /\ Capture(yielded)

(* A nested interp starts with no labels of its own. *)
Include == Runs("include") /\ Capture(<<>>)

(* execCache, hit: the stored body is emitted and the region skipped. *)
CacheHit ==
  /\ Runs("cache")
  /\ store[Arg] # None
  /\ out' = out \o store[Arg]
  /\ pc' = EndOf(prog, pc) + 1
  /\ UNCHANGED <<prog, render, open, slots, touches, minted, yielded, store, result, failed>>

CacheMiss ==
  /\ Runs("cache")
  /\ store[Arg] = None
  /\ Capture(yielded)

-----------------------------------------------------------------------------
Region == Last(open)

Closes(name) == Runs("end") /\ Region.op = name

(* Mutant: a further contribution replaces the buffer. *)
EndProvide_Overwrites ==
  /\ Closes("provide")
  /\ slots' = [slots EXCEPT ![Region.arg] = out]
  /\ touches' = IF slots' = slots THEN touches ELSE touches + 1
  /\ out' = Region.out
  /\ open' = Front(open)
  /\ pc' = pc + 1
  /\ UNCHANGED <<prog, render, minted, yielded, store, result, failed>>

(* execProvide: the captured text is appended to the slot's buffer. *)
EndProvide ==
  /\ Closes("provide")
  /\ slots' = [slots EXCEPT ![Region.arg] = Content(Region.arg) \o out]
  /\ touches' = IF slots' = slots THEN touches ELSE touches + 1
  /\ out' = Region.out
  /\ open' = Front(open)
  /\ pc' = pc + 1
  /\ UNCHANGED <<prog, render, minted, yielded, store, result, failed>>

(* renderInclude: the nested output is spliced in, mergeYieldedInto. *)
EndInclude ==
  /\ Closes("include")
  /\ out' = Region.out \o out
  /\ yielded' = Region.yielded \o yielded
  /\ open' = Front(open)
  /\ pc' = pc + 1
  /\ UNCHANGED <<prog, render, slots, touches, minted, store, result, failed>>

(* Mutant: only the token scan decides. *)
UsedSlots_NoStamp ==
  minted /\ \E i \in DOMAIN out : IsPlaceholder(out[i]) /\ out[i].token = render

(* execCache: the body interacted with the slot machinery. *)
UsedSlots ==
  \/ Stamp # Region.stamp
  \/ minted /\ \E i \in DOMAIN out : IsPlaceholder(out[i])
                                     /\ out[i].token = render

(* execCache, end of a missed region: stored unless it used slots. *)
EndCache ==
  /\ Closes("cache")
  /\ store' = IF UsedSlots THEN store ELSE [store EXCEPT ![Region.arg] = out]
  /\ out' = Region.out \o out
  /\ open' = Front(open)
  /\ pc' = pc + 1
  /\ UNCHANGED <<prog, render, slots, touches, minted, yielded, result, failed>>

-----------------------------------------------------------------------------
(* resolveSlots *)

(* strings.ReplaceAll of one placeholder. *)
Substitute(text, item, content) ==
  FlattenSeq([i \in DOMAIN text |->
                IF text[i] = item THEN content ELSE <<text[i]>>])

(* Mutant: a label nothing was provided for is skipped. *)
Resolve_FilledOnly(text, labels) ==
  LET resolved[i \in 0..Len(labels)] ==
        IF i = 0 THEN text
        ELSE IF slots[labels[i]] = None THEN resolved[i - 1]
        ELSE Substitute(resolved[i - 1], Placeholder(render, labels[i]), Content(labels[i]))
  IN  resolved[Len(labels)]

(* One label after the other, in the order they were reserved. *)
Resolve(text, labels) ==
  LET resolved[i \in 0..Len(labels)] ==
        IF i = 0 THEN text
        ELSE Substitute(resolved[i - 1], Placeholder(render, labels[i]), Content(labels[i]))
  IN  resolved[Len(labels)]

(* renderBuffered: the walk is done, the finished output is resolved. *)
Finish ==
  /\ result = None
  /\ pc = Len(prog) + 1
  /\ result' = Resolve(out, yielded)
  /\ UNCHANGED <<prog, render, pc, open, out, slots, touches, minted, yielded, store, failed>>

(* A fresh interp for the next render; the cache is the Environment's. *)
Again ==
  /\ render < MaxRenders
  /\ render' = render + 1
  /\ pc' = 1
  /\ open' = <<>>
  /\ out' = <<>>
  /\ slots' = NoSlots
  /\ touches' = 0
  /\ minted' = FALSE
  /\ yielded' = <<>>
  /\ result' = None
  /\ failed' = FALSE
  /\ UNCHANGED <<prog, store>>

NextRender == result # None /\ Again

(* Mutant: an abort hands back the sink of the innermost capture. *)
Partial_Innermost == out

(* What the render's own builder holds: captures have sinks of their own. *)
Partial == IF open = <<>> THEN out ELSE Head(open).out

(* renderBuffered: an error aborts the walk anywhere; captures are dropped *)
(* unstored and the host gets the partial buffer, unresolved.              *)
Abort ==
  /\ result = None
  /\ pc <= Len(prog)
  /\ result' = Partial
  /\ failed' = TRUE
  /\ UNCHANGED <<prog, render, pc, open, out, slots, touches, minted, yielded, store>>

(* The host clears the cache or invalidates a tag of an entry. *)
Invalidate(k) ==
  /\ store[k] # None
  /\ store' = [store EXCEPT ![k] = None]
  /\ UNCHANGED <<prog, render, pc, open, out, slots, touches, minted, yielded, result, failed>>

Close == EndProvide \/ EndInclude \/ EndCache

Next ==
  \/ Text \/ Yield \/ CallSlot
  \/ Provide \/ Include \/ CacheHit \/ CacheMiss
  \/ Close
  \/ Finish \/ NextRender \/ Abort
  \/ \E k \in CacheKeys : Invalidate(k)

Spec == Init /\ [][Next]_vars

-----------------------------------------------------------------------------
(* Properties *)

(* The state has the shape interp.go and cache.go give it: buffers and sinks
   hold rendered items, labels are declared ones, pc never leaves the walk. *)
TypeOK ==
  /\ prog \in Seq(Ops)
  /\ render \in 1..MaxRenders
  /\ pc \in 1..(Len(prog) + 1)
  /\ out \in Seq(Items)
  /\ \A l \in Labels : slots[l] = None \/ slots[l] \in Seq(Items)
  /\ \A k \in CacheKeys : store[k] = None \/ store[k] \in Seq(Items)
  /\ yielded \in Seq(Labels)
  /\ minted \in BOOLEAN
  /\ touches \in Nat
  /\ \A i \in DOMAIN open :
       /\ open[i].op \in {"provide", "cache", "include"}
       /\ open[i].out \in Seq(Items)
       /\ open[i].yielded \in Seq(Labels)
       /\ open[i].touches \in 0..touches
  /\ result = None \/ result \in Seq(Items)
  /\ failed \in BOOLEAN

(* No placeholder reaches the host through a render that ends well, whatever
   captures, includes and cache hits its text went through (interp.go: "so
   resolveSlots can substitute each placeholder").  The partial buffer that
   comes with an error is unresolved (renderBuffered), and the placeholders
   in it are of the failed render, never another render's out of the cache. *)
NoRawPlaceholder ==
  result # None =>
    \A i \in DOMAIN result : IsPlaceholder(result[i]) => failed /\ result[i].token = render

(* execCache: "a body that interacted with the deferred-slot machinery must
   NOT be stored", where the interaction may be nested in other captures. *)
InteractionNotStored ==
  [][\A k \in CacheKeys : store'[k] \notin {store[k], None} =>
       touches = Region.touches]_vars
=============================================================================
