------------------------------ MODULE Regions ------------------------------
(***************************************************************************)
(* The fields of one interpreter that a construct borrows for the length   *)
(* of its body (internal/interp interp): the active sink, the @tab indent  *)
(* and its line-start flag, the escape strategy, the block being rendered, *)
(* the caller() frame, the macro home, the sandbox gate and the recursive  *)
(* loops.  Every construct saves the fields it is about to change, runs    *)
(* its body and puts them back; an include or an embed runs on an          *)
(* interpreter of its own.  A template is any nesting of constructs, so    *)
(* the model opens and closes them freely.                                 *)
(*                                                                         *)
(* Text is a sequence of cells.  A cell "x" is one printed value; it       *)
(* remembers the strategies that escaped it, the strategy in force where   *)
(* it was printed and the number of @tab regions around it in its sink.    *)
(***************************************************************************)
EXTENDS Integers, Sequences, FiniteSets, SequencesExt

CONSTANTS
  Strategies,   \* escape strategies, Off among them
  Off,          \* no escaping
  MaxDepth,     \* bound: constructs open at a time
  MaxOpen,      \* bound: constructs opened in a render
  MaxWrites     \* bound: pieces of text a render writes itself

ASSUME OffAssumption == Off \in Strategies
ASSUME BoundsAssumption == MaxDepth \in Nat /\ MaxOpen \in Nat /\ MaxWrites \in Nat

VARIABLES
  regs,         \* the fields of the running interpreter
  stack,        \* the open constructs, outermost first, with what they saved
  sinks,        \* the text of the open sinks; the first is the render's output
  kept,         \* the render cache: root template -> its entry, or NoEntry
  opened,       \* constructs opened so far
  written,      \* pieces of text written so far
  irregular     \* history: an @tab region met one of the cases IrregularTab names

vars == <<regs, stack, sinks, kept, opened, written, irregular>>

\* The templates: the one asked for, the layout it extends, and a library it
\* includes, embeds and imports macros from.
Templates == {"page", "layout", "lib"}
NoEntry == [text |-> <<>>, by |-> "none"]

\* A fresh interpreter rendering `root`, whose block has the definitions `chain`.
\* `text` is the template whose source is being executed; the code has no such
\* field.
Fresh(root, text, chain, sink, escape, gate) ==
  [sink |-> sink, indent |-> 0, bol |-> TRUE, escape |-> escape, gate |-> gate,
   block |-> 0, chain |-> chain, caller |-> 0, staged |-> 0, root |-> root,
   loops |-> <<>>, text |-> text]

Fields == {"sink", "indent", "bol", "escape", "gate", "block", "chain", "caller",
           "staged", "root", "loops", "text"}

Init ==
  /\ \E s \in Strategies : regs = Fresh("page", "layout", <<"page", "layout">>, 1, s, FALSE)
  /\ stack = <<>>
  /\ sinks = << <<>> >>
  /\ kept = [t \in Templates |-> NoEntry]
  /\ opened = 0 /\ written = 0
  /\ irregular = FALSE

----------------------------------------------------------------------------
(* Text and the output layer.                                              *)

Newline == [c |-> "nl"]
Indent == [c |-> "ind"]
Printed(lvl) == [c |-> "x", escaped |-> <<>>, under |-> regs.escape, lvl |-> lvl]

MapText(Op(_), s) == [i \in DOMAIN s |-> IF s[i].c = "x" THEN Op(s[i]) ELSE s[i]]

\* interp.write and writeIndented: the active indent goes in front of the first
\* cell of every line that is not empty.  Yields the sink and the line-start flag.
Put(acc, cell, r) ==
  IF cell.c = "nl"
  THEN [sink |-> Append(acc.sink, cell), bol |-> TRUE]
  ELSE [sink |-> acc.sink
                 \o (IF acc.bol THEN [i \in 1 .. r.indent |-> Indent] ELSE <<>>)
                 \o <<cell>>,
        bol |-> FALSE]

Written(text, r) ==
  LET put[i \in 0 .. Len(text)] ==
        IF i = 0 THEN [sink |-> sinks[r.sink], bol |-> r.bol] ELSE Put(put[i - 1], text[i], r)
  IN put[Len(text)]

\* interp.emit: a value that is not Safe goes through the active strategy.
Emitted(value, r) ==
  IF r.escape = Off \/ value.safe THEN value.text
  ELSE MapText(LAMBDA cell : [cell EXCEPT !.escaped = Append(@, r.escape)], value.text)

(* Mutant: the captured text is a plain string. *)
Result_NotSafe(text, r) == [text |-> text, safe |-> FALSE]

\* The value a construct makes of what it captured: Safe under a strategy.
Result(text, r) == [text |-> text, safe |-> r.escape # Off]

----------------------------------------------------------------------------
(* Opening and closing.                                                    *)

\* Constructs whose body renders into a sink of its own.
Captures == {"apply", "cache", "macro", "caller", "parent", "blockfn", "blockother",
             "descent", "include"}
\* Captures whose text becomes the value of an expression or of @apply.
Valued == {"apply", "macro", "caller", "parent", "blockfn", "blockother", "descent"}

(* Mutant: callCaller leaves the frame suspended. *)
CallerKeeps_FrameLost == {"sink", "indent", "bol", "text"}

CallerKeeps == {"sink", "indent", "bol", "caller", "text"}

\* The fields each construct saves and restores.
Keeps(kind) ==
  CASE kind = "tab" -> {"indent", "bol"}
    [] kind = "escape" -> {"escape"}
    [] kind = "sandbox" -> {"gate"}
    [] kind \in {"apply", "cache"} -> {"sink", "indent", "bol"}
    [] kind = "macro" -> {"sink", "indent", "bol", "root", "caller", "text"}
    [] kind = "caller" -> CallerKeeps
    [] kind = "block" -> {"block", "text"}
    [] kind \in {"parent", "blockfn"} -> {"sink", "block", "text"}
    [] kind \in {"blockother", "descent"} -> {"sink", "text"}
    [] kind = "recursive" -> {"loops"}
    [] kind \in {"include", "embed"} -> Fields
    [] OTHER -> {}

Top == stack[Len(stack)]
\* Statements run everywhere but in a parameter default and the operand of
\* `is defined`, which hold an expression.
InStatement == ~ (stack # <<>> /\ Top.kind \in {"bind", "defined"})

\* @tab regions around the current position in the active sink.
Levels(st) ==
  Cardinality({i \in 1 .. Len(st) : /\ st[i].kind = "tab"
                                    /\ \A k \in i + 1 .. Len(st) : st[k].kind \notin Captures})

Push(kind, r, frame) ==
  /\ Len(stack) < MaxDepth /\ opened < MaxOpen
  /\ opened' = opened + 1
  /\ stack' = Append(stack, [kind |-> kind, saved |-> regs, frame |-> frame])
  /\ regs' = r
  /\ sinks' = IF r.sink > Len(sinks) THEN Append(sinks, <<>>) ELSE sinks
  /\ UNCHANGED <<kept, written>>

(* Mutant: the indent stays active while the sink fills. *)
Captured_Indenting(r) == [r EXCEPT !.sink = Len(sinks) + 1]

\* captureItems: a new sink, and no indentation while it fills.
Captured(r) == [r EXCEPT !.sink = Len(sinks) + 1, !.indent = 0, !.bol = TRUE]
\* callParent, callBlock, callRecursiveLoop: a new sink and nothing else.
Diverted(r) == [r EXCEPT !.sink = Len(sinks) + 1]

\* The cases in which a region does not indent its lines once: a region entered
\* mid-line inside another one, a direct capture, and an embed.
IrregularTab(cond) == irregular' = (irregular \/ (regs.indent > 0 /\ cond))

----------------------------------------------------------------------------
(* Statements.                                                             *)

\* Text and {{ value }}: a newline, or a printed value.
Text ==
  /\ InStatement /\ written < MaxWrites
  /\ \E text \in {<<Newline>>, Emitted([text |-> <<Printed(Levels(stack))>>, safe |-> FALSE], regs)} :
       LET w == Written(text, regs)
       IN /\ sinks' = [sinks EXCEPT ![regs.sink] = w.sink]
          /\ regs' = [regs EXCEPT !.bol = w.bol]
  /\ written' = written + 1
  /\ UNCHANGED <<stack, kept, opened, irregular>>

OpenTab ==
  /\ InStatement
  /\ IrregularTab(~regs.bol)
  /\ Push("tab", [regs EXCEPT !.indent = @ + 1, !.bol = TRUE], 0)

OpenEscape(s) ==
  /\ InStatement
  /\ Push("escape", [regs EXCEPT !.escape = s], 0)
  /\ UNCHANGED irregular

OpenSandbox ==
  /\ InStatement
  /\ Push("sandbox", [regs EXCEPT !.gate = TRUE], 0)
  /\ UNCHANGED irregular

OpenApply ==
  /\ InStatement
  /\ Push("apply", Captured(regs), 0)
  /\ UNCHANGED irregular

\* @cache with a key every template spells alike; the entry is filed under the
\* root template of the interpreter.
OpenCache ==
  /\ InStatement
  /\ kept[regs.root] = NoEntry
  /\ Push("cache", Captured(regs), 0)
  /\ UNCHANGED irregular

OpenRecursive ==
  /\ InStatement
  /\ Push("recursive", [regs EXCEPT !.loops = Append(@, regs.text)], 0)
  /\ UNCHANGED irregular

BlockSite ==
  /\ InStatement /\ regs.chain # <<>>
  /\ Push("block", [regs EXCEPT !.block = 1, !.text = regs.chain[1]], 0)
  /\ UNCHANGED irregular

(* Mutant: the nested interpreter does not inherit the gate. *)
Include_Ungated ==
  /\ InStatement
  /\ Push("include", Fresh("lib", "lib", <<>>, Len(sinks) + 1, regs.escape, FALSE), 0)
  /\ UNCHANGED irregular

\* A nested interpreter, with the strategy and the gate of this one.
Include ==
  /\ InStatement
  /\ Push("include", Fresh("lib", "lib", <<>>, Len(sinks) + 1, regs.escape, regs.gate), 0)
  /\ UNCHANGED irregular

\* An embed overrides the block of the embedded template and writes straight
\* into the sink of its parent.
Embed ==
  /\ InStatement
  /\ IrregularTab(TRUE)
  /\ Push("embed", Fresh("lib", "lib", <<regs.text, "lib">>, regs.sink, regs.escape, regs.gate), 0)

----------------------------------------------------------------------------
(* Expressions: macro calls and the composition builtins.                  *)

(* Mutant: the staged frame is left for whoever comes next. *)
Consumed_Left(r) == r

\* invokeMacro takes the staged frame before it evaluates parameter defaults,
\* which may call macros themselves.
Consumed(r) == [r EXCEPT !.staged = 0]
Invoke(r) ==
  /\ Push("bind", Consumed(r), r.staged)
  /\ UNCHANGED irregular

CallMacro == Invoke(regs)

\* @call stages the frame of its block and invokes the macro at once.  A frame is
\* named by the stack position of the invocation.
CallBlock ==
  /\ InStatement
  /\ Invoke([regs EXCEPT !.staged = Len(stack) + 1])

\* The defaults are bound: the body runs under the home of the macro.
Body(r, frame) == [Captured(r) EXCEPT !.root = "lib", !.text = "lib", !.caller = frame]
EnterMacro ==
  /\ stack # <<>> /\ Top.kind = "bind"
  /\ regs' = Body(regs, Top.frame)
  /\ stack' = [stack EXCEPT ![Len(stack)] = [@ EXCEPT !.kind = "macro", !.saved = regs]]
  /\ sinks' = Append(sinks, <<>>)
  /\ UNCHANGED <<kept, opened, written, irregular>>

\* caller() renders the block of the active @call with caller() suspended.
Suspended(r) == [r EXCEPT !.caller = 0]
CallCaller ==
  /\ regs.caller # 0
  /\ Push("caller", [Captured(Suspended(regs)) EXCEPT !.text = stack[regs.caller].saved.text], 0)
  /\ UNCHANGED irregular

CallParent ==
  /\ regs.block # 0 /\ regs.block < Len(regs.chain)
  /\ IrregularTab(TRUE)
  /\ Push("parent", [Diverted(regs) EXCEPT !.block = @ + 1, !.text = regs.chain[regs.block + 1]], 0)

CallBlockFunction ==
  /\ regs.chain # <<>>
  /\ IrregularTab(TRUE)
  /\ Push("blockfn", [Diverted(regs) EXCEPT !.block = 1, !.text = regs.chain[1]], 0)

CallBlockOfOther ==
  /\ IrregularTab(TRUE)
  /\ Push("blockother", [Diverted(regs) EXCEPT !.text = "lib"], 0)

\* loop(children) renders the body of the innermost recursive loop.
Descend ==
  /\ regs.loops # <<>>
  /\ IrregularTab(TRUE)
  /\ Push("descent", [Diverted(regs) EXCEPT !.text = Last(regs.loops)], 0)

\* `expression is defined`, the one place that swallows any error.
AskDefined ==
  /\ InStatement
  /\ Push("defined", regs, 0)
  /\ UNCHANGED irregular

----------------------------------------------------------------------------
(* Leaving.                                                                *)

Restored(a, r) == [f \in Fields |-> IF f \in Keeps(a.kind) THEN a.saved[f] ELSE r[f]]

\* Text that leaves a sink carries the regions around the place it goes to.
Moved(text, st) == MapText(LAMBDA cell : [cell EXCEPT !.lvl = @ + Levels(st)], text)

\* What closing the construct `a` writes into the sink of its surroundings.
Spliced(a, text, r, rest) ==
  IF a.kind \in Valued
  THEN IF rest # <<>> /\ rest[Len(rest)].kind \in {"bind", "defined"} THEN <<>>
       ELSE Emitted(Result(Moved(text, rest), r), r)
  ELSE IF a.kind \in {"cache", "include"} THEN Moved(text, rest) ELSE <<>>

Close ==
  /\ stack # <<>> /\ Top.kind # "bind"
  /\ LET rest == SubSeq(stack, 1, Len(stack) - 1)
         r == Restored(Top, regs)
         text == sinks[Len(sinks)]
         w == Written(Spliced(Top, text, r, rest), r)
     IN /\ stack' = rest
        /\ regs' = [r EXCEPT !.bol = w.bol]
        /\ sinks' = IF Top.kind \in Captures
                    THEN [SubSeq(sinks, 1, Len(sinks) - 1) EXCEPT ![r.sink] = w.sink]
                    ELSE sinks
        /\ kept' = IF Top.kind = "cache"
                   THEN [kept EXCEPT ![r.root] = [text |-> text, by |-> r.text]]
                   ELSE kept
  /\ UNCHANGED <<opened, written, irregular>>

\* A region whose entry is stored is not rendered: the entry is written.
CacheHit ==
  /\ InStatement /\ written < MaxWrites
  /\ kept[regs.root] # NoEntry
  /\ LET w == Written(Moved(kept[regs.root].text, stack), regs)
     IN /\ sinks' = [sinks EXCEPT ![regs.sink] = w.sink]
        /\ regs' = [regs EXCEPT !.bol = w.bol]
  /\ written' = written + 1
  /\ UNCHANGED <<stack, kept, opened, irregular>>

\* An error unwinds every construct inside the operand of `is defined`, each
\* putting its fields back, so that a field ends as the outermost of them found
\* it.  An error outside any such operand ends the render.
Fail ==
  \E probe \in DOMAIN stack :
    /\ stack[probe].kind = "defined"
    /\ \A i \in DOMAIN stack : i > probe => stack[i].kind # "defined"
    /\ LET keepers(f) == {i \in probe .. Len(stack) : f \in Keeps(stack[i].kind)}
           r == [f \in Fields |-> IF keepers(f) = {} THEN regs[f]
                                  ELSE stack[Min(keepers(f))].saved[f]]
       IN /\ regs' = r
          /\ sinks' = SubSeq(sinks, 1, r.sink)
    /\ stack' = SubSeq(stack, 1, probe - 1)
    /\ UNCHANGED <<kept, opened, written, irregular>>

Next ==
  \/ Text \/ OpenTab \/ OpenSandbox \/ OpenApply \/ OpenCache \/ OpenRecursive
  \/ BlockSite \/ Include \/ Embed
  \/ \E s \in Strategies : OpenEscape(s)
  \/ CallMacro \/ CallBlock \/ EnterMacro \/ CallCaller \/ CallParent
  \/ CallBlockFunction \/ CallBlockOfOther \/ Descend \/ AskDefined
  \/ Close \/ CacheHit \/ Fail

Spec == Init /\ [][Next]_vars

----------------------------------------------------------------------------
(* Properties.                                                             *)

\* The shape of the state; the active sink is always the innermost one, so no
\* text can reach a sink that was closed or one that lies outside a capture.
TypeOK ==
  /\ DOMAIN regs = Fields
  /\ regs.indent \in Nat /\ regs.bol \in BOOLEAN /\ regs.gate \in BOOLEAN
  /\ regs.escape \in Strategies /\ regs.root \in Templates /\ regs.text \in Templates
  /\ regs.block \in 0 .. Len(regs.chain)
  /\ regs.staged = 0
  /\ regs.caller \in 0 .. Len(stack)
  /\ regs.sink = Len(sinks)
  /\ irregular \in BOOLEAN

\* Every line of the output that is not blank starts with one indent for each
\* @tab region around it, whatever it was captured by on the way, and a blank
\* line with none; but for the regions IrregularTab singles out (write,
\* writeIndented, captureItems, execTabBlock).
LineStart(s, i) == i = 1 \/ s[i - 1].c = "nl"
IndentedBy(s, i) ==
  \E first \in i .. Len(s) :
    /\ s[first].c # "ind"
    /\ \A k \in i .. first - 1 : s[k].c = "ind"
    /\ first - i = IF s[first].c = "nl" THEN 0 ELSE s[first].lvl
LinesIndentedOnce ==
  ~irregular => \A i \in DOMAIN sinks[1] : LineStart(sinks[1], i) => IndentedBy(sinks[1], i)

\* A printed value is escaped exactly once, by the strategy in force where it was
\* printed, through however many captures, macros, blocks, includes and cache
\* entries it travels (emit, the Safe results, the verbatim splices).
EscapedExactlyOnce ==
  \A n \in DOMAIN sinks : \A i \in DOMAIN sinks[n] :
    LET cell == sinks[n][i]
    IN cell.c = "x" => cell.escaped = IF cell.under = Off THEN <<>> ELSE <<cell.under>>

\* caller() is there in the body of the macro an @call invokes, and nowhere else:
\* not in a macro that one calls, not in a macro called by its defaults, not in
\* the @call block, not in an include (invokeMacro, execCallBlock, callCaller).
Bodies == {"macro", "caller", "include", "embed"}
InnermostBody(st, b, n) ==
  st[b].kind \in Bodies /\ \A i \in b + 1 .. n : st[i].kind \notin Bodies
CallerIn(st, n, caller) ==
  /\ (\A b \in 1 .. n : st[b].kind \notin Bodies) => caller = 0
  /\ \A b \in 1 .. n : InnermostBody(st, b, n) =>
       caller = IF st[b].kind = "macro" /\ st[b].frame = b THEN b ELSE 0
CallerOnlyInItsMacro == CallerIn(stack, Len(stack), regs.caller)

\* The gate is on exactly while an @sandbox region is open, in whatever nested
\* interpreter (execSandbox, renderInclude, execEmbed).
SandboxWhileOpen ==
  regs.gate <=> \E i \in DOMAIN stack : stack[i].kind = "sandbox"

\* A construct that ends, and an error that is swallowed, leave every field but
\* the line-start flag as the construct found it.
RegistersReturn ==
  [][Len(stack') < Len(stack) =>
       \A f \in Fields \ {"bol"} : regs'[f] = stack[Len(stack') + 1].saved[f]]_vars

\* "The key is namespaced by the rendering template so identical keys in
\* different templates do not collide" (exec.go): an entry found by the text of
\* one template was stored by that template, or by another of its chain.
KeysDoNotCollide ==
  LET by == kept[regs.root].by
  IN InStatement /\ by # "none" =>
       by = regs.text \/ {by, regs.text} \subseteq {regs.chain[i] : i \in DOMAIN regs.chain}
=============================================================================
