------------------------------- MODULE Lexer -------------------------------
(***************************************************************************)
(* internal/lex: one eager scan of a template into tokens, then the trim   *)
(* pass.  The cursor is in literal text until a door opens: "{{", "{#", an *)
(* @ keyword or an @} at a line start.  Inside code the bracket depth      *)
(* decides whether a closer counts.                                        *)
(*                                                                         *)
(* A byte is a member of a small alphabet: bytes the scanner does not tell *)
(* apart are one member, a keyword is a member that is a word byte, and an *)
(* operator of several bytes is one member (maximal munch).  A token       *)
(* carries the positions of the bytes it stands for, so that what became   *)
(* of each byte can be asked.                                              *)
(***************************************************************************)
EXTENDS Integers, Sequences, FiniteSets, SequencesExt

CONSTANT Inputs    \* the templates scanned: sequences of bytes

VARIABLES
  code,        \* l.in
  pos,         \* l.pos, the next byte
  mode,        \* which function holds the cursor: text, interp, head or done
  depth,       \* scanCode: open brackets
  buf,         \* scanText: positions written to the builder
  lineMark,    \* scanText: length of the builder at the start of the line
  atLineStart,
  out,         \* l.out
  consumed     \* history: the bytes of comments, fences and blanks in code

vars == <<code, pos, mode, depth, buf, lineMark, atLineStart, out, consumed>>

NL == "nl"
Esc == "bs"
CloseTrims == {"-", "~", "+"}
Quotes == {"sq", "dq", "raw"}
WordBytes == {"x", "1", "if", "else", "verbatim"}
Keywords == {<<"if">>, <<"else">>, <<"verbatim">>}
Opening == {"(", "[", "{", "?["}
Closing == {")", "]", "}"}

\* The kinds of the tokens that are not a byte's own; no byte is spelled like one
\* of them or like the mark for the end of the input.
Kinds == {"TEXT", "OPEN_INTERP", "CLOSE_INTERP", "STMT", "STMT_END", "BLOCK_OPEN", "BLOCK_CLOSE",
          "VERBATIM", "NAME", "ERROR", "EOF"}
Bytes == UNION {ToSet(c) : c \in Inputs}
ASSUME InputsAssumption == Inputs \subseteq Seq(Bytes) /\ Bytes \cap (Kinds \cup {"eof"}) = {}

At(i) == IF i \in 1..Len(code) THEN code[i] ELSE "eof"
RunEnd(i, S) == CHOOSE j \in i..(Len(code) + 1) : At(j) \notin S /\ \A k \in i..(j - 1) : At(k) \in S
LineEnd(i) == CHOOSE j \in i..(Len(code) + 1) : At(j) \in {NL, "eof"} /\ \A k \in i..(j - 1) : At(k) # NL
From(i, j) == [n \in 1..(j - i) |-> i + n - 1]
Word(i) == SubSeq(code, i, RunEnd(i, WordBytes) - 1)
AfterTrim(i) == IF At(i) \in CloseTrims THEN i + 1 ELSE i
TrimAt(i) == IF At(i) \in CloseTrims THEN At(i) ELSE ""
AfterNewline(i) == IF At(i) = NL THEN i + 1 ELSE i

(* Mutant: blanks go with a close whatever follows them. *)
AfterTrailing_Any(i) == RunEnd(i, {" "})

\* The rest of a line that is blank, its newline not included.
AfterTrailing(i) == LET j == RunEnd(i, {" "}) IN IF At(j) \in {NL, "eof"} THEN j ELSE i

(***************************************************************************)
(* Lookahead                                                               *)
(***************************************************************************)
PeekStatement(i) == At(i) = "@" /\ Word(i + 1) \in Keywords

PeekBlockClose(i) ==
  /\ At(i) = "@" /\ At(i + 1) = "}"
  /\ LET j == RunEnd(AfterTrim(i + 2), {" "}) IN At(j) \in {NL, "eof"} \/ Word(j) = <<"else">>

\* The { that the bytes from i up to j leave open; negative when a } is left over.
Open(i, j) == Cardinality({k \in i..(j - 1) : At(k) = "{"}) - Cardinality({k \in i..(j - 1) : At(k) = "}"})

\* The byte after the } that closes an interpolation inside a string.
Balance(i) == Min({j \in i..(Len(code) + 1) : At(j) = "eof" \/ Open(i, j) = -1})

\* The loop over a string opened by q: where it stops, at the quote or the end.
StringByte(i, q, interpolates) ==
  CASE At(i) = Esc /\ q # "raw" /\ At(i + 1) # "eof" -> i + 2
    [] At(i) = "#" /\ interpolates /\ At(i + 1) = "{" -> Balance(i + 2)
    [] OTHER -> i + 1
StringEnd(i, q, interpolates) ==
  LET next == [k \in 1..(Len(code) + 1) |->
                 IF At(k) \in {q, "eof"} THEN k ELSE StringByte(k, q, interpolates)]
      at[n \in 0..Len(code)] == IF n = 0 THEN i ELSE next[at[n - 1]]
  IN at[Len(code)]

\* scanString: the closing quote, Len + 1 if there is none.
StringClose(i, q) == StringEnd(i, q, q = "dq")

\* skipStringByte: the lookahead's shorter idea of a string, without interpolation.
SkipString(i, q) == LET j == StringEnd(i, q, FALSE) IN IF At(j) = q THEN j + 1 ELSE j

AssignFollows(i) == LET j == RunEnd(i, {" "}) IN At(j) = "="

\* Whether the { at i opens a mapping literal of the head and not the body.
MapAhead(i) ==
  LET marked[k, d \in Nat] ==
        CASE At(k) \in {"eof", NL} -> FALSE
          [] At(k) \in Opening -> marked[k + 1, d + 1]
          [] At(k) \in Closing -> IF d = 1 THEN AssignFollows(k + 1) ELSE marked[k + 1, d - 1]
          [] At(k) \in Quotes -> marked[SkipString(k + 1, At(k)), d]
          [] At(k) \in {":", "..."} /\ d = 1 -> TRUE
          [] OTHER -> marked[k + 1, d]
      j == RunEnd(i + 1, {" "})
  IN At(j) = "}" \/ marked[j, 1]

InterpCloses(i) == LET j == AfterTrim(i) IN At(j) = "}" /\ At(j + 1) = "}"
HeadEnds(i) == At(i) \in {"eof", NL} \/ (At(i) = "{" /\ ~MapAhead(i))

(***************************************************************************)
(* Tokens                                                                  *)
(***************************************************************************)
Tok(k, i, j) == [k |-> k, at |-> From(i, j), trim |-> ""]
Trimmed(k, i, j, t) == [k |-> k, at |-> From(i, j), trim |-> t]
TextTok(s) == IF s = <<>> THEN <<>> ELSE <<[k |-> "TEXT", at |-> s, trim |-> ""]>>
Flush == out \o TextTok(buf)

(* Mutant: the whole builder goes with the indentation. *)
FlushBeforeStatement_All == out

\* Keeps the lines before this one and drops this line's indentation.
FlushBeforeStatement == out \o TextTok(SubSeq(buf, 1, lineMark))

Goto(m, i, toks) ==
  /\ mode' = m /\ pos' = i /\ out' = toks
  /\ depth' = 0 /\ buf' = <<>> /\ lineMark' = 0
  /\ UNCHANGED code

Fault(toks) ==
  Goto("text", Len(code) + 1, Append(toks, Tok("ERROR", pos, pos))) /\ UNCHANGED <<atLineStart, consumed>>

Init ==
  /\ code \in Inputs
  /\ pos = 1 /\ mode = "text" /\ depth = 0
  /\ buf = <<>> /\ lineMark = 0
  /\ atLineStart = TRUE
  /\ out = <<>> /\ consumed = {}

(***************************************************************************)
(* scanText                                                                *)
(***************************************************************************)
InText == mode = "text" /\ pos <= Len(code)
Sigil(i) == At(i) = "{" /\ At(i + 1) \in {"{", "#"}
Structural(i) == atLineStart /\ (PeekStatement(i) \/ PeekBlockClose(i))
Escapes(i) == At(i) = Esc /\ At(i + 1) \in {"{", "}", Esc}

(* Mutant: a line start outlives the bytes of the line. *)
TextByte_Sticky ==
  /\ InText /\ ~Sigil(pos) /\ ~Structural(pos) /\ ~Escapes(pos)
  /\ pos' = pos + 1 /\ buf' = Append(buf, pos)
  /\ lineMark' = IF At(pos) = NL THEN Len(buf') ELSE lineMark
  /\ UNCHANGED <<code, mode, depth, atLineStart, out, consumed>>

TextByte ==
  /\ InText /\ ~Sigil(pos) /\ ~Structural(pos) /\ ~Escapes(pos)
  /\ pos' = pos + 1 /\ buf' = Append(buf, pos)
  /\ atLineStart' = (At(pos) = NL \/ (At(pos) = " " /\ atLineStart))
  /\ lineMark' = IF At(pos) = NL THEN Len(buf') ELSE lineMark
  /\ UNCHANGED <<code, mode, depth, out, consumed>>

\* The code leaves atLineStart alone here.
EscapedByte ==
  /\ InText /\ ~Structural(pos) /\ Escapes(pos)
  /\ pos' = pos + 2 /\ buf' = Append(buf, pos + 1)
  /\ UNCHANGED <<code, mode, depth, lineMark, atLineStart, out, consumed>>

OpenInterp ==
  /\ InText /\ Sigil(pos) /\ At(pos + 1) = "{"
  /\ LET t == IF At(pos + 2) \in {"-", "~"} THEN At(pos + 2) ELSE ""
         j == IF t = "" THEN pos + 2 ELSE pos + 3
     IN Goto("interp", j, Append(Flush, Trimmed("OPEN_INTERP", pos, j, t)))
  /\ UNCHANGED <<atLineStart, consumed>>

CommentCloses(i) == At(i) = "#" /\ At(i + 1) = "}"

Comment ==
  /\ InText /\ Sigil(pos) /\ At(pos + 1) = "#"
  /\ LET ends == {i \in (pos + 2)..Len(code) : CommentCloses(i)}
         j == Min(ends)
         keep == At(j + 2) = "+"
         q == IF keep THEN j + 3 ELSE AfterNewline(j + 2)
     IN IF ends = {} THEN Fault(Flush)
        ELSE /\ Goto("text", q, Flush)
             /\ consumed' = consumed \cup pos..(IF keep THEN j + 2 ELSE j + 1)
             /\ atLineStart' = (~keep /\ At(j + 2) = NL)

Statement ==
  /\ InText /\ ~Sigil(pos) /\ atLineStart /\ PeekStatement(pos) /\ Word(pos + 1) # <<"verbatim">>
  /\ LET j == RunEnd(pos + 1, WordBytes)
     IN Goto("head", j, Append(FlushBeforeStatement, Tok("STMT", pos, j)))
  /\ UNCHANGED <<atLineStart, consumed>>

\* scanBlockClose, and scanContinuation as far as the keyword of the next head.
BlockClose ==
  /\ InText /\ ~Sigil(pos) /\ atLineStart /\ PeekBlockClose(pos)
  /\ LET q == AfterTrim(pos + 2)
         j == RunEnd(q, {" "})
         w == RunEnd(j, WordBytes)
         closed == Append(FlushBeforeStatement, Trimmed("BLOCK_CLOSE", pos, q, TrimAt(pos + 2)))
     IN IF Word(j) = <<"else">>
        THEN Goto("head", w, Append(closed, Tok("STMT", j, w))) /\ UNCHANGED atLineStart
        ELSE /\ Goto("text", IF TrimAt(pos + 2) = "+" THEN q ELSE AfterNewline(AfterTrailing(q)), closed)
             /\ atLineStart' = TRUE
  /\ UNCHANGED consumed

\* The @} that balances the opening brace; Len + 1 if there is none.
VerbatimClose(i) ==
  Min({j \in i..(Len(code) + 1) : At(j) = "eof" \/ (Open(i, j) = 0 /\ At(j) = "@" /\ At(j + 1) = "}")})

\* The line at i without the blanks at its end.
RightTrimmed(i) ==
  LET e == CHOOSE j \in i..LineEnd(i) : /\ j = i \/ At(j - 1) # " "
                                       /\ \A k \in j..(LineEnd(i) - 1) : At(k) = " "
  IN SubSeq(code, i, e - 1)

\* The start of the first line that is the fence; Len + 1 if there is none.
FenceLine(i, fence) ==
  Min({j \in i..(Len(code) + 1) :
         j = Len(code) + 1 \/ ((j = i \/ At(j - 1) = NL) /\ RightTrimmed(j) = fence)})

VerbatimBraced(head, q) ==
  LET t == TrimAt(q + 1)
      o == AfterTrim(q + 1)
      b == IF t = "+" THEN o ELSE AfterNewline(o)
      e == VerbatimClose(b)
      c == AfterTrim(e + 2)
      opened == Append(head, Trimmed("BLOCK_OPEN", q, o, t))
  IN IF e > Len(code) THEN Fault(opened)
     ELSE /\ Goto("text", IF TrimAt(e + 2) = "+" THEN c ELSE AfterNewline(AfterTrailing(c)),
                  opened \o <<Tok("VERBATIM", b, e), Trimmed("BLOCK_CLOSE", e, c, TrimAt(e + 2))>>)
          /\ atLineStart' = TRUE
          /\ UNCHANGED consumed

VerbatimFenced(head, q) ==
  LET fence == RightTrimmed(q)
      b == AfterNewline(LineEnd(q))
      e == FenceLine(b, fence)
  IN IF fence = <<>> \/ e > Len(code) THEN Fault(head)
     ELSE /\ Goto("text", AfterNewline(LineEnd(e)),
                  Append(head, Tok("VERBATIM", b, e)))
          /\ atLineStart' = TRUE
          /\ consumed' = consumed \cup q..(b - 1) \cup e..(AfterNewline(LineEnd(e)) - 1)

Verbatim ==
  /\ InText /\ ~Sigil(pos) /\ atLineStart /\ PeekStatement(pos) /\ Word(pos + 1) = <<"verbatim">>
  /\ LET q == RunEnd(pos + 2, {" "})
         head == Append(FlushBeforeStatement, Tok("STMT", pos, pos + 2))
     IN IF At(q) = "{" THEN VerbatimBraced(head, q) ELSE VerbatimFenced(head, q)

(***************************************************************************)
(* scanCode and the ends of an interpolation and of a head                 *)
(***************************************************************************)
InCode == mode \in {"interp", "head"}
Stops == depth = 0 /\ (IF mode = "interp" THEN InterpCloses(pos) ELSE HeadEnds(pos))

CodeBlank ==
  /\ InCode /\ ~Stops /\ At(pos) \in {" ", NL, "#"}
  /\ pos' = IF At(pos) = "#" THEN LineEnd(pos) ELSE pos + 1
  /\ consumed' = consumed \cup pos..(pos' - 1)
  /\ UNCHANGED <<code, mode, depth, buf, lineMark, atLineStart, out>>

\* scanNumber: a fraction needs a digit, so 1...x is a number and a spread.
NumberEnd(i) ==
  LET j == RunEnd(i, {"1"}) IN IF At(j) = "." /\ At(j + 1) = "1" THEN RunEnd(j + 1, {"1"}) ELSE j

CodeToken ==
  /\ InCode /\ ~Stops /\ At(pos) \notin {" ", NL, "#", "@", Esc, "eof"}
  /\ LET c == At(pos)
         j == CASE c \in Quotes -> StringClose(pos + 1, c) + 1
                [] c = "1" -> NumberEnd(pos)
                [] c \in WordBytes \ {"1"} -> RunEnd(pos, WordBytes)
                [] OTHER -> pos + 1
     IN IF j > Len(code) + 1 THEN Fault(out)
        ELSE /\ pos' = j
             /\ out' = Append(out, Tok(IF c \in WordBytes THEN "NAME" ELSE c, pos, j))
             /\ depth' = CASE c \in Opening -> depth + 1
                           [] c \in Closing /\ depth > 0 -> depth - 1
                           [] OTHER -> depth
             /\ UNCHANGED <<code, mode, buf, lineMark, atLineStart, consumed>>

(* Mutant: the end of the input is no fault. *)
CodeFault_NoEnd == InCode /\ ~Stops /\ At(pos) \in {"@", Esc} /\ Fault(out)

\* A byte no token begins with, or the end of the input inside an interpolation.
CodeFault ==
  /\ InCode /\ ~Stops
  /\ At(pos) \in {"@", Esc} \/ (At(pos) = "eof" /\ mode = "interp")
  /\ Fault(out)

CloseInterp ==
  /\ mode = "interp" /\ Stops
  /\ LET j == AfterTrim(pos) + 2
     IN Goto("text", j, Append(out, Trimmed("CLOSE_INTERP", pos, j, TrimAt(pos))))
  /\ atLineStart' = FALSE
  /\ UNCHANGED consumed

OpenBody ==
  /\ mode = "head" /\ Stops /\ At(pos) = "{"
  /\ LET t == TrimAt(pos + 1)
         j == AfterTrim(pos + 1)
     IN /\ Goto("text", IF t = "+" THEN j ELSE AfterNewline(j), Append(out, Trimmed("BLOCK_OPEN", pos, j, t)))
        /\ atLineStart' = (t # "+" /\ At(j) = NL)
  /\ UNCHANGED consumed

EndStatement ==
  /\ mode = "head" /\ (At(pos) = "eof" \/ (depth = 0 /\ At(pos) = NL))
  /\ Goto("text", AfterNewline(pos), Append(out, Tok("STMT_END", pos, AfterNewline(pos))))
  /\ atLineStart' = (At(pos) = NL)
  /\ UNCHANGED consumed

(***************************************************************************)
(* applyTrims and the end of the scan                                      *)
(***************************************************************************)
(* Mutant: the two trims are one. *)
Strips_Same(t) == IF t \in {"-", "~"} THEN {" ", NL} ELSE {}

Strips(t) == CASE t = "-" -> {" ", NL} [] t = "~" -> {" "} [] OTHER -> {}

\* Where a text begins without the bytes S at its start, and ends without those at its end.
LeftKept(s, S) ==
  CHOOSE n \in 1..(Len(s) + 1) : (n = Len(s) + 1 \/ At(s[n]) \notin S) /\ \A m \in 1..(n - 1) : At(s[m]) \in S
RightKept(s, S) ==
  CHOOSE n \in 0..Len(s) : (n = 0 \/ At(s[n]) \notin S) /\ \A m \in (n + 1)..Len(s) : At(s[m]) \in S

ApplyTrims(toks) ==
  [i \in DOMAIN toks |->
     IF toks[i].k # "TEXT" THEN toks[i]
     ELSE LET l == IF i > 1 /\ toks[i - 1].k \in {"CLOSE_INTERP", "BLOCK_OPEN", "BLOCK_CLOSE"}
                   THEN Strips(toks[i - 1].trim) ELSE {}
              r == IF i < Len(toks) /\ toks[i + 1].k = "OPEN_INTERP" THEN Strips(toks[i + 1].trim) ELSE {}
          IN [toks[i] EXCEPT !.at = SubSeq(@, LeftKept(@, l), RightKept(@, r))]]

Finish ==
  /\ mode = "text" /\ pos > Len(code)
  /\ mode' = "done"
  /\ out' = ApplyTrims(Append(Flush, Tok("EOF", pos, pos)))
  /\ buf' = <<>> /\ lineMark' = 0
  /\ UNCHANGED <<code, pos, depth, atLineStart, consumed>>

Next ==
  \/ TextByte \/ EscapedByte \/ OpenInterp \/ Comment \/ Statement \/ BlockClose \/ Verbatim
  \/ CodeBlank \/ CodeToken \/ CodeFault \/ CloseInterp \/ OpenBody \/ EndStatement \/ Finish

\* A scan runs to its end: Lex is one synchronous call.
Spec == Init /\ [][Next]_vars /\ WF_vars(Next)

(***************************************************************************)
(* Properties                                                              *)
(***************************************************************************)
Before(s, t) == \A p \in ToSet(s), q \in ToSet(t) : p < q
Held == (UNION {ToSet(out[i].at) : i \in DOMAIN out}) \cup ToSet(buf)
Lost == 1..(pos - 1) \ (consumed \cup Held)

\* A byte that does not end the line start: a blank, or one of the two of an escape.
\* A line of escapes may so go on with a door, which takes them for its indentation.
InIndent(p) == At(p) = " " \/ Escapes(p) \/ Escapes(p - 1)
IndentBytes == {" ", "{", "}", Esc}

\* What may be in no token: the indentation of a door,
LastOf(t) == t.at[Len(t.at)]
Indentation(p, t) ==
  t.k \in {"STMT", "BLOCK_CLOSE"} /\ InIndent(p) /\ t.at[1] = RunEnd(p, IndentBytes)

\* the newline after a brace that opens a body, the blank rest of a line and its
\* newline after one that closes it,
AfterOpen(p, t) == t.k = "BLOCK_OPEN" /\ t.trim # "+" /\ p = LastOf(t) + 1 /\ At(p) = NL
AfterClose(p, t) ==
  /\ t.k = "BLOCK_CLOSE" /\ t.trim # "+" /\ LastOf(t) < p
  /\ LET j == RunEnd(LastOf(t) + 1, {" "}) IN p <= j /\ At(j) \in {NL, "eof"}

\* the blanks between @verbatim and its body,
BeforeBody(p, t) ==
  /\ t.k = "STMT" /\ At(LastOf(t)) = "verbatim" /\ LastOf(t) < p
  /\ p < RunEnd(LastOf(t) + 1, {" "})

\* what a marker of the token strips, with nothing left between,
TrimmedBy(p, t, kept) ==
  /\ (At(p) = " " /\ t.trim \in {"-", "~"}) \/ (At(p) = NL /\ t.trim = "-")
  /\ \/ /\ t.k \in {"CLOSE_INTERP", "BLOCK_OPEN", "BLOCK_CLOSE"} /\ LastOf(t) < p
        /\ (LastOf(t) + 1)..p \cap kept = {}
     \/ t.k = "OPEN_INTERP" /\ p < t.at[1] /\ p..(t.at[1] - 1) \cap kept = {}

\* the backslash of an escape, and the newline after a comment.
EscapeOf(p, kept) == Escapes(p) /\ p + 1 \in kept
AfterComment(p, gone) == At(p) = NL /\ p - 1 \in gone /\ CommentCloses(p - 2)

Beside(p, t) == Indentation(p, t) \/ AfterOpen(p, t) \/ AfterClose(p, t) \/ BeforeBody(p, t)
IsLayout(p) ==
  \/ EscapeOf(p, Held) \/ AfterComment(p, consumed)
  \/ \E i \in DOMAIN out : Beside(p, out[i]) \/ TrimmedBy(p, out[i], Held)

\* A template is its bytes: each is in one token, in the order of the template,
\* or in a comment or a blank of code; and a byte that goes missing is layout of
\* the door, the comment, the escape or the marker next to it.  No blank and no
\* newline of the text is eaten elsewhere, whatever doors, escapes, trims and
\* verbatim bodies meet on one line.
EveryByteOnce == mode = "done" =>
  /\ \A i \in DOMAIN out : \A n \in 2..Len(out[i].at) : out[i].at[n - 1] < out[i].at[n]
  /\ \A j \in DOMAIN out : \A i \in 1..(j - 1) : Before(out[i].at, out[j].at)
  /\ ~(\E i \in DOMAIN out : out[i].k = "ERROR") => \A p \in Lost : IsLayout(p)

\* "A statement is recognized only when a line's first non-whitespace token is @"
\* (keyword.go): no door of a statement or a close is found in the middle of a
\* line of text, but after escapes and right after the close of a body.
DoorsStartLines == mode = "done" =>
  \A i \in DOMAIN out :
    /\ out[i].k \in {"STMT", "BLOCK_CLOSE"}
    /\ ~(i > 1 /\ out[i - 1].k \in {"BLOCK_CLOSE", "VERBATIM"})
    => LET p == out[i].at[1]
       IN \A q \in 1..(p - 1) : (\A r \in q..(p - 1) : At(r) # NL) => InIndent(q)

\* Every door leaves the cursor further on: no template makes the scan loop.
ScanEnds == <>(mode = "done")
=============================================================================
