-------------------------------- MODULE Text --------------------------------
(***************************************************************************)
(* The filters that shape text: wrap, truncate, center and wordcount       *)
(* (pkg/ext/shaping.go), split, join, replace, trim, the thousands         *)
(* separator and the indenters (core.go and stdlib.go).  A string is a     *)
(* sequence of runes: Space, Newline and any others.                       *)
(***************************************************************************)
EXTENDS Integers, Sequences, SequencesExt, FiniteSets

Space == 0
Newline == 1
White == {Space, Newline}

Repeated(s, n) == FlattenSeq([i \in 1..n |-> s])
Joined(parts, glue) == FoldLeft(LAMBDA out, i : out \o (IF i = 1 THEN <<>> ELSE glue) \o parts[i], <<>>, [i \in DOMAIN parts |-> i])

\* strings.Split and, with a positive limit, strings.SplitN, on a delimiter.
RECURSIVE SplitOn(_, _, _, _)
SplitOn(s, delim, limit, from) ==
  LET at == {i \in from..(Len(s) - Len(delim) + 1) : SubSeq(s, i, i + Len(delim) - 1) = delim}
      first == CHOOSE i \in at : \A j \in at : i <= j
  IN IF limit = 1 \/ at = {} THEN <<SubSeq(s, from, Len(s))>>
     ELSE <<SubSeq(s, from, first - 1)>> \o SplitOn(s, delim, limit - 1, first + Len(delim))

\* strings.Fields: the maximal runs without white space.
Fields(s) ==
  SelectSeq(SplitOn([i \in DOMAIN s |-> IF s[i] \in White THEN Space ELSE s[i]], <<Space>>, 0, 1), LAMBDA w : w # <<>>)

TrimLeft(s, mask) ==
  LET kept == {i \in DOMAIN s : s[i] \notin mask}
  IN IF kept = {} THEN <<>> ELSE SubSeq(s, CHOOSE i \in kept : \A j \in kept : i <= j, Len(s))
TrimRight(s, mask) == Reverse(TrimLeft(Reverse(s), mask))

filterTrim(s, side, mask) ==
  CASE side \in {"both", "b", ""} -> TrimLeft(TrimRight(s, mask), mask)
    [] side \in {"left", "l"} -> TrimLeft(s, mask)
    [] side \in {"right", "r"} -> TrimRight(s, mask)

(***************************************************************************)
(* Lines and width                                                         *)
(***************************************************************************)
(* Mutant: the space before a word is not counted. *)
wrapParagraph_NoGap(para, width) ==
  LET Pack(lines, w) == IF lines # <<>> /\ Len(Last(lines)) + Len(w) <= width
                        THEN [lines EXCEPT ![Len(lines)] = @ \o <<Space>> \o w]
                        ELSE Append(lines, w)
  IN IF Fields(para) = <<>> THEN <<<<>>>> ELSE FoldLeft(Pack, <<>>, Fields(para))

\* The words of a paragraph packed into lines; a blank one is an empty line.
wrapParagraph(para, width) ==
  LET Pack(lines, w) == IF lines # <<>> /\ Len(Last(lines)) + 1 + Len(w) <= width
                        THEN [lines EXCEPT ![Len(lines)] = @ \o <<Space>> \o w]
                        ELSE Append(lines, w)
  IN IF Fields(para) = <<>> THEN <<<<>>>> ELSE FoldLeft(Pack, <<>>, Fields(para))

filterWrap(s, width, brk) ==
  LET paras == SplitOn(s, <<Newline>>, 0, 1)
  IN Joined(FlattenSeq([p \in DOMAIN paras |-> wrapParagraph(paras[p], width)]), brk)

lastSpace(r) == LET at == {i \in DOMAIN r : r[i] = Space} IN IF at = {} THEN 0 ELSE CHOOSE i \in at : \A j \in at : j <= i

filterTruncate(s, length, omission, preserve) ==
  LET budget == IF length < 0 THEN 0 ELSE length
      head == SubSeq(s, 1, budget - Len(omission))
      back == IF preserve /\ lastSpace(head) # 0 THEN SubSeq(head, 1, lastSpace(head) - 1) ELSE head
  IN IF Len(s) <= budget THEN s
     ELSE IF Len(omission) >= budget THEN SubSeq(omission, 1, budget)
     ELSE TrimRight(back, {Space}) \o omission

padRunes(fill, n) == SubSeq(Repeated(fill, n), 1, n)

filterCenter(s, width, fill) ==
  LET by == IF fill = <<>> THEN <<Space>> ELSE fill
      left == (width - Len(s)) \div 2
  IN IF width <= Len(s) THEN s ELSE padRunes(by, left) \o s \o padRunes(by, width - Len(s) - left)

filterWordcount(s) == Cardinality({i \in DOMAIN s : s[i] \notin White /\ (i = 1 \/ s[i - 1] \in White)})

indentLines(s, prefix) ==
  LET lines == SplitOn(s, <<Newline>>, 0, 1)
  IN IF prefix = <<>> THEN s
     ELSE Joined([i \in DOMAIN lines |-> IF TrimLeft(lines[i], White) = <<>> THEN lines[i] ELSE prefix \o lines[i]], <<Newline>>)

countArg(n) == IF n < 0 THEN 0 ELSE n
filterIndent(s, n, unit) == indentLines(s, Repeated(unit, countArg(n)))
tabWithWidth(width, s, levels) == indentLines(s, Repeated(Repeated(<<Space>>, countArg(width)), countArg(levels)))
\* A number piped to tab, and tab() itself, are the indentation alone.
TabFnWith(width, levels) == Repeated(<<Space>>, countArg(levels) * countArg(width))

(***************************************************************************)
(* Splitting, joining, replacing                                           *)
(***************************************************************************)
chunkRunes(s, size) ==
  LET by == IF size <= 0 THEN 1 ELSE size
  IN [c \in 1..((Len(s) + by - 1) \div by) |-> SubSeq(s, (c - 1) * by + 1, IF c * by > Len(s) THEN Len(s) ELSE c * by)]

filterSplit(s, delim, limit) ==
  IF delim = <<>> THEN chunkRunes(s, limit) ELSE SplitOn(s, delim, IF limit > 0 THEN limit ELSE 0, 1)

\* join, with final in place of the last glue when it is given.
filterJoin(parts, glue, final) ==
  IF final # <<>> /\ Len(parts) >= 2 THEN Joined(Front(parts), glue) \o final[1] \o Last(parts) ELSE Joined(parts, glue)

RECURSIVE Replaced(_, _, _)
\* strings.Replacer: at each place the first pair, in the order they are given, whose
\* key is there; what it puts in is not read again.
Replaced(s, pairs, i) ==
  LET here == {p \in DOMAIN pairs : IsPrefix(pairs[p].from, SubSeq(s, i, Len(s)))}
      p == CHOOSE p \in here : \A q \in here : p <= q
  IN IF i > Len(s) THEN <<>>
     ELSE IF here = {} THEN <<s[i]>> \o Replaced(s, pairs, i + 1)
     ELSE pairs[p].to \o Replaced(s, pairs, i + Len(pairs[p].from))

filterReplace(s, pairs) == Replaced(s, pairs, 1)

groupThousands(digits, sep) ==
  LET n == Len(digits)
      first == IF n % 3 = 0 THEN 3 ELSE n % 3
  IN IF n <= 3 \/ sep = <<>> THEN digits
     ELSE Joined(<<SubSeq(digits, 1, first)>> \o chunkRunes(SubSeq(digits, first + 1, n), 3), sep)

(***************************************************************************)
(* What they promise                                                       *)
(***************************************************************************)
Wraps(s, w) ==
  LET lines == SplitOn(filterWrap(s, w, <<Newline>>), <<Newline>>, 0, 1)
      paras == SplitOn(s, <<Newline>>, 0, 1)
      Whole(p) == wrapParagraph(paras[p], w)
  IN /\ Fields(filterWrap(s, w, <<Newline>>)) = Fields(s)
     /\ \A i \in DOMAIN lines : Len(lines[i]) <= w \/ Len(Fields(lines[i])) = 1
     /\ \A p \in DOMAIN paras : \A i \in 1..(Len(Whole(p)) - 1) : Len(Whole(p)[i]) + 1 + Len(Fields(Whole(p)[i + 1])[1]) > w

Truncates(s, w, omission) ==
  \A preserve \in BOOLEAN :
    LET r == filterTruncate(s, w, omission, preserve)
        kept == SubSeq(r, 1, Len(r) - Len(omission))
    IN /\ Len(r) <= w
       /\ Len(s) <= w => r = s
       /\ Len(s) > w /\ Len(omission) < w =>
            /\ IsSuffix(omission, r) /\ IsPrefix(kept, s)
            /\ preserve => \/ s[Len(kept) + 1] = Space
                           \/ lastSpace(SubSeq(s, 1, w - Len(omission))) = 0

Centers(s, w, fill) ==
  LET r == filterCenter(s, w, fill)
      at == (Len(r) - Len(s)) \div 2
  IN /\ Len(r) = IF w > Len(s) THEN w ELSE Len(s)
     /\ SubSeq(r, at + 1, at + Len(s)) = s

Indents(s, w) ==
  LET lines == SplitOn(s, <<Newline>>, 0, 1)
      out == SplitOn(tabWithWidth(w, s, 1), <<Newline>>, 0, 1)
  IN /\ Len(out) = Len(lines)
     /\ \A i \in DOMAIN lines : IF Fields(lines[i]) = <<>> THEN out[i] = lines[i] ELSE out[i] = TabFnWith(w, 1) \o lines[i]
     /\ tabWithWidth(w, tabWithWidth(w, s, 1), 1) = tabWithWidth(w, s, 2)
     /\ filterIndent(s, w, <<Space>>) = tabWithWidth(w, s, 1)

Splits(s, w) ==
  LET d == <<Space>>
      parts == filterSplit(s, d, w)
  IN /\ filterJoin(parts, d, <<>>) = s /\ Len(parts) <= w
     /\ filterJoin(filterSplit(s, d, 0), d, <<d>>) = s
     /\ filterJoin(filterSplit(s, <<>>, w), <<>>, <<>>) = s
     /\ \A i \in DOMAIN filterSplit(s, <<>>, w) : Len(filterSplit(s, <<>>, w)[i]) = w \/ i = Len(filterSplit(s, <<>>, w))
     /\ filterWordcount(s) = Len(Fields(s))
     /\ filterTrim(s, "both", White) = filterTrim(filterTrim(s, "r", White), "l", White)
     /\ Fields(filterTrim(s, "", White)) = Fields(s)

\* A key that is the beginning of another one hides it when it is given first.
KeysOverlap(pairs) == \E p, q \in DOMAIN pairs : p # q /\ IsPrefix(pairs[p].from, pairs[q].from)

\* Shaped text keeps what it shapes and fits where it is put: wrap keeps every word and
\* breaks a line only when the next word has no room, truncate stays in its budget with
\* its mark and cuts no word it can spare, center and indent move the text and nothing
\* else, what split takes apart join puts together, and replace does the same whatever
\* order its pairs come in, while no key begins another.
ShapedTextFits(s, w, pairs) ==
  /\ w > 0 => Wraps(s, w) /\ Splits(s, w)
  /\ Truncates(s, w, <<8>>) /\ Truncates(s, w, <<8, 8, 8>>)
  /\ Centers(s, w, <<>>) /\ Centers(s, w, <<8, 9>>)
  /\ Indents(s, w)
  /\ ~KeysOverlap(pairs) => filterReplace(s, pairs) = filterReplace(s, Reverse(pairs))
  /\ LET g == groupThousands(s, <<8>>)
     IN SelectSeq(g, LAMBDA c : c # 8) = s /\ \A i \in DOMAIN g : g[i] = 8 <=> (Len(g) - i + 1) % 4 = 0
=============================================================================
